----------------------- MODULE EngineeringRuntime_proofs -----------------------
(* The scheduler is correct for every plan, any number of workers and any     *)
(* number of recoveries, since IInv of Scheduler is inductive: order, slots,  *)
(* locks.  From it follow that the locks guard the files behind them and that *)
(* a graph without failures is never stuck.  RInv is what the runtime may     *)
(* rely on when it decides, and what an interruption leaves behind; a FAILED  *)
(* run has its reason by an invariant of its own about the recoveries of one  *)
(* base id.  A step of the runtime that is not one of the scheduler only      *)
(* takes locks and permissions away, so that the graph part of the            *)
(* scheduler's invariant carries over.                                        *)
EXTENDS EngineeringRuntime, WorkspaceFiles, TLAPS, FiniteSetTheorems, SequenceTheorems,
        WellFoundedInduction

-----------------------------------------------------------------------------
(* The task graph: what a cascade and a recovery insertion change, and what  *)
(* they leave alone, for any set T of task ids.                              *)

GraphType(T, stat, needs) ==
    /\ stat \in [T -> Status]
    /\ needs \in [T -> SUBSET T]

\* What was started, or ended by itself, has its dependencies completed.
Started == {"ready", "running", "completed", "failed"}

OrderKept(T, stat, needs) ==
    \A x \in T : stat[x] \in Started => \A d \in needs[x] : stat[d] = "completed"

\* The dependencies of a task of the graph are in the graph.
GraphClosed(T, stat, needs) ==
    \A x \in T : stat[x] # "absent" => \A d \in needs[x] : stat[d] # "absent"

Dead == {"blocked", "failed", "cancelled"}

CauseKept(T, stat, needs) ==
    \A x \in T : stat[x] = "blocked" => \E d \in needs[x] : stat[d] \in Dead

-----------------------------------------------------------------------------
\* Reach is closed, is the least closed set, and holds nothing without a cause:
\* the walks of agents/domain.py visit exactly such a set.
LEMMA ReachIsLeast ==
  ASSUME NEW needs, NEW eligible, NEW seeds
  PROVE  LET R == Reach(needs, eligible, seeds)
         IN  /\ R \subseteq eligible
             /\ Closed(needs, eligible, seeds, R)
             /\ \A S \in SUBSET eligible : Closed(needs, eligible, seeds, S) => R \subseteq S
             /\ \A d \in R : d \in seeds \/ \E u \in R : u \in needs[d]
<1> DEFINE R == Reach(needs, eligible, seeds)
<1>1. R \subseteq eligible
  BY DEF Reach
<1>2. \A S \in SUBSET eligible : Closed(needs, eligible, seeds, S) => R \subseteq S
  BY DEF Reach
<1>3. Closed(needs, eligible, seeds, R)
  <2>1. seeds \cap eligible \subseteq R
    BY DEF Reach, Closed
  <2>2. ASSUME NEW u \in R, NEW d \in eligible, u \in needs[d]
        PROVE  d \in R
    <3> SUFFICES ASSUME NEW S \in SUBSET eligible, Closed(needs, eligible, seeds, S)
                 PROVE  d \in S
      BY DEF Reach
    <3>1. u \in S
      BY <1>2
    <3>2. QED
      BY <3>1, <2>2 DEF Closed
  <2>3. QED
    BY <2>1, <2>2 DEF Closed
<1>4. ASSUME NEW d \in R, d \notin seeds, \A u \in R : u \notin needs[d]
      PROVE  FALSE
  <2>1. Closed(needs, eligible, seeds, R \ {d})
    BY <1>3, <1>4 DEF Closed
  <2>2. R \ {d} \in SUBSET eligible
    BY <1>1
  <2>3. QED
    BY <2>1, <2>2, <1>2, <1>4
<1>5. QED
  BY <1>1, <1>2, <1>3, <1>4

\* A cascade from a task that is not completed reaches only tasks that are
\* created or blocked: never one that is ready or runs.
LEMMA CascadeSparesStarted ==
  ASSUME NEW T, NEW stat, NEW needs, GraphType(T, stat, needs),
         OrderKept(T, stat, needs),
         NEW t \in T, stat[t] # "completed", NEW s
  PROVE  \A d \in Cascade(stat, needs, t, s) :
            d \in T /\ stat[d] \in {"created", "blocked"}
<1> DEFINE eligible == {d \in TasksOf(stat) : stat[d] \notin TerminalStatus \cup {s}}
           S == {d \in eligible : stat[d] \in {"created", "blocked"}}
<1>1. DOMAIN stat = T /\ TasksOf(stat) \subseteq T
  BY DEF GraphType, TasksOf
<1>2. ASSUME NEW d \in eligible, NEW u \in T, u \in needs[d], stat[u] # "completed"
      PROVE  d \in S
  BY <1>1, <1>2 DEF GraphType, OrderKept, Started, TasksOf, Status, TaskStatus,
     LiveStatus, TerminalStatus
<1>3. Closed(needs, eligible, Dependents(stat, needs, t), S)
  <2>1. Dependents(stat, needs, t) \cap eligible \subseteq S
    BY <1>2 DEF Dependents
  <2>2. \A u \in S : u \in T /\ stat[u] # "completed"
    BY <1>1
  <2>3. QED
    BY <2>1, <2>2, <1>2 DEF Closed
<1>4. Cascade(stat, needs, t, s) \subseteq S
  <2>1. Cascade(stat, needs, t, s) = Reach(needs, eligible, Dependents(stat, needs, t))
    BY DEF Cascade
  <2>2. S \in SUBSET eligible
    OBVIOUS
  <2>3. Reach(needs, eligible, Dependents(stat, needs, t)) \subseteq S
    <3> HIDE DEF S, eligible
    <3>1. QED
      BY <2>2, <1>3, ReachIsLeast
  <2>4. QED
    BY <2>1, <2>3
<1>5. QED
  BY <1>1, <1>4

\* Every task a cascade reaches depends on the task it started from or on
\* another task it reached.
LEMMA CascadeHasCauses ==
  ASSUME NEW stat, NEW needs, NEW t, NEW s, NEW x \in Cascade(stat, needs, t, s)
  PROVE  \/ x \in Dependents(stat, needs, t)
         \/ \E u \in Cascade(stat, needs, t, s) : u \in needs[x]
<1> DEFINE eligible == {d \in TasksOf(stat) : stat[d] \notin TerminalStatus \cup {s}}
<1>1. Cascade(stat, needs, t, s) = Reach(needs, eligible, Dependents(stat, needs, t))
  BY DEF Cascade
<1> HIDE DEF eligible
<1>2. QED
  BY <1>1, ReachIsLeast

\* What update_task_status changes when a task that runs, is dispatched or
\* waits for the planner ends: the task itself, and only created or blocked
\* tasks, which become blocked or cancelled.
LEMMA UpdateChanges ==
  ASSUME NEW T, NEW stat, NEW needs, GraphType(T, stat, needs),
         OrderKept(T, stat, needs),
         NEW t \in T, stat[t] \in {"ready", "running", "failed"},
         NEW s \in TerminalStatus
  PROVE  LET st == UpdateStatus(stat, needs, t, s)
         IN  /\ st \in [T -> Status]
             /\ st[t] = s
             /\ \A x \in T \ {t} :
                  \/ st[x] = stat[x]
                  \/ stat[x] \in {"created", "blocked"} /\ st[x] \in {"blocked", "cancelled"}
<1> DEFINE set == [stat EXCEPT ![t] = s]
<1>1. set \in [T -> Status] /\ set[t] = s /\ \A x \in T \ {t} : set[x] = stat[x]
  BY DEF GraphType, Status, TaskStatus, TerminalStatus
<1>2. CASE s = "completed"
  <2>1. UpdateStatus(stat, needs, t, s) = set
    BY <1>2 DEF UpdateStatus
  <2>2. QED
    BY <1>1, <2>1
<1>3. ASSUME s # "completed", NEW c \in {"blocked", "cancelled"},
             UpdateStatus(stat, needs, t, s) = Propagate(set, needs, t, c)
      PROVE  LET st == UpdateStatus(stat, needs, t, s)
             IN  /\ st \in [T -> Status]
                 /\ st[t] = s
                 /\ \A x \in T \ {t} :
                      \/ st[x] = stat[x]
                      \/ stat[x] \in {"created", "blocked"} /\ st[x] \in {"blocked", "cancelled"}
  <2>1. OrderKept(T, set, needs)
    <3> SUFFICES ASSUME NEW x \in T, set[x] \in Started, NEW d \in needs[x]
                 PROVE  set[d] = "completed"
      BY DEF OrderKept
    <3>1. stat[x] \in Started
      BY <1>1 DEF Started
    <3>2. stat[d] = "completed" /\ d \in T
      BY <3>1 DEF OrderKept, GraphType
    <3>3. QED
      BY <3>2, <1>1
  <2>2. GraphType(T, set, needs)
    BY <1>1 DEF GraphType
  <2>3. \A d \in Cascade(set, needs, t, c) : d \in T /\ set[d] \in {"created", "blocked"}
    <3> HIDE DEF set
    <3>1. QED
      BY <2>1, <2>2, <1>1, <1>3, CascadeSparesStarted
  <2>4. t \notin Cascade(set, needs, t, c)
    BY <2>3, <1>1 DEF TerminalStatus
  <2>5. Propagate(set, needs, t, c) =
            [d \in T |-> IF d \in Cascade(set, needs, t, c) THEN c ELSE set[d]]
    BY <1>1 DEF Propagate
  <2>6. c \in Status
    BY DEF Status, TaskStatus, LiveStatus, TerminalStatus
  <2>7. QED
    <3> HIDE DEF set
    <3>1. QED
      BY <2>3, <2>4, <2>5, <2>6, <1>1, <1>3
<1>4. QED
  BY <1>2, <1>3 DEF UpdateStatus, TerminalStatus

\* The end of a task keeps the order of the graph: nothing is started whose
\* dependencies are not completed.
LEMMA UpdateKeepsOrder ==
  ASSUME NEW T, NEW stat, NEW needs, GraphType(T, stat, needs),
         OrderKept(T, stat, needs),
         NEW t \in T, stat[t] \in {"ready", "running", "failed"},
         NEW s \in TerminalStatus
  PROVE  OrderKept(T, UpdateStatus(stat, needs, t, s), needs)
<1> DEFINE st == UpdateStatus(stat, needs, t, s)
<1> HIDE DEF st
<1>1. /\ st \in [T -> Status]
      /\ st[t] = s
      /\ \A x \in T \ {t} :
           \/ st[x] = stat[x]
           \/ stat[x] \in {"created", "blocked"} /\ st[x] \in {"blocked", "cancelled"}
  BY UpdateChanges DEF st
<1> SUFFICES ASSUME NEW x \in T, st[x] \in Started, NEW d \in needs[x]
             PROVE  st[d] = "completed"
  BY DEF OrderKept, st
<1>2. stat[x] \in Started
  BY <1>1 DEF Started
<1>3. d \in T /\ stat[d] = "completed"
  BY <1>2 DEF OrderKept, GraphType
<1>4. QED
  BY <1>1, <1>3

\* After the end of a task, a blocked task still has a dependency that failed,
\* was cancelled or is blocked.
LEMMA UpdateKeepsCauses ==
  ASSUME NEW T, NEW stat, NEW needs, GraphType(T, stat, needs),
         OrderKept(T, stat, needs), CauseKept(T, stat, needs),
         NEW t \in T, stat[t] \in {"ready", "running", "failed"},
         NEW s \in TerminalStatus, stat[t] = "failed" => s # "completed"
  PROVE  CauseKept(T, UpdateStatus(stat, needs, t, s), needs)
<1> DEFINE st == UpdateStatus(stat, needs, t, s)
           set == [stat EXCEPT ![t] = s]
<1> HIDE DEF st
<1>1. /\ st \in [T -> Status]
      /\ st[t] = s
      /\ \A x \in T \ {t} :
           \/ st[x] = stat[x]
           \/ stat[x] \in {"created", "blocked"} /\ st[x] \in {"blocked", "cancelled"}
  BY UpdateChanges DEF st
<1> SUFFICES ASSUME NEW x \in T, st[x] = "blocked"
             PROVE  \E d \in needs[x] : st[d] \in Dead
  BY DEF CauseKept, st
<1>2. CASE stat[x] = "blocked"
  <2>1. PICK d \in needs[x] : stat[d] \in Dead
    BY <1>2 DEF CauseKept
  <2>2. d \in T
    BY DEF GraphType
  <2>3. QED
    BY <2>1, <2>2, <1>1 DEF Dead, TerminalStatus
<1>3. CASE stat[x] # "blocked"
  <2>1. x # t
    BY <1>1 DEF TerminalStatus
  <2>2. set \in [T -> Status] /\ set[x] = stat[x] /\ DOMAIN set = T
    BY <2>1 DEF GraphType, Status, TaskStatus, TerminalStatus
  <2>3. s = "failed" /\ st = Propagate(set, needs, t, "blocked")
    <3>1. CASE s = "completed"
      BY <3>1, <2>1, <2>2, <1>3 DEF st, UpdateStatus
    <3>2. CASE s = "cancelled"
      <4>1. st = Propagate(set, needs, t, "cancelled")
        BY <3>2 DEF st, UpdateStatus
      <4>2. QED
        BY <4>1, <2>2, <1>3 DEF Propagate
    <3>3. QED
      BY <3>1, <3>2 DEF st, UpdateStatus, TerminalStatus
  <2>4. st = [d \in T |-> IF d \in Cascade(set, needs, t, "blocked")
                          THEN "blocked" ELSE set[d]]
    BY <2>3, <2>2 DEF Propagate
  <2>5. x \in Cascade(set, needs, t, "blocked")
    BY <2>4, <2>2, <1>3
  <2>6. \/ x \in Dependents(set, needs, t)
        \/ \E u \in Cascade(set, needs, t, "blocked") : u \in needs[x]
    BY <2>5, CascadeHasCauses
  <2>7. CASE x \in Dependents(set, needs, t)
    BY <2>7, <2>3, <1>1 DEF Dependents, Dead
  <2>8. ASSUME NEW u \in Cascade(set, needs, t, "blocked"), u \in needs[x]
        PROVE  \E d \in needs[x] : st[d] \in Dead
    <3>1. u \in T
      BY <2>8 DEF GraphType
    <3>2. QED
      BY <3>1, <2>4, <2>8 DEF Dead
  <2>9. QED
    BY <2>6, <2>7, <2>8
<1>4. QED
  BY <1>2, <1>3

-----------------------------------------------------------------------------
\* get_ready_tasks keeps the order and the causes: it only turns created tasks
\* whose dependencies are completed into ready ones.
LEMMA MarkReadyKeeps ==
  ASSUME NEW T, NEW stat, NEW needs, GraphType(T, stat, needs),
         OrderKept(T, stat, needs), CauseKept(T, stat, needs)
  PROVE  LET st == MarkReady(stat, needs)
         IN  /\ st \in [T -> Status]
             /\ OrderKept(T, st, needs)
             /\ CauseKept(T, st, needs)
             /\ \A x \in T : st[x] = stat[x] \/ (stat[x] = "created" /\ st[x] = "ready")
<1> DEFINE st == MarkReady(stat, needs)
<1>1. st = [x \in T |-> IF Ready(stat, needs, x) THEN "ready" ELSE stat[x]]
  BY DEF MarkReady, GraphType
<1>2. \A x \in T : Ready(stat, needs, x) =>
         stat[x] = "created" /\ \A d \in needs[x] : stat[d] = "completed"
  BY DEF Ready
<1> HIDE DEF st
<1>3. st \in [T -> Status]
  BY <1>1 DEF GraphType, Status, TaskStatus, LiveStatus
<1>4. \A x \in T : st[x] = stat[x] \/ (stat[x] = "created" /\ st[x] = "ready")
  BY <1>1, <1>2
<1>5. OrderKept(T, st, needs)
  <2> SUFFICES ASSUME NEW x \in T, st[x] \in Started, NEW d \in needs[x]
               PROVE  st[d] = "completed"
    BY DEF OrderKept
  <2>1. d \in T /\ stat[d] = "completed"
    BY <1>1, <1>2 DEF OrderKept, GraphType
  <2>2. QED
    BY <2>1, <1>4
<1>6. CauseKept(T, st, needs)
  <2> SUFFICES ASSUME NEW x \in T, st[x] = "blocked"
               PROVE  \E d \in needs[x] : st[d] \in Dead
    BY DEF CauseKept
  <2>1. PICK d \in needs[x] : stat[d] \in Dead
    BY <1>4 DEF CauseKept
  <2>2. d \in T
    BY DEF GraphType
  <2>3. QED
    BY <2>1, <2>2, <1>4 DEF Dead
<1>7. QED
  BY <1>3, <1>4, <1>5, <1>6 DEF st

-----------------------------------------------------------------------------
\* What insert_recovery_sequence changes for a failed task f: the two new
\* tasks, created; the blocked and cancelled tasks it unblocks; and of the
\* dependencies, f becomes retest wherever it was one.
LEMMA InsertChanges ==
  ASSUME NEW T, NEW stat, NEW needs, GraphType(T, stat, needs),
         OrderKept(T, stat, needs), GraphClosed(T, stat, needs),
         NEW f \in T, NEW debug \in T, NEW retest \in T, debug # retest,
         stat[f] = "failed", stat[debug] = "absent", stat[retest] = "absent"
  PROVE  LET st == RecoveredStatus(stat, needs, f, debug, retest)
             dp == RewiredDeps(stat, needs, f, debug, retest)
         IN  /\ GraphType(T, st, dp)
             /\ st[debug] = "created" /\ st[retest] = "created"
             /\ dp[debug] = needs[f] /\ dp[retest] = {debug}
             /\ \A x \in T \ {debug, retest} :
                  /\ \/ st[x] = stat[x]
                     \/ (stat[x] \in {"blocked", "cancelled"} /\ st[x] = "created")
                  /\ \/ dp[x] = needs[x] /\ (stat[x] # "absent" => f \notin needs[x])
                     \/ /\ f \in needs[x] /\ stat[x] # "absent"
                        /\ dp[x] = (needs[x] \ {f}) \cup {retest}
<1> DEFINE rewired == Dependents(stat, needs, f) \ {debug, retest}
           inserted == [stat EXCEPT ![debug] = "created", ![retest] = "created"]
           dp == RewiredDeps(stat, needs, f, debug, retest)
           st == RecoveredStatus(stat, needs, f, debug, retest)
           eligible == {d \in TasksOf(inserted) : inserted[d] \in Resettable}
           S == {d \in eligible : stat[d] # "failed"}
<1>1. /\ inserted \in [T -> Status]
      /\ inserted[debug] = "created" /\ inserted[retest] = "created"
      /\ \A x \in T \ {debug, retest} : inserted[x] = stat[x]
  BY DEF GraphType, Status, TaskStatus, LiveStatus
<1>2. rewired = {x \in T \ {debug, retest} : stat[x] # "absent" /\ f \in needs[x]}
  BY DEF Dependents, TasksOf, GraphType
<1>3. dp = [x \in T |-> CASE x = debug -> needs[f]
                          [] x = retest -> {debug}
                          [] x \in rewired -> (needs[x] \ {f}) \cup {retest}
                          [] OTHER -> needs[x]]
  BY DEF RewiredDeps, GraphType
<1>4. debug \notin rewired /\ retest \notin rewired
  OBVIOUS
<1>5. dp[debug] = needs[f] /\ dp[retest] = {debug}
  BY <1>3, <1>4
<1>6. \A x \in T \ {debug, retest} :
        \/ dp[x] = needs[x] /\ (stat[x] # "absent" => f \notin needs[x])
        \/ /\ f \in needs[x] /\ stat[x] # "absent"
           /\ dp[x] = (needs[x] \ {f}) \cup {retest}
  <2>1. ASSUME NEW x \in T \ {debug, retest}, x \in rewired
        PROVE  dp[x] = (needs[x] \ {f}) \cup {retest}
    <3> HIDE DEF rewired
    <3>1. QED
      BY <1>3, <2>1
  <2>2. ASSUME NEW x \in T \ {debug, retest}, x \notin rewired
        PROVE  dp[x] = needs[x]
    <3> HIDE DEF rewired
    <3>1. QED
      BY <1>3, <2>2
  <2>3. QED
    BY <1>2, <2>1, <2>2
<1>7. dp \in [T -> SUBSET T]
  <2>1. \A x \in T : dp[x] \in SUBSET T
    BY <1>5, <1>6 DEF GraphType
  <2>2. QED
    BY <1>3, <2>1
<1>8. eligible = {x \in T \ {debug, retest} : stat[x] \in Resettable}
  BY <1>1 DEF TasksOf, Resettable
<1>9. S \in SUBSET eligible
  OBVIOUS
<1>10. Closed(dp, eligible, rewired, S)
  <2>1. \A x \in rewired : stat[x] # "failed"
    BY <1>2 DEF OrderKept, Started
  <2>2. ASSUME NEW u \in S, NEW d \in eligible, u \in dp[d]
        PROVE  d \in S
    <3>1. u \in T \ {debug, retest} /\ stat[u] \in {"blocked", "cancelled"}
      BY <1>8 DEF Resettable
    <3>2. u \in needs[d] /\ d \in T
      BY <2>2, <3>1, <1>6, <1>8
    <3>3. stat[d] # "failed"
      BY <3>1, <3>2 DEF OrderKept, Started
    <3>4. QED
      BY <3>3
  <2>3. QED
    BY <2>1, <2>2 DEF Closed
<1>11. Reach(dp, eligible, rewired) \subseteq S
  <2> HIDE DEF S, eligible, dp, rewired
  <2>1. QED
    BY <1>9, <1>10, ReachIsLeast
<1>12. st = [x \in T |-> IF x \in Reach(dp, eligible, rewired)
                         THEN "created" ELSE inserted[x]]
  BY <1>1 DEF RecoveredStatus, Unblock
<1>13. \A x \in Reach(dp, eligible, rewired) :
          x \in T \ {debug, retest} /\ stat[x] \in {"blocked", "cancelled"}
  BY <1>11, <1>8 DEF Resettable
<1>14. st \in [T -> Status]
  <2> HIDE DEF eligible, dp, rewired, inserted, st
  <2>1. "created" \in Status
    BY DEF Status, TaskStatus, LiveStatus
  <2>2. QED
    BY <1>12, <1>1, <2>1
<1>15. /\ st[debug] = "created" /\ st[retest] = "created"
       /\ \A x \in T \ {debug, retest} :
            \/ st[x] = stat[x]
            \/ (stat[x] \in {"blocked", "cancelled"} /\ st[x] = "created")
  <2> HIDE DEF eligible, dp, rewired, inserted, st
  <2>1. QED
    BY <1>12, <1>13, <1>1
<1>16. QED
  <2> HIDE DEF eligible, dp, rewired, inserted, st
  <2>1. QED
    BY <1>5, <1>6, <1>7, <1>14, <1>15 DEF GraphType, dp, st

\* A recovery keeps the order of the graph, although it rewires it: no task is
\* started before what it now depends on is completed.
LEMMA InsertKeepsOrder ==
  ASSUME NEW T, NEW stat, NEW needs, GraphType(T, stat, needs),
         OrderKept(T, stat, needs), GraphClosed(T, stat, needs),
         NEW f \in T, NEW debug \in T, NEW retest \in T, debug # retest,
         stat[f] = "failed", stat[debug] = "absent", stat[retest] = "absent"
  PROVE  OrderKept(T, RecoveredStatus(stat, needs, f, debug, retest),
                   RewiredDeps(stat, needs, f, debug, retest))
<1> DEFINE dp == RewiredDeps(stat, needs, f, debug, retest)
           st == RecoveredStatus(stat, needs, f, debug, retest)
<1> HIDE DEF dp, st
<1>1. /\ GraphType(T, st, dp)
      /\ st[debug] = "created" /\ st[retest] = "created"
      /\ dp[debug] = needs[f] /\ dp[retest] = {debug}
      /\ \A x \in T \ {debug, retest} :
           /\ \/ st[x] = stat[x]
              \/ (stat[x] \in {"blocked", "cancelled"} /\ st[x] = "created")
           /\ \/ dp[x] = needs[x] /\ (stat[x] # "absent" => f \notin needs[x])
              \/ /\ f \in needs[x] /\ stat[x] # "absent"
                 /\ dp[x] = (needs[x] \ {f}) \cup {retest}
  BY InsertChanges DEF dp, st
<1> SUFFICES ASSUME NEW x \in T, st[x] \in Started, NEW d \in dp[x]
             PROVE  st[d] = "completed"
  BY DEF OrderKept, dp, st
<1>2. x \in T \ {debug, retest} /\ st[x] = stat[x]
  BY <1>1 DEF Started
<1>3. \A e \in needs[x] : stat[e] = "completed"
  BY <1>2 DEF OrderKept
<1>4. dp[x] = needs[x]
  BY <1>1, <1>2, <1>3
<1>5. stat[d] = "completed" /\ d \in T \ {debug, retest}
  BY <1>2, <1>3, <1>4 DEF GraphType
<1>6. QED
  BY <1>5, <1>1

\* What a task depends on after a recovery is in the graph.
LEMMA InsertKeepsClosed ==
  ASSUME NEW T, NEW stat, NEW needs, GraphType(T, stat, needs),
         OrderKept(T, stat, needs), GraphClosed(T, stat, needs),
         NEW f \in T, NEW debug \in T, NEW retest \in T, debug # retest,
         stat[f] = "failed", stat[debug] = "absent", stat[retest] = "absent"
  PROVE  GraphClosed(T, RecoveredStatus(stat, needs, f, debug, retest),
                     RewiredDeps(stat, needs, f, debug, retest))
<1> DEFINE dp == RewiredDeps(stat, needs, f, debug, retest)
           st == RecoveredStatus(stat, needs, f, debug, retest)
<1> HIDE DEF dp, st
<1>1. /\ GraphType(T, st, dp)
      /\ st[debug] = "created" /\ st[retest] = "created"
      /\ dp[debug] = needs[f] /\ dp[retest] = {debug}
      /\ \A x \in T \ {debug, retest} :
           /\ \/ st[x] = stat[x]
              \/ (stat[x] \in {"blocked", "cancelled"} /\ st[x] = "created")
           /\ \/ dp[x] = needs[x] /\ (stat[x] # "absent" => f \notin needs[x])
              \/ /\ f \in needs[x] /\ stat[x] # "absent"
                 /\ dp[x] = (needs[x] \ {f}) \cup {retest}
  BY InsertChanges DEF dp, st
<1> SUFFICES ASSUME NEW x \in T, st[x] # "absent", NEW d \in dp[x]
             PROVE  st[d] # "absent"
  BY DEF GraphClosed, dp, st
<1>2. \A e \in T : stat[e] # "absent" => st[e] # "absent"
  BY <1>1
<1>3. CASE x = debug
  BY <1>1, <1>2, <1>3 DEF GraphClosed, GraphType
<1>4. CASE x = retest
  BY <1>1, <1>4
<1>5. CASE x \in T \ {debug, retest}
  <2>1. stat[x] # "absent"
    BY <1>1, <1>5
  <2>2. CASE d = retest
    BY <1>1, <2>2
  <2>3. CASE d # retest
    <3>1. d \in needs[x]
      BY <1>1, <1>5, <2>3
    <3>2. QED
      BY <1>2, <2>1, <3>1 DEF GraphClosed, GraphType
  <2>4. QED
    BY <2>2, <2>3
<1>6. QED
  BY <1>3, <1>4, <1>5

\* A recovery leaves no task blocked without a cause: whatever waited for the
\* failed task, at any distance, is unblocked.
LEMMA InsertKeepsCauses ==
  ASSUME NEW T, NEW stat, NEW needs, GraphType(T, stat, needs),
         OrderKept(T, stat, needs), GraphClosed(T, stat, needs), CauseKept(T, stat, needs),
         NEW f \in T, NEW debug \in T, NEW retest \in T, debug # retest,
         stat[f] = "failed", stat[debug] = "absent", stat[retest] = "absent"
  PROVE  CauseKept(T, RecoveredStatus(stat, needs, f, debug, retest),
                   RewiredDeps(stat, needs, f, debug, retest))
<1> DEFINE dp == RewiredDeps(stat, needs, f, debug, retest)
           st == RecoveredStatus(stat, needs, f, debug, retest)
<1> HIDE DEF dp, st
<1>1. /\ GraphType(T, st, dp)
      /\ st[debug] = "created" /\ st[retest] = "created"
      /\ dp[debug] = needs[f] /\ dp[retest] = {debug}
      /\ \A x \in T \ {debug, retest} :
           /\ \/ st[x] = stat[x]
              \/ (stat[x] \in {"blocked", "cancelled"} /\ st[x] = "created")
           /\ \/ dp[x] = needs[x] /\ (stat[x] # "absent" => f \notin needs[x])
              \/ /\ f \in needs[x] /\ stat[x] # "absent"
                 /\ dp[x] = (needs[x] \ {f}) \cup {retest}
  BY InsertChanges DEF dp, st
<1> DEFINE rewired == Dependents(stat, needs, f) \ {debug, retest}
           inserted == [stat EXCEPT ![debug] = "created", ![retest] = "created"]
           eligible == {d \in TasksOf(inserted) : inserted[d] \in Resettable}
           R == Reach(dp, eligible, rewired)
<1>2. /\ DOMAIN inserted = T
      /\ \A x \in T \ {debug, retest} : inserted[x] = stat[x]
  BY DEF GraphType
<1>3. st = [x \in T |-> IF x \in R THEN "created" ELSE inserted[x]]
  BY <1>2 DEF RecoveredStatus, Unblock, st, dp
<1> SUFFICES ASSUME NEW x \in T, st[x] = "blocked"
             PROVE  \E d \in dp[x] : st[d] \in Dead
  BY DEF CauseKept, dp, st
<1>4. x \in T \ {debug, retest} /\ stat[x] = "blocked"
  BY <1>1
<1>5. PICK d \in needs[x] : stat[d] \in Dead
  BY <1>4 DEF CauseKept
<1>6. d \in T \ {debug, retest}
  BY <1>5 DEF GraphType, Dead
<1>7. x \in eligible
  BY <1>2, <1>4 DEF TasksOf, Resettable
<1>8. x \notin R
  <2> HIDE DEF R
  <2>1. QED
    BY <1>3
<1>9. Closed(dp, eligible, rewired, R)
  <2> HIDE DEF eligible, rewired
  <2>1. QED
    BY ReachIsLeast
<1>10. x \notin rewired
  BY <1>7, <1>8, <1>9 DEF Closed
<1>11. f \notin needs[x]
  BY <1>10, <1>4 DEF Dependents, TasksOf, GraphType
<1>12. d \in dp[x]
  BY <1>11, <1>5, <1>4, <1>1
<1>13. d \notin R
  BY <1>7, <1>8, <1>9, <1>12 DEF Closed
<1>14. st[d] = stat[d]
  <2> HIDE DEF R, inserted
  <2>1. QED
    BY <1>13, <1>3, <1>2, <1>6
<1>15. QED
  BY <1>12, <1>14, <1>5

-----------------------------------------------------------------------------
(* The scheduler.                                                          *)

\* The ids handle_failure makes are distinct from each other and from the ids of
\* the plan, and each keeps the base id it was made from.
LEMMA TaskIdFacts ==
  /\ \A t \in TaskId : Base(t) \in BaseTask
  /\ \A b \in BaseTask, n \in 1..MaxAttempts :
        /\ Debug(b, n) \in TaskId /\ Retest(b, n) \in TaskId
        /\ Debug(b, n) # Retest(b, n)
        /\ Base(Debug(b, n)) = b /\ Base(Retest(b, n)) = b
  /\ \A b, c \in BaseTask : \A m, n \in 1..MaxAttempts :
        /\ (b # c \/ m # n) => Debug(b, n) # Debug(c, m) /\ Retest(b, n) # Retest(c, m)
        /\ Debug(b, n) # Retest(c, m)
  /\ \A b \in BaseTask : Planned(b) \in TaskId
BY DEF TaskId, Planned, Debug, Retest, Base

\* A plan with bounded recoveries has finitely many ids.
LEMMA TaskIdFinite == IsFiniteSet(TaskId)
<1>1. IsFiniteSet({"task", "recovery", "retest"}) /\ IsFiniteSet(0..MaxAttempts)
  <2>1. IsFiniteSet({}) /\ IsFiniteSet({"task"}) /\ IsFiniteSet({"task", "recovery"})
    BY FS_EmptySet, FS_Singleton, FS_AddElement
  <2>2. IsFiniteSet({"task", "recovery"} \cup {"retest"})
    BY <2>1, FS_AddElement
  <2>3. {"task", "recovery"} \cup {"retest"} = {"task", "recovery", "retest"}
    OBVIOUS
  <2>4. IsFiniteSet(0..MaxAttempts)
    BY FS_Interval, SchedulerAssumption
  <2>5. QED
    BY <2>2, <2>3, <2>4
<1>2. IsFiniteSet(BaseTask \X ({"task", "recovery", "retest"} \X (0..MaxAttempts)))
  BY <1>1, SchedulerAssumption, FS_Product
<1> DEFINE Pairs == BaseTask \X ({"task", "recovery", "retest"} \X (0..MaxAttempts))
           Triple(p) == <<p[1], p[2][1], p[2][2]>>
           Triples == {Triple(p) : p \in Pairs}
           f == [p \in Pairs |-> Triple(p)]
<1>3. IsFiniteSet(Triples)
  <2>1. f \in Surjection(Pairs, Triples)
    <3> HIDE DEF Triple, Pairs
    <3>1. QED
      BY DEF Surjection
  <2>2. QED
    BY <2>1, <1>2, FS_Surjection
<1>4. TaskId \subseteq Triples
  <2>1. \A b \in BaseTask, k \in {"task", "recovery", "retest"}, n \in 0..MaxAttempts :
           <<b, k, n>> \in Triples
    <3> SUFFICES ASSUME NEW b \in BaseTask, NEW k \in {"task", "recovery", "retest"},
                        NEW n \in 0..MaxAttempts
                 PROVE  <<b, k, n>> \in Triples
      OBVIOUS
    <3>1. <<b, <<k, n>>>> \in Pairs /\ Triple(<<b, <<k, n>>>>) = <<b, k, n>>
      OBVIOUS
    <3>2. QED
      BY <3>1
  <2>2. 0 \in 0..MaxAttempts /\ 1..MaxAttempts \subseteq 0..MaxAttempts
    BY SchedulerAssumption
  <2>3. QED
    <3> HIDE DEF Triples
    <3>1. QED
      BY <2>1, <2>2 DEF TaskId, Planned, Debug, Retest
<1>5. QED
  BY <1>3, <1>4, FS_Subset

\* The conjuncts of IInv that speak of the graph, in the terms of the lemmas
\* about TaskGraph.
LEMMA GraphView ==
  ASSUME TypeOK
  PROVE  /\ GraphType(TaskId, status, deps)
         /\ StartedAfterDeps <=> OrderKept(TaskId, status, deps)
         /\ BlockedHasCause <=> CauseKept(TaskId, status, deps)
         /\ DepsInGraph <=> GraphClosed(TaskId, status, deps)
BY DEF TypeOK, GraphType, StartedAfterDeps, OrderKept, Started, BlockedHasCause,
   CauseKept, Dead, DepsInGraph, GraphClosed

\* The graph of a plan, before anything ran, is in order.
LEMMA InitGraphInv == Init => GraphInv /\ TypeOK
<1> SUFFICES ASSUME Init PROVE GraphInv /\ TypeOK
  OBVIOUS
<1>1. \A t \in TaskId : /\ status[t] = (IF t[2] = "task" THEN "created" ELSE "absent")
                        /\ worker[t] = "none"
  BY DEF Init
<1>2. TypeOK
  <2>1. status \in [TaskId -> Status]
    BY DEF Init, Status, TaskStatus, LiveStatus
  <2>2. deps \in [TaskId -> SUBSET TaskId]
    <3>1. \A b \in BaseTask : {Planned(c) : c \in BaseDeps[b]} \subseteq TaskId
      BY SchedulerAssumption, TaskIdFacts
    <3>2. \A t \in TaskId : (IF t[2] = "task"
             THEN {Planned(b) : b \in BaseDeps[Base(t)]} ELSE {}) \in SUBSET TaskId
      BY <3>1, TaskIdFacts
    <3>3. QED
      BY <3>2 DEF Init
  <2>3. pos \in [TaskId -> Nat]
    <3>1. \A t \in TaskId : (IF t[2] = "task" THEN BasePos[Base(t)] ELSE 0) \in Nat
      BY SchedulerAssumption, TaskIdFacts
    <3>2. QED
      BY <3>1 DEF Init
  <2>4. QED
    BY <2>1, <2>2, <2>3 DEF Init, TypeOK, WorkerState
<1>3. StartedAfterDeps /\ BlockedHasCause /\ StatusMatchesWorker /\ PlannerMayInsert
  BY <1>1 DEF StartedAfterDeps, BlockedHasCause, StatusMatchesWorker, PlannerMayInsert
<1>4. DepsInGraph
  <2> SUFFICES ASSUME NEW t \in TaskId, status[t] # "absent", NEW d \in deps[t]
               PROVE  status[d] # "absent"
    BY DEF DepsInGraph
  <2>1. t[2] = "task"
    BY <1>1
  <2>2. PICK b \in BaseDeps[Base(t)] : d = Planned(b)
    BY <2>1 DEF Init
  <2>3. b \in BaseTask
    BY SchedulerAssumption, TaskIdFacts
  <2>4. d[2] = "task" /\ d \in TaskId
    BY <2>2, <2>3, TaskIdFacts DEF Planned
  <2>5. QED
    BY <2>4, <1>1
<1>5. FreshBeyondAttempts
  <2> SUFFICES ASSUME NEW b \in BaseTask, NEW n \in 1..MaxAttempts
               PROVE  status[Debug(b, n)] = "absent" /\ status[Retest(b, n)] = "absent"
    BY DEF FreshBeyondAttempts
  <2>1. Debug(b, n)[2] # "task" /\ Retest(b, n)[2] # "task"
    BY DEF Debug, Retest
  <2>2. QED
    BY <2>1, <1>1, TaskIdFacts
<1>6. ChainOrder
  <2>1. \A t \in TaskId : Unsettled(t) => t = Planned(Base(t))
    BY <1>1 DEF Unsettled, TaskId, Planned, Debug, Retest, Base
  <2>2. QED
    BY <2>1 DEF ChainOrder
<1>7. QED
  BY <1>2, <1>3, <1>4, <1>5, <1>6 DEF GraphInv

\* Two tasks of one base id are never live at once.
LEMMA ChainIsLine ==
  ASSUME TypeOK, GraphInv
  PROVE  /\ \A t \in Live : Unsettled(t) /\ t \in TaskId /\ \A d \in deps[t] : status[d] = "completed"
         /\ ChainIsSequential
<1>1. \A t \in Live : Unsettled(t) /\ t \in TaskId /\ \A d \in deps[t] : status[d] = "completed"
  BY DEF Live, GraphInv, StatusMatchesWorker, StartedAfterDeps, Unsettled
<1>2. QED
  BY <1>1 DEF ChainIsSequential, GraphInv, ChainOrder

-----------------------------------------------------------------------------
\* A task that runs, is dispatched or waits for the planner ends (or fails and
\* turns to the planner): the graph stays in order, and nothing else that is
\* ready is disturbed.
LEMMA EndStep ==
  ASSUME TypeOK, GraphInv,
         NEW t \in TaskId, NEW s \in TerminalStatus, NEW w \in {"none", "planning"},
         \/ status[t] \in {"ready", "running"}
         \/ worker[t] = "planning" /\ s = "cancelled",
         w = "planning" => s = "failed" /\ attempts[Base(t)] < MaxAttempts,
         status' = UpdateStatus(status, deps, t, s),
         worker' = [worker EXCEPT ![t] = w],
         UNCHANGED <<deps, attempts>>
  PROVE  /\ status' \in [TaskId -> Status]
         /\ worker' \in [TaskId -> WorkerState]
         /\ GraphInv'
         /\ \A x \in TaskId \ {t} : status[x] \in Started => status'[x] = status[x]
         /\ status'[t] = s
<1>1. status[t] \in {"ready", "running", "failed"}
  BY DEF GraphInv, StatusMatchesWorker
<1>2. /\ GraphType(TaskId, status, deps) /\ OrderKept(TaskId, status, deps)
      /\ CauseKept(TaskId, status, deps)
  BY GraphView DEF GraphInv
<1>3. /\ status' \in [TaskId -> Status]
      /\ status'[t] = s
      /\ \A x \in TaskId \ {t} :
           \/ status'[x] = status[x]
           \/ (status[x] \in {"created", "blocked"} /\ status'[x] \in {"blocked", "cancelled"})
  BY <1>1, <1>2, UpdateChanges
<1>4. status[t] = "failed" => s # "completed"
  BY DEF GraphInv, StatusMatchesWorker
<1>5. worker' \in [TaskId -> WorkerState] /\ worker'[t] = w
      /\ \A x \in TaskId \ {t} : worker'[x] = worker[x]
  BY DEF TypeOK, WorkerState
<1>6. OrderKept(TaskId, status', deps) /\ CauseKept(TaskId, status', deps)
  <2>1. OrderKept(TaskId, status', deps)
    BY <1>1, <1>2, UpdateKeepsOrder
  <2>2. CauseKept(TaskId, status', deps)
    BY <1>1, <1>2, <1>4, UpdateKeepsCauses
  <2>3. QED
    BY <2>1, <2>2
<1>7. StartedAfterDeps' /\ BlockedHasCause'
  BY <1>6 DEF OrderKept, CauseKept, Started, Dead, StartedAfterDeps, BlockedHasCause
<1>8. StatusMatchesWorker'
  <2> SUFFICES ASSUME NEW x \in TaskId
               PROVE  /\ status'[x] = "running" <=> worker'[x] \in {"spawned", "running", "dead"}
                      /\ worker'[x] = "planning" => status'[x] = "failed"
    BY DEF StatusMatchesWorker
  <2>1. /\ status[x] = "running" <=> worker[x] \in {"spawned", "running", "dead"}
        /\ worker[x] = "planning" => status[x] = "failed"
    BY DEF GraphInv, StatusMatchesWorker
  <2>2. CASE x = t
    BY <1>3, <1>5, <2>2 DEF TerminalStatus
  <2>3. CASE x # t
    BY <1>3, <1>5, <2>1, <2>3
  <2>4. QED
    BY <2>2, <2>3
<1>9. DepsInGraph'
  <2>1. \A x \in TaskId : status'[x] = "absent" <=> status[x] = "absent"
    BY <1>1, <1>3 DEF TerminalStatus
  <2>2. \A x \in TaskId : deps[x] \subseteq TaskId
    BY DEF TypeOK
  <2>3. QED
    BY <2>1, <2>2 DEF GraphInv, DepsInGraph
<1>10. FreshBeyondAttempts'
  <2> SUFFICES ASSUME NEW b \in BaseTask, NEW n \in 1..MaxAttempts, n > attempts[b]
               PROVE  status'[Debug(b, n)] = "absent" /\ status'[Retest(b, n)] = "absent"
    BY DEF FreshBeyondAttempts
  <2>1. status[Debug(b, n)] = "absent" /\ status[Retest(b, n)] = "absent"
    BY DEF GraphInv, FreshBeyondAttempts
  <2>2. QED
    BY <2>1, <1>1, <1>3, TaskIdFacts
<1>11. PlannerMayInsert'
  BY <1>5 DEF GraphInv, PlannerMayInsert
<1>12. ChainOrder'
  <2> SUFFICES ASSUME NEW x \in TaskId, NEW y \in TaskId, x # y, Base(x) = Base(y),
                      Unsettled(x)', Unsettled(y)'
               PROVE  /\ \E d \in deps[x] \cup deps[y] :
                            Base(d) = Base(x) /\ status'[d] # "completed"
                      /\ \A d \in deps[x] \cap deps[y] :
                            Base(d) = Base(x) => status'[d] = "completed"
    BY DEF ChainOrder
  <2>1. ASSUME NEW z \in TaskId, Unsettled(z)'
        PROVE  Unsettled(z)
    <3>1. CASE z = t
      BY <1>1, <3>1 DEF Unsettled, GraphInv, StatusMatchesWorker
    <3>2. CASE z # t
      BY <1>3, <1>5, <2>1, <3>2 DEF Unsettled
    <3>3. QED
      BY <3>1, <3>2
  <2>2. \A d \in TaskId : status[d] = "completed" => status'[d] = "completed"
    BY <1>1, <1>3
  <2>3. /\ \E d \in deps[x] \cup deps[y] : Base(d) = Base(x) /\ status[d] # "completed"
        /\ \A d \in deps[x] \cap deps[y] : Base(d) = Base(x) => status[d] = "completed"
    BY <2>1 DEF GraphInv, ChainOrder
  <2>4. deps[x] \subseteq TaskId /\ deps[y] \subseteq TaskId
    BY DEF TypeOK
  <2>5. \A d \in deps[x] \cap deps[y] : Base(d) = Base(x) => status'[d] = "completed"
    BY <2>2, <2>3, <2>4
  <2>6. PICK d \in deps[x] \cup deps[y] : Base(d) = Base(x) /\ status[d] # "completed"
    BY <2>3
  <2>7. CASE status'[d] # "completed"
    BY <2>5, <2>6, <2>7
  <2>8. CASE status'[d] = "completed"
    <3>1. d = t /\ s = "completed"
      BY <1>3, <2>4, <2>6, <2>8
    <3>2. x # t /\ y # t
      BY <3>1, <1>3, <1>5 DEF Unsettled
    <3>3. Unsettled(t) /\ \A e \in deps[t] : status[e] = "completed"
      BY <1>1, <1>2, <1>4, <3>1 DEF Unsettled, OrderKept, Started
    <3>4. ASSUME NEW v \in TaskId, v # t, Unsettled(v), Base(v) = Base(t)
          PROVE  \E e \in deps[v] : Base(e) = Base(t) /\ status[e] # "completed"
      BY <3>3, <3>4 DEF GraphInv, ChainOrder
    <3>5. t \notin deps[x] \/ t \notin deps[y]
      BY <2>3, <2>6, <3>1
    <3>6. PICK v \in {x, y} : t \notin deps[v]
      BY <3>5
    <3>7. PICK e \in deps[v] : Base(e) = Base(t) /\ status[e] # "completed"
      BY <3>4, <3>2, <2>1, <2>6, <3>1
    <3>8. e # t /\ status'[e] # "completed"
      BY <3>6, <3>7, <1>3, <2>4
    <3>9. QED
      BY <2>5, <3>1, <2>6, <3>7, <3>8
  <2>9. QED
    BY <2>7, <2>8
<1>13. \A x \in TaskId \ {t} : status[x] \in Started => status'[x] = status[x]
  BY <1>3 DEF Started
<1>14. QED
  BY <1>3, <1>5, <1>7, <1>8, <1>9, <1>10, <1>11, <1>12, <1>13 DEF GraphInv

\* The planner's answer arrives and its recovery is inserted, whatever happened
\* to the graph since the task failed.
LEMMA InsertStep ==
  ASSUME TypeOK, GraphInv, NEW t \in TaskId, RecoveryInserted(t)
  PROVE  /\ status' \in [TaskId -> Status] /\ deps' \in [TaskId -> SUBSET TaskId]
         /\ attempts' \in [BaseTask -> Nat] /\ worker' \in [TaskId -> WorkerState]
         /\ GraphInv'
         /\ \A x \in TaskId : status[x] \in Started => status'[x] = status[x]
         /\ \A x \in TaskId : status'[x] = "running" => status[x] = "running"
         /\ attempts[Base(t)] < MaxAttempts
<1> DEFINE b == Base(t)
           n == attempts[b] + 1
           debug == Debug(b, n)
           retest == Retest(b, n)
<1>1. worker[t] = "planning" /\ status[t] = "failed" /\ attempts[b] < MaxAttempts
  BY DEF RecoveryInserted, Runs, GraphInv, StatusMatchesWorker, PlannerMayInsert
<1>2. b \in BaseTask /\ attempts[b] \in Nat /\ n \in 1..MaxAttempts
  BY <1>1, TaskIdFacts, SchedulerAssumption DEF TypeOK
<1>3. /\ debug \in TaskId /\ retest \in TaskId /\ debug # retest
      /\ Base(debug) = b /\ Base(retest) = b
  BY <1>2, TaskIdFacts
<1>4. status[debug] = "absent" /\ status[retest] = "absent"
  BY <1>2 DEF GraphInv, FreshBeyondAttempts
<1>5. /\ status' = RecoveredStatus(status, deps, t, debug, retest)
      /\ deps' = RewiredDeps(status, deps, t, debug, retest)
      /\ attempts' = [attempts EXCEPT ![b] = n]
      /\ worker' = [worker EXCEPT ![t] = "none"]
  BY <1>2 DEF RecoveryInserted, RecoveryNumber, Leave
<1> HIDE DEF b, n, debug, retest
<1>6. /\ GraphType(TaskId, status, deps) /\ OrderKept(TaskId, status, deps)
      /\ CauseKept(TaskId, status, deps) /\ GraphClosed(TaskId, status, deps)
  BY GraphView DEF GraphInv
<1>7. /\ GraphType(TaskId, status', deps')
      /\ status'[debug] = "created" /\ status'[retest] = "created"
      /\ deps'[debug] = deps[t] /\ deps'[retest] = {debug}
      /\ \A x \in TaskId \ {debug, retest} :
           /\ \/ status'[x] = status[x]
              \/ (status[x] \in {"blocked", "cancelled"} /\ status'[x] = "created")
           /\ \/ deps'[x] = deps[x] /\ (status[x] # "absent" => t \notin deps[x])
              \/ /\ t \in deps[x] /\ status[x] # "absent"
                 /\ deps'[x] = (deps[x] \ {t}) \cup {retest}
  BY <1>1, <1>3, <1>4, <1>5, <1>6, InsertChanges
<1>8. /\ OrderKept(TaskId, status', deps') /\ CauseKept(TaskId, status', deps')
      /\ GraphClosed(TaskId, status', deps')
  <2>1. OrderKept(TaskId, status', deps')
    BY <1>1, <1>3, <1>4, <1>5, <1>6, InsertKeepsOrder
  <2>2. CauseKept(TaskId, status', deps')
    BY <1>1, <1>3, <1>4, <1>5, <1>6, InsertKeepsCauses
  <2>3. GraphClosed(TaskId, status', deps')
    BY <1>1, <1>3, <1>4, <1>5, <1>6, InsertKeepsClosed
  <2>4. QED
    BY <2>1, <2>2, <2>3
<1>9. StartedAfterDeps' /\ BlockedHasCause' /\ DepsInGraph'
  BY <1>8 DEF OrderKept, CauseKept, GraphClosed, Started, Dead, StartedAfterDeps,
     BlockedHasCause, DepsInGraph
<1>10. /\ attempts' \in [BaseTask -> Nat] /\ attempts'[b] = n
       /\ \A c \in BaseTask \ {b} : attempts'[c] = attempts[c]
  BY <1>2, <1>5 DEF TypeOK
<1>11. worker' \in [TaskId -> WorkerState] /\ worker'[t] = "none"
       /\ \A x \in TaskId \ {t} : worker'[x] = worker[x]
  BY <1>5 DEF TypeOK, WorkerState
<1>12. \A x \in TaskId : status[x] \in Started =>
          status'[x] = status[x] /\ x \notin {debug, retest}
  BY <1>7, <1>4 DEF Started
<1>13. StatusMatchesWorker'
  <2> SUFFICES ASSUME NEW x \in TaskId
               PROVE  /\ status'[x] = "running" <=> worker'[x] \in {"spawned", "running", "dead"}
                      /\ worker'[x] = "planning" => status'[x] = "failed"
    BY DEF StatusMatchesWorker
  <2>1. /\ status[x] = "running" <=> worker[x] \in {"spawned", "running", "dead"}
        /\ worker[x] = "planning" => status[x] = "failed"
    BY DEF GraphInv, StatusMatchesWorker
  <2>2. status'[x] = "running" <=> status[x] = "running"
    BY <1>7, <1>4, <1>12 DEF Started
  <2>3. status[x] = "failed" => status'[x] = "failed"
    BY <1>12 DEF Started
  <2>4. QED
    BY <1>1, <1>11, <2>1, <2>2, <2>3
<1>14. FreshBeyondAttempts'
  <2> SUFFICES ASSUME NEW c \in BaseTask, NEW m \in 1..MaxAttempts, m > attempts'[c]
               PROVE  status'[Debug(c, m)] = "absent" /\ status'[Retest(c, m)] = "absent"
    BY DEF FreshBeyondAttempts
  <2>1. c # b \/ m # n
    BY <1>10, <1>2
  <2>2. m > attempts[c]
    BY <1>10, <1>2 DEF n
  <2>3. status[Debug(c, m)] = "absent" /\ status[Retest(c, m)] = "absent"
    BY <2>2 DEF GraphInv, FreshBeyondAttempts
  <2>4. /\ Debug(c, m) \in TaskId \ {debug, retest}
        /\ Retest(c, m) \in TaskId \ {debug, retest}
    BY <2>1, <1>2, TaskIdFacts DEF debug, retest
  <2>5. QED
    BY <2>3, <2>4, <1>7
<1>15. PlannerMayInsert'
  <2> SUFFICES ASSUME NEW x \in TaskId, worker'[x] = "planning"
               PROVE  attempts'[Base(x)] < MaxAttempts
    BY DEF PlannerMayInsert
  <2>1. x # t /\ worker[x] = "planning"
    BY <1>11
  <2>2. Base(x) # b
    BY <2>1, <1>1, ChainIsLine DEF Live, ChainIsSequential, b
  <2>3. QED
    BY <2>1, <2>2, <1>10, TaskIdFacts DEF GraphInv, PlannerMayInsert
<1>16. \A x \in TaskId : status'[x] = "running" => status[x] = "running"
  BY <1>7
<1>17. ChainOrder'
  <2> DEFINE Line(x, y) ==
               /\ \E d \in deps'[x] \cup deps'[y] : Base(d) = Base(x) /\ status'[d] # "completed"
               /\ \A d \in deps'[x] \cap deps'[y] : Base(d) = Base(x) => status'[d] = "completed"
             Old(x) == x \in TaskId \ {debug, retest} /\ Unsettled(x)'
  <2>1. \A x \in TaskId : Unsettled(x)' => x # t
    BY <1>1, <1>11, <1>12 DEF Unsettled, Started
  <2>2. ASSUME NEW x, Old(x)
        PROVE  Unsettled(x) /\ x \in TaskId /\ x # t /\ status[x] # "absent"
    BY <2>1, <2>2, <1>7, <1>11 DEF Unsettled, GraphInv, StatusMatchesWorker
  <2>3. \A d \in TaskId : status[d] # "completed" => status'[d] # "completed"
    BY <1>7
  <2>4. \A d \in TaskId : status[d] = "completed" => status'[d] = "completed"
    BY <1>12 DEF Started
  <2>5. \A x \in TaskId : status[x] # "absent" =>
           /\ deps[x] \subseteq TaskId /\ debug \notin deps[x] /\ retest \notin deps[x]
    BY <1>4 DEF GraphInv, DepsInGraph, TypeOK
  <2>6. ASSUME NEW x, Old(x), NEW d \in deps[x], Base(d) = Base(x), status[d] # "completed"
        PROVE  \E e \in deps'[x] : Base(e) = Base(x) /\ status'[e] # "completed"
    <3>1. CASE d = t
      BY <2>6, <3>1, <1>7, <2>2, <1>3 DEF b
    <3>2. CASE d # t
      BY <2>6, <3>2, <1>7, <2>2, <2>3, <2>5
    <3>3. QED
      BY <3>1, <3>2
  <2>7. ASSUME NEW x, NEW y, Old(x), Old(y), x # y, Base(x) = Base(y)
        PROVE  Line(x, y)
    <3>1. /\ \E d \in deps[x] \cup deps[y] : Base(d) = Base(x) /\ status[d] # "completed"
          /\ \A d \in deps[x] \cap deps[y] : Base(d) = Base(x) => status[d] = "completed"
      BY <2>2, <2>7 DEF GraphInv, ChainOrder
    <3>2. \E d \in deps'[x] \cup deps'[y] : Base(d) = Base(x) /\ status'[d] # "completed"
      BY <3>1, <2>6, <2>7
    <3>3. ASSUME NEW d \in deps'[x] \cap deps'[y], Base(d) = Base(x)
          PROVE  status'[d] = "completed"
      <4>1. CASE d = retest
        <5>1. t \in deps[x] /\ t \in deps[y]
          BY <4>1, <3>3, <2>7, <2>2, <2>5, <1>7
        <5>2. Base(t) = Base(x)
          BY <4>1, <3>3, <1>3 DEF b
        <5>3. QED
          BY <5>1, <5>2, <3>1, <1>1
      <4>2. CASE d # retest
        <5>1. d \in deps[x] /\ d \in deps[y] /\ d \in TaskId
          BY <4>2, <3>3, <2>7, <2>2, <2>5, <1>7
        <5>2. QED
          BY <5>1, <3>1, <3>3, <2>4
      <4>3. QED
        BY <4>1, <4>2
    <3>4. QED
      BY <3>2, <3>3
  <2>8. \A d \in deps[t] : d \in TaskId /\ status[d] = "completed" /\ status'[d] = "completed"
    BY <1>1, <2>4 DEF GraphInv, StartedAfterDeps, TypeOK
  <2>9. ASSUME NEW y, Old(y), Base(y) = b
        PROVE  Line(debug, y)
    <3>1. \E d \in deps[t] \cup deps[y] : Base(d) = Base(t) /\ status[d] # "completed"
      <4>1. Unsettled(t) /\ Unsettled(y) /\ y \in TaskId /\ y # t
        BY <2>2, <2>9, <1>1 DEF Unsettled
      <4>2. QED
        BY <4>1, <2>9 DEF GraphInv, ChainOrder, b
    <3>2. \E d \in deps'[y] : Base(d) = Base(y) /\ status'[d] # "completed"
      BY <3>1, <2>8, <2>6, <2>9 DEF b
    <3>3. QED
      BY <3>2, <2>8, <1>7, <1>3, <2>9
  <2>10. ASSUME NEW y, Old(y), Base(y) = b
         PROVE  Line(retest, y)
    <3>1. debug \notin deps'[y]
      BY <1>7, <1>3, <2>2, <2>5, <2>10
    <3>2. QED
      BY <3>1, <1>7, <1>3, <2>10
  <2>11. Line(debug, retest)
    <3>1. debug \notin deps[t]
      BY <1>1, <2>5
    <3>2. QED
      BY <3>1, <1>7, <1>3
  <2>12. \A x, y \in TaskId : Base(x) = Base(y) /\ Line(x, y) => Line(y, x)
    OBVIOUS
  <2> SUFFICES ASSUME NEW x \in TaskId, NEW y \in TaskId, x # y, Base(x) = Base(y),
                      Unsettled(x)', Unsettled(y)'
               PROVE  Line(x, y)
    BY DEF ChainOrder
  <2>13. CASE x \notin {debug, retest} /\ y \notin {debug, retest}
    BY <2>7, <2>13
  <2>14. CASE x \in {debug, retest} /\ y \notin {debug, retest}
    BY <2>9, <2>10, <2>14, <1>3
  <2>15. CASE x \notin {debug, retest} /\ y \in {debug, retest}
    <3>1. Line(y, x)
      BY <2>9, <2>10, <2>15, <1>3
    <3>2. QED
      BY <3>1, <2>12
  <2>16. CASE x \in {debug, retest} /\ y \in {debug, retest}
    <3> HIDE DEF Line
    <3>1. QED
      BY <2>11, <2>12, <2>16, <1>3
  <2>17. QED
    BY <2>13, <2>14, <2>15, <2>16
<1>18. QED
  BY <1>1, <1>7, <1>9, <1>10, <1>11, <1>12, <1>13, <1>14, <1>15, <1>16, <1>17
     DEF GraphInv, GraphType, b

\* A step that changes no status, except that created tasks whose dependencies
\* are completed become ready, and moves workers only between the states that
\* mean the same for the graph, keeps the graph part.
LEMMA QuietStep ==
  ASSUME TypeOK, GraphInv,
         \/ UNCHANGED status
         \/ status' = MarkReady(status, deps),
         UNCHANGED <<deps, attempts>>,
         worker' \in [TaskId -> WorkerState],
         \A x \in TaskId :
            \/ worker'[x] = worker[x]
            \/ {worker[x], worker'[x]} \subseteq {"spawned", "running", "dead"}
            \/ worker[x] = "planning" /\ worker'[x] = "none"
  PROVE  /\ status' \in [TaskId -> Status]
         /\ GraphInv'
         /\ \A x \in TaskId : status'[x] = status[x] \/ (status[x] = "created" /\ status'[x] = "ready")
<1>1. /\ status' \in [TaskId -> Status]
      /\ StartedAfterDeps' /\ BlockedHasCause'
      /\ \A x \in TaskId : status'[x] = status[x] \/ (status[x] = "created" /\ status'[x] = "ready")
  <2>1. CASE UNCHANGED status
    BY <2>1 DEF TypeOK, GraphInv, StartedAfterDeps, BlockedHasCause
  <2>2. CASE status' = MarkReady(status, deps)
    <3>1. /\ status' \in [TaskId -> Status]
          /\ OrderKept(TaskId, status', deps) /\ CauseKept(TaskId, status', deps)
          /\ \A x \in TaskId : status'[x] = status[x] \/ (status[x] = "created" /\ status'[x] = "ready")
      BY <2>2, GraphView, MarkReadyKeeps DEF GraphInv
    <3>2. QED
      BY <3>1 DEF OrderKept, CauseKept, Started, Dead, StartedAfterDeps, BlockedHasCause
  <2>3. QED
    BY <2>1, <2>2
<1>2. StatusMatchesWorker'
  BY <1>1 DEF GraphInv, StatusMatchesWorker
<1>3. DepsInGraph' /\ FreshBeyondAttempts'
  <2>1. \A x \in TaskId : status'[x] = "absent" <=> status[x] = "absent"
    BY <1>1
  <2>2. \A x \in TaskId : deps[x] \subseteq TaskId
    BY DEF TypeOK
  <2>3. QED
    BY <2>1, <2>2, TaskIdFacts DEF GraphInv, DepsInGraph, FreshBeyondAttempts
<1>4. PlannerMayInsert'
  BY DEF GraphInv, PlannerMayInsert
<1>5. ChainOrder'
  <2>1. \A x \in TaskId : Unsettled(x)' => Unsettled(x)
    BY <1>1 DEF Unsettled
  <2>2. \A x \in TaskId : status'[x] = "completed" <=> status[x] = "completed"
    BY <1>1
  <2>3. \A x \in TaskId : deps[x] \subseteq TaskId
    BY DEF TypeOK
  <2>4. QED
    BY <2>1, <2>2, <2>3 DEF GraphInv, ChainOrder
<1>6. QED
  BY <1>1, <1>2, <1>3, <1>4, <1>5 DEF GraphInv

\* A pass starts a task that is ready.
LEMMA StartStep ==
  ASSUME TypeOK, GraphInv, NEW t \in TaskId, status[t] = "ready",
         status' = [status EXCEPT ![t] = "running"],
         worker' = [worker EXCEPT ![t] = "spawned"],
         UNCHANGED <<deps, attempts>>
  PROVE  status' \in [TaskId -> Status] /\ worker' \in [TaskId -> WorkerState] /\ GraphInv'
<1>1. /\ status' \in [TaskId -> Status] /\ status'[t] = "running"
      /\ \A x \in TaskId \ {t} : status'[x] = status[x]
  BY DEF TypeOK, Status, TaskStatus, LiveStatus
<1>2. /\ worker' \in [TaskId -> WorkerState] /\ worker'[t] = "spawned"
      /\ \A x \in TaskId \ {t} : worker'[x] = worker[x]
  BY DEF TypeOK, WorkerState
<1>3. \A x \in TaskId : deps[x] \subseteq TaskId
  BY DEF TypeOK
<1>4. StartedAfterDeps' /\ BlockedHasCause'
  BY <1>1, <1>3 DEF GraphInv, StartedAfterDeps, BlockedHasCause
<1>5. StatusMatchesWorker'
  BY <1>1, <1>2 DEF GraphInv, StatusMatchesWorker
<1>6. DepsInGraph' /\ FreshBeyondAttempts'
  BY <1>1, <1>3, TaskIdFacts DEF GraphInv, DepsInGraph, FreshBeyondAttempts
<1>7. PlannerMayInsert'
  BY <1>2 DEF GraphInv, PlannerMayInsert
<1>8. ChainOrder'
  <2>1. \A x \in TaskId : Unsettled(x)' => Unsettled(x)
    BY <1>1, <1>2 DEF Unsettled
  <2>2. \A x \in TaskId : status'[x] = "completed" <=> status[x] = "completed"
    BY <1>1
  <2>3. QED
    BY <2>1, <2>2, <1>3 DEF GraphInv, ChainOrder
<1>9. QED
  BY <1>1, <1>2, <1>4, <1>5, <1>6, <1>7, <1>8 DEF GraphInv

-----------------------------------------------------------------------------
Core == TypeOK /\ GraphInv /\ BatchIsReady

\* Every step of execute(), of a worker and of the cancellations keeps the types,
\* the graph in order and the batch ready.
LEMMA CoreStep ==
  ASSUME Core, [Next]_vars
  PROVE  Core'
<1> USE DEF Core
<1>1. CASE UNCHANGED vars
  BY <1>1 DEF vars, TypeOK, GraphInv, BatchIsReady, StartedAfterDeps, BlockedHasCause,
     StatusMatchesWorker, DepsInGraph, FreshBeyondAttempts, PlannerMayInsert, ChainOrder,
     Unsettled
<1>2. ASSUME EnterPass, isRunning' \in BOOLEAN
      PROVE  Core'
  <2>1. status' = MarkReady(status, deps) /\ UNCHANGED <<deps, attempts, worker, locks, pos, cancelReq>>
    BY <1>2 DEF EnterPass
  <2>2. status' \in [TaskId -> Status] /\ GraphInv'
    BY <2>1, QuietStep DEF TypeOK
  <2>3. batch' \subseteq TaskId /\ BatchIsReady'
    BY <1>2, <2>2 DEF EnterPass, BatchIsReady, TasksOf
  <2>4. QED
    BY <1>2, <2>1, <2>2, <2>3 DEF TypeOK, EnterPass
<1>3. CASE Begin
  BY <1>2, <1>3 DEF Begin
<1>4. CASE Wake
  BY <1>2, <1>4 DEF Wake, TypeOK
<1>5. ASSUME UNCHANGED <<status, deps, attempts, pos>>, batch' \subseteq batch,
             worker' \in [TaskId -> WorkerState],
             \A x \in TaskId :
                \/ worker'[x] = worker[x]
                \/ {worker[x], worker'[x]} \subseteq {"spawned", "running", "dead"}
                \/ worker[x] = "planning" /\ worker'[x] = "none",
             locks' \in [TaskId -> SUBSET Resource], cancelReq' \subseteq TaskId,
             pc' \in {"idle", "dispatch", "sleep", "done"}, isRunning' \in BOOLEAN
      PROVE  Core'
  BY <1>5, QuietStep DEF TypeOK, BatchIsReady
<1>6. CASE Finish
  BY <1>5, <1>6 DEF Finish, TypeOK
<1>7. CASE Sleep
  BY <1>5, <1>7 DEF Sleep, TypeOK, graphVars
<1>8. CASE CancelAll
  <2>1. Live \subseteq TaskId
    BY DEF Live
  <2>2. QED
    BY <1>5, <1>8, <2>1 DEF CancelAll, TypeOK, graphVars
<1>9. ASSUME NEW t \in TaskId
      PROVE  Requested(t) \subseteq Resource
  BY SchedulerAssumption, TaskIdFacts DEF Requested
<1>10. ASSUME NEW t \in TaskId, DispatchWaits(t)
       PROVE  Core'
  BY <1>5, <1>10 DEF DispatchWaits, TypeOK, graphVars
<1>11. ASSUME NEW t \in TaskId, DispatchFails(t)
       PROVE  Core'
  <2>1. t \in batch /\ status[t] = "ready" /\ worker' = worker
    BY <1>11 DEF DispatchFails, NextOfBatch, BatchIsReady
  <2>2. worker[t] = "none" \/ worker[t] = "planning" \/ FALSE
    BY <2>1 DEF TypeOK, WorkerState, GraphInv, StatusMatchesWorker
  <2>3. worker' = [worker EXCEPT ![t] = "none"]
    BY <2>1, <2>2 DEF TypeOK, GraphInv, StatusMatchesWorker
  <2>4. /\ status' \in [TaskId -> Status] /\ worker' \in [TaskId -> WorkerState] /\ GraphInv'
        /\ \A x \in TaskId \ {t} : status[x] \in Started => status'[x] = status[x]
    BY <1>11, <2>1, <2>3, EndStep DEF DispatchFails, TerminalStatus
  <2>5. BatchIsReady'
    BY <1>11, <2>4 DEF DispatchFails, BatchIsReady, TypeOK, Started
  <2>6. QED
    BY <1>11, <2>4, <2>5, <1>9 DEF DispatchFails, TypeOK
<1>12. ASSUME NEW t \in TaskId, DispatchStarts(t)
       PROVE  Core'
  <2>1. t \in batch /\ status[t] = "ready"
    BY <1>12 DEF DispatchStarts, NextOfBatch, BatchIsReady
  <2>2. status' \in [TaskId -> Status] /\ worker' \in [TaskId -> WorkerState] /\ GraphInv'
    BY <1>12, <2>1, StartStep DEF DispatchStarts, graphVars
  <2>3. BatchIsReady'
    BY <1>12 DEF DispatchStarts, BatchIsReady, TypeOK
  <2>4. QED
    BY <1>12, <2>2, <2>3, <1>9 DEF DispatchStarts, TypeOK, graphVars
<1>13. ASSUME NEW t \in TaskId, WorkerStarts(t)
       PROVE  Core'
  BY <1>5, <1>13 DEF WorkerStarts, Runs, TypeOK, WorkerState, graphVars
<1>14. ASSUME NEW t \in TaskId, NEW s \in TerminalStatus, NEW w \in {"none", "planning"},
              \/ worker[t] = "running"
              \/ worker[t] = "planning" /\ s = "cancelled",
              w = "planning" => s = "failed" /\ attempts[Base(t)] < MaxAttempts,
              status' = UpdateStatus(status, deps, t, s),
              worker' = [worker EXCEPT ![t] = w],
              UNCHANGED <<deps, attempts, pos, pc, isRunning, batch>>,
              locks' \in [TaskId -> SUBSET Resource], cancelReq' \subseteq TaskId
       PROVE  Core'
  <2>1. status[t] # "ready" /\ (status[t] = "running" \/ (worker[t] = "planning" /\ s = "cancelled"))
    BY <1>14 DEF GraphInv, StatusMatchesWorker
  <2>2. /\ status' \in [TaskId -> Status] /\ worker' \in [TaskId -> WorkerState] /\ GraphInv'
        /\ \A x \in TaskId \ {t} : status[x] \in Started => status'[x] = status[x]
    BY <1>14, <2>1, EndStep
  <2>3. BatchIsReady'
    BY <1>14, <2>1, <2>2 DEF BatchIsReady, TypeOK, Started
  <2>4. QED
    BY <1>14, <2>2, <2>3 DEF TypeOK
<1>15. ASSUME NEW t \in TaskId, WorkerSucceeds(t)
       PROVE  Core'
  BY <1>14, <1>15 DEF WorkerSucceeds, Runs, Leave, TypeOK, TerminalStatus
<1>16. ASSUME NEW t \in TaskId, WorkerFails(t)
       PROVE  Core'
  BY <1>14, <1>16 DEF WorkerFails, Runs, Leave, TypeOK, TerminalStatus
<1>17. ASSUME NEW t \in TaskId, WorkerAsksPlanner(t)
       PROVE  Core'
  BY <1>14, <1>17 DEF WorkerAsksPlanner, Runs, TypeOK, TerminalStatus
<1>18. ASSUME NEW t \in TaskId, WorkerCancelled(t)
       PROVE  Core'
  BY <1>14, <1>18 DEF WorkerCancelled, Leave, TypeOK, TerminalStatus
<1>19. ASSUME NEW t \in TaskId, WorkerNeverStarts(t)
       PROVE  Core'
  BY <1>5, <1>19 DEF WorkerNeverStarts, TypeOK, WorkerState, graphVars
<1>20. ASSUME NEW t \in TaskId, RecoveryRejected(t)
       PROVE  Core'
  BY <1>5, <1>20 DEF RecoveryRejected, Runs, Leave, TypeOK, WorkerState, graphVars
<1>21. ASSUME NEW t \in TaskId, RecoveryInserted(t)
       PROVE  Core'
  <2>1. /\ status' \in [TaskId -> Status] /\ deps' \in [TaskId -> SUBSET TaskId]
        /\ attempts' \in [BaseTask -> Nat] /\ worker' \in [TaskId -> WorkerState]
        /\ GraphInv'
        /\ \A x \in TaskId : status[x] \in Started => status'[x] = status[x]
    BY <1>21, InsertStep
  <2>2. /\ locks' = [locks EXCEPT ![t] = {}] /\ cancelReq' = cancelReq \ {t}
        /\ UNCHANGED <<pc, isRunning, batch>>
    BY <1>21 DEF RecoveryInserted, Leave
  <2>3. pos' \in [TaskId -> Nat]
    <3>1. Cardinality(TasksOf(status)) \in Nat
      <4>1. IsFiniteSet(TasksOf(status))
        <5>1. TasksOf(status) \subseteq TaskId
          BY DEF TasksOf, TypeOK
        <5>2. QED
          BY <5>1, TaskIdFinite, FS_Subset
      <4>2. QED
        BY <4>1, FS_CardinalityType
    <3> DEFINE size == Cardinality(TasksOf(status))
    <3>2. pos' = [pos EXCEPT ![Debug(Base(t), attempts[Base(t)] + 1)] = size + 1,
                             ![Retest(Base(t), attempts[Base(t)] + 1)] = size + 2]
      BY <1>21 DEF RecoveryInserted, RecoveryNumber
    <3>3. size + 1 \in Nat /\ size + 2 \in Nat
      BY <3>1
    <3> HIDE DEF size
    <3>4. QED
      BY <3>2, <3>3 DEF TypeOK
  <2>4. BatchIsReady'
    BY <2>1, <2>2 DEF BatchIsReady, TypeOK, Started
  <2>5. QED
    BY <2>1, <2>2, <2>3, <2>4 DEF TypeOK
<1>22. ASSUME NEW t \in TaskId, Cancel(t)
       PROVE  Core'
  BY <1>5, <1>22 DEF Cancel, TypeOK, graphVars
<1>23. QED
  BY <1>1, <1>3, <1>4, <1>6, <1>7, <1>8, <1>10, <1>11, <1>12, <1>13, <1>15, <1>16,
     <1>17, <1>18, <1>19, <1>20, <1>21, <1>22 DEF Next, Execute, WorkerStep

-----------------------------------------------------------------------------
\* No two tasks hold resources that conflict, and a live worker holds all its
\* task asked for: acquire grants the whole request or nothing, and only the
\* finally clause of the holder gives it up.
LockInv == LockExclusion /\ LiveWorkersHoldLocks

\* Every step keeps the locks exclusive, and with the workers that need them.
LEMMA LockStep ==
  ASSUME Core, LockInv, [Next]_vars
  PROVE  LockInv'
<1> USE DEF Core, LockInv
<1>1. TypeOK'
  BY CoreStep
<1>2. ASSUME UNCHANGED locks, Live' \subseteq Live
      PROVE  LockInv'
  BY <1>2 DEF LockExclusion, LiveWorkersHoldLocks, Requested
<1>3. ASSUME NEW t \in TaskId, Free(t), locks' = [locks EXCEPT ![t] = @ \cup Requested(t)],
             \A x \in TaskId \ {t} : worker'[x] = worker[x]
      PROVE  LockInv'
  <2>1. LockExclusion'
    <3> SUFFICES ASSUME NEW u \in TaskId, NEW v \in TaskId, u # v,
                        NEW r \in locks'[u], NEW q \in locks'[v]
                 PROVE  <<r, q>> \notin Conflicts
      BY DEF LockExclusion
    <3>1. r \in Resource /\ q \in Resource
      BY <1>1 DEF TypeOK
    <3>2. CASE u = t /\ r \in Requested(t)
      BY <1>3, <3>2 DEF Free, TypeOK
    <3>3. CASE v = t /\ q \in Requested(t)
      <4>1. <<q, r>> \notin Conflicts
        BY <1>3, <3>3 DEF Free, TypeOK
      <4>2. QED
        BY <4>1, <3>1, SchedulerAssumption
    <3>4. CASE ~(u = t /\ r \in Requested(t)) /\ ~(v = t /\ q \in Requested(t))
      <4>1. r \in locks[u] /\ q \in locks[v]
        BY <1>3, <3>4 DEF TypeOK
      <4>2. QED
        BY <4>1 DEF LockExclusion
    <3>5. QED
      BY <3>2, <3>3, <3>4
  <2>2. LiveWorkersHoldLocks'
    <3> SUFFICES ASSUME NEW x \in Live'
                 PROVE  Requested(x) \subseteq locks'[x]
      BY DEF LiveWorkersHoldLocks, Requested
    <3>1. CASE x = t
      BY <1>3, <3>1 DEF TypeOK
    <3>2. CASE x # t
      BY <1>3, <3>2 DEF TypeOK, LiveWorkersHoldLocks, Live
    <3>3. QED
      BY <3>1, <3>2
  <2>3. QED
    BY <2>1, <2>2
<1>4. ASSUME NEW t \in TaskId, locks' = [locks EXCEPT ![t] = {}],
             worker' = [worker EXCEPT ![t] = "none"]
      PROVE  LockInv'
  <2>1. LockExclusion'
    BY <1>4 DEF LockExclusion, TypeOK
  <2>2. LiveWorkersHoldLocks'
    <3> SUFFICES ASSUME NEW x \in Live'
                 PROVE  Requested(x) \subseteq locks'[x]
      BY DEF LiveWorkersHoldLocks, Requested
    <3>1. x # t /\ x \in Live
      BY <1>4 DEF Live, TypeOK
    <3>2. QED
      BY <1>4, <3>1 DEF TypeOK, LiveWorkersHoldLocks, Live
  <2>3. QED
    BY <2>1, <2>2
<1>5. CASE UNCHANGED vars
  BY <1>2, <1>5 DEF vars, Live
<1>6. CASE Begin \/ Wake
  BY <1>2, <1>6 DEF Begin, Wake, EnterPass, Live
<1>7. CASE Finish \/ Sleep \/ CancelAll
  BY <1>2, <1>7 DEF Finish, Sleep, CancelAll, Live
<1>8. ASSUME NEW t \in TaskId, DispatchWaits(t) \/ Cancel(t)
      PROVE  LockInv'
  BY <1>2, <1>8 DEF DispatchWaits, Cancel, Live
<1>9. ASSUME NEW t \in TaskId, DispatchFails(t) \/ DispatchStarts(t)
      PROVE  LockInv'
  BY <1>3, <1>9 DEF DispatchFails, DispatchStarts, TypeOK
<1>10. ASSUME NEW t \in TaskId, WorkerStarts(t) \/ WorkerAsksPlanner(t) \/ WorkerNeverStarts(t)
       PROVE  LockInv'
  <2>1. Live' \subseteq Live
    BY <1>10 DEF WorkerStarts, WorkerAsksPlanner, WorkerNeverStarts, Runs, Live, TypeOK
  <2>2. QED
    BY <1>2, <1>10, <2>1 DEF WorkerStarts, WorkerAsksPlanner, WorkerNeverStarts
<1>11. ASSUME NEW t \in TaskId,
              \/ WorkerSucceeds(t) \/ WorkerFails(t) \/ WorkerCancelled(t)
              \/ RecoveryInserted(t) \/ RecoveryRejected(t)
       PROVE  LockInv'
  BY <1>4, <1>11 DEF WorkerSucceeds, WorkerFails, WorkerCancelled, RecoveryInserted,
     RecoveryRejected, Leave
<1>12. QED
  BY <1>5, <1>6, <1>7, <1>8, <1>9, <1>10, <1>11 DEF Next, Execute, WorkerStep

-----------------------------------------------------------------------------
\* The free slots a pass counts once are enough for what it starts.
LEMMA RoomStep ==
  ASSUME Core, RoomForBatch, [Next]_vars
  PROVE  RoomForBatch'
<1> USE DEF Core
<1>1. TypeOK' /\ batch' \subseteq TaskId
  BY CoreStep DEF TypeOK
<1>2. ASSUME NEW S \in SUBSET TaskId
      PROVE  IsFiniteSet(S) /\ Cardinality(S) \in Nat
  BY <1>2, TaskIdFinite, FS_Subset, FS_CardinalityType
<1>3. \A S, U \in SUBSET TaskId : S \subseteq U => Cardinality(S) <= Cardinality(U)
  BY <1>2, FS_Subset
<1>4. Active \in SUBSET TaskId /\ Active' \in SUBSET TaskId /\ batch \in SUBSET TaskId
  BY DEF Active, TypeOK
<1>5. MaxConcurrency \in Nat
  BY SchedulerAssumption
<1>6. ASSUME Active' \subseteq Active, batch' \subseteq batch
      PROVE  RoomForBatch'
  <2>1. Cardinality(Active') <= Cardinality(Active) /\ Cardinality(batch') <= Cardinality(batch)
    BY <1>1, <1>3, <1>4, <1>6
  <2>2. QED
    BY <2>1, <1>1, <1>2, <1>4, <1>5 DEF RoomForBatch
<1>7. ASSUME EnterPass
      PROVE  RoomForBatch'
  <2>1. Active' = Active /\ Cardinality(batch') <= MaxConcurrency - Cardinality(Active)
    BY <1>7 DEF EnterPass, Slots, Active
  <2>2. QED
    BY <2>1, <1>1, <1>2, <1>4, <1>5 DEF RoomForBatch
<1>8. CASE UNCHANGED vars
  BY <1>6, <1>8 DEF vars, Active
<1>9. CASE Begin \/ Wake
  BY <1>7, <1>9 DEF Begin, Wake
<1>10. CASE Finish \/ Sleep \/ CancelAll
  BY <1>6, <1>10 DEF Finish, Sleep, CancelAll, Active
<1>11. ASSUME NEW t \in TaskId, DispatchWaits(t) \/ DispatchFails(t) \/ Cancel(t)
       PROVE  RoomForBatch'
  BY <1>6, <1>11 DEF DispatchWaits, DispatchFails, Cancel, Active
<1>12. ASSUME NEW t \in TaskId, DispatchStarts(t)
       PROVE  RoomForBatch'
  <2>1. Active' \subseteq Active \cup {t}
    BY <1>12 DEF DispatchStarts, Active, TypeOK
  <2>2. Cardinality(Active') <= Cardinality(Active) + 1
    <3>1. Cardinality(Active') <= Cardinality(Active \cup {t})
      BY <2>1, <1>3, <1>4
    <3>2. Cardinality(Active \cup {t}) = IF t \in Active THEN Cardinality(Active)
                                         ELSE Cardinality(Active) + 1
      BY <1>2, <1>4, FS_AddElement
    <3>3. QED
      BY <3>1, <3>2, <1>2, <1>4
  <2>3. t \in batch /\ batch' = batch \ {t}
    BY <1>12 DEF DispatchStarts, NextOfBatch
  <2>4. Cardinality(batch') = Cardinality(batch) - 1
    BY <2>3, <1>2, <1>4, FS_RemoveElement
  <2>5. QED
    BY <2>2, <2>4, <1>1, <1>2, <1>4, <1>5 DEF RoomForBatch
<1>13. ASSUME NEW t \in TaskId, WorkerStep(t)
       PROVE  RoomForBatch'
  <2>1. batch' = batch
    BY <1>13 DEF WorkerStep, WorkerStarts, WorkerSucceeds, WorkerFails, WorkerAsksPlanner,
       RecoveryInserted, RecoveryRejected, WorkerCancelled, WorkerNeverStarts
  <2>2. t \in Active /\ \A x \in TaskId \ {t} : worker'[x] = worker[x]
    BY <1>13 DEF WorkerStep, WorkerStarts, WorkerSucceeds, WorkerFails, WorkerAsksPlanner,
       RecoveryInserted, RecoveryRejected, WorkerCancelled, WorkerNeverStarts, Runs, Leave,
       Active, TypeOK
  <2>3. Active' \subseteq Active
    BY <2>2 DEF Active
  <2>4. QED
    BY <1>6, <2>1, <2>3
<1>14. QED
  BY <1>8, <1>9, <1>10, <1>11, <1>12, <1>13 DEF Next, Execute

-----------------------------------------------------------------------------
\* The scheduler starts in the invariant.
LEMMA InitIInv == Init => IInv
<1> SUFFICES ASSUME Init PROVE IInv
  OBVIOUS
<1>1. TypeOK /\ GraphInv
  BY InitGraphInv
<1>2. BatchIsReady /\ LockExclusion /\ LiveWorkersHoldLocks /\ DispatchRuns
  BY DEF Init, BatchIsReady, LockExclusion, LiveWorkersHoldLocks, DispatchRuns, Live
<1>3. RoomForBatch
  <2>1. Active = {} /\ batch = {}
    BY DEF Init, Active
  <2>2. QED
    BY <2>1, FS_EmptySet, SchedulerAssumption DEF RoomForBatch
<1>4. QED
  BY <1>1, <1>2, <1>3 DEF IInv

\* Every step keeps the invariant.
LEMMA IInvStep ==
  ASSUME IInv, [Next]_vars
  PROVE  IInv'
<1>1. Core' /\ LockInv' /\ RoomForBatch'
  BY CoreStep, LockStep, RoomStep DEF IInv, Core, LockInv
<1>2. DispatchRuns'
  BY DEF IInv, DispatchRuns, Next, Execute, WorkerStep, vars, Begin, Wake, LoopEnds, EnterPass,
     Finish, Sleep, DispatchWaits, DispatchFails, DispatchStarts, CancelAll, Cancel, AtAwait,
     WorkerStarts, WorkerSucceeds, WorkerFails, WorkerAsksPlanner, RecoveryInserted,
     RecoveryRejected, WorkerCancelled, WorkerNeverStarts, Runs
<1>3. QED
  BY <1>1, <1>2 DEF IInv, Core, LockInv

\* The invariant behind all the others holds in every reachable state, for
\* every plan, lock table, number of slots and number of recoveries.
THEOREM SchedulerInvariant == Spec => []IInv
BY InitIInv, IInvStep, PTL DEF Spec

\* The variables keep their types: in particular every recovery id exists and
\* no graph ever names a task that is not one.
THEOREM SchedulerTypeCorrect == Spec => []TypeOK
<1>1. IInv => TypeOK
  BY DEF IInv
<1>2. QED
  BY <1>1, SchedulerInvariant, PTL

\* No two tasks hold resources that conflict, and live workers hold all theirs:
\* agents that run together never touch the same file (agents/locks.py,
\* agents/scheduler.py).
THEOREM SchedulerExclusion == Spec => [](LockExclusion /\ LiveWorkersHoldLocks)
<1>1. IInv => LockExclusion /\ LiveWorkersHoldLocks
  BY DEF IInv
<1>2. QED
  BY <1>1, SchedulerInvariant, PTL

\* active_workers never outgrows max_concurrency.
THEOREM SchedulerSlotBound == Spec => []SlotBound
<1>1. IInv => SlotBound
  <2> SUFFICES ASSUME IInv PROVE SlotBound
    OBVIOUS
  <2>1. Active \subseteq TaskId /\ batch \subseteq TaskId
    BY DEF Active, IInv, TypeOK
  <2>2. Cardinality(Active) \in Nat /\ Cardinality(batch) \in Nat
    BY <2>1, TaskIdFinite, FS_Subset, FS_CardinalityType
  <2>3. QED
    BY <2>2, SchedulerAssumption DEF IInv, RoomForBatch, SlotBound
<1>2. QED
  BY <1>1, SchedulerInvariant, PTL

\* No task is started before its dependencies are completed, in particular
\* after recoveries rewired them (get_ready_tasks, insert_recovery_sequence).
THEOREM SchedulerStartedAfterDeps == Spec => []StartedAfterDeps
<1>1. IInv => StartedAfterDeps
  BY DEF IInv, GraphInv
<1>2. QED
  BY <1>1, SchedulerInvariant, PTL

\* No task is left blocked once nothing above it failed or was cancelled: the
\* unblocking of insert_recovery_sequence forgets none.
THEOREM SchedulerBlockedHasCause == Spec => []BlockedHasCause
<1>1. IInv => BlockedHasCause
  BY DEF IInv, GraphInv
<1>2. QED
  BY <1>1, SchedulerInvariant, PTL

\* The graph and active_workers agree on what runs.
THEOREM SchedulerStatusMatchesWorker == Spec => []StatusMatchesWorker
<1>1. IInv => StatusMatchesWorker
  BY DEF IInv, GraphInv
<1>2. QED
  BY <1>1, SchedulerInvariant, PTL

\* A task, its recoveries and its retests never run side by side, whatever
\* chain of recoveries of recoveries the failures produced.
THEOREM SchedulerChainIsSequential == Spec => []ChainIsSequential
<1>1. IInv => ChainIsSequential
  BY ChainIsLine DEF IInv
<1>2. QED
  BY <1>1, SchedulerInvariant, PTL

-----------------------------------------------------------------------------
\* The planner is never given more than max_attempts recoveries of one task:
\* the comparison handle_failure makes before the model call still holds when
\* it counts after it.
THEOREM SchedulerAttemptsBounded == Spec => []AttemptsBounded
<1>1. Init => AttemptsBounded
  BY SchedulerAssumption DEF Init, AttemptsBounded
<1>2. ASSUME IInv, AttemptsBounded, [Next]_vars
      PROVE  AttemptsBounded'
  <2>1. CASE UNCHANGED attempts
    BY <1>2, <2>1 DEF AttemptsBounded
  <2>2. ASSUME NEW t \in TaskId, RecoveryInserted(t)
        PROVE  AttemptsBounded'
    <3>1. attempts' = [attempts EXCEPT ![Base(t)] = @ + 1] /\ worker[t] = "planning"
      BY <2>2 DEF RecoveryInserted, Runs
    <3>2. attempts[Base(t)] < MaxAttempts
      BY <1>2, <3>1 DEF IInv, GraphInv, PlannerMayInsert
    <3>3. attempts \in [BaseTask -> Nat]
      BY <1>2 DEF IInv, TypeOK
    <3>4. QED
      BY <1>2, <3>1, <3>2, <3>3, SchedulerAssumption DEF AttemptsBounded
  <2>3. QED
    BY <1>2, <2>1, <2>2 DEF Next, Execute, WorkerStep, vars, Begin, Wake, EnterPass, Finish,
       Sleep, DispatchWaits, DispatchFails, DispatchStarts, CancelAll, Cancel, WorkerStarts,
       WorkerSucceeds, WorkerFails, WorkerAsksPlanner, RecoveryRejected, WorkerCancelled,
       WorkerNeverStarts
<1>3. QED
  BY <1>1, <1>2, SchedulerInvariant, PTL DEF Spec

-----------------------------------------------------------------------------
\* A recovery takes the next number and ids that nothing has: handle_failure
\* compares and counts the attempts on two sides of a model call, and no other
\* recovery of the same task comes between.
THEOREM SchedulerRecoveryIdsFresh == Spec => RecoveryIdsFresh
<1> DEFINE A(b) == LET n == attempts'[b]
                   IN  /\ n = attempts[b] + 1
                       /\ {Debug(b, n), Retest(b, n)} \cap TasksOf(status) = {}
                       /\ TasksOf(status') = TasksOf(status) \cup {Debug(b, n), Retest(b, n)}
<1>1. ASSUME IInv, [Next]_vars
      PROVE  \A b \in BaseTask : attempts'[b] # attempts[b] => A(b)
  <2>1. CASE UNCHANGED attempts
    BY <2>1
  <2>2. ASSUME NEW t \in TaskId, RecoveryInserted(t), NEW b \in BaseTask,
               attempts'[b] # attempts[b]
        PROVE  A(b)
    <3> DEFINE n == attempts'[b]
               debug == Debug(b, n)
               retest == Retest(b, n)
    <3>1. attempts' = [attempts EXCEPT ![Base(t)] = attempts[Base(t)] + 1]
      BY <2>2 DEF RecoveryInserted
    <3>2. b = Base(t) /\ attempts[b] \in Nat /\ n = attempts[b] + 1
      BY <1>1, <2>2, <3>1, TaskIdFacts DEF IInv, TypeOK
    <3>3. attempts[b] < MaxAttempts
      BY <1>1, <2>2, <3>2, InsertStep DEF IInv
    <3>4. n \in 1..MaxAttempts /\ n > attempts[b]
      BY <3>2, <3>3, SchedulerAssumption
    <3>5. status[debug] = "absent" /\ status[retest] = "absent"
      BY <1>1, <3>4 DEF IInv, GraphInv, FreshBeyondAttempts
    <3>6. debug \in TaskId /\ retest \in TaskId /\ debug # retest
      BY <3>4, TaskIdFacts
    <3>7. status' = RecoveredStatus(status, deps, t, debug, retest)
      BY <2>2, <3>2 DEF RecoveryInserted, RecoveryNumber
    <3>8. status[t] = "failed"
      BY <1>1, <2>2 DEF RecoveryInserted, Runs, IInv, GraphInv, StatusMatchesWorker
    <3> HIDE DEF n, debug, retest
    <3>9. /\ status' \in [TaskId -> Status]
          /\ status'[debug] = "created" /\ status'[retest] = "created"
          /\ \A x \in TaskId \ {debug, retest} :
               \/ status'[x] = status[x]
               \/ status[x] \in {"blocked", "cancelled"} /\ status'[x] = "created"
      BY <1>1, <3>5, <3>6, <3>7, <3>8, GraphView, InsertChanges DEF IInv, GraphInv, GraphType
    <3>10. DOMAIN status = TaskId /\ DOMAIN status' = TaskId
      BY <1>1, <3>9 DEF IInv, TypeOK
    <3>11. {debug, retest} \cap TasksOf(status) = {}
      BY <3>5 DEF TasksOf
    <3>12. TasksOf(status') = TasksOf(status) \cup {debug, retest}
      BY <3>6, <3>9, <3>10 DEF TasksOf
    <3>13. QED
      BY <3>2, <3>11, <3>12 DEF n, debug, retest
  <2>3. QED
    BY <1>1, <2>1, <2>2 DEF Next, Execute, WorkerStep, vars, Begin, Wake, EnterPass, Finish,
       Sleep, DispatchWaits, DispatchFails, DispatchStarts, CancelAll, Cancel, WorkerStarts,
       WorkerSucceeds, WorkerFails, WorkerAsksPlanner, RecoveryRejected, WorkerCancelled,
       WorkerNeverStarts
<1>2. QED
  BY <1>1, SchedulerInvariant, PTL DEF Spec, RecoveryIdsFresh

\* What a recovery changes when it is inserted: it adds two tasks, reopens some
\* that were blocked or cancelled, and takes the place of the failed task among
\* the dependencies of the others.
LEMMA InsertEffects ==
  ASSUME TypeOK, GraphInv, NEW t \in TaskId, RecoveryInserted(t),
         NEW n, n = attempts[Base(t)] + 1
  PROVE  /\ worker[t] = "planning" /\ status[t] = "failed" /\ t \in Live
         /\ Base(t) \in BaseTask /\ n \in 1..MaxAttempts /\ attempts[Base(t)] \in Nat
         /\ attempts' = [attempts EXCEPT ![Base(t)] = n]
         /\ worker' = [worker EXCEPT ![t] = "none"]
         /\ status'[Debug(Base(t), n)] = "created" /\ status'[Retest(Base(t), n)] = "created"
         /\ status[Debug(Base(t), n)] = "absent" /\ status[Retest(Base(t), n)] = "absent"
         /\ deps'[Debug(Base(t), n)] = deps[t]
         /\ deps'[Retest(Base(t), n)] = {Debug(Base(t), n)}
         /\ \A x \in TaskId \ {Debug(Base(t), n), Retest(Base(t), n)} :
              /\ \/ status'[x] = status[x]
                 \/ status[x] \in {"blocked", "cancelled"} /\ status'[x] = "created"
              /\ \/ deps'[x] = deps[x]
                 \/ t \in deps[x] /\ deps'[x] = (deps[x] \ {t}) \cup {Retest(Base(t), n)}
<1> DEFINE debug == Debug(Base(t), n)
           retest == Retest(Base(t), n)
<1>1. /\ worker[t] = "planning" /\ status[t] = "failed" /\ attempts[Base(t)] < MaxAttempts
      /\ t \in Live
  BY DEF RecoveryInserted, Runs, GraphInv, StatusMatchesWorker, PlannerMayInsert, Live
<1>2. Base(t) \in BaseTask /\ attempts[Base(t)] \in Nat /\ n \in 1..MaxAttempts
  BY <1>1, TaskIdFacts, SchedulerAssumption DEF TypeOK
<1>3. /\ debug \in TaskId /\ retest \in TaskId /\ debug # retest
      /\ status[debug] = "absent" /\ status[retest] = "absent"
  BY <1>2, TaskIdFacts DEF GraphInv, FreshBeyondAttempts
<1>4. /\ status' = RecoveredStatus(status, deps, t, debug, retest)
      /\ deps' = RewiredDeps(status, deps, t, debug, retest)
      /\ attempts' = [attempts EXCEPT ![Base(t)] = n]
      /\ worker' = [worker EXCEPT ![t] = "none"]
  BY DEF RecoveryInserted, RecoveryNumber, Leave
<1> HIDE DEF debug, retest
<1>5. /\ status'[debug] = "created" /\ status'[retest] = "created"
      /\ deps'[debug] = deps[t] /\ deps'[retest] = {debug}
      /\ \A x \in TaskId \ {debug, retest} :
           /\ \/ status'[x] = status[x]
              \/ status[x] \in {"blocked", "cancelled"} /\ status'[x] = "created"
           /\ \/ deps'[x] = deps[x]
              \/ t \in deps[x] /\ deps'[x] = (deps[x] \ {t}) \cup {retest}
  BY <1>1, <1>3, <1>4, GraphView, InsertChanges DEF GraphInv
<1>6. QED
  BY <1>1, <1>2, <1>3, <1>4, <1>5 DEF debug, retest

\* What any step means for a task: what is completed stays so, and what failed
\* can only be cancelled while the planner is asked; a task is completed by its
\* worker, and turns to the planner from its run.  A step that inserts no
\* recovery leaves the dependencies alone and opens no task.
TaskStep ==
    /\ \A x \in TaskId :
          /\ status[x] = "completed" => status'[x] = "completed"
          /\ status[x] = "failed" =>
                \/ status'[x] = "failed"
                \/ status'[x] = "cancelled" /\ worker[x] = "planning"
          /\ status'[x] = "completed" => status[x] = "completed" \/ x \in Live
          /\ worker'[x] = "planning" => worker[x] = "planning" \/ status[x] = "running"
    /\ \/ \E t \in TaskId : RecoveryInserted(t)
       \/ /\ UNCHANGED <<deps, attempts>>
          /\ \A x \in TaskId : /\ Unsettled(x)' => Unsettled(x)
                               /\ status'[x] = "absent" <=> status[x] = "absent"

LEMMA TaskSteps ==
  ASSUME Core, [Next]_vars
  PROVE  TaskStep
<1>1. CASE UNCHANGED <<status, worker, deps, attempts>>
  BY <1>1 DEF TaskStep, Unsettled
<1>2. CASE EnterPass
  <2>1. status' = MarkReady(status, deps) /\ UNCHANGED <<worker, deps, attempts>>
    BY <1>2 DEF EnterPass
  <2>2. \A x \in TaskId : status'[x] = status[x] \/ (status[x] = "created" /\ status'[x] = "ready")
    BY <2>1, GraphView, MarkReadyKeeps DEF Core, GraphInv
  <2>3. QED
    BY <2>1, <2>2 DEF TaskStep, Unsettled
<1>3. ASSUME NEW t \in TaskId, DispatchStarts(t)
      PROVE  TaskStep
  <2>1. /\ status[t] = "ready" /\ status' = [status EXCEPT ![t] = "running"]
        /\ worker' = [worker EXCEPT ![t] = "spawned"] /\ UNCHANGED <<deps, attempts>>
    BY <1>3 DEF DispatchStarts, NextOfBatch, Core, BatchIsReady, graphVars
  <2>2. QED
    BY <2>1 DEF Core, TypeOK, TaskStep, Unsettled
<1>4. ASSUME NEW t \in TaskId, WorkerStarts(t) \/ WorkerNeverStarts(t) \/ RecoveryRejected(t)
      PROVE  TaskStep
  <2>1. /\ worker[t] \in {"spawned", "planning"}
        /\ \E w \in {"running", "dead", "none"} : worker' = [worker EXCEPT ![t] = w]
        /\ UNCHANGED <<status, deps, attempts>>
    BY <1>4 DEF WorkerStarts, WorkerNeverStarts, RecoveryRejected, Runs, Leave, graphVars
  <2>2. QED
    BY <2>1 DEF Core, TypeOK, TaskStep, Unsettled
<1>5. ASSUME NEW t \in TaskId, NEW s \in TerminalStatus, NEW w \in {"none", "planning"},
             \/ status[t] = "ready" /\ s # "completed"
             \/ worker[t] = "running"
             \/ worker[t] = "planning" /\ s = "cancelled",
             w = "planning" => s = "failed" /\ worker[t] = "running",
             status' = UpdateStatus(status, deps, t, s),
             worker' = [worker EXCEPT ![t] = w], UNCHANGED <<deps, attempts>>
      PROVE  TaskStep
  <2>1. /\ status[t] \in {"ready", "running", "failed"}
        /\ status[t] = "failed" => worker[t] = "planning" /\ s = "cancelled"
        /\ worker[t] = "running" => status[t] = "running"
    BY <1>5 DEF Core, GraphInv, StatusMatchesWorker
  <2>2. /\ status'[t] = s
        /\ \A x \in TaskId \ {t} :
             \/ status'[x] = status[x]
             \/ status[x] \in {"created", "blocked"} /\ status'[x] \in {"blocked", "cancelled"}
    BY <2>1, GraphView, UpdateChanges, <1>5 DEF Core, GraphInv
  <2>3. worker'[t] = w /\ \A x \in TaskId \ {t} : worker'[x] = worker[x]
    BY <1>5 DEF Core, TypeOK
  <2>4. s = "completed" => t \in Live
    BY <1>5 DEF Live
  <2>5. Unsettled(t)
    BY <1>5, <2>1 DEF Unsettled
  <2>6. ASSUME NEW x \in TaskId
        PROVE  /\ status[x] = "completed" => status'[x] = "completed"
               /\ status[x] = "failed" =>
                     \/ status'[x] = "failed"
                     \/ status'[x] = "cancelled" /\ worker[x] = "planning"
               /\ status'[x] = "completed" => status[x] = "completed" \/ x \in Live
               /\ worker'[x] = "planning" => worker[x] = "planning" \/ status[x] = "running"
               /\ Unsettled(x)' => Unsettled(x)
               /\ status'[x] = "absent" <=> status[x] = "absent"
    <3>1. CASE x = t
      BY <1>5, <2>1, <2>2, <2>3, <2>4, <2>5, <3>1 DEF TerminalStatus
    <3>2. CASE x # t
      BY <2>2, <2>3, <3>2 DEF Unsettled
    <3>3. QED
      BY <3>1, <3>2
  <2>7. QED
    BY <1>5, <2>6 DEF TaskStep
<1>6. ASSUME NEW t \in TaskId, DispatchFails(t)
      PROVE  TaskStep
  <2>1. status[t] = "ready" /\ worker' = worker
    BY <1>6 DEF DispatchFails, NextOfBatch, Core, BatchIsReady
  <2>2. worker' = [worker EXCEPT ![t] = "none"]
    BY <2>1 DEF Core, TypeOK, WorkerState, GraphInv, StatusMatchesWorker
  <2>3. QED
    BY <1>5, <1>6, <2>1, <2>2 DEF DispatchFails, TerminalStatus
<1>7. ASSUME NEW t \in TaskId,
             WorkerSucceeds(t) \/ WorkerFails(t) \/ WorkerAsksPlanner(t) \/ WorkerCancelled(t)
      PROVE  TaskStep
  BY <1>5, <1>7 DEF WorkerSucceeds, WorkerFails, WorkerAsksPlanner, WorkerCancelled, Runs, Leave,
     TerminalStatus
<1>8. ASSUME NEW t \in TaskId, RecoveryInserted(t)
      PROVE  TaskStep
  <2> DEFINE n == attempts[Base(t)] + 1
  <2>1. /\ worker' = [worker EXCEPT ![t] = "none"]
        /\ status'[Debug(Base(t), n)] = "created" /\ status'[Retest(Base(t), n)] = "created"
        /\ \A x \in TaskId \ {Debug(Base(t), n), Retest(Base(t), n)} :
              \/ status'[x] = status[x]
              \/ status[x] \in {"blocked", "cancelled"} /\ status'[x] = "created"
    BY <1>8, InsertEffects DEF Core
  <2>2. \A x \in TaskId : status[x] \in Started => status'[x] = status[x]
    BY <1>8, InsertStep DEF Core
  <2> HIDE DEF n
  <2>3. QED
    BY <1>8, <2>1, <2>2 DEF TaskStep, Started, Core, TypeOK
<1>9. QED
  BY <1>1, <1>2, <1>3, <1>4, <1>6, <1>7, <1>8
     DEF Next, Execute, WorkerStep, vars, graphVars, Begin, Wake, Finish, Sleep, DispatchWaits,
     CancelAll, Cancel

\* A completed task is never reopened, and a failed one only ever becomes
\* cancelled, while its planner is asked: no cascade and no unblocking turns
\* back what is done.
THEOREM SchedulerHistoryIsKept == Spec => HistoryIsKept
<1>1. IInv => Core
  BY DEF IInv, Core
<1>2. TaskStep => \A t \in TaskId :
         /\ status[t] = "completed" => status'[t] = "completed"
         /\ status[t] = "failed" =>
               \/ status'[t] = "failed"
               \/ status'[t] = "cancelled" /\ worker[t] = "planning"
  BY DEF TaskStep
<1>3. IInv /\ [Next]_vars =>
         [\A t \in TaskId :
            /\ status[t] = "completed" => status'[t] = "completed"
            /\ status[t] = "failed" =>
                  \/ status'[t] = "failed"
                  \/ status'[t] = "cancelled" /\ worker[t] = "planning"]_vars
  BY <1>1, <1>2, TaskSteps
<1>4. QED
  BY <1>3, SchedulerInvariant, PTL DEF Spec, HistoryIsKept

\* Once execute() runs, nothing starts after cancel_all().
THEOREM SchedulerNoStartAfterCancelAll == Spec => NoStartAfterCancelAll
<1> DEFINE A == pc # "idle" /\ ~isRunning =>
                   \A t \in TaskId : status[t] # "running" => status'[t] # "running"
<1>1. ASSUME IInv, [Next]_vars
      PROVE  A
  <2> SUFFICES ASSUME pc # "idle", ~isRunning, NEW t \in TaskId, status[t] # "running"
               PROVE  status'[t] # "running"
    OBVIOUS
  <2>1. worker[t] \in {"none", "planning"} /\ worker \in [TaskId -> WorkerState]
    BY <1>1 DEF IInv, TypeOK, WorkerState, GraphInv, StatusMatchesWorker
  <2>2. pc # "dispatch"
    BY <1>1 DEF IInv, DispatchRuns
  <2>3. worker'[t] \in {"none", "planning"}
    BY <1>1, <2>1, <2>2 DEF Next, Execute, WorkerStep, vars, Begin, Wake, EnterPass, Finish,
       Sleep, DispatchWaits, DispatchFails, DispatchStarts, NextOfBatch, CancelAll, Cancel,
       WorkerStarts, WorkerSucceeds, WorkerFails, WorkerAsksPlanner, RecoveryInserted,
       RecoveryRejected, WorkerCancelled, WorkerNeverStarts, Runs, Leave
  <2>4. StatusMatchesWorker'
    BY <1>1, IInvStep DEF IInv, GraphInv
  <2>5. QED
    BY <2>3, <2>4 DEF StatusMatchesWorker
<1>2. QED
  BY <1>1, SchedulerInvariant, PTL DEF Spec, NoStartAfterCancelAll

-----------------------------------------------------------------------------
(* The lock table alone, for any use of the methods of WorkspaceLockManager, *)
(* and the scheduler's use of it.                                            *)

\* The lock table keeps its type: every method leaves each task with a set of
\* resources.
THEOREM LocksTypeCorrect == LockManager!Spec => []LockManager!TypeOK
<1>1. LockManager!Init => LockManager!TypeOK
  BY DEF LockManager!Init, LockManager!TypeOK
<1>2. LockManager!TypeOK /\ [LockManager!Next]_locks => LockManager!TypeOK'
  BY DEF LockManager!TypeOK, LockManager!Next, LockManager!Acquire, LockManager!Release,
         LockManager!ReleaseAll
<1>3. QED
  BY <1>1, <1>2, PTL DEF LockManager!Spec

\* acquire never grants what conflicts with a resource another task holds, and
\* release and release_all only shrink the table: two tasks never hold
\* resources that conflict.  Symmetry of the conflict test is needed, because
\* acquire compares the new resource with the old ones in one order only.
THEOREM LocksExclusion ==
    ASSUME LockManager!ConflictsAreMutual
    PROVE  LockManager!Spec => []LockManager!Exclusion
<1>1. LockManager!Init => LockManager!Exclusion
  BY DEF LockManager!Init, LockManager!Exclusion
<1>2. ASSUME LockManager!TypeOK, LockManager!Exclusion, [LockManager!Next]_locks
      PROVE  LockManager!Exclusion'
  <2>1. CASE UNCHANGED locks
    BY <1>2, <2>1 DEF LockManager!Exclusion
  <2>2. ASSUME NEW t \in TaskId, NEW rs \in SUBSET Resource, LockManager!Acquire(t, rs)
        PROVE  LockManager!Exclusion'
    <3> SUFFICES ASSUME NEW u \in TaskId, NEW v \in TaskId, u # v,
                        NEW r \in locks'[u], NEW s \in locks'[v]
                 PROVE  <<r, s>> \notin Conflicts
      BY DEF LockManager!Exclusion
    <3>1. locks' = [locks EXCEPT ![t] = locks[t] \cup rs] /\ LockManager!Free(t, rs)
      BY <2>2 DEF LockManager!Acquire
    <3>2. locks'[u] \subseteq Resource /\ locks'[v] \subseteq Resource
      BY <1>2, <3>1 DEF LockManager!TypeOK
    <3>3. CASE u = t /\ r \in rs
      BY <1>2, <3>1, <3>3 DEF LockManager!Free, LockManager!TypeOK
    <3>4. CASE v = t /\ s \in rs
      <4>1. <<s, r>> \notin Conflicts
        BY <1>2, <3>1, <3>4 DEF LockManager!Free, LockManager!TypeOK
      <4>2. QED
        BY <4>1, <3>2 DEF LockManager!ConflictsAreMutual
    <3>5. CASE ~(u = t /\ r \in rs) /\ ~(v = t /\ s \in rs)
      <4>1. r \in locks[u] /\ s \in locks[v]
        BY <1>2, <3>1, <3>5 DEF LockManager!TypeOK
      <4>2. QED
        BY <1>2, <4>1 DEF LockManager!Exclusion
    <3>6. QED
      BY <3>3, <3>4, <3>5
  <2>3. ASSUME NEW t \in TaskId, NEW rs \in SUBSET Resource, LockManager!Release(t, rs)
        PROVE  LockManager!Exclusion'
    BY <1>2, <2>3 DEF LockManager!Exclusion, LockManager!TypeOK, LockManager!Release
  <2>4. ASSUME NEW S \in SUBSET TaskId, LockManager!ReleaseAll(S)
        PROVE  LockManager!Exclusion'
    BY <1>2, <2>4 DEF LockManager!Exclusion, LockManager!TypeOK, LockManager!ReleaseAll
  <2>5. QED
    BY <1>2, <2>1, <2>2, <2>3, <2>4 DEF LockManager!Next
<1>3. QED
  BY <1>1, <1>2, LocksTypeCorrect, PTL DEF LockManager!Spec

\* The scheduler uses its lock table as the methods of WorkspaceLockManager
\* allow: the lock table, seen alone, behaves like WorkspaceLocks.
THEOREM SchedulerManagesLocks == Spec => LocksAreManaged
<1>1. Init => LockManager!Init
  BY DEF Init, LockManager!Init
<1>2. ASSUME IInv, [Next]_vars
      PROVE  [LockManager!Next]_locks
  <2>1. CASE UNCHANGED locks
    BY <2>1
  <2>2. ASSUME NEW t \in TaskId, DispatchFails(t) \/ DispatchStarts(t)
        PROVE  [LockManager!Next]_locks
    <3>1. Free(t) /\ locks' = [locks EXCEPT ![t] = @ \cup Requested(t)]
      BY <2>2 DEF DispatchFails, DispatchStarts
    <3>2. Requested(t) \in SUBSET Resource
      BY SchedulerAssumption, TaskIdFacts DEF Requested
    <3>3. CASE Requested(t) = {}
      <4>1. locks' = locks
        BY <3>1, <3>3, <1>2 DEF IInv, TypeOK
      <4>2. QED
        BY <4>1
    <3>4. CASE Requested(t) # {}
      <4>1. LockManager!Acquire(t, Requested(t))
        BY <3>1, <3>4 DEF LockManager!Acquire, LockManager!Free, Free
      <4>2. QED
        BY <4>1, <3>2 DEF LockManager!Next
    <3>5. QED
      BY <3>3, <3>4
  <2>3. ASSUME NEW t \in TaskId, locks' = [locks EXCEPT ![t] = {}]
        PROVE  [LockManager!Next]_locks
    <3>1. LockManager!ReleaseAll({t})
      BY <2>3, <1>2 DEF LockManager!ReleaseAll, IInv, TypeOK
    <3>2. QED
      BY <3>1 DEF LockManager!Next
  <2>4. QED
    BY <1>2, <2>1, <2>2, <2>3 DEF Next, Execute, WorkerStep, vars, Begin, Wake, EnterPass, Finish,
       Sleep, DispatchWaits, CancelAll, Cancel, WorkerStarts, WorkerSucceeds, WorkerFails,
       WorkerAsksPlanner, RecoveryInserted, RecoveryRejected, WorkerCancelled,
       WorkerNeverStarts, Leave
<1>3. QED
  BY <1>1, <1>2, SchedulerInvariant, PTL DEF Spec, LocksAreManaged, LockManager!Spec

-----------------------------------------------------------------------------
(* Progress: what keeps execute() from polling for ever.  That it returns is a *)
(* liveness property; this is the part of it that is a matter of states.       *)

(* validate() accepted the plan: its tasks can be numbered in order.           *)
PlanIsAcyclic ==
  \E r \in [BaseTask -> Nat] : \A b \in BaseTask : \A c \in BaseDeps[b] : r[c] < r[b]

(* So can the tasks of the graph at any time.                                  *)
GraphIsAcyclic ==
  \E r \in [TaskId -> Nat] : \A x \in TaskId : \A d \in deps[x] : r[d] < r[x]

(* A task that is not there yet waits for nothing.                             *)
AbsentIsFree == \A x \in TaskId : status[x] = "absent" => deps[x] = {}

(* What is locked is locked by a worker, or by a task that failed for want of  *)
(* an agent: _run_worker never ran for it and released nothing.                *)
LocksAreOwned ==
  \A t \in TaskId : locks[t] # {} => t \in Active \/ status[t] = "failed"

\* A recovery keeps the graph free of cycles: of three numbers for each old one,
\* the debug task and the retest take the two behind that of the failed task.
LEMMA AcyclicStep ==
  ASSUME Core, AbsentIsFree, GraphIsAcyclic, [Next]_vars
  PROVE  AbsentIsFree' /\ GraphIsAcyclic'
<1>1. TaskStep
  BY TaskSteps
<1>2. ASSUME UNCHANGED deps, \A x \in TaskId : status'[x] = "absent" <=> status[x] = "absent"
      PROVE  AbsentIsFree' /\ GraphIsAcyclic'
  BY <1>2 DEF AbsentIsFree, GraphIsAcyclic
<1>3. ASSUME NEW t \in TaskId, RecoveryInserted(t)
      PROVE  AbsentIsFree' /\ GraphIsAcyclic'
  <2> DEFINE n == attempts[Base(t)] + 1
             debug == Debug(Base(t), n)
             retest == Retest(Base(t), n)
  <2>1. /\ Base(t) \in BaseTask /\ n \in 1..MaxAttempts /\ status[t] = "failed"
        /\ status[debug] = "absent" /\ status[retest] = "absent"
        /\ status'[debug] = "created" /\ status'[retest] = "created"
        /\ deps'[debug] = deps[t] /\ deps'[retest] = {debug}
        /\ \A x \in TaskId \ {debug, retest} :
             /\ \/ status'[x] = status[x]
                \/ status[x] \in {"blocked", "cancelled"} /\ status'[x] = "created"
             /\ \/ deps'[x] = deps[x]
                \/ t \in deps[x] /\ deps'[x] = (deps[x] \ {t}) \cup {retest}
    BY <1>3, InsertEffects DEF Core
  <2>2. debug \in TaskId /\ retest \in TaskId /\ debug # retest
    BY <2>1, TaskIdFacts
  <2> HIDE DEF n, debug, retest
  <2>3. t \notin {debug, retest}
    BY <2>1
  <2>4. \A x \in TaskId : deps[x] \subseteq TaskId
    BY DEF Core, TypeOK
  <2>5. \A x \in TaskId : debug \notin deps[x] /\ retest \notin deps[x]
    BY <2>1, <2>2 DEF AbsentIsFree, Core, GraphInv, DepsInGraph
  <2>6. AbsentIsFree'
    <3> SUFFICES ASSUME NEW x \in TaskId, status'[x] = "absent" PROVE deps'[x] = {}
      BY DEF AbsentIsFree
    <3>1. x \in TaskId \ {debug, retest} /\ status[x] = "absent"
      BY <2>1
    <3>2. QED
      BY <2>1, <3>1 DEF AbsentIsFree
  <2>7. PICK r \in [TaskId -> Nat] : \A x \in TaskId : \A d \in deps[x] : r[d] < r[x]
    BY DEF GraphIsAcyclic
  <2> DEFINE q == [x \in TaskId |-> IF x = debug THEN 3 * r[t] + 1
                                    ELSE IF x = retest THEN 3 * r[t] + 2 ELSE 3 * r[x]]
  <2>8. q \in [TaskId -> Nat]
    OBVIOUS
  <2>9. ASSUME NEW x \in TaskId, NEW d \in deps'[x]
        PROVE  q[d] < q[x]
    <3>1. CASE x = debug
      <4>1. d \in deps[t] /\ d \in TaskId /\ d \notin {debug, retest}
        BY <2>1, <2>4, <2>5, <2>9, <3>1
      <4>2. r[d] < r[t] /\ r[d] \in Nat /\ r[t] \in Nat
        BY <2>7, <4>1
      <4>3. q[x] = 3 * r[t] + 1 /\ q[d] = 3 * r[d]
        BY <3>1, <4>1
      <4>4. QED
        BY <4>2, <4>3
    <3>2. CASE x = retest
      <4>1. d = debug
        BY <2>1, <2>9, <3>2
      <4>2. q[x] = 3 * r[t] + 2 /\ q[d] = 3 * r[t] + 1 /\ r[t] \in Nat
        BY <2>2, <3>2, <4>1
      <4>3. QED
        BY <4>2
    <3>3. CASE x \notin {debug, retest}
      <4>1. q[x] = 3 * r[x] /\ r[x] \in Nat
        BY <3>3
      <4>2. CASE d \in deps[x]
        <5>1. d \in TaskId /\ d \notin {debug, retest}
          BY <2>4, <2>5, <4>2
        <5>2. r[d] < r[x] /\ r[d] \in Nat /\ q[d] = 3 * r[d]
          BY <2>7, <4>2, <5>1
        <5>3. QED
          BY <4>1, <5>2
      <4>3. CASE d \notin deps[x]
        <5>1. t \in deps[x] /\ d = retest
          BY <2>1, <2>9, <3>3, <4>3
        <5>2. r[t] < r[x] /\ r[t] \in Nat /\ q[d] = 3 * r[t] + 2
          BY <2>2, <2>7, <5>1
        <5>3. QED
          BY <4>1, <5>2
      <4>4. QED
        BY <4>2, <4>3
    <3>4. QED
      BY <3>1, <3>2, <3>3
  <2> HIDE DEF q
  <2>10. GraphIsAcyclic'
    BY <2>8, <2>9 DEF GraphIsAcyclic
  <2>11. QED
    BY <2>6, <2>10
<1>4. QED
  BY <1>1, <1>2, <1>3 DEF TaskStep

\* What a step of a worker changes, whichever it is.
LEMMA WorkerStepChanges ==
  ASSUME TypeOK, NEW t \in TaskId, WorkerStep(t)
  PROVE  /\ worker' \in [TaskId -> WorkerState]
         /\ \A u \in TaskId \ {t} : worker'[u] = worker[u]
         /\ t \in Live
         /\ \A u \in TaskId : locks'[u] \subseteq locks[u]
         /\ cancelReq \ {t} \subseteq cancelReq' /\ cancelReq' \subseteq cancelReq
         /\ t \in cancelReq => worker'[t] \in {"none", "dead"}
         /\ worker[t] = "planning" => worker'[t] = "none"
<1>1. /\ worker'[t] \in {"running", "none", "planning", "dead"}
      /\ worker' = [worker EXCEPT ![t] = worker'[t]]
  BY DEF TypeOK, WorkerStep, WorkerStarts, WorkerSucceeds, WorkerFails, WorkerAsksPlanner,
     RecoveryInserted, RecoveryRejected, WorkerCancelled, WorkerNeverStarts, Leave
<1>2. worker' \in [TaskId -> WorkerState] /\ \A u \in TaskId \ {t} : worker'[u] = worker[u]
  BY <1>1 DEF TypeOK, WorkerState
<1>3. locks' = locks \/ locks' = [locks EXCEPT ![t] = {}]
  BY DEF WorkerStep, WorkerStarts, WorkerSucceeds, WorkerFails, WorkerAsksPlanner,
     RecoveryInserted, RecoveryRejected, WorkerCancelled, WorkerNeverStarts, Leave
<1>4. \A u \in TaskId : locks'[u] \subseteq locks[u]
  BY <1>3 DEF TypeOK
<1>5. cancelReq' = cancelReq \/ cancelReq' = cancelReq \ {t}
  BY DEF WorkerStep, WorkerStarts, WorkerSucceeds, WorkerFails, WorkerAsksPlanner,
     RecoveryInserted, RecoveryRejected, WorkerCancelled, WorkerNeverStarts, Leave
<1>6. t \in Live
  BY DEF WorkerStep, WorkerStarts, WorkerSucceeds, WorkerFails, WorkerAsksPlanner,
     RecoveryInserted, RecoveryRejected, WorkerCancelled, WorkerNeverStarts, Runs, Live
<1>7. t \in cancelReq => worker'[t] \in {"none", "dead"}
  BY DEF TypeOK, WorkerStep, WorkerStarts, WorkerSucceeds, WorkerFails, WorkerAsksPlanner,
     RecoveryInserted, RecoveryRejected, WorkerCancelled, WorkerNeverStarts, Runs, Leave
<1>8. worker[t] = "planning" => worker'[t] = "none"
  BY DEF TypeOK, WorkerStep, WorkerStarts, WorkerSucceeds, WorkerFails, WorkerAsksPlanner,
     RecoveryInserted, RecoveryRejected, WorkerCancelled, WorkerNeverStarts, Runs, Leave
<1>9. QED
  BY <1>2, <1>4, <1>5, <1>6, <1>7, <1>8

\* Every lock has an owner that will give it up, or that failed without agent.
LEMMA OwnedStep ==
  ASSUME Core, LocksAreOwned, [Next]_vars
  PROVE  LocksAreOwned'
<1>1. TaskStep
  BY TaskSteps
<1>2. ASSUME NEW t \in TaskId, t \notin Active, status[t] = "failed"
      PROVE  status'[t] = "failed"
  BY <1>1, <1>2 DEF TaskStep, Active
<1>3. CASE UNCHANGED <<locks, worker>>
  BY <1>2, <1>3 DEF LocksAreOwned, Active
<1>4. ASSUME NEW t \in TaskId, DispatchFails(t)
      PROVE  LocksAreOwned'
  <2>1. status[t] = "ready" /\ status' = UpdateStatus(status, deps, t, "failed")
    BY <1>4 DEF DispatchFails, NextOfBatch, Core, BatchIsReady
  <2>2. status'[t] = "failed"
    <3>1. GraphType(TaskId, status, deps) /\ OrderKept(TaskId, status, deps)
      BY GraphView DEF Core, GraphInv
    <3>2. "failed" \in TerminalStatus /\ status[t] \in {"ready", "running", "failed"}
      BY <2>1 DEF TerminalStatus
    <3>3. QED
      BY <2>1, <3>1, <3>2, UpdateChanges
  <2>3. worker' = worker /\ \A u \in TaskId \ {t} : locks'[u] = locks[u]
    BY <1>4 DEF DispatchFails, Core, TypeOK
  <2>4. QED
    BY <1>2, <2>2, <2>3 DEF LocksAreOwned, Active
<1>5. ASSUME NEW t \in TaskId, DispatchStarts(t)
      PROVE  LocksAreOwned'
  <2>1. /\ worker'[t] = "spawned"
        /\ \A u \in TaskId \ {t} : worker'[u] = worker[u] /\ locks'[u] = locks[u]
    BY <1>5 DEF DispatchStarts, Core, TypeOK
  <2>2. QED
    BY <1>2, <2>1 DEF LocksAreOwned, Active
<1>6. ASSUME NEW t \in TaskId, WorkerStep(t)
      PROVE  LocksAreOwned'
  <2>1. /\ \A u \in TaskId \ {t} : worker'[u] = worker[u]
        /\ \A u \in TaskId : locks'[u] \subseteq locks[u]
    BY <1>6, WorkerStepChanges DEF Core
  <2>2. worker'[t] # "none" \/ locks'[t] = {}
    BY <1>6 DEF Core, TypeOK, WorkerStep, WorkerStarts, WorkerSucceeds, WorkerFails, WorkerAsksPlanner,
       RecoveryInserted, RecoveryRejected, WorkerCancelled, WorkerNeverStarts, Leave
  <2>3. ASSUME NEW u \in TaskId, locks'[u] # {}
        PROVE  worker'[u] # "none" \/ status'[u] = "failed"
    <3>1. CASE u = t
      BY <2>2, <2>3, <3>1
    <3>2. CASE u # t
      <4>1. locks[u] # {} /\ worker'[u] = worker[u]
        BY <2>1, <2>3, <3>2
      <4>2. QED
        BY <1>2, <4>1 DEF LocksAreOwned, Active
    <3>3. QED
      BY <3>1, <3>2
  <2>4. QED
    BY <2>3 DEF LocksAreOwned, Active
<1>7. QED
  BY <1>3, <1>4, <1>5, <1>6 DEF Next, Execute, vars, Begin, Wake, EnterPass, Finish, Sleep,
     DispatchWaits, CancelAll, Cancel

\* Of the tasks that are left, one with the least number waits for nothing.
LEMMA LeastIsReady ==
  ASSUME Core, GraphIsAcyclic, Active = {}, ~IsComplete(status),
         \A t \in TaskId : status[t] \notin TerminalStatus =>
            \A d \in deps[t] : status[d] \notin {"failed", "cancelled"}
  PROVE  \E t \in TaskId : status[t] = "ready" \/ Ready(status, deps, t)
<1>1. PICK r \in [TaskId -> Nat] : \A x \in TaskId : \A d \in deps[x] : r[d] < r[x]
  BY DEF GraphIsAcyclic
<1> DEFINE Open == {x \in TaskId : status[x] \notin {"absent"} \cup TerminalStatus}
           Ranks == {r[x] : x \in Open}
<1>2. \E x \in Open : TRUE
  BY DEF IsComplete, TasksOf, TerminalStatus, Core, TypeOK
<1>3. Ranks \subseteq Nat /\ Ranks # {}
  BY <1>1, <1>2
<1>4. PICK m \in Ranks : \A k \in Ranks : ~(k < m)
  <2> HIDE DEF Ranks
  <2>1. PICK m \in Ranks : ~ \E k \in Ranks : <<k, m>> \in OpToRel(<, Nat)
    BY <1>3, NatLessThanWellFounded, WFMin
  <2>2. QED
    BY <2>1, <1>3 DEF OpToRel
<1>5. PICK t \in Open : r[t] = m
  OBVIOUS
<1>6. deps[t] \subseteq TaskId /\ \A d \in deps[t] : status[d] # "absent"
  BY DEF Core, TypeOK, GraphInv, DepsInGraph
<1>7. \A d \in deps[t] : status[d] = "completed"
  <2> SUFFICES ASSUME NEW d \in deps[t], status[d] # "completed" PROVE FALSE
    OBVIOUS
  <2>1. d \in Open
    BY <1>6 DEF TerminalStatus
  <2>2. r[d] < m /\ r[d] \in Ranks
    BY <1>1, <1>5, <2>1
  <2>3. QED
    BY <1>4, <2>2
<1>8. status[t] # "running"
  BY DEF Active, Core, GraphInv, StatusMatchesWorker
<1>9. status[t] # "blocked"
  BY <1>7 DEF Core, GraphInv, BlockedHasCause
<1>10. status[t] \in {"created", "ready"}
  BY <1>8, <1>9 DEF Core, TypeOK, Status, TaskStatus, LiveStatus, TerminalStatus
<1>11. QED
  BY <1>7, <1>10 DEF Ready

\* Recoveries never close a cycle in the graph (insert_recovery_sequence adds
\* edges after validate() has looked), and execute() never sleeps over an unfinished
\* graph without a task it can start, be it for order or for locks, unless a task
\* waits for one that failed or was cancelled, or a failed one has kept its locks.
THEOREM SchedulerNeverStuck ==
  ASSUME PlanIsAcyclic
  PROVE  Spec => [](GraphIsAcyclic /\ NeverStuck)
<1> DEFINE Inv == AbsentIsFree /\ GraphIsAcyclic /\ LocksAreOwned
<1>1. ASSUME Init PROVE Inv
  <2>1. AbsentIsFree
    BY <1>1 DEF Init, AbsentIsFree
  <2>2. LocksAreOwned
    BY <1>1 DEF Init, LocksAreOwned
  <2>3. GraphIsAcyclic
    <3>1. PICK r \in [BaseTask -> Nat] : \A b \in BaseTask : \A c \in BaseDeps[b] : r[c] < r[b]
      BY DEF PlanIsAcyclic
    <3> DEFINE q == [x \in TaskId |-> r[Base(x)]]
    <3>2. q \in [TaskId -> Nat]
      BY TaskIdFacts
    <3>3. ASSUME NEW x \in TaskId, NEW d \in deps[x]
          PROVE  q[d] < q[x]
      <4>1. deps[x] = IF x[2] = "task" THEN {Planned(b) : b \in BaseDeps[Base(x)]} ELSE {}
        BY <1>1 DEF Init
      <4>2. PICK c \in BaseDeps[Base(x)] : d = Planned(c)
        BY <3>3, <4>1
      <4>3. Base(x) \in BaseTask /\ c \in BaseTask
        BY TaskIdFacts, SchedulerAssumption
      <4>4. d \in TaskId /\ Base(d) = c
        BY <4>2, <4>3, TaskIdFacts DEF Base, Planned
      <4>5. q[d] = r[c] /\ q[x] = r[Base(x)]
        BY <4>4
      <4>6. QED
        BY <3>1, <4>3, <4>5
    <3> HIDE DEF q
    <3>4. QED
      BY <3>2, <3>3 DEF GraphIsAcyclic
  <2>4. QED
    BY <2>1, <2>2, <2>3
<1>2. ASSUME IInv, Inv, [Next]_vars PROVE Inv'
  BY <1>2, AcyclicStep, OwnedStep DEF IInv, Core
<1>3. ASSUME IInv, Inv PROVE GraphIsAcyclic /\ NeverStuck
  <2> SUFFICES ASSUME Active = {}, ~IsComplete(status),
                      \A t \in TaskId : status[t] \notin TerminalStatus =>
                         \A d \in deps[t] : status[d] \notin {"failed", "cancelled"},
                      \A t \in TaskId : status[t] = "failed" => locks[t] = {}
               PROVE  \E t \in TaskId : (status[t] = "ready" \/ Ready(status, deps, t)) /\ Free(t)
    BY <1>3 DEF NeverStuck
  <2>1. PICK t \in TaskId : status[t] = "ready" \/ Ready(status, deps, t)
    BY <1>3, LeastIsReady DEF IInv, Core
  <2>2. \A u \in TaskId : locks[u] = {}
    BY <1>3 DEF LocksAreOwned
  <2>3. QED
    BY <2>1, <2>2 DEF Free
<1>4. QED
  BY <1>1, <1>2, <1>3, SchedulerInvariant, PTL DEF Spec

-----------------------------------------------------------------------------
(* The files behind the locks.                                             *)

\* What a path or pattern says of a file it covers: the file lies below all its
\* parts, or below all but the last, which is only the beginning of a name.
LEMMA CoveredLiesBelow ==
  ASSUME NEW x, IsResource(x), NEW f \in Seq(Name), f \in Covers(x, Files)
  PROVE  /\ x.wild # "within" => IsPrefix(x.path, f)
         /\ x.wild = "within" => Len(f) >= Len(x.path) /\ IsPrefix(Front(x.path), f)
<1>1. CASE x.wild = "within"
  BY <1>1 DEF Covers
<1>2. CASE x.wild # "within"
  BY <1>2 DEF IsResource, Covers, IsStrictPrefix
<1>3. QED
  BY <1>1, <1>2

\* What being a prefix says part by part.
LEMMA PrefixByParts ==
  ASSUME NEW p \in Seq(Name), NEW q \in Seq(Name)
  PROVE  IsPrefix(p, q) <=> Len(p) <= Len(q) /\ \A i \in 1..Len(p) : p[i] = q[i]
<1>1. ASSUME IsPrefix(p, q)
      PROVE  Len(p) <= Len(q) /\ \A i \in 1..Len(p) : p[i] = q[i]
  <2>1. Len(p) \in Nat /\ Len(q) \in Nat /\ Len(p) <= Len(q)
    BY <1>1 DEF IsPrefix
  <2>2. \A i \in 1..Len(p) : SubSeq(p, 1, Len(p))[i] = p[i] /\ SubSeq(q, 1, Len(p))[i] = q[i]
    BY <2>1
  <2>3. QED
    BY <1>1, <2>1, <2>2 DEF IsPrefix
<1>2. ASSUME Len(p) <= Len(q), \A i \in 1..Len(p) : p[i] = q[i]
      PROVE  IsPrefix(p, q)
  <2>1. SubSeq(p, 1, Len(p)) = p /\ SubSeq(q, 1, Len(p)) = p
    BY <1>2
  <2>2. QED
    BY <1>2, <2>1 DEF IsPrefix
<1>3. QED
  BY <1>1, <1>2

\* The length SubSeqProperties gives, simplified.
LEMMA LenLessOne ==
  ASSUME NEW n \in Nat, n # 0
  PROVE  (IF 1 <= n - 1 THEN n - 1 - 1 + 1 ELSE 0) = n - 1
  OBVIOUS

\* All parts but the last.
LEMMA FrontAndLast ==
  ASSUME NEW p \in Seq(Name), p # <<>>
  PROVE  /\ Front(p) \in Seq(Name) /\ Len(Front(p)) = Len(p) - 1
         /\ \A i \in 1..(Len(p) - 1) : Front(p)[i] = p[i]
         /\ Last(p) = p[Len(p)] /\ Len(p) >= 1
<1>1. Len(p) \in Nat /\ Len(p) # 0
  OBVIOUS
<1>2. \A i \in 1..(Len(p) - 1) : p[i] \in Name
  BY <1>1
<1>3. /\ SubSeq(p, 1, Len(p) - 1) \in Seq(Name)
      /\ Len(SubSeq(p, 1, Len(p) - 1)) = IF 1 <= Len(p) - 1 THEN Len(p) - 1 - 1 + 1 ELSE 0
      /\ \A i \in 1..(Len(p) - 1 - 1 + 1) : SubSeq(p, 1, Len(p) - 1)[i] = p[1 + i - 1]
  BY <1>1, <1>2, SubSeqProperties
<1>4. Len(SubSeq(p, 1, Len(p) - 1)) = Len(p) - 1
  BY <1>1, <1>3, Zenon, LenLessOne
<1>5. ASSUME NEW i \in 1..(Len(p) - 1)
      PROVE  SubSeq(p, 1, Len(p) - 1)[i] = p[i]
  BY <1>1, <1>3
<1>6. QED
  BY <1>1, <1>3, <1>4, <1>5 DEF Front, Last

\* A pattern x with its wildcard inside a part, and a path or pattern y that goes
\* at least as far and lies below the same parts: one test or the other finds y.
LEMMA StemIsSeenOrOverlooked ==
  ASSUME NEW x, IsResource(x), x.wild = "within",
         NEW y, IsResource(y), Len(y.path) >= Len(x.path),
         \A i \in 1..(Len(x.path) - 1) : x.path[i] = y.path[i]
  PROVE  Comparable(x.path, y.path) \/ Overlooked(x, y)
<1>1. x.path \in Seq(Name) /\ x.path # <<>> /\ y.path \in Seq(Name)
  BY DEF IsResource
<1> DEFINE n == Len(x.path)
<1>2. /\ Front(x.path) \in Seq(Name) /\ Len(Front(x.path)) = n - 1
      /\ \A i \in 1..(n - 1) : Front(x.path)[i] = x.path[i]
      /\ Last(x.path) = x.path[n] /\ n \in Nat /\ n >= 1
  BY <1>1, FrontAndLast
<1>3. IsPrefix(Front(x.path), y.path)
  BY <1>1, <1>2, PrefixByParts
<1>4. CASE y.path[n] = Last(x.path)
  <2>1. \A i \in 1..n : x.path[i] = y.path[i]
    BY <1>2, <1>4
  <2>2. QED
    BY <1>1, <2>1, PrefixByParts DEF Comparable
<1>5. CASE y.path[n] # Last(x.path)
  BY <1>3, <1>5 DEF Overlooked
<1>6. QED
  BY <1>4, <1>5

\* The parts of a resource that a file it covers has: all, or all but the last.
LEMMA CoveredParts ==
  ASSUME NEW x, IsResource(x), NEW f \in Seq(Name), f \in Covers(x, Files)
  PROVE  /\ x.path \in Seq(Name) /\ Len(f) >= Len(x.path)
         /\ \A i \in 1..(Len(x.path) - 1) : x.path[i] = f[i]
         /\ x.wild # "within" => \A i \in 1..Len(x.path) : x.path[i] = f[i]
<1>1. x.path \in Seq(Name) /\ Len(x.path) \in Nat /\ Len(f) \in Nat
  BY DEF IsResource
<1>2. CASE x.wild # "within"
  BY <1>1, <1>2, CoveredLiesBelow, PrefixByParts
<1>3. CASE x.wild = "within"
  <2>1. x.path # <<>>
    BY <1>3 DEF IsResource
  <2>2. Len(f) >= Len(x.path) /\ IsPrefix(Front(x.path), f)
    BY <1>3, CoveredLiesBelow
  <2>3. QED
    BY <1>1, <1>3, <2>1, <2>2, FrontAndLast, PrefixByParts
<1>4. QED
  BY <1>2, <1>3

\* Two resources that share a file, the one with fewer parts first.
LEMMA SharingIsSeen ==
  ASSUME NEW x, NEW y, IsResource(x), IsResource(y), Len(x.path) <= Len(y.path),
         NEW f \in Seq(Name), f \in Covers(x, Files), f \in Covers(y, Files)
  PROVE  Comparable(x.path, y.path) \/ Overlooked(x, y) \/ Overlooked(y, x)
<1>1. /\ x.path \in Seq(Name) /\ Len(f) >= Len(x.path)
      /\ \A i \in 1..(Len(x.path) - 1) : x.path[i] = f[i]
      /\ x.wild # "within" => \A i \in 1..Len(x.path) : x.path[i] = f[i]
  BY CoveredParts
<1>2. /\ y.path \in Seq(Name) /\ Len(f) >= Len(y.path)
      /\ \A i \in 1..(Len(y.path) - 1) : y.path[i] = f[i]
      /\ y.wild # "within" => \A i \in 1..Len(y.path) : y.path[i] = f[i]
  BY CoveredParts
<1>3. Len(x.path) \in Nat /\ Len(y.path) \in Nat
  BY <1>1, <1>2
<1>4. \A i \in 1..(Len(x.path) - 1) : x.path[i] = y.path[i]
  BY <1>1, <1>2, <1>3
<1>5. CASE x.wild = "within"
  BY <1>4, <1>5, StemIsSeenOrOverlooked
<1>6. CASE x.wild # "within" /\ (Len(x.path) < Len(y.path) \/ y.wild # "within")
  <2>1. \A i \in 1..Len(x.path) : x.path[i] = y.path[i]
    BY <1>1, <1>2, <1>3, <1>6
  <2>2. QED
    BY <1>1, <1>2, <2>1, PrefixByParts DEF Comparable
<1>7. CASE y.wild = "within" /\ Len(y.path) = Len(x.path)
  <2>1. \A i \in 1..(Len(y.path) - 1) : y.path[i] = x.path[i]
    BY <1>4, <1>7
  <2>2. Comparable(y.path, x.path) \/ Overlooked(y, x)
    BY <1>3, <1>7, <2>1, StemIsSeenOrOverlooked
  <2>3. QED
    BY <2>2 DEF Comparable
<1>8. QED
  BY <1>3, <1>5, <1>6, <1>7

\* The test of the lock manager finds every pair of resources that share a file,
\* but for those it overlooks.
LEMMA SharingConflicts ==
  ASSUME NEW r \in Resource, NEW s \in Resource, r.mode = "write",
         NEW f \in Covers(r, Files) \cap Covers(s, Files)
  PROVE  <<r, s>> \in Conflicts \/ Overlooked(r, s) \/ Overlooked(s, r)
<1>1. IsResource(r) /\ IsResource(s)
  BY FilesAssumption
<1>2. f \in Seq(Name)
  BY <1>1, FilesAssumption DEF Covers, IsResource
<1>3. Len(r.path) \in Nat /\ Len(s.path) \in Nat
  BY <1>1 DEF IsResource
<1>4. CASE Len(r.path) <= Len(s.path)
  BY <1>1, <1>2, <1>4, SharingIsSeen, FilesAssumption DEF IsConflict
<1>5. CASE Len(s.path) <= Len(r.path)
  <2>1. Comparable(s.path, r.path) \/ Overlooked(s, r) \/ Overlooked(r, s)
    BY <1>1, <1>2, <1>5, SharingIsSeen
  <2>2. QED
    BY <2>1, FilesAssumption DEF IsConflict, Comparable
<1>6. QED
  BY <1>3, <1>4, <1>5

\* Workers that hold what their tasks ask for share no file but by what the test
\* overlooks.
LEMMA LocksGuardFiles ==
  ASSUME TypeOK, LockInv
  PROVE  NoSharedFile
<1> SUFFICES ASSUME NEW t \in Live, NEW u \in Live, t # u,
                    NEW r \in Requested(t), NEW s \in Requested(u), r.mode = "write",
                    NEW f \in Covers(r, Files) \cap Covers(s, Files)
             PROVE  Overlooked(r, s) \/ Overlooked(s, r)
  BY DEF NoSharedFile
<1>1. t \in TaskId /\ u \in TaskId
  BY DEF Live
<1>2. r \in locks[t] /\ s \in locks[u]
  BY DEF LockInv, LiveWorkersHoldLocks
<1>3. r \in Resource /\ s \in Resource
  BY <1>1, <1>2 DEF TypeOK
<1>4. <<r, s>> \notin Conflicts
  BY <1>1, <1>2 DEF LockInv, LockExclusion
<1>5. QED
  BY <1>3, <1>4, SharingConflicts

\* Two agents never work on one file at once, one of them writing it, but by a
\* pattern whose wildcard is inside a part: what the workspace locks are for
\* (agents/locks.py), and all that their test overlooks, for every plan.
THEOREM SchedulerNoSharedFile == Spec => []NoSharedFile
<1>1. IInv => NoSharedFile
  BY LocksGuardFiles DEF IInv, LockInv
<1>2. QED
  BY <1>1, SchedulerInvariant, PTL

-----------------------------------------------------------------------------
(* The runtime around it.                                                  *)

(* Where execute() is, and what may still move, in each phase of the run. *)
Control ==
  /\ phase = "ended" <=> outcome # "none"
  /\ phase # "execute" => pc # "dispatch"
  /\ phase = "execute" /\ pc \in {"dispatch", "sleep"} => isRunning
  /\ phase = "execute" \/ outcome \in {"success", "failed"} => cancelReq = {}
  /\ outcome \in {"success", "failed"} => pc = "done"
  /\ pc = "done" => \A t \in Live : worker[t] = "planning"

(* Unless the runtime was timed out, the end of a run unlocks everything. *)
Unlocked == outcome \in {"success", "failed", "cancelled"} => \A t \in TaskId : locks[t] = {}

(* After an interruption every worker that is left has been cancelled. *)
Stopping == outcome = "cancelled" => Live \subseteq cancelReq

(* The part of SuccessIsAccounted that looks at the graph. *)
Traced == IF structured THEN UNION {TracedTo[r] : r \in Requirement} ELSE BaseTask
Accounted ==
  outcome = "success" =>
    /\ \A b \in Traced : status[Planned(b)] = "completed" \/ CountedRetestCompleted(b)
    /\ \A b \in BaseTask : status[Planned(b)] = "failed" => CountedRetestCompleted(b)

RInv == Core /\ RuntimeTypeOK /\ Control /\ Unlocked /\ Stopping

-----------------------------------------------------------------------------
(* The steps                                                               *)

\* The steps of the runtime that are not steps of the scheduler.
Cleanup == Decide \/ LoopCloses \/ MarkInterrupted

\* Every other step is one of the scheduler or leaves it alone.
LEMMA RuntimeSteps ==
  ASSUME [RuntimeNext]_allVars
  PROVE  [Next]_vars \/ Cleanup
BY DEF RuntimeNext, allVars, vars, ExecuteMoves, GivesUp, WorkerMoves, RuntimeStep, TimesOut,
   Interrupt, Cleanup, Next, WorkerStep

\* What a step of a worker can be once nothing may start or finish.
LEMMA WorkerStepKinds ==
  ASSUME RuntimeNext
  PROVE  \/ \E t \in TaskId : WorkerStep(t) /\ UNCHANGED <<phase, outcome, structured, pc, isRunning>>
         \/ phase = "execute" /\ Execute /\ UNCHANGED runtimeVars
         \/ TimesOut \/ Interrupt \/ Cleanup
BY DEF RuntimeNext, ExecuteMoves, GivesUp, WorkerMoves, RuntimeStep, Cleanup, runtimeVars,
   WorkerStep, WorkerStarts, WorkerSucceeds, WorkerFails, WorkerAsksPlanner, RecoveryInserted,
   RecoveryRejected, WorkerCancelled, WorkerNeverStarts

-----------------------------------------------------------------------------
(* The invariant                                                           *)

\* The graph, the workers and the batch stay in order under the runtime too.
LEMMA RuntimeCoreStep ==
  ASSUME Core, [RuntimeNext]_allVars
  PROVE  Core'
<1>1. CASE [Next]_vars
  BY <1>1, CoreStep
<1>2. CASE Cleanup
  <2>1. UNCHANGED <<status, deps, pos, worker, attempts, pc, batch>>
    BY <1>2 DEF Cleanup, Decide, LoopCloses, MarkInterrupted, graphVars
  <2>2. /\ locks' \in [TaskId -> SUBSET Resource] /\ cancelReq' \subseteq TaskId
        /\ isRunning' \in BOOLEAN
    BY <1>2 DEF Cleanup, Decide, LoopCloses, MarkInterrupted, Core, TypeOK, Live
  <2>3. TypeOK' /\ BatchIsReady'
    BY <2>1, <2>2 DEF Core, TypeOK, BatchIsReady
  <2>4. GraphInv'
    BY <2>1 DEF Core, GraphInv, StartedAfterDeps, BlockedHasCause, StatusMatchesWorker,
       DepsInGraph, FreshBeyondAttempts, PlannerMayInsert, ChainOrder, Unsettled
  <2>5. QED
    BY <2>3, <2>4 DEF Core
<1>3. QED
  BY <1>1, <1>2, RuntimeSteps

\* The variables of the runtime keep their types.
LEMMA RuntimeTypeStep ==
  ASSUME Core, RuntimeTypeOK, [RuntimeNext]_allVars
  PROVE  RuntimeTypeOK'
<1>1. TypeOK'
  BY RuntimeCoreStep DEF Core
<1>2. /\ phase' \in {"execute", "interrupted", "ended"} /\ outcome' \in Outcome
      /\ {exhausted', structured'} \subseteq BOOLEAN
  BY DEF RuntimeTypeOK, RuntimeNext, allVars, runtimeVars, ExecuteMoves, GivesUp, WorkerMoves,
     RuntimeStep, Decide, TimesOut, MarkInterrupted, Interrupt, LoopCloses, Outcome
<1>3. QED
  BY <1>1, <1>2 DEF RuntimeTypeOK

\* When execute() returns, no worker is inside the agent loop any more: it
\* returns because nothing runs, or because every task has ended.
LEMMA ReturnsIdle ==
  ASSUME Core, isRunning, Finish
  PROVE  \A t \in Live : worker[t] = "planning"
<1>1. Active = {} \/ IsComplete(status)
  BY DEF Finish, LoopEnds, Stuck
<1>2. Live \subseteq Active
  BY DEF Live, Active
<1>3. ASSUME IsComplete(status), NEW t \in Live, worker[t] # "planning"
      PROVE  FALSE
  <2>1. t \in TaskId /\ status[t] = "running"
    BY <1>3 DEF Live, Core, GraphInv, StatusMatchesWorker
  <2>2. t \in TasksOf(status)
    BY <2>1 DEF Core, TypeOK, TasksOf
  <2>3. QED
    BY <1>3, <2>1, <2>2 DEF IsComplete, TerminalStatus
<1>4. QED
  BY <1>1, <1>2, <1>3

\* Every step keeps the phases, the flags and the workers in line.
LEMMA ControlStep ==
  ASSUME Core, RuntimeTypeOK, Control, [RuntimeNext]_allVars
  PROVE  Control'
<1>1. CASE UNCHANGED allVars
  BY <1>1 DEF allVars, vars, runtimeVars, Control, Live
<1>2. ASSUME NEW t \in TaskId, WorkerStep(t),
             UNCHANGED <<phase, outcome, structured, pc, isRunning>>
      PROVE  Control'
  <2>1. /\ t \in Live /\ cancelReq' \subseteq cancelReq
        /\ \A u \in TaskId \ {t} : worker'[u] = worker[u]
        /\ worker[t] = "planning" => worker'[t] = "none"
    BY <1>2, WorkerStepChanges DEF Core
  <2>2. pc = "done" => \A u \in Live' : worker'[u] = "planning"
    BY <2>1 DEF Control, Live
  <2>3. QED
    BY <1>2, <2>1, <2>2 DEF Control
<1>3. ASSUME phase = "execute", Execute, UNCHANGED runtimeVars
      PROVE  Control'
  <2>1. cancelReq' = cancelReq
    BY <1>3 DEF Execute, Begin, Wake, EnterPass, Finish, Sleep, DispatchWaits, DispatchFails,
       DispatchStarts
  <2>2. CASE Finish
    <3>1. worker' = worker /\ pc' = "done" /\ pc = "sleep"
      BY <2>2 DEF Finish
    <3>2. \A t \in Live' : worker'[t] = "planning"
      BY <1>3, <2>2, <3>1, ReturnsIdle DEF Control, Live
    <3>3. QED
      BY <1>3, <2>1, <3>1, <3>2 DEF Control, runtimeVars
  <2>3. CASE Begin \/ Wake
    <3>1. pc' = "dispatch" /\ isRunning'
      BY <1>3, <2>3 DEF Begin, Wake, EnterPass, Control
    <3>2. QED
      BY <1>3, <2>1, <3>1 DEF Control, runtimeVars
  <2>4. CASE Sleep \/ \E t \in TaskId : DispatchWaits(t) \/ DispatchFails(t) \/ DispatchStarts(t)
    <3>1. pc = "dispatch" /\ pc' \in {"dispatch", "sleep"} /\ isRunning' = isRunning
      BY <2>4 DEF Sleep, DispatchWaits, DispatchFails, DispatchStarts, NextOfBatch
    <3>2. QED
      BY <1>3, <2>1, <3>1 DEF Control, runtimeVars
  <2>5. QED
    BY <1>3, <2>2, <2>3, <2>4 DEF Execute
<1>4. CASE TimesOut \/ Interrupt
  BY <1>4 DEF TimesOut, Interrupt, AtAwait, vars, Control, Live
<1>5. CASE Decide
  BY <1>5 DEF Decide, Control, Live
<1>6. CASE LoopCloses
  BY <1>6 DEF LoopCloses, runtimeVars, Control, Live
<1>7. CASE MarkInterrupted
  BY <1>7 DEF MarkInterrupted, Control, Live
<1>8. QED
  BY <1>1, <1>2, <1>3, <1>4, <1>5, <1>6, <1>7, WorkerStepKinds DEF Cleanup

\* No lock is taken once a run has ended.
LEMMA UnlockedStep ==
  ASSUME Core, Control, Unlocked, [RuntimeNext]_allVars
  PROVE  Unlocked'
<1>1. CASE UNCHANGED allVars
  BY <1>1 DEF allVars, vars, runtimeVars, Unlocked
<1>2. ASSUME NEW t \in TaskId, WorkerStep(t), UNCHANGED outcome
      PROVE  Unlocked'
  <2>1. \A u \in TaskId : locks'[u] \subseteq locks[u]
    BY <1>2, WorkerStepChanges DEF Core
  <2>2. QED
    BY <1>2, <2>1 DEF Unlocked
<1>3. CASE phase = "execute" /\ UNCHANGED runtimeVars
  BY <1>3 DEF Control, Unlocked, runtimeVars
<1>4. CASE TimesOut \/ Interrupt \/ LoopCloses
  BY <1>4 DEF TimesOut, Interrupt, LoopCloses, Control, Unlocked, runtimeVars
<1>5. CASE Decide \/ MarkInterrupted
  BY <1>5 DEF Decide, MarkInterrupted, Unlocked
<1>6. QED
  BY <1>1, <1>2, <1>3, <1>4, <1>5, WorkerStepKinds DEF Cleanup

\* Every worker that is left after an interruption stays cancelled until its
\* cancellation is delivered.
LEMMA StoppingStep ==
  ASSUME Core, Control, Stopping, [RuntimeNext]_allVars
  PROVE  Stopping'
<1>1. CASE UNCHANGED allVars
  BY <1>1 DEF allVars, vars, runtimeVars, Stopping, Live
<1>2. ASSUME NEW t \in TaskId, WorkerStep(t), UNCHANGED outcome
      PROVE  Stopping'
  <2>1. /\ \A u \in TaskId \ {t} : worker'[u] = worker[u]
        /\ t \in Live /\ cancelReq \ {t} \subseteq cancelReq'
        /\ t \in cancelReq => worker'[t] \in {"none", "dead"}
    BY <1>2, WorkerStepChanges DEF Core
  <2>2. QED
    BY <1>2, <2>1 DEF Stopping, Live
<1>3. CASE phase = "execute" /\ UNCHANGED runtimeVars
  BY <1>3 DEF Control, Stopping, runtimeVars
<1>4. CASE TimesOut \/ Interrupt \/ LoopCloses \/ Decide
  BY <1>4 DEF TimesOut, Interrupt, LoopCloses, Decide, Control, Stopping, runtimeVars
<1>5. CASE MarkInterrupted
  BY <1>5 DEF MarkInterrupted, Stopping, Live
<1>6. QED
  BY <1>1, <1>2, <1>3, <1>4, <1>5, WorkerStepKinds DEF Cleanup

-----------------------------------------------------------------------------
(* What SUCCESS is worth                                                   *)

\* A recovery adds tasks and reopens some; it fails none.
LEMMA InsertFailsNone ==
  ASSUME TypeOK, GraphInv, NEW t \in TaskId, RecoveryInserted(t)
  PROVE  \A x \in TaskId : status'[x] = "failed" => status[x] = "failed"
<1> DEFINE n == attempts[Base(t)] + 1
<1>1. /\ status'[Debug(Base(t), n)] = "created" /\ status'[Retest(Base(t), n)] = "created"
      /\ \A x \in TaskId \ {Debug(Base(t), n), Retest(Base(t), n)} :
            status'[x] = status[x] \/ status'[x] = "created"
  BY InsertEffects
<1> HIDE DEF n
<1>2. QED
  BY <1>1

\* The retests that the runtime counts are those of the tasks whose ids begin
\* with the one that failed.
LEMMA RetestsCount ==
  ASSUME NEW b \in BaseTask
  PROVE  /\ RetestCompleted(b) <=> CountedRetestCompleted(b)
         /\ TaskDone(b) => status[Planned(b)] = "completed" \/ CountedRetestCompleted(b)
  BY DEF RetestCompleted, CountedRetestCompleted, OwnRetestCompleted, TaskDone

\* A success, once decided, stays accounted for: the workers that are left can
\* only insert a recovery or give up.
LEMMA AccountedStep ==
  ASSUME Core, Control, Accounted, [RuntimeNext]_allVars
  PROVE  Accounted'
<1>1. ASSUME UNCHANGED <<outcome, structured>>,
             \A x \in TaskId : status[x] = "completed" => status'[x] = "completed",
             \A x \in TaskId : status'[x] = "failed" => status[x] = "failed"
      PROVE  Accounted'
  <2> SUFFICES ASSUME outcome = "success" PROVE Accounted'
    BY <1>1 DEF Accounted
  <2>1. \A b \in BaseTask : Planned(b) \in TaskId /\ \A n \in 1..MaxAttempts : Retest(b, n) \in TaskId
    BY TaskIdFacts
  <2>2. \A b \in BaseTask : OwnRetestCompleted(b) => OwnRetestCompleted(b)'
    BY <1>1, <2>1 DEF OwnRetestCompleted
  <2>3. /\ \A b \in BaseTask : CountedRetestCompleted(b) => CountedRetestCompleted(b)'
        /\ \A b \in BaseTask : status[Planned(b)] = "completed" => status'[Planned(b)] = "completed"
    BY <1>1, <2>1, <2>2 DEF CountedRetestCompleted
  <2>4. Traced' = Traced /\ Traced \subseteq BaseTask
    BY <1>1, RuntimeAssumption DEF Traced
  <2>5. QED
    BY <1>1, <2>1, <2>2, <2>3, <2>4 DEF Accounted
<1>2. CASE UNCHANGED allVars
  BY <1>1, <1>2 DEF allVars, vars, runtimeVars
<1>3. ASSUME NEW t \in TaskId, WorkerStep(t), UNCHANGED <<phase, outcome, structured, pc, isRunning>>
      PROVE  Accounted'
  <2>1. CASE outcome # "success"
    BY <1>3, <2>1 DEF Accounted
  <2>2. CASE outcome = "success"
    <3>1. worker[t] = "planning" /\ t \notin cancelReq
      BY <1>3, <2>2, WorkerStepChanges DEF Control, Core
    <3>2. RecoveryInserted(t) \/ RecoveryRejected(t)
      BY <1>3, <3>1 DEF WorkerStep, WorkerStarts, WorkerSucceeds, WorkerFails, WorkerAsksPlanner,
         WorkerCancelled, WorkerNeverStarts, Runs
    <3>3. CASE RecoveryInserted(t)
      BY <1>1, <1>3, <3>3, InsertStep, InsertFailsNone DEF Core, Started
    <3>4. CASE RecoveryRejected(t)
      BY <1>1, <1>3, <3>4 DEF RecoveryRejected, graphVars
    <3>5. QED
      BY <3>2, <3>3, <3>4
  <2>3. QED
    BY <2>1, <2>2
<1>4. CASE phase = "execute" /\ UNCHANGED runtimeVars
  BY <1>4 DEF Control, Accounted, runtimeVars
<1>5. CASE TimesOut \/ Interrupt \/ LoopCloses \/ MarkInterrupted
  BY <1>1, <1>5 DEF TimesOut, Interrupt, LoopCloses, MarkInterrupted, vars, graphVars, runtimeVars,
     Control, Accounted
<1>6. CASE Decide
  <2> SUFFICES ASSUME outcome' = "success" PROVE Accounted'
    BY DEF Accounted
  <2>1. status' = status /\ structured' = structured
    BY <1>6 DEF Decide, graphVars
  <2>2. AllRecovered /\ \E passed, rejected \in SUBSET Requirement : Verified(passed, rejected)
    BY <1>6 DEF Decide
  <2>3. \A b \in BaseTask : status[Planned(b)] = "failed" => CountedRetestCompleted(b)
    BY <2>2, RetestsCount DEF AllRecovered
  <2>4. \A b \in Traced : TaskDone(b)
    BY <2>2 DEF Verified, Traced
  <2>5. \A b \in Traced : status[Planned(b)] = "completed" \/ CountedRetestCompleted(b)
    BY <2>4, RetestsCount, RuntimeAssumption DEF Traced
  <2>6. QED
    BY <2>1, <2>3, <2>5 DEF Accounted, Traced, CountedRetestCompleted, OwnRetestCompleted
<1>7. QED
  BY <1>2, <1>3, <1>4, <1>5, <1>6, WorkerStepKinds DEF Cleanup

-----------------------------------------------------------------------------
(* What FAILED is worth                                                    *)

RetestFailed(b) == \E n \in 1..MaxAttempts : status[Retest(b, n)] = "failed"

(* What a failed run shows: a planned task that was neither completed nor      *)
(* recovered, or whose retest failed.                                          *)
Missed(b) == ~Accomplished(b) \/ RetestFailed(b)

(* A recovery never waits: its dependencies are those of a task that ran.     *)
RecoveryReady ==
  \A b \in BaseTask : \A n \in 1..MaxAttempts :
     status[Debug(b, n)] # "absent" => \A d \in deps[Debug(b, n)] : status[d] = "completed"

(* The first recovery of a base id is for the planned task, which is then done *)
(* for: it failed, and the planner is not asked about it again.                *)
FailedFirst ==
  \A b \in BaseTask : attempts[b] > 0 => /\ status[Planned(b)] = "failed"
                                         /\ worker[Planned(b)] # "planning"

(* A recovery is only ever open while no retest was completed, or one failed.  *)
RecoveryIsNeeded ==
  \A b \in BaseTask : \A n \in 1..MaxAttempts :
     Unsettled(Debug(b, n)) => ~OwnRetestCompleted(b) \/ RetestFailed(b)

RecoveryInv == RecoveryReady /\ FailedFirst /\ RecoveryIsNeeded

(* Nothing of this base id will run again: what is left of it waits for a task *)
(* of the same base id that will not be completed.                             *)
Hopeless(b) ==
  \A u \in TaskId : Base(u) = b /\ Unsettled(u) =>
     \E d \in deps[u] : Base(d) = b /\ status[d] # "completed"

(* Once the attempts at a task are spent, the run has a reason to fail.        *)
GaveUp == exhausted => \E b \in BaseTask : Hopeless(b) /\ Missed(b)

\* A recovery completes nothing and opens, besides its two tasks, only what was
\* open already.
LEMMA InsertOpens ==
  ASSUME TypeOK, GraphInv, NEW t \in TaskId, RecoveryInserted(t),
         NEW n, n = attempts[Base(t)] + 1
  PROVE  /\ \A x \in TaskId : status'[x] = "completed" <=> status[x] = "completed"
         /\ \A x \in TaskId : status[x] = "failed" => status'[x] = "failed"
         /\ \A x \in TaskId \ {Debug(Base(t), n), Retest(Base(t), n)} : Unsettled(x)' => Unsettled(x)
<1>1. /\ status'[Debug(Base(t), n)] = "created" /\ status'[Retest(Base(t), n)] = "created"
      /\ worker' = [worker EXCEPT ![t] = "none"]
      /\ \A x \in TaskId \ {Debug(Base(t), n), Retest(Base(t), n)} :
            \/ status'[x] = status[x]
            \/ status[x] \in {"blocked", "cancelled"} /\ status'[x] = "created"
  BY InsertEffects
<1>2. \A x \in TaskId : status[x] \in Started => status'[x] = status[x]
  BY InsertStep
<1>3. \A x \in TaskId : status'[x] = "completed" <=> status[x] = "completed"
  BY <1>1, <1>2 DEF Started
<1>4. \A x \in TaskId : status[x] = "failed" => status'[x] = "failed"
  BY <1>2 DEF Started
<1>5. \A x \in TaskId : worker'[x] = "planning" => worker[x] = "planning"
  BY <1>1 DEF TypeOK
<1>6. QED
  BY <1>1, <1>3, <1>4, <1>5 DEF Unsettled

\* While a recovery is open, no retest of its base id is live: the recovery
\* waits for nothing, and the two stand in a line.
LEMMA OpenRecoveryIsAlone ==
  ASSUME Core, RecoveryReady, NEW b \in BaseTask, NEW n \in 1..MaxAttempts, Unsettled(Debug(b, n)),
         NEW x \in Live, Base(x) = b
  PROVE  x = Debug(b, n)
<1> SUFFICES ASSUME x # Debug(b, n) PROVE FALSE
  OBVIOUS
<1>1. Debug(b, n) \in TaskId /\ Base(Debug(b, n)) = b
  BY TaskIdFacts
<1>2. status[Debug(b, n)] # "absent"
  BY <1>1 DEF Unsettled, Core, GraphInv, StatusMatchesWorker
<1>3. \A d \in deps[Debug(b, n)] : status[d] = "completed"
  BY <1>2 DEF RecoveryReady
<1>4. Unsettled(x) /\ x \in TaskId /\ \A d \in deps[x] : status[d] = "completed"
  BY ChainIsLine DEF Core
<1>5. QED
  BY <1>1, <1>3, <1>4 DEF Core, GraphInv, ChainOrder

\* Every step of the scheduler keeps what is said of the recoveries.
LEMMA RecoveryStep ==
  ASSUME Core, RecoveryInv, [Next]_vars
  PROVE  RecoveryInv'
<1>1. TaskStep
  BY TaskSteps
<1>2. \A b \in BaseTask : Planned(b) \in TaskId /\ \A n \in 1..MaxAttempts :
         Debug(b, n) \in TaskId /\ Retest(b, n) \in TaskId /\ Debug(b, n) # Retest(b, n)
  BY TaskIdFacts
<1>3. \A x \in TaskId : deps[x] \subseteq TaskId
  BY DEF Core, TypeOK
<1>4. ASSUME UNCHANGED <<deps, attempts>>,
             \A x \in TaskId : /\ Unsettled(x)' => Unsettled(x)
                               /\ status'[x] = "absent" <=> status[x] = "absent"
      PROVE  RecoveryInv'
  <2>1. RecoveryReady'
    BY <1>1, <1>2, <1>3, <1>4 DEF RecoveryInv, RecoveryReady, TaskStep
  <2>2. FailedFirst'
    BY <1>1, <1>2, <1>4 DEF RecoveryInv, FailedFirst, TaskStep
  <2>3. RecoveryIsNeeded'
    <3> SUFFICES ASSUME NEW b \in BaseTask, NEW n \in 1..MaxAttempts, Unsettled(Debug(b, n))'
                 PROVE  (~OwnRetestCompleted(b) \/ RetestFailed(b))'
      BY DEF RecoveryIsNeeded
    <3>1. Unsettled(Debug(b, n))
      BY <1>2, <1>4
    <3>2. \A m \in 1..MaxAttempts : Retest(b, m) \notin Live
      BY <3>1, OpenRecoveryIsAlone, TaskIdFacts DEF RecoveryInv
    <3>3. \A m \in 1..MaxAttempts :
             /\ status'[Retest(b, m)] = "completed" => status[Retest(b, m)] = "completed"
             /\ status[Retest(b, m)] = "failed" => status'[Retest(b, m)] = "failed"
      BY <1>1, <1>2, <3>2 DEF TaskStep, Live
    <3>4. QED
      BY <3>1, <3>3 DEF RecoveryInv, RecoveryIsNeeded, OwnRetestCompleted, RetestFailed
  <2>4. QED
    BY <2>1, <2>2, <2>3 DEF RecoveryInv
<1>5. ASSUME NEW t \in TaskId, RecoveryInserted(t)
      PROVE  RecoveryInv'
  <2> DEFINE b == Base(t)
             n == attempts[b] + 1
             debug == Debug(b, n)
             retest == Retest(b, n)
  <2>1. /\ worker[t] = "planning" /\ status[t] = "failed" /\ t \in Live
        /\ b \in BaseTask /\ n \in 1..MaxAttempts /\ attempts[b] \in Nat
        /\ attempts' = [attempts EXCEPT ![b] = n]
        /\ worker' = [worker EXCEPT ![t] = "none"]
        /\ deps'[debug] = deps[t]
        /\ \A x \in TaskId \ {debug, retest} :
              \/ deps'[x] = deps[x]
              \/ t \in deps[x] /\ deps'[x] = (deps[x] \ {t}) \cup {retest}
        /\ \A x \in TaskId \ {debug, retest} :
              \/ status'[x] = status[x]
              \/ status[x] \in {"blocked", "cancelled"} /\ status'[x] = "created"
    BY <1>5, InsertEffects DEF Core
  <2>2. /\ \A x \in TaskId : status'[x] = "completed" <=> status[x] = "completed"
        /\ \A x \in TaskId : status[x] = "failed" => status'[x] = "failed"
        /\ \A x \in TaskId \ {debug, retest} : Unsettled(x)' => Unsettled(x)
    BY <1>5, InsertOpens DEF Core
  <2>3. t = Planned(b) \/ \E m \in 1..MaxAttempts : t \in {Debug(b, m), Retest(b, m)}
    BY DEF TaskId, Base, Planned, Debug, Retest
  <2>4. attempts[b] = 0 => t = Planned(b) /\ \A m \in 1..MaxAttempts : status[Retest(b, m)] = "absent"
    <3> SUFFICES ASSUME attempts[b] = 0
                 PROVE  t = Planned(b) /\ \A m \in 1..MaxAttempts : status[Retest(b, m)] = "absent"
      OBVIOUS
    <3>1. \A m \in 1..MaxAttempts : status[Debug(b, m)] = "absent" /\ status[Retest(b, m)] = "absent"
      BY <2>1 DEF Core, GraphInv, FreshBeyondAttempts
    <3>2. QED
      BY <2>1, <2>3, <3>1
  <2>5. debug \in TaskId /\ retest \in TaskId
    BY <2>1, <1>2
  <2> HIDE DEF n
  <2>6. RecoveryReady'
    <3> SUFFICES ASSUME NEW c \in BaseTask, NEW m \in 1..MaxAttempts, status'[Debug(c, m)] # "absent",
                        NEW d \in deps'[Debug(c, m)]
                 PROVE  status'[d] = "completed"
      BY DEF RecoveryReady
    <3>1. CASE Debug(c, m) = debug
      <4>1. status[d] = "completed"
        BY <2>1, <3>1 DEF Core, GraphInv, StartedAfterDeps
      <4>2. d \in TaskId
        BY <2>1, <3>1, <1>3
      <4>3. QED
        BY <2>2, <4>1, <4>2
    <3>2. CASE Debug(c, m) # debug
      <4> DEFINE x == Debug(c, m)
      <4>1. x \in TaskId \ {debug, retest}
        BY <3>2, <2>1, TaskIdFacts
      <4>2. status[x] # "absent"
        BY <2>1, <4>1
      <4>3. \A e \in deps[x] : status[e] = "completed"
        BY <4>2 DEF RecoveryInv, RecoveryReady
      <4>4. deps'[x] = deps[x]
        BY <2>1, <4>1, <4>3
      <4>5. QED
        BY <2>2, <4>1, <4>3, <4>4, <1>3
    <3>3. QED
      BY <3>1, <3>2
  <2>7. FailedFirst'
    <3> SUFFICES ASSUME NEW c \in BaseTask, attempts'[c] > 0
                 PROVE  status'[Planned(c)] = "failed" /\ worker'[Planned(c)] # "planning"
      BY DEF FailedFirst
    <3>1. CASE attempts[c] > 0
      <4>1. status[Planned(c)] = "failed" /\ worker[Planned(c)] # "planning"
        BY <3>1 DEF RecoveryInv, FailedFirst
      <4>2. QED
        BY <4>1, <2>1, <2>2, <1>2 DEF Core, TypeOK
    <3>2. CASE ~(attempts[c] > 0)
      <4>1. attempts[c] \in Nat
        BY DEF Core, TypeOK
      <4>2. c = b /\ attempts[b] = 0
        BY <2>1, <3>2, <4>1 DEF Core, TypeOK
      <4>3. t = Planned(c)
        BY <4>2, <2>4
      <4>4. QED
        BY <4>3, <2>1, <2>2 DEF Core, TypeOK
    <3>3. QED
      BY <3>1, <3>2
  <2>8. ASSUME NEW c \in BaseTask, ~OwnRetestCompleted(c) \/ RetestFailed(c)
        PROVE  (~OwnRetestCompleted(c) \/ RetestFailed(c))'
    BY <2>2, <2>8, <1>2 DEF OwnRetestCompleted, RetestFailed
  <2>9. ~OwnRetestCompleted(b) \/ RetestFailed(b)
    <3>1. CASE t = Planned(b)
      <4>1. attempts[b] = 0
        BY <2>1, <3>1 DEF RecoveryInv, FailedFirst
      <4>2. QED
        BY <4>1, <2>4 DEF OwnRetestCompleted
    <3>2. ASSUME NEW m \in 1..MaxAttempts, t = Retest(b, m)
          PROVE  RetestFailed(b)
      BY <3>2, <2>1 DEF RetestFailed
    <3>3. ASSUME NEW m \in 1..MaxAttempts, t = Debug(b, m)
          PROVE  ~OwnRetestCompleted(b) \/ RetestFailed(b)
      BY <3>3, <2>1 DEF RecoveryInv, RecoveryIsNeeded, Unsettled
    <3>4. QED
      BY <2>3, <3>1, <3>2, <3>3
  <2>10. RecoveryIsNeeded'
    <3> SUFFICES ASSUME NEW c \in BaseTask, NEW m \in 1..MaxAttempts, Unsettled(Debug(c, m))'
                 PROVE  (~OwnRetestCompleted(c) \/ RetestFailed(c))'
      BY DEF RecoveryIsNeeded
    <3>1. CASE Debug(c, m) = debug
      <4>1. c = b
        BY <3>1 DEF Debug
      <4>2. QED
        BY <4>1, <2>8, <2>9
    <3>2. CASE Debug(c, m) # debug
      <4>1. Debug(c, m) \in TaskId \ {debug, retest}
        BY <3>2, <2>1, TaskIdFacts
      <4>2. Unsettled(Debug(c, m))
        BY <2>2, <4>1
      <4>3. QED
        BY <4>2, <2>8 DEF RecoveryInv, RecoveryIsNeeded
    <3>3. QED
      BY <3>1, <3>2
  <2>11. QED
    BY <2>6, <2>7, <2>10 DEF RecoveryInv
<1>6. QED
  BY <1>1, <1>4, <1>5 DEF TaskStep

\* Once a base id is hopeless, it stays so, and with it the reason to fail: a
\* task of it that might be completed would wait for nothing.
LEMMA HopelessStep ==
  ASSUME Core, NEW b \in BaseTask, Hopeless(b), Missed(b), [Next]_vars
  PROVE  Hopeless(b)' /\ Missed(b)'
<1>1. TaskStep
  BY TaskSteps
<1>2. \A x \in Live : Base(x) # b
  BY ChainIsLine DEF Hopeless, Core
<1>3. \A x \in TaskId : Base(x) = b =>
         /\ status'[x] = "completed" => status[x] = "completed"
         /\ status[x] = "failed" => status'[x] = "failed"
  BY <1>1, <1>2 DEF TaskStep, Live
<1>4. /\ Planned(b) \in TaskId /\ Base(Planned(b)) = b
      /\ \A n \in 1..MaxAttempts : Retest(b, n) \in TaskId /\ Base(Retest(b, n)) = b
  BY TaskIdFacts DEF Base, Planned
<1>5. Missed(b)'
  BY <1>3, <1>4 DEF Missed, Accomplished, OwnRetestCompleted, RetestFailed
<1>6. \A x \in TaskId : deps[x] \subseteq TaskId
  BY DEF Core, TypeOK
<1>7. ASSUME UNCHANGED deps, \A x \in TaskId : Unsettled(x)' => Unsettled(x)
      PROVE  Hopeless(b)'
  BY <1>3, <1>6, <1>7 DEF Hopeless
<1>8. ASSUME NEW t \in TaskId, RecoveryInserted(t)
      PROVE  Hopeless(b)'
  <2> DEFINE n == attempts[Base(t)] + 1
             debug == Debug(Base(t), n)
             retest == Retest(Base(t), n)
  <2>1. /\ t \in Live /\ Base(t) \in BaseTask /\ n \in 1..MaxAttempts
        /\ \A x \in TaskId \ {debug, retest} :
              \/ deps'[x] = deps[x]
              \/ t \in deps[x] /\ deps'[x] = (deps[x] \ {t}) \cup {retest}
    BY <1>8, InsertEffects DEF Core
  <2>2. \A x \in TaskId \ {debug, retest} : Unsettled(x)' => Unsettled(x)
    BY <1>8, InsertOpens DEF Core
  <2>3. Base(t) # b /\ Base(debug) # b /\ Base(retest) # b
    BY <1>2, <2>1, TaskIdFacts
  <2> HIDE DEF n, debug, retest
  <2> SUFFICES ASSUME NEW u \in TaskId, Base(u) = b, Unsettled(u)'
               PROVE  \E d \in deps'[u] : Base(d) = b /\ status'[d] # "completed"
    BY DEF Hopeless
  <2>4. u \in TaskId \ {debug, retest}
    BY <2>3
  <2>5. PICK d \in deps[u] : Base(d) = b /\ status[d] # "completed"
    BY <2>2, <2>4 DEF Hopeless
  <2>6. d \in deps'[u]
    BY <2>1, <2>3, <2>4, <2>5
  <2>7. QED
    BY <1>3, <1>6, <2>5, <2>6
<1>9. QED
  BY <1>1, <1>5, <1>7, <1>8 DEF TaskStep

\* A task whose attempts are spent fails for good, and leaves its base id
\* hopeless: what it was is not done, or its retest failed.
LEMMA GivingUpIsHopeless ==
  ASSUME Core, RecoveryInv, NEW t \in TaskId, WorkerFails(t), attempts[Base(t)] >= MaxAttempts
  PROVE  Hopeless(Base(t))' /\ Missed(Base(t))'
<1> DEFINE b == Base(t)
<1>1. /\ worker[t] = "running" /\ t \in Live /\ b \in BaseTask
      /\ status' = UpdateStatus(status, deps, t, "failed")
      /\ worker' = [worker EXCEPT ![t] = "none"] /\ UNCHANGED deps
  BY TaskIdFacts DEF WorkerFails, Runs, Leave, Live
<1>2. status[t] = "running"
  BY <1>1 DEF Core, GraphInv, StatusMatchesWorker
<1>3. /\ status'[t] = "failed" /\ worker'[t] = "none"
      /\ \A x \in TaskId \ {t} :
           \/ status'[x] = status[x]
           \/ status[x] \in {"created", "blocked"} /\ status'[x] \in {"blocked", "cancelled"}
  <2>1. GraphType(TaskId, status, deps) /\ OrderKept(TaskId, status, deps)
    BY GraphView DEF Core, GraphInv
  <2>2. "failed" \in TerminalStatus /\ status[t] \in {"ready", "running", "failed"}
    BY <1>2 DEF TerminalStatus
  <2>3. worker'[t] = "none"
    BY <1>1 DEF Core, TypeOK
  <2>4. QED
    BY <1>1, <2>1, <2>2, <2>3, UpdateChanges
<1>4. \A x \in TaskId : status'[x] = "completed" => status[x] = "completed"
  BY <1>3
<1>5. \A x \in TaskId : status[x] = "failed" => status'[x] = "failed"
  BY <1>3
<1>6. \A x \in TaskId : deps[x] \subseteq TaskId
  BY DEF Core, TypeOK
<1>7. Hopeless(b)'
  <2> SUFFICES ASSUME NEW u \in TaskId, Base(u) = b, Unsettled(u)'
               PROVE  \E d \in deps[u] : Base(d) = b /\ status'[d] # "completed"
    BY <1>1 DEF Hopeless
  <2>1. u # t
    BY <1>3 DEF Unsettled
  <2>2. Unsettled(u)
    BY <1>1, <1>3, <2>1 DEF Unsettled, Core, TypeOK
  <2>3. Unsettled(t) /\ \A d \in deps[t] : status[d] = "completed"
    BY <1>1, ChainIsLine DEF Core
  <2>4. PICK d \in deps[u] : Base(d) = b /\ status[d] # "completed"
    BY <2>1, <2>2, <2>3 DEF Core, GraphInv, ChainOrder
  <2>5. QED
    BY <1>4, <1>6, <2>4
<1>8. Missed(b)'
  <2>1. Planned(b) \in TaskId /\ \A m \in 1..MaxAttempts : Retest(b, m) \in TaskId
    BY <1>1, TaskIdFacts
  <2>2. ~OwnRetestCompleted(b) => ~OwnRetestCompleted(b)'
    BY <1>4, <2>1 DEF OwnRetestCompleted
  <2>3. RetestFailed(b) => RetestFailed(b)'
    BY <1>5, <2>1 DEF RetestFailed
  <2>4. CASE t = Planned(b)
    <3>1. \A m \in 1..MaxAttempts : status[Retest(b, m)] = "absent"
      <4>1. ~(attempts[b] > 0)
        BY <1>1, <1>2, <2>4 DEF RecoveryInv, FailedFirst
      <4>2. attempts[b] \in Nat
        BY <1>1 DEF Core, TypeOK
      <4>3. QED
        BY <1>1, <4>1, <4>2 DEF Core, GraphInv, FreshBeyondAttempts
    <3>2. QED
      BY <1>3, <2>2, <2>4, <3>1 DEF Missed, Accomplished, OwnRetestCompleted
  <2>5. ASSUME NEW m \in 1..MaxAttempts, t = Retest(b, m)
        PROVE  Missed(b)'
    BY <1>3, <2>5 DEF Missed, RetestFailed
  <2>6. ASSUME NEW m \in 1..MaxAttempts, t = Debug(b, m)
        PROVE  Missed(b)'
    <3>1. ~OwnRetestCompleted(b) \/ RetestFailed(b)
      BY <1>1, <1>2, <2>6 DEF RecoveryInv, RecoveryIsNeeded, Unsettled
    <3>2. attempts[b] > 0
      BY <1>1, <1>2, <2>6, SchedulerAssumption DEF Core, TypeOK, GraphInv, FreshBeyondAttempts
    <3>3. status[Planned(b)] = "failed"
      BY <1>1, <3>2 DEF RecoveryInv, FailedFirst
    <3>4. status'[Planned(b)] = "failed"
      BY <1>5, <2>1, <3>3
    <3>5. QED
      BY <2>2, <2>3, <3>1, <3>4 DEF Missed, Accomplished
  <2>7. t = Planned(b) \/ \E m \in 1..MaxAttempts : t \in {Debug(b, m), Retest(b, m)}
    BY DEF TaskId, Base, Planned, Debug, Retest
  <2>8. QED
    BY <2>4, <2>5, <2>6, <2>7
<1>9. QED
  BY <1>7, <1>8

\* What is said of the recoveries survives what only the runtime does, too.
LEMMA RuntimeRecoveryStep ==
  ASSUME Core, RecoveryInv, GaveUp, [RuntimeNext]_allVars
  PROVE  RecoveryInv' /\ GaveUp'
<1>1. CASE [Next]_vars
  <2>1. RecoveryInv'
    BY <1>1, RecoveryStep
  <2>2. ASSUME NEW b \in BaseTask, Hopeless(b), Missed(b)
        PROVE  GaveUp'
    BY <1>1, <2>2, HopelessStep DEF GaveUp
  <2>3. ASSUME NEW t \in TaskId, GivesUp(t)
        PROVE  GaveUp'
    <3>1. Base(t) \in BaseTask
      BY TaskIdFacts
    <3>2. Hopeless(Base(t))' /\ Missed(Base(t))'
      BY <2>3, GivingUpIsHopeless DEF GivesUp
    <3>3. QED
      BY <3>1, <3>2 DEF GaveUp
  <2>4. ASSUME UNCHANGED exhausted
        PROVE  GaveUp'
    <3>1. CASE exhausted
      <4>1. PICK b \in BaseTask : Hopeless(b) /\ Missed(b)
        BY <3>1 DEF GaveUp
      <4>2. QED
        BY <2>2, <4>1
    <3>2. CASE ~exhausted
      BY <2>4, <3>2 DEF GaveUp
    <3>3. QED
      BY <3>1, <3>2
  <2>5. QED
    BY <2>1, <2>3, <2>4 DEF RuntimeNext, allVars, runtimeVars, ExecuteMoves, WorkerMoves, RuntimeStep,
       Decide, TimesOut, MarkInterrupted, Interrupt, LoopCloses
<1>2. CASE Cleanup
  <2>1. UNCHANGED <<status, deps, worker, attempts, exhausted>>
    BY <1>2 DEF Cleanup, Decide, LoopCloses, MarkInterrupted, graphVars, runtimeVars
  <2>2. QED
    BY <2>1 DEF RecoveryInv, RecoveryReady, FailedFirst, RecoveryIsNeeded, GaveUp, Hopeless, Missed,
       Accomplished, OwnRetestCompleted, RetestFailed, Unsettled
<1>3. QED
  BY <1>1, <1>2, RuntimeSteps

\* A run that is decided to have failed has the reason, and keeps it: the
\* workers that are left complete nothing.
LEMMA ReasonStep ==
  ASSUME Core, Control, GaveUp, FailureHasReason, [RuntimeNext]_allVars
  PROVE  FailureHasReason'
<1>1. FailureHasReason <=> (outcome = "failed" /\ ~structured => \E b \in BaseTask : Missed(b))
  BY DEF FailureHasReason, Missed, RetestFailed
<1>2. FailureHasReason' <=> (outcome' = "failed" /\ ~structured' => \E b \in BaseTask : Missed(b)')
  BY DEF FailureHasReason, Missed, RetestFailed
<1>3. \A b \in BaseTask : Planned(b) \in TaskId /\ \A n \in 1..MaxAttempts : Retest(b, n) \in TaskId
  BY TaskIdFacts
<1>4. ASSUME UNCHANGED <<outcome, structured>>,
             \A x \in TaskId : status'[x] = "completed" => status[x] = "completed",
             \A x \in TaskId : status[x] = "failed" => status'[x] = "failed"
      PROVE  FailureHasReason'
  <2>1. \A b \in BaseTask : Missed(b) => Missed(b)'
    BY <1>3, <1>4 DEF Missed, Accomplished, OwnRetestCompleted, RetestFailed
  <2>2. QED
    BY <1>1, <1>2, <1>4, <2>1
<1>5. CASE UNCHANGED allVars
  BY <1>4, <1>5 DEF allVars, vars, runtimeVars
<1>6. ASSUME NEW t \in TaskId, WorkerStep(t), UNCHANGED <<phase, outcome, structured, pc, isRunning>>
      PROVE  FailureHasReason'
  <2>1. CASE outcome # "failed"
    BY <1>6, <2>1 DEF FailureHasReason
  <2>2. CASE outcome = "failed"
    <3>1. worker[t] = "planning" /\ t \notin cancelReq
      BY <1>6, <2>2, WorkerStepChanges DEF Control, Core
    <3>2. RecoveryInserted(t) \/ RecoveryRejected(t)
      BY <1>6, <3>1 DEF WorkerStep, WorkerStarts, WorkerSucceeds, WorkerFails, WorkerAsksPlanner,
         WorkerCancelled, WorkerNeverStarts, Runs
    <3>3. CASE RecoveryInserted(t)
      BY <1>4, <1>6, <3>3, InsertOpens DEF Core
    <3>4. CASE RecoveryRejected(t)
      BY <1>4, <1>6, <3>4 DEF RecoveryRejected, graphVars
    <3>5. QED
      BY <3>2, <3>3, <3>4
  <2>3. QED
    BY <2>1, <2>2
<1>7. CASE phase = "execute" /\ UNCHANGED runtimeVars
  BY <1>7 DEF Control, FailureHasReason, runtimeVars
<1>8. CASE TimesOut \/ Interrupt \/ LoopCloses \/ MarkInterrupted
  BY <1>4, <1>8 DEF TimesOut, Interrupt, LoopCloses, MarkInterrupted, vars, graphVars, runtimeVars,
     Control, FailureHasReason
<1>9. CASE Decide
  <2> SUFFICES ASSUME outcome' = "failed", ~structured' PROVE \E b \in BaseTask : Missed(b)'
    BY <1>2
  <2>1. status' = status /\ ~structured
    BY <1>9 DEF Decide, graphVars
  <2>2. exhausted \/ ~AllRecovered \/ \E b \in BaseTask : ~TaskDone(b)
    BY <1>9, <2>1 DEF Decide, Verified
  <2>3. \A b \in BaseTask : OwnRetestCompleted(b) => RetestCompleted(b)
    BY RuntimeAssumption DEF OwnRetestCompleted, RetestCompleted
  <2>4. \E b \in BaseTask : Missed(b)
    BY <2>2, <2>3 DEF GaveUp, AllRecovered, TaskDone, Missed, Accomplished
  <2>5. QED
    BY <2>1, <2>4 DEF Missed, Accomplished, OwnRetestCompleted, RetestFailed
<1>10. QED
  BY <1>5, <1>6, <1>7, <1>8, <1>9, WorkerStepKinds DEF Cleanup

-----------------------------------------------------------------------------
(* Exclusion, and cancellation                                             *)

\* The scheduler keeps conflicting resources apart by the test of acquire
\* alone, whether or not the workers still hold what they asked for.
LEMMA ExclusionStep ==
  ASSUME Core, LockExclusion, [RuntimeNext]_allVars
  PROVE  LockExclusion'
<1>1. TypeOK' /\ TypeOK
  BY RuntimeCoreStep DEF Core
<1>2. ASSUME \A u \in TaskId : locks'[u] \subseteq locks[u]
      PROVE  LockExclusion'
  BY <1>2 DEF LockExclusion
<1>3. ASSUME NEW t \in TaskId, DispatchFails(t) \/ DispatchStarts(t)
      PROVE  LockExclusion'
  <2>1. Free(t) /\ locks' = [locks EXCEPT ![t] = @ \cup Requested(t)]
    BY <1>3 DEF DispatchFails, DispatchStarts
  <2> SUFFICES ASSUME NEW u \in TaskId, NEW v \in TaskId, u # v,
                      NEW r \in locks'[u], NEW q \in locks'[v]
               PROVE  <<r, q>> \notin Conflicts
    BY DEF LockExclusion
  <2>2. r \in Resource /\ q \in Resource
    BY <1>1 DEF TypeOK
  <2>3. CASE u = t /\ r \in Requested(t)
    BY <1>1, <2>1, <2>3 DEF Free, TypeOK
  <2>4. CASE v = t /\ q \in Requested(t)
    <3>1. <<q, r>> \notin Conflicts
      BY <1>1, <2>1, <2>4 DEF Free, TypeOK
    <3>2. QED
      BY <3>1, <2>2, SchedulerAssumption
  <2>5. CASE ~(u = t /\ r \in Requested(t)) /\ ~(v = t /\ q \in Requested(t))
    <3>1. r \in locks[u] /\ q \in locks[v]
      BY <1>1, <2>1, <2>5 DEF TypeOK
    <3>2. QED
      BY <3>1 DEF LockExclusion
  <2>6. QED
    BY <2>3, <2>4, <2>5
<1>4. ASSUME NEW t \in TaskId, WorkerStep(t)
      PROVE  LockExclusion'
  BY <1>1, <1>2, <1>4, WorkerStepChanges
<1>5. CASE Execute
  BY <1>2, <1>3, <1>5 DEF Execute, Begin, Wake, EnterPass, Finish, Sleep, DispatchWaits
<1>6. CASE TimesOut \/ Interrupt \/ LoopCloses \/ UNCHANGED allVars
  BY <1>2, <1>6 DEF TimesOut, Interrupt, LoopCloses, allVars, vars
<1>7. CASE Decide \/ MarkInterrupted
  BY <1>1, <1>2, <1>7 DEF Decide, MarkInterrupted
<1>8. QED
  BY <1>4, <1>5, <1>6, <1>7, WorkerStepKinds DEF Cleanup

\* A cancelled task takes its dependents with it and touches nothing else.
LEMMA CancelChanges ==
  ASSUME TypeOK, NEW t \in TaskId, status' = UpdateStatus(status, deps, t, "cancelled")
  PROVE  \A x \in TaskId : status'[x] = status[x] \/ status'[x] = "cancelled"
<1> DEFINE set == [status EXCEPT ![t] = "cancelled"]
<1>1. status' = Propagate(set, deps, t, "cancelled")
  BY DEF UpdateStatus
<1>2. DOMAIN set = TaskId /\ \A x \in TaskId : set[x] = status[x] \/ set[x] = "cancelled"
  BY DEF TypeOK
<1> HIDE DEF set
<1>3. QED
  BY <1>1, <1>2 DEF Propagate

-----------------------------------------------------------------------------
(* The theorems                                                            *)

\* A run starts in order.
LEMMA RuntimeStarts == RuntimeInit => RInv /\ Accounted /\ LockExclusion
<1> SUFFICES ASSUME RuntimeInit PROVE RInv /\ Accounted /\ LockExclusion
  OBVIOUS
<1>1. IInv
  BY InitIInv DEF RuntimeInit
<1>2. Core /\ LockExclusion
  BY <1>1 DEF Core, IInv
<1>3. RuntimeTypeOK /\ Control /\ Unlocked /\ Stopping /\ Accounted
  BY <1>2 DEF Core, RuntimeInit, Init, RuntimeTypeOK, Outcome, Control, Unlocked, Stopping, Accounted
<1>4. QED
  BY <1>2, <1>3 DEF RInv

\* Every step keeps it in order.
LEMMA RuntimeStepKeeps == RInv /\ [RuntimeNext]_allVars => RInv'
BY RuntimeCoreStep, RuntimeTypeStep, ControlStep, UnlockedStep, StoppingStep DEF RInv

\* RInv holds throughout, timeouts and interruptions included.
THEOREM RuntimeInvariant == RuntimeSpec => []RInv
BY RuntimeStarts, RuntimeStepKeeps, PTL DEF RuntimeSpec

\* Every variable of the runtime and of the scheduler in it keeps its type.
THEOREM RuntimeTypes == RuntimeSpec => []RuntimeTypeOK
<1>1. RInv => RuntimeTypeOK
  BY DEF RInv
<1>2. QED
  BY <1>1, RuntimeInvariant, PTL

\* SUCCESS is worth what it says, also while workers are left that go on, for any
\* spelling of ids: the retest of a task may count for every task whose id begins
\* that task's.
THEOREM RuntimeSuccessIsAccounted == RuntimeSpec => []SuccessIsAccounted
<1>1. RInv /\ Accounted /\ [RuntimeNext]_allVars => Accounted'
  BY AccountedStep DEF RInv
<1>2. RuntimeInit => Accounted
  BY RuntimeStarts
<1>3. RInv /\ Accounted => SuccessIsAccounted
  BY DEF RInv, Accounted, Traced, Control, Unlocked, SuccessIsAccounted
<1>4. QED
  BY <1>1, <1>2, <1>3, RuntimeInvariant, PTL DEF RuntimeSpec

\* A request without structured requirements is FAILED only with a planned task
\* that is neither completed nor recovered, or with a retest that failed: the
\* flag recovery_exhausted, which nothing resets, fails no run that went well.
THEOREM RuntimeFailureHasReason == RuntimeSpec => []FailureHasReason
<1>1. RuntimeInit => RecoveryInv /\ GaveUp /\ FailureHasReason
  <2> SUFFICES ASSUME RuntimeInit PROVE RecoveryInv /\ GaveUp /\ FailureHasReason
    OBVIOUS
  <2>1. \A x \in TaskId : x[2] # "task" => status[x] = "absent" /\ worker[x] = "none"
    BY DEF RuntimeInit, Init
  <2>2. \A b \in BaseTask : \A n \in 1..MaxAttempts :
           status[Debug(b, n)] = "absent" /\ worker[Debug(b, n)] = "none"
    <3>1. \A b \in BaseTask : \A n \in 1..MaxAttempts :
             Debug(b, n) \in TaskId /\ Debug(b, n)[2] # "task"
      BY TaskIdFacts DEF Debug
    <3>2. QED
      BY <2>1, <3>1
  <2>3. RecoveryInv
    <3>1. \A b \in BaseTask : \A n \in 1..MaxAttempts : ~Unsettled(Debug(b, n))
      BY <2>2 DEF Unsettled
    <3>2. \A b \in BaseTask : attempts[b] = 0
      BY DEF RuntimeInit, Init
    <3>3. RecoveryReady /\ RecoveryIsNeeded
      BY <2>2, <3>1 DEF RecoveryReady, RecoveryIsNeeded
    <3>4. FailedFirst
      BY <3>2 DEF FailedFirst
    <3>5. QED
      BY <3>3, <3>4 DEF RecoveryInv
  <2>4. QED
    BY <2>3 DEF RuntimeInit, GaveUp, FailureHasReason
<1>2. RInv /\ RecoveryInv /\ GaveUp /\ FailureHasReason /\ [RuntimeNext]_allVars =>
         (RecoveryInv /\ GaveUp /\ FailureHasReason)'
  BY RuntimeRecoveryStep, ReasonStep DEF RInv
<1>3. QED
  BY <1>1, <1>2, RuntimeInvariant, PTL DEF RuntimeSpec

\* Once an interruption is cleaned up, nothing is locked, however many workers
\* are still to be cancelled.
THEOREM RuntimeInterruptedHoldsNothing == RuntimeSpec => []InterruptedHoldsNothing
<1>1. RInv => InterruptedHoldsNothing
  BY DEF RInv, Unlocked, InterruptedHoldsNothing
<1>2. QED
  BY <1>1, RuntimeInvariant, PTL

\* After an interruption tasks can only become cancelled.
THEOREM RuntimeNothingFinishes == RuntimeSpec => NothingFinishesAfterInterrupt
<1> DEFINE A == outcome = "cancelled" =>
                   \A t \in TaskId : status'[t] = status[t] \/ status'[t] = "cancelled"
<1>1. ASSUME RInv, [RuntimeNext]_allVars
      PROVE  A
  <2> SUFFICES ASSUME outcome = "cancelled" PROVE A
    OBVIOUS
  <2>1. CASE UNCHANGED status
    BY <2>1
  <2>2. ASSUME NEW t \in TaskId, WorkerStep(t)
        PROVE  A
    <3>1. t \in cancelReq
      BY <1>1, <2>2, WorkerStepChanges DEF RInv, Core, Stopping
    <3>2. WorkerCancelled(t) \/ WorkerNeverStarts(t)
      BY <2>2, <3>1 DEF WorkerStep, WorkerStarts, WorkerSucceeds, WorkerFails, WorkerAsksPlanner,
         RecoveryInserted, RecoveryRejected, Runs
    <3>3. CASE WorkerCancelled(t)
      BY <1>1, <3>3, CancelChanges DEF WorkerCancelled, RInv, Core
    <3>4. CASE WorkerNeverStarts(t)
      BY <2>1, <3>4 DEF WorkerNeverStarts, graphVars
    <3>5. QED
      BY <3>2, <3>3, <3>4
  <2>3. phase # "execute"
    BY <1>1 DEF RInv, Control
  <2>4. QED
    BY <1>1, <2>1, <2>2, <2>3, WorkerStepKinds DEF allVars, vars, graphVars, TimesOut, Interrupt, Cleanup,
       Decide, LoopCloses, MarkInterrupted
<1>2. QED
  BY <1>1, RuntimeInvariant, PTL DEF RuntimeSpec, NothingFinishesAfterInterrupt

\* Conflicting resources are never held by two tasks, by the workers that
\* outlive a timeout or an interruption no more than by the others.
THEOREM RuntimeExclusion == RuntimeSpec => []LockExclusion
<1>1. RInv /\ LockExclusion /\ [RuntimeNext]_allVars => LockExclusion'
  BY ExclusionStep DEF RInv
<1>2. RuntimeInit => LockExclusion
  BY RuntimeStarts
<1>3. QED
  BY <1>1, <1>2, RuntimeInvariant, PTL DEF RuntimeSpec

\* As long as the run is not decided or interrupted, no two live workers share a
\* file but by what the test overlooks, and after a timeout neither: run() and
\* execute_interactive() then leave the workers alone, but their locks too.
THEOREM RuntimeNoSharedFile ==
  RuntimeSpec => [](outcome \in {"none", "timed_out"} => NoSharedFile)
<1> DEFINE Held == outcome \in {"none", "timed_out"} => LockInv
<1>1. RuntimeInit => Held
  <2>1. RuntimeInit => IInv
    BY InitIInv DEF RuntimeInit
  <2>2. QED
    BY <2>1 DEF IInv, LockInv
<1>2. ASSUME RInv, Held, [RuntimeNext]_allVars
      PROVE  Held'
  <2>1. CASE [Next]_vars
    <3>1. outcome' = outcome \/ (outcome = "none" /\ outcome' = "timed_out") \/ Cleanup
      BY <1>2 DEF RInv, Control, RuntimeNext, allVars, runtimeVars, ExecuteMoves, GivesUp, WorkerMoves,
         RuntimeStep, TimesOut, Interrupt, Cleanup
    <3>2. CASE outcome' = outcome \/ (outcome = "none" /\ outcome' = "timed_out")
      BY <1>2, <2>1, <3>2, LockStep DEF RInv
    <3>3. CASE Decide \/ MarkInterrupted
      BY <3>3 DEF Decide, MarkInterrupted
    <3>4. CASE LoopCloses
      BY <1>2, <2>1, <3>4, LockStep DEF RInv, LoopCloses, runtimeVars
    <3>5. QED
      BY <3>1, <3>2, <3>3, <3>4 DEF Cleanup
  <2>2. CASE Decide \/ MarkInterrupted
    BY <2>2 DEF Decide, MarkInterrupted
  <2>3. CASE LoopCloses
    BY <1>2, <2>3 DEF LoopCloses, runtimeVars, LockInv, LockExclusion, LiveWorkersHoldLocks, Live
  <2>4. QED
    BY <1>2, <2>1, <2>2, <2>3, RuntimeSteps DEF Cleanup
<1>3. RInv /\ Held => (outcome \in {"none", "timed_out"} => NoSharedFile)
  BY LocksGuardFiles DEF RInv, Core
<1>4. QED
  BY <1>1, <1>2, <1>3, RuntimeInvariant, PTL DEF RuntimeSpec
=============================================================================
