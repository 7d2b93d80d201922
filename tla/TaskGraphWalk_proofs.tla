----------------------- MODULE TaskGraphWalk_proofs -----------------------
(* The walks of the task graph do what their order-free definitions say, on   *)
(* every finite graph, with and without cycles, in every order of the loops.  *)
(* The two that change statuses are one argument (Spreads): what has been     *)
(* changed is reachable, and what is reachable has been changed or is waiting *)
(* in the loop of a call.  The searches are the argument of the colours.      *)
EXTENDS TaskGraphWalk, FiniteSetTheorems, TLAPS

Frame  == [task : Ids, todo : SUBSET Ids]
Colour == {"white", "grey", "black"}
Ops    == {"none", "failed", "cancelled", "insert", "validate", "sort"}

WalkTypes ==
    /\ status \in [Ids -> Status] /\ deps \in [Ids -> SUBSET Ids]
    /\ status0 \in [Ids -> Status] /\ deps0 \in [Ids -> SUBSET Planned]
    /\ status0[Debug] = "absent" /\ status0[Retest] = "absent"
    /\ deps0[Debug] = {} /\ deps0[Retest] = {}
    /\ \A t \in Planned : status0[t] # "absent"
    /\ op \in Ops /\ subject \in Planned
    /\ left \in SUBSET Planned
    /\ stack \in Seq(Frame)
    /\ colour \in [Planned -> Colour]
    /\ cyclic \in BOOLEAN /\ sorted \in Seq(Planned)
    /\ Cascading => left = {}
    /\ Searching => \A i \in DOMAIN stack : stack[i].task \in Planned
    /\ op = "none" => /\ status = status0 /\ deps = deps0 /\ left = {} /\ stack = <<>>
                      /\ colour = [t \in Planned |-> "white"]
                      /\ ~cyclic /\ sorted = <<>>

-----------------------------------------------------------------------------
(* The stack.                                                                *)

(* What the loops under way have still to take.                              *)
Waiting(st) == UNION {st[i].todo : i \in DOMAIN st}

\* What Waiting means.
LEMMA WaitingIs == \A s, x : x \in Waiting(s) <=> \E i \in DOMAIN s : x \in s[i].todo
BY DEF Waiting

\* The three things that happen to the stack, and what then waits: the innermost
\* call takes a task, it returns, a call is added.
LEMMA StackTakes ==
  ASSUME stack \in Seq(Frame), NEW d \in Ids, Takes(d)
  PROVE  /\ Taken(d) \in Seq(Frame)
         /\ Len(stack) \in Nat \ {0} /\ Len(Taken(d)) = Len(stack)
         /\ DOMAIN Taken(d) = 1 .. Len(stack) /\ DOMAIN stack = 1 .. Len(stack)
         /\ Innermost \in Frame /\ d \in Innermost.todo
         /\ \A i \in 1 .. Len(stack) :
               /\ Taken(d)[i].task = stack[i].task
               /\ Taken(d)[i].todo = IF i = Len(stack) THEN stack[i].todo \ {d} ELSE stack[i].todo
         /\ Waiting(stack) \ {d} \subseteq Waiting(Taken(d))
         /\ Waiting(Taken(d)) \subseteq Waiting(stack)
         /\ d \in Waiting(stack)
<1> DEFINE n == Len(stack)
<1>1. /\ n \in Nat \ {0} /\ DOMAIN stack = 1 .. n
      /\ n \in 1 .. n /\ d \in stack[n].todo
      /\ \A i \in 1 .. n : stack[i] \in Frame
  BY DEF Takes, Innermost
<1>2. Taken(d) = [stack EXCEPT ![n] = [stack[n] EXCEPT !.todo = stack[n].todo \ {d}]]
  BY DEF Taken
<1>3. [stack[n] EXCEPT !.todo = stack[n].todo \ {d}] \in Frame
  BY <1>1 DEF Frame
<1>4. /\ Taken(d) \in Seq(Frame) /\ Len(Taken(d)) = n /\ DOMAIN Taken(d) = 1 .. n
      /\ \A i \in 1 .. n : Taken(d)[i] = IF i = n THEN [stack[n] EXCEPT !.todo = stack[n].todo \ {d}] ELSE stack[i]
  BY <1>1, <1>2, <1>3
<1>5. \A i \in 1 .. n :
         /\ Taken(d)[i].task = stack[i].task
         /\ Taken(d)[i].todo = IF i = n THEN stack[i].todo \ {d} ELSE stack[i].todo
  BY <1>1, <1>4 DEF Frame
<1>6. /\ Waiting(stack) \ {d} \subseteq Waiting(Taken(d))
      /\ Waiting(Taken(d)) \subseteq Waiting(stack) /\ d \in Waiting(stack)
  <2> HIDE DEF n, Taken
  <2>1. ASSUME NEW x \in Waiting(stack), x # d PROVE x \in Waiting(Taken(d))
    <3>1. PICK i \in 1 .. n : x \in stack[i].todo
      BY <1>1, WaitingIs
    <3>2. x \in Taken(d)[i].todo
      BY <1>5, <2>1, <3>1
    <3>3. QED
      BY <1>4, <3>2, WaitingIs
  <2>2. ASSUME NEW x \in Waiting(Taken(d)) PROVE x \in Waiting(stack)
    <3>1. PICK i \in 1 .. n : x \in Taken(d)[i].todo
      BY <1>4, WaitingIs
    <3>2. x \in stack[i].todo
      BY <1>5, <3>1
    <3>3. QED
      BY <1>1, <3>2, WaitingIs
  <2>3. QED
    BY <1>1, <2>1, <2>2, WaitingIs
<1>7. QED
  BY <1>1, <1>4, <1>5, <1>6 DEF Innermost

\* See StackTakes.
LEMMA StackReturns ==
  ASSUME stack \in Seq(Frame), LoopEnds
  PROVE  /\ Returned \in Seq(Frame)
         /\ Len(stack) \in Nat \ {0} /\ Len(Returned) = Len(stack) - 1
         /\ DOMAIN Returned = 1 .. Len(stack) - 1 /\ DOMAIN stack = 1 .. Len(stack)
         /\ Innermost \in Frame /\ Innermost.todo = {}
         /\ \A i \in 1 .. Len(stack) - 1 : Returned[i] = stack[i]
         /\ Waiting(Returned) = Waiting(stack)
<1> DEFINE n == Len(stack)
<1>1. /\ n \in Nat \ {0} /\ DOMAIN stack = 1 .. n
      /\ n \in 1 .. n /\ stack[n].todo = {} /\ stack[n] \in Frame
  BY DEF LoopEnds, Innermost
<1>2. /\ Returned \in Seq(Frame) /\ Len(Returned) = n - 1
      /\ DOMAIN Returned = 1 .. n - 1
      /\ \A i \in 1 .. n - 1 : Returned[i] = stack[i]
  BY <1>1 DEF Returned
<1>3. /\ \A i \in 1 .. n : i = n \/ i \in 1 .. n - 1
      /\ \A i \in 1 .. n - 1 : i \in 1 .. n
  <2> HIDE DEF n
  <2>1. QED
    BY <1>1
<1>4. Waiting(Returned) = Waiting(stack)
  <2> HIDE DEF n
  <2>1. \A x : x \in Waiting(Returned) <=> x \in Waiting(stack)
    BY <1>1, <1>2, <1>3, WaitingIs
  <2>2. QED
    BY <2>1 DEF Waiting
<1>5. QED
  BY <1>1, <1>2, <1>4 DEF Innermost

\* See StackTakes.
LEMMA StackCalls ==
  ASSUME NEW s \in Seq(Frame), NEW t \in Ids, NEW todo \in SUBSET Ids
  PROVE  LET x == Append(s, Call(t, todo))
         IN  /\ x \in Seq(Frame) /\ Len(s) \in Nat /\ Len(x) = Len(s) + 1
             /\ DOMAIN x = 1 .. Len(s) + 1
             /\ x[Len(s) + 1].task = t /\ x[Len(s) + 1].todo = todo
             /\ \A i \in 1 .. Len(s) : x[i] = s[i]
             /\ Waiting(x) = Waiting(s) \cup todo
<1> DEFINE x == Append(s, Call(t, todo))
           n == Len(s)
<1>1. Call(t, todo) \in Frame /\ Call(t, todo).task = t /\ Call(t, todo).todo = todo
  BY DEF Call, Frame
<1>2. /\ x \in Seq(Frame) /\ n \in Nat /\ Len(x) = n + 1 /\ DOMAIN x = 1 .. n + 1
      /\ x[n + 1] = Call(t, todo) /\ \A i \in 1 .. n : x[i] = s[i]
  BY <1>1
<1>3. DOMAIN s = 1 .. n /\ n + 1 \in 1 .. n + 1 /\ \A i \in 1 .. n + 1 : i = n + 1 \/ i \in 1 .. n
  BY <1>2
<1>4. Waiting(x) = Waiting(s) \cup todo
  <2> HIDE DEF n, x
  <2>1. \A y : y \in Waiting(x) <=> y \in Waiting(s) \/ y \in todo
    BY <1>1, <1>2, <1>3, WaitingIs
  <2>2. QED
    BY <2>1
<1>5. QED
  BY <1>1, <1>2, <1>4

\* Nothing waits in an empty stack.
LEMMA EmptyStack == <<>> \in Seq(Frame) /\ Len(<<>>) = 0 /\ Waiting(<<>>) = {}
<1>1. DOMAIN <<>> = {}
  OBVIOUS
<1>2. QED
  BY <1>1 DEF Waiting
-----------------------------------------------------------------------------
(* Types.                                                                    *)

\* The dependents of a task are tasks.
LEMMA DependentsAreIds ==
  ASSUME NEW s \in [Ids -> Status], NEW dp, NEW t
  PROVE  Dependents(s, dp, t) \in SUBSET Ids
BY DEF Dependents, TasksOf

\* Every variable has its type, whatever the walk and wherever it is.
LEMMA TypesStep ==
  ASSUME WalkTypes, [Next]_vars
  PROVE  WalkTypes'
<1> USE DEF WalkTypes
<1>0. /\ Planned \subseteq Ids /\ Debug \in Ids /\ Retest \in Ids
      /\ Debug \notin Planned /\ Retest \notin Planned
      /\ {"created", "blocked", "failed", "cancelled"} \subseteq Status
  BY WalkAssumption DEF Ids, Status, TaskStatus, LiveStatus, TerminalStatus
<1>1. CASE UNCHANGED vars
  BY <1>1 DEF vars, graph0, searchVars, Cascading, Searching
<1>2. ASSUME NEW s \in {"failed", "cancelled"}, CallUpdate(s) PROVE WalkTypes'
  <2>1. Call(subject, Dependents(status, deps, subject)) \in Frame
    BY <1>0, DependentsAreIds DEF Call, Frame
  <2>2. stack' \in Seq(Frame)
    BY <1>2, <2>1 DEF CallUpdate
  <2>3. QED
    BY <1>0, <1>2, <2>2 DEF CallUpdate, Ops, Cascading, Searching, graph0, searchVars
<1>3. CASE CallInsert
  <2>1. left' \in SUBSET Planned
    BY <1>0, <1>3 DEF CallInsert, Dependents, TasksOf, Ids
  <2>2. deps' \in [Ids -> SUBSET Ids] /\ status' \in [Ids -> Status]
    BY <1>0, <1>3 DEF CallInsert
  <2>3. QED
    BY <1>0, <1>3, <2>1, <2>2 DEF CallInsert, Ops, Cascading, Searching, graph0, searchVars
<1>4. ASSUME NEW o \in {"validate", "sort"}, CallSearch(o) PROVE WalkTypes'
  BY <1>4 DEF CallSearch, Ops, Cascading, Searching, graph0, searchVars
<1>5. ASSUME NEW d \in Ids, PropagateTo(d) PROVE WalkTypes'
  <2>1. status' \in [Ids -> Status] /\ stack' \in Seq(Frame)
    <3>1. Taken(d) \in Seq(Frame) /\ Spread \in Status
      BY <1>0, <1>5, StackTakes DEF PropagateTo, Spread
    <3>2. Append(Taken(d), Call(d, Dependents(status, deps, d))) \in Seq(Frame)
      BY <3>1, StackCalls, DependentsAreIds
    <3>3. QED
      BY <1>5, <3>1, <3>2 DEF PropagateTo
  <2>2. QED
    BY <1>5, <2>1 DEF PropagateTo, Cascading, Searching, graph0, searchVars
<1>6. ASSUME NEW s \in Seq(Frame), NEW dp, NEW d \in Ids, UnblockFrom(s, dp, d)
      PROVE  status' \in [Ids -> Status] /\ stack' \in Seq(Frame)
  <2>1. Append(s, Call(d, Dependents(status, dp, d))) \in Seq(Frame)
    BY StackCalls, DependentsAreIds
  <2>2. CASE status[d] \in Resettable
    <3>1. /\ status' = [status EXCEPT ![d] = "created"]
          /\ stack' = Append(s, Call(d, Dependents(status, dp, d)))
      BY <1>6, <2>2, Zenon DEF UnblockFrom
    <3>2. status' \in [Ids -> Status]
      BY <1>0, <3>1
    <3>3. QED
      BY <2>1, <3>1, <3>2
  <2>3. CASE status[d] \notin Resettable
    BY <1>6, <2>3 DEF UnblockFrom
  <2>4. QED
    BY <2>2, <2>3
<1>7. ASSUME NEW d \in Ids, Rewire(d) PROVE WalkTypes'
  <2>1. status' \in [Ids -> Status] /\ stack' \in Seq(Frame)
    BY <1>6, <1>7 DEF Rewire
  <2>2. QED
    BY <1>0, <1>7, <2>1 DEF Rewire, Cascading, Searching, graph0, searchVars
<1>8. ASSUME NEW d \in Ids, UnblockNext(d) PROVE WalkTypes'
  <2>1. status' \in [Ids -> Status] /\ stack' \in Seq(Frame)
    BY <1>6, <1>8, StackTakes DEF UnblockNext
  <2>2. QED
    BY <1>8, <2>1 DEF UnblockNext, Cascading, Searching, graph0, searchVars
<1>9. CASE WalkReturns
  BY <1>9, StackReturns DEF WalkReturns, Cascading, Searching, graph0, searchVars
<1>10. ASSUME NEW t \in Planned, NEW s \in Seq(Frame), Visit(s, t),
              \A i \in DOMAIN s : s[i].task \in Planned
       PROVE  /\ colour' \in [Planned -> Colour] /\ stack' \in Seq(Frame)
              /\ \A i \in DOMAIN stack' : stack'[i].task \in Planned
  <2>1. t \in Ids /\ deps[t] \in SUBSET Ids
    BY <1>0
  <2>2. /\ stack' \in Seq(Frame) /\ Len(s) \in Nat
        /\ DOMAIN stack' = 1 .. Len(s) + 1
        /\ stack'[Len(s) + 1].task = t /\ \A i \in 1 .. Len(s) : stack'[i] = s[i]
    BY <1>10, <2>1, StackCalls DEF Visit
  <2>3. DOMAIN s = 1 .. Len(s) /\ \A i \in 1 .. Len(s) + 1 : i = Len(s) + 1 \/ i \in 1 .. Len(s)
    BY <2>2
  <2>4. colour' \in [Planned -> Colour]
    BY <1>10 DEF Visit, Colour
  <2>5. QED
    BY <1>10, <2>2, <2>3, <2>4
<1>11. ASSUME NEW t \in Planned, VisitRoot(t) PROVE WalkTypes'
  <2>1. CASE colour[t] = "white"
    BY <1>10, <1>11, <2>1 DEF VisitRoot, Cascading, Searching, graph0, searchVars
  <2>2. CASE colour[t] # "white"
    BY <1>11, <2>2 DEF VisitRoot, Cascading, Searching, graph0, searchVars
  <2>3. QED
    BY <2>1, <2>2
<1>12. ASSUME NEW t \in Planned, VisitWhite(t) PROVE WalkTypes'
  <2>1. Taken(t) \in Seq(Frame) /\ \A i \in DOMAIN Taken(t) : Taken(t)[i].task \in Planned
    BY <1>0, <1>12, StackTakes DEF VisitWhite
  <2>2. QED
    BY <1>10, <1>12, <2>1 DEF VisitWhite, Cascading, Searching, graph0, searchVars
<1>13. ASSUME NEW t \in Planned, MeetGrey(t) PROVE WalkTypes'
  BY <1>13 DEF MeetGrey, Cascading, Searching, graph0, searchVars
<1>14. ASSUME NEW t \in Planned, PassBy(t) PROVE WalkTypes'
  <2>1. Taken(t) \in Seq(Frame) /\ \A i \in DOMAIN Taken(t) : Taken(t)[i].task \in Planned
    <3>1. Searching /\ Takes(t) /\ t \in Ids
      BY <1>0, <1>14 DEF PassBy
    <3>2. QED
      BY <3>1, StackTakes
  <2>2. QED
    BY <1>14, <2>1 DEF PassBy, Cascading, Searching, graph0, searchVars
<1>15. CASE VisitReturns
  <2>1. /\ Returned \in Seq(Frame) /\ \A i \in DOMAIN Returned : Returned[i].task \in Planned
        /\ Innermost.task \in Planned
    <3>1. Len(stack) \in DOMAIN stack /\ \A i \in 1 .. Len(stack) - 1 : i \in DOMAIN stack
      BY <1>15, StackReturns DEF VisitReturns
    <3>2. QED
      BY <1>15, <3>1, StackReturns DEF VisitReturns, Innermost
  <2>2. colour' \in [Planned -> Colour] /\ sorted' \in Seq(Planned)
    BY <1>15, <2>1 DEF VisitReturns, Colour
  <2>3. QED
    BY <1>15, <2>1, <2>2 DEF VisitReturns, Cascading, Searching, graph0, searchVars
<1>16. QED
  BY <1>1, <1>2, <1>3, <1>4, <1>5, <1>7, <1>8, <1>9, <1>11, <1>12, <1>13, <1>14, <1>15
  DEF Next

-----------------------------------------------------------------------------
(* What the walks change.                                                    *)

\* Reach is closed and is the least closed set.
LEMMA ReachIsLeast ==
  ASSUME NEW dp, NEW E, NEW seeds
  PROVE  /\ Reach(dp, E, seeds) \subseteq E
         /\ \A d \in E : d \in seeds => d \in Reach(dp, E, seeds)
         /\ \A u \in Reach(dp, E, seeds) : \A d \in E :
               u \in dp[d] => d \in Reach(dp, E, seeds)
         /\ \A S \in SUBSET E : Closed(dp, E, seeds, S) => Reach(dp, E, seeds) \subseteq S
<1>1. ASSUME NEW u \in Reach(dp, E, seeds), NEW d \in E, u \in dp[d],
             NEW S \in SUBSET E, Closed(dp, E, seeds, S)
      PROVE  d \in S
  <2>1. u \in S
    BY <1>1 DEF Reach
  <2>2. QED
    BY <1>1, <2>1 DEF Closed
<1>2. QED
  BY <1>1 DEF Reach, Closed

(* The walk over the eligible tasks E has changed C and has still to look at  *)
(* P: what it changed or may yet change is reachable, and what is reachable   *)
(* in one step is changed or still to be looked at.                           *)
Spreads(dp, E, seeds, C, P) ==
    /\ C \subseteq Reach(dp, E, seeds)
    /\ P \cap E \subseteq Reach(dp, E, seeds)
    /\ \A d \in E : d \in seeds \/ (\E u \in C : u \in dp[d]) => d \in C \/ d \in P

\* The walk looks at a task, changes it, and has its dependents to look at too.
LEMMA SpreadsOn ==
  ASSUME NEW dp, NEW E, NEW seeds, NEW C, NEW P, NEW d \in P, NEW Q,
         Spreads(dp, E, seeds, C, P), d \in E,
         P \ {d} \subseteq Q,
         \A x \in E : d \in dp[x] => x \in Q,
         \A x \in Q : x \in P \/ d \in dp[x]
  PROVE  Spreads(dp, E, seeds, C \cup {d}, Q)
<1>1. d \in Reach(dp, E, seeds)
  BY DEF Spreads
<1>2. QED
  BY <1>1, ReachIsLeast DEF Spreads

\* The walk looks at a task it does not change.
LEMMA SpreadsBy ==
  ASSUME NEW dp, NEW E, NEW seeds, NEW C, NEW P, NEW d, NEW Q,
         Spreads(dp, E, seeds, C, P), d \notin E \/ d \in C,
         P \ {d} \subseteq Q, Q \subseteq P
  PROVE  Spreads(dp, E, seeds, C, Q)
BY DEF Spreads

\* With nothing left to look at, the walk has changed all that is reachable.
LEMMA SpreadsEnd ==
  ASSUME NEW dp, NEW E, NEW seeds, NEW C, Spreads(dp, E, seeds, C, {})
  PROVE  C = Reach(dp, E, seeds)
<1>1. C \in SUBSET E
  BY ReachIsLeast DEF Spreads
<1>2. Closed(dp, E, seeds, C)
  BY <1>1 DEF Spreads, Closed
<1>3. QED
  BY <1>1, <1>2, ReachIsLeast DEF Spreads

(* The statuses b, where tasks of E have got status s: the walk has st, and   *)
(* P to look at.                                                             *)
Changed(st, E, s) == {d \in E : st[d] = s}

Spreading(st, P, b, dp, E, seeds, s) ==
    /\ \A d \in Ids : st[d] = b[d] \/ (d \in E /\ st[d] = s)
    /\ Spreads(dp, E, seeds, Changed(st, E, s), P)

\* One more task is changed.
LEMMA SpreadingOn ==
  ASSUME NEW st \in [Ids -> Status], NEW P, NEW Q,
         NEW b, NEW dp, NEW E \in SUBSET Ids, NEW seeds, NEW s,
         Spreading(st, P, b, dp, E, seeds, s),
         NEW d \in E, d \in P, P \ {d} \subseteq Q,
         \A x \in E : d \in dp[x] => x \in Q,
         \A x \in Q : x \in P \/ d \in dp[x]
  PROVE  Spreading([st EXCEPT ![d] = s], Q, b, dp, E, seeds, s)
<1> DEFINE st2 == [st EXCEPT ![d] = s]
<1>1. Changed(st2, E, s) = Changed(st, E, s) \cup {d}
  BY DEF Changed
<1>2. Spreads(dp, E, seeds, Changed(st, E, s) \cup {d}, Q)
  BY SpreadsOn DEF Spreading
<1>3. \A x \in Ids : st2[x] = b[x] \/ (x \in E /\ st2[x] = s)
  BY DEF Spreading
<1>4. QED
  BY <1>1, <1>2, <1>3 DEF Spreading

\* None is.
LEMMA SpreadingBy ==
  ASSUME NEW st, NEW P, NEW Q, NEW b, NEW dp, NEW E, NEW seeds, NEW s,
         Spreading(st, P, b, dp, E, seeds, s),
         NEW d, d \notin E \/ st[d] = s,
         P \ {d} \subseteq Q, Q \subseteq P
  PROVE  Spreading(st, Q, b, dp, E, seeds, s)
<1>1. d \notin E \/ d \in Changed(st, E, s)
  BY DEF Changed
<1>2. QED
  BY <1>1, SpreadsBy DEF Spreading

-----------------------------------------------------------------------------
(* The cascade.                                                              *)

Before == [status0 EXCEPT ![subject] = op]

Affected == {d \in TasksOf(Before) : Before[d] \notin TerminalStatus \cup {Spread}}

CascadeInv ==
    Cascading =>
        /\ deps = deps0
        /\ Waiting(stack) \subseteq TasksOf(Before)
        /\ Spreading(status, left \cup Waiting(stack), Before, deps0, Affected,
                     Dependents(Before, deps0, subject), Spread)

\* The graph at the call, with the status of the call.
LEMMA BeforeFacts ==
  ASSUME WalkTypes, Cascading
  PROVE  /\ Before \in [Ids -> Status] /\ TasksOf(Before) = Planned
         /\ Affected \subseteq Planned /\ Spread \in {"blocked", "cancelled"}
         /\ \A d \in Affected : Before[d] # Spread
         /\ Planned \subseteq Ids /\ subject \notin Affected
<1>1. op \in Status \ {"absent"} /\ op \in TerminalStatus /\ subject \in Ids
  BY DEF WalkTypes, Cascading, Ids, Status, TaskStatus, TerminalStatus
<1>2. /\ Before \in [Ids -> Status] /\ Before[subject] = op
      /\ \A d \in Ids : d # subject => Before[d] = status0[d]
  BY <1>1 DEF WalkTypes, Before
<1>3. TasksOf(Before) = Planned
  BY <1>1, <1>2, WalkAssumption DEF TasksOf, WalkTypes, Ids
<1>4. QED
  BY <1>1, <1>2, <1>3 DEF Affected, Spread, Ids

\* The cascade goes on as it began.
LEMMA CascadeStep ==
  ASSUME WalkTypes, CascadeInv, [Next]_vars
  PROVE  CascadeInv'
<1>1. CASE UNCHANGED vars
  BY <1>1 DEF vars, graph0, searchVars, CascadeInv, Cascading, Before, Affected, Spread,
              Spreading, Changed
<1>2. ASSUME NEW s \in {"failed", "cancelled"}, CallUpdate(s) PROVE CascadeInv'
  <2>1. /\ status = status0 /\ deps = deps0 /\ left = {} /\ stack = <<>>
        /\ op' = s /\ status' = [status0 EXCEPT ![subject] = s]
        /\ stack' = <<Call(subject, Dependents(status0, deps0, subject))>>
        /\ UNCHANGED <<deps, status0, deps0, subject, left>>
    BY <1>2 DEF CallUpdate, WalkTypes, graph0
  <2>2. Before' = status' /\ (WalkTypes /\ Cascading)'
    BY <1>2, <2>1, TypesStep DEF Before, Cascading
  <2>3. (WalkTypes /\ Cascading => /\ Before \in [Ids -> Status] /\ TasksOf(Before) = Planned
                                  /\ Affected \subseteq Planned
                                  /\ \A d \in Affected : Before[d] # Spread)'
    BY BeforeFacts, PTL
  <2>4. TasksOf(status0) = Planned
    BY WalkAssumption DEF TasksOf, WalkTypes, Ids
  <2>5. Dependents(Before', deps0, subject) = Dependents(status0, deps0, subject)
    BY <2>2, <2>3, <2>4 DEF Dependents
  <2>6. Waiting(stack') = Dependents(status0, deps0, subject)
    BY <2>1, WaitingIs DEF Call, Waiting
  <2>7. Changed(status', Affected', Spread') = {}
    BY <2>2, <2>3 DEF Changed
  <2>8. Spreads(deps0, Affected', Dependents(status0, deps0, subject), {},
                Dependents(status0, deps0, subject))
    BY ReachIsLeast DEF Spreads
  <2>9. QED
    BY <2>1, <2>2, <2>3, <2>4, <2>5, <2>6, <2>7, <2>8
    DEF CascadeInv, Spreading, Dependents
<1>3. ASSUME NEW d \in Ids, PropagateTo(d) PROVE CascadeInv'
  <2> DEFINE S == Dependents(Before, deps0, subject)
  <2>1. /\ Cascading /\ Takes(d) /\ deps = deps0 /\ left = {} /\ left' = {}
        /\ Waiting(stack) \subseteq Planned
        /\ Spreading(status, Waiting(stack), Before, deps0, Affected, S, Spread)
        /\ stack \in Seq(Frame) /\ status \in [Ids -> Status]
    BY <1>3, BeforeFacts DEF PropagateTo, CascadeInv, WalkTypes
  <2>2. /\ Cascading' /\ Before' = Before /\ Affected' = Affected /\ Spread' = Spread
        /\ deps' = deps /\ deps0' = deps0 /\ subject' = subject
    BY <1>3 DEF PropagateTo, graph0, Cascading, Before, Affected, Spread
  <2>3. /\ Affected \in SUBSET Ids /\ d \in Planned /\ d \in Waiting(stack)
        /\ TasksOf(Before) = Planned
    BY <2>1, BeforeFacts, StackTakes
  <2>4. status[d] = Before[d] \/ (d \in Affected /\ status[d] = Spread)
    BY <2>1 DEF Spreading
  <2>5. \A x \in Ids : status[x] # "absent" <=> Before[x] # "absent"
    <3>1. Spread # "absent" /\ \A x \in Affected : Before[x] # "absent"
      BY <2>1, BeforeFacts DEF Affected, TasksOf
    <3>2. QED
      BY <2>1, <3>1 DEF Spreading
  <2>6. TasksOf(status) = Planned
    BY <2>1, <2>3, <2>5, BeforeFacts DEF TasksOf
  <2>7. /\ Waiting(stack) \ {d} \subseteq Waiting(Taken(d))
        /\ Waiting(Taken(d)) \subseteq Waiting(stack)
    BY <2>1, StackTakes
  <2>8. ASSUME Waiting(stack') \subseteq Planned,
               Spreading(status', Waiting(stack'), Before, deps0, Affected, S, Spread)
        PROVE  CascadeInv'
    BY <2>1, <2>2, <2>3, <2>8 DEF CascadeInv
  <2>9. CASE status[d] \notin TerminalStatus \cup {Spread}
    <3>1. /\ status' = [status EXCEPT ![d] = Spread]
          /\ stack' = Append(Taken(d), Call(d, Dependents(status, deps, d)))
      BY <1>3, <2>9 DEF PropagateTo
    <3>2. d \in Affected
      BY <2>3, <2>4, <2>9 DEF Affected
    <3>3. Waiting(stack') = Waiting(Taken(d)) \cup {x \in Planned : d \in deps0[x]}
      <4>1. Dependents(status, deps, d) = {x \in Planned : d \in deps0[x]}
        BY <2>1, <2>6 DEF Dependents
      <4>2. Dependents(status, deps, d) \in SUBSET Ids
        BY <2>1, DependentsAreIds
      <4>3. QED
        BY <2>1, <3>1, <4>1, <4>2, StackCalls, StackTakes
    <3>4. /\ Waiting(stack) \ {d} \subseteq Waiting(stack')
          /\ \A x \in Affected : d \in deps0[x] => x \in Waiting(stack')
          /\ \A x \in Waiting(stack') : x \in Waiting(stack) \/ d \in deps0[x]
          /\ Waiting(stack') \subseteq Planned
      BY <2>1, <2>3, <2>7, <3>3, BeforeFacts
    <3>5. Spreading(status', Waiting(stack'), Before, deps0, Affected, S, Spread)
      BY <2>1, <2>3, <3>1, <3>2, <3>4, SpreadingOn
    <3>6. QED
      BY <2>8, <3>4, <3>5
  <2>10. CASE status[d] \in TerminalStatus \cup {Spread}
    <3>1. stack' = Taken(d) /\ status' = status
      BY <1>3, <2>10 DEF PropagateTo
    <3>2. d \notin Affected \/ status[d] = Spread
      BY <2>4, <2>10 DEF Affected
    <3>3. Spreading(status', Waiting(stack'), Before, deps0, Affected, S, Spread)
      BY <2>1, <2>7, <3>1, <3>2, SpreadingBy
    <3>4. QED
      BY <2>1, <2>7, <2>8, <3>1, <3>3
  <2>11. QED
    BY <2>9, <2>10
<1>4. CASE WalkReturns
  <2>1. Waiting(stack') = Waiting(stack)
    BY <1>4, StackReturns DEF WalkReturns, WalkTypes
  <2>2. QED
    BY <1>4, <2>1 DEF WalkReturns, graph0, searchVars, CascadeInv, Cascading, Before, Affected,
                      Spread, Spreading, Changed
<1>5. QED
  <2>1. ASSUME NEW d \in Ids, Rewire(d) \/ UnblockNext(d) PROVE ~Cascading'
    BY <2>1 DEF Rewire, UnblockNext, Cascading
  <2>2. CASE CallInsert \/ \E o \in {"validate", "sort"} : CallSearch(o)
    BY <2>2 DEF CallInsert, CallSearch, Cascading, CascadeInv
  <2>3. ASSUME NEW t \in Planned, VisitRoot(t) \/ VisitWhite(t) \/ MeetGrey(t) \/ PassBy(t)
        PROVE  ~Cascading'
    BY <2>3 DEF VisitRoot, VisitWhite, MeetGrey, PassBy, Cascading, Searching
  <2>4. CASE VisitReturns
    BY <2>4 DEF VisitReturns, Cascading, Searching, CascadeInv
  <2>5. QED
    BY <1>1, <1>2, <1>3, <1>4, <2>1, <2>2, <2>3, <2>4 DEF Next, CascadeInv

\* When it is over, it has done what UpdateStatus says.
LEMMA CascadeEnd == WalkTypes /\ CascadeInv => CascadeIsReach
<1> SUFFICES ASSUME WalkTypes, CascadeInv, Cascading, Done PROVE
                /\ status = UpdateStatus(status0, deps0, subject, op)
                /\ deps = deps0
  BY DEF CascadeIsReach
<1> DEFINE S == Dependents(Before, deps0, subject)
           R == Cascade(Before, deps0, subject, Spread)
<1>1. /\ deps = deps0 /\ left \cup Waiting(stack) = {}
      /\ Spreading(status, {}, Before, deps0, Affected, S, Spread)
  BY EmptyStack DEF CascadeInv, Done
<1>2. R = Reach(deps0, Affected, S)
  BY DEF Cascade, Affected
<1>3. Changed(status, Affected, Spread) = R
  BY <1>1, <1>2, SpreadsEnd DEF Spreading
<1>4. \A d \in Ids : status[d] = IF d \in R THEN Spread ELSE Before[d]
  <2>1. R \subseteq Affected
    BY <1>2, ReachIsLeast
  <2> HIDE DEF R
  <2>2. QED
    BY <1>1, <1>3, <2>1 DEF Spreading, Changed
<1>5. status = Propagate(Before, deps0, subject, Spread)
  <2>1. DOMAIN Before = Ids /\ status \in [Ids -> Status]
    BY BeforeFacts DEF WalkTypes
  <2> HIDE DEF R
  <2>2. status = [d \in Ids |-> IF d \in R THEN Spread ELSE Before[d]]
    BY <1>4, <2>1
  <2>3. QED
    BY <2>1, <2>2 DEF Propagate, R
<1>6. QED
  <2>1. CASE op = "failed"
    BY <1>1, <1>5, <2>1 DEF UpdateStatus, Before, Spread
  <2>2. CASE op = "cancelled"
    BY <1>1, <1>5, <2>2 DEF UpdateStatus, Before, Spread
  <2>3. QED
    BY <2>1, <2>2 DEF Cascading

-----------------------------------------------------------------------------
(* The insertion of a recovery.                                              *)

Inserted == [status0 EXCEPT ![Debug] = "created", ![Retest] = "created"]
Waiters  == Dependents(status0, deps0, subject)
Final    == RewiredDeps(status0, deps0, subject, Debug, Retest)
Blocked  == {d \in TasksOf(Inserted) : Inserted[d] \in Resettable}

(* The graph is rewired but for the dependents that are left, and unblocked   *)
(* as far as the walks have come.                                            *)
HalfRewired(dp, rest) ==
    /\ rest \subseteq Waiters
    /\ \A x \in Ids : dp[x] = IF x \in rest THEN deps0[x] ELSE Final[x]

Unblocked(st, P) == Spreading(st, P, Inserted, Final, Blocked, Waiters, "created")

InsertInv ==
    op = "insert" =>
        HalfRewired(deps, left) /\ Unblocked(status, left \cup Waiting(stack))

\* The graph with the two tasks in it, before and after the rewiring.
LEMMA InsertedFacts ==
  ASSUME WalkTypes
  PROVE  /\ Inserted \in [Ids -> Status] /\ Waiters \subseteq Planned
         /\ Blocked \subseteq Planned
         /\ \A d \in Planned : Inserted[d] = status0[d] /\ Inserted[d] # "absent"
         /\ \A d \in Blocked : Inserted[d] \in Resettable /\ Inserted[d] # "created"
         /\ \A d \in Planned : d \notin Blocked => Inserted[d] \notin Resettable
         /\ Inserted[Debug] = "created" /\ Inserted[Retest] = "created"
         /\ DOMAIN Final = Ids
         /\ Final[Debug] = deps0[subject] /\ Final[Retest] = {Debug}
         /\ \A d \in Planned : Final[d] = IF d \in Waiters
                                         THEN (deps0[d] \ {subject}) \cup {Retest}
                                         ELSE deps0[d]
<1>1. /\ Debug \in Ids /\ Retest \in Ids /\ Debug # Retest /\ Planned \subseteq Ids
      /\ Debug \notin Planned /\ Retest \notin Planned
      /\ \A d \in Ids : d \in Planned \/ d = Debug \/ d = Retest
      /\ "created" \in Status /\ "absent" # "created" /\ "created" \notin Resettable
  BY WalkAssumption DEF Ids, Status, TaskStatus, LiveStatus, Resettable
<1>2. /\ Inserted \in [Ids -> Status]
      /\ Inserted[Debug] = "created" /\ Inserted[Retest] = "created"
      /\ \A d \in Planned : Inserted[d] = status0[d] /\ Inserted[d] # "absent"
  BY <1>1 DEF Inserted, WalkTypes
<1>3. Waiters \subseteq Planned
  BY <1>1 DEF Waiters, Dependents, TasksOf, WalkTypes
<1>4. /\ Blocked \subseteq Planned
      /\ \A d \in Blocked : Inserted[d] \in Resettable /\ Inserted[d] # "created"
      /\ \A d \in Planned : d \notin Blocked => Inserted[d] \notin Resettable
  BY <1>1, <1>2 DEF Blocked, TasksOf
<1>5. Waiters \ {Debug, Retest} = Waiters
  BY <1>1, <1>3
<1>6. /\ DOMAIN Final = Ids
      /\ \A d \in Ids : Final[d] = CASE d = Debug -> deps0[subject]
                                     [] d = Retest -> {Debug}
                                     [] d \in Waiters -> (deps0[d] \ {subject}) \cup {Retest}
                                     [] OTHER -> deps0[d]
  BY <1>5 DEF Final, RewiredDeps, Waiters, WalkTypes
<1>7. /\ Final[Debug] = deps0[subject] /\ Final[Retest] = {Debug}
      /\ \A d \in Planned : Final[d] = IF d \in Waiters
                                      THEN (deps0[d] \ {subject}) \cup {Retest}
                                      ELSE deps0[d]
  BY <1>1, <1>3, <1>6
<1>8. QED
  BY <1>2, <1>3, <1>4, <1>6, <1>7

\* A call of _unblock_dependents on a half rewired graph unblocks what it would
\* on the rewired one: what it looks at besides is waiting anyway.
LEMMA UnblockKeeps ==
  ASSUME WalkTypes, NEW P, Unblocked(status, P), NEW d \in Ids, d \in P,
         NEW s \in Seq(Frame), NEW dp, NEW rest, HalfRewired(dp, rest),
         P \ {d} \subseteq rest \cup Waiting(s), rest \cup Waiting(s) \subseteq P,
         UnblockFrom(s, dp, d)
  PROVE  Unblocked(status', rest \cup Waiting(stack'))
<1>1. /\ status \in [Ids -> Status] /\ Blocked \in SUBSET Ids
      /\ Planned \subseteq Ids
      /\ \A x \in Ids : status[x] = Inserted[x] \/ (x \in Blocked /\ status[x] = "created")
  BY InsertedFacts DEF WalkTypes, Unblocked, Spreading, Ids
<1>2. CASE status[d] \in Resettable
  <2>1. /\ status' = [status EXCEPT ![d] = "created"]
        /\ stack' = Append(s, Call(d, Dependents(status, dp, d)))
    BY <1>2, Zenon DEF UnblockFrom
  <2>2. d \in Blocked /\ d \in Planned
    <3>1. status[d] = Inserted[d] /\ Inserted[d] \in Resettable /\ Inserted[d] # "absent"
      BY <1>1, <1>2 DEF Resettable
    <3>2. QED
      BY <1>1, <3>1, InsertedFacts DEF Blocked, TasksOf
  <2>3. Waiting(stack') = Waiting(s) \cup Dependents(status, dp, d)
    BY <1>1, <2>1, StackCalls, DependentsAreIds
  <2>4. ASSUME NEW x \in Blocked, d \in Final[x] PROVE x \in Dependents(status, dp, d)
    <3>1. x \in Planned /\ x \in Ids /\ d # Retest
      BY <1>1, <2>2, InsertedFacts, WalkAssumption
    <3>2. d \in dp[x]
      BY <2>4, <3>1, InsertedFacts DEF HalfRewired
    <3>3. status[x] # "absent"
      BY <1>1, <3>1, InsertedFacts
    <3>4. QED
      BY <1>1, <3>1, <3>2, <3>3 DEF Dependents, TasksOf
  <2>5. ASSUME NEW x \in Dependents(status, dp, d) PROVE x \in P \/ d \in Final[x]
    <3>1. x \in Ids /\ d \in dp[x]
      BY <1>1 DEF Dependents, TasksOf
    <3>2. QED
      BY <3>1 DEF HalfRewired
  <2>6. QED
    <3> DEFINE Q == rest \cup Waiting(stack')
    <3>1. /\ P \ {d} \subseteq Q
          /\ \A x \in Blocked : d \in Final[x] => x \in Q
          /\ \A x \in Q : x \in P \/ d \in Final[x]
      BY <2>3, <2>4, <2>5
    <3> HIDE DEF Q
    <3>2. Spreading([status EXCEPT ![d] = "created"], Q, Inserted, Final, Blocked, Waiters, "created")
      BY <1>1, <2>2, <3>1, SpreadingOn DEF Unblocked
    <3>3. QED
      BY <2>1, <3>2 DEF Unblocked, Q
<1>3. CASE status[d] \notin Resettable
  <2>1. stack' = s /\ status' = status
    BY <1>3 DEF UnblockFrom
  <2>2. d \notin Blocked \/ status[d] = "created"
    BY <1>1, <1>3, InsertedFacts
  <2>3. QED
    <3> DEFINE Q == rest \cup Waiting(stack')
    <3>1. P \ {d} \subseteq Q /\ Q \subseteq P
      BY <2>1
    <3> HIDE DEF Q
    <3>2. Spreading(status, Q, Inserted, Final, Blocked, Waiters, "created")
      BY <2>2, <3>1, SpreadingBy DEF Unblocked
    <3>3. QED
      BY <2>1, <3>2 DEF Unblocked, Q
<1>4. QED
  BY <1>2, <1>3

\* The insertion goes on as it began.
LEMMA InsertStep ==
  ASSUME WalkTypes, InsertInv, [Next]_vars
  PROVE  InsertInv'
<1>0. ASSUME UNCHANGED <<status0, deps0, subject>>
      PROVE  /\ Inserted' = Inserted /\ Waiters' = Waiters /\ Final' = Final /\ Blocked' = Blocked
             /\ HalfRewired(deps, left)' <=> HalfRewired(deps', left')
             /\ Unblocked(status, left \cup Waiting(stack))'
                  <=> Unblocked(status', left' \cup Waiting(stack'))
  BY <1>0 DEF Inserted, Waiters, Final, Blocked, HalfRewired, Unblocked
<1>1. CASE UNCHANGED vars
  BY <1>0, <1>1 DEF vars, graph0, InsertInv
<1>2. CASE CallInsert
  <2>1. /\ status = status0 /\ deps = deps0 /\ stack = <<>> /\ stack' = <<>>
        /\ status' = Inserted
        /\ deps' = [deps0 EXCEPT ![Debug] = deps0[subject], ![Retest] = {Debug}]
        /\ left' = Dependents(status', deps', subject) \ {Debug, Retest}
        /\ UNCHANGED <<status0, deps0, subject>>
    BY <1>2 DEF CallInsert, WalkTypes, graph0, Inserted
  <2>2. left' = Waiters
    <3>1. \A x \in Planned : /\ deps'[x] = deps0[x] /\ x \in Ids
                             /\ Inserted[x] # "absent" /\ status0[x] # "absent"
      BY <2>1, WalkAssumption, InsertedFacts DEF WalkTypes, Ids
    <3>2. \A x \in Ids : x \in Planned \/ x \in {Debug, Retest}
      BY DEF Ids
    <3>3. DOMAIN status' = Ids /\ DOMAIN status0 = Ids
      BY <2>1, InsertedFacts DEF WalkTypes
    <3>4. \A x \in Planned : x \in left' <=> x \in Waiters
      BY <2>1, <3>1, <3>3, WalkAssumption DEF Waiters, Dependents, TasksOf
    <3>5. left' \subseteq Planned /\ Waiters \subseteq Planned
      BY <2>1, <3>2, <3>3, InsertedFacts DEF Dependents, TasksOf
    <3>6. QED
      BY <3>4, <3>5
  <2>3. HalfRewired(deps', left')
    <3>1. \A x \in Ids : x \in Planned \/ x = Debug \/ x = Retest
      BY DEF Ids
    <3>2. /\ deps'[Debug] = deps0[subject] /\ deps'[Retest] = {Debug}
          /\ \A x \in Planned : deps'[x] = deps0[x]
      BY <2>1, WalkAssumption DEF WalkTypes, Ids
    <3>3. Debug \notin Waiters /\ Retest \notin Waiters
      BY InsertedFacts, WalkAssumption
    <3>4. QED
      BY <2>2, <3>1, <3>2, <3>3, InsertedFacts DEF HalfRewired
  <2>4. Unblocked(status', left' \cup Waiting(stack'))
    <3>1. Changed(Inserted, Blocked, "created") = {}
      BY InsertedFacts DEF Changed
    <3>2. Spreads(Final, Blocked, Waiters, {}, Waiters)
      BY ReachIsLeast DEF Spreads
    <3>3. left' \cup Waiting(stack') = Waiters
      BY <2>1, <2>2, EmptyStack
    <3>4. QED
      BY <2>1, <3>1, <3>2, <3>3 DEF Unblocked, Spreading
  <2>5. QED
    BY <1>0, <2>1, <2>3, <2>4 DEF InsertInv
<1>3. ASSUME NEW d \in Ids, Rewire(d) PROVE InsertInv'
  <2>1. /\ op = "insert" /\ stack = <<>> /\ d \in left /\ left' = left \ {d}
        /\ deps' = [deps EXCEPT ![d] = (@ \ {subject}) \cup {Retest}]
        /\ UnblockFrom(<<>>, deps', d)
        /\ UNCHANGED <<status0, deps0, subject>>
        /\ HalfRewired(deps, left) /\ Unblocked(status, left \cup Waiting(stack))
    BY <1>3 DEF Rewire, graph0, InsertInv
  <2>2. HalfRewired(deps', left')
    <3>1. d \in Waiters /\ d \in Planned /\ deps[d] = deps0[d]
      BY <2>1, InsertedFacts DEF HalfRewired
    <3>2. deps'[d] = Final[d] /\ \A x \in Ids : x # d => deps'[x] = deps[x]
      BY <2>1, <3>1, InsertedFacts DEF WalkTypes
    <3>3. QED
      BY <2>1, <3>1, <3>2 DEF HalfRewired
  <2>3. Unblocked(status', left' \cup Waiting(stack'))
    <3>1. /\ d \in left \cup Waiting(stack)
          /\ (left \cup Waiting(stack)) \ {d} \subseteq left' \cup Waiting(<<>>)
          /\ left' \cup Waiting(<<>>) \subseteq left \cup Waiting(stack)
      BY <2>1, EmptyStack
    <3>2. QED
      BY <2>1, <2>2, <3>1, EmptyStack, UnblockKeeps
  <2>4. QED
    BY <1>0, <2>1, <2>2, <2>3 DEF InsertInv
<1>4. ASSUME NEW d \in Ids, UnblockNext(d) PROVE InsertInv'
  <2>1. /\ op = "insert" /\ Takes(d) /\ UnblockFrom(Taken(d), deps, d)
        /\ UNCHANGED <<deps, left, status0, deps0, subject>>
        /\ HalfRewired(deps, left) /\ Unblocked(status, left \cup Waiting(stack))
    BY <1>4 DEF UnblockNext, graph0, InsertInv
  <2>2. /\ Taken(d) \in Seq(Frame)
        /\ Waiting(stack) \ {d} \subseteq Waiting(Taken(d))
        /\ Waiting(Taken(d)) \subseteq Waiting(stack) /\ d \in Waiting(stack)
    BY <2>1, StackTakes DEF WalkTypes
  <2>4. Unblocked(status', left \cup Waiting(stack'))
    BY <2>1, <2>2, UnblockKeeps
  <2>5. QED
    BY <1>0, <2>1, <2>4 DEF InsertInv
<1>5. CASE WalkReturns
  <2>1. /\ Waiting(stack') = Waiting(stack)
        /\ UNCHANGED <<status, deps, left, op, status0, deps0, subject>>
    BY <1>5, StackReturns DEF WalkReturns, WalkTypes, graph0
  <2>2. QED
    BY <1>0, <2>1 DEF InsertInv
<1>6. QED
  <2>1. CASE \E s \in {"failed", "cancelled"} : CallUpdate(s)
    BY <2>1 DEF CallUpdate, InsertInv
  <2>2. CASE \E o \in {"validate", "sort"} : CallSearch(o)
    BY <2>2 DEF CallSearch, InsertInv
  <2>3. ASSUME NEW d \in Ids, PropagateTo(d) PROVE InsertInv'
    BY <2>3 DEF PropagateTo, Cascading, InsertInv
  <2>4. ASSUME NEW t \in Planned, VisitRoot(t) \/ VisitWhite(t) \/ MeetGrey(t) \/ PassBy(t)
        PROVE  InsertInv'
    BY <2>4 DEF VisitRoot, VisitWhite, MeetGrey, PassBy, Searching, InsertInv
  <2>5. CASE VisitReturns
    BY <2>5 DEF VisitReturns, Searching, InsertInv
  <2>6. QED
    BY <1>1, <1>2, <1>3, <1>4, <1>5, <2>1, <2>2, <2>3, <2>4, <2>5 DEF Next

\* When it is over, it has done what RewiredDeps and RecoveredStatus say.
LEMMA InsertEnd == WalkTypes /\ InsertInv => InsertIsRewiring
<1> SUFFICES ASSUME WalkTypes, InsertInv, op = "insert", Done PROVE
                /\ deps = RewiredDeps(status0, deps0, subject, Debug, Retest)
                /\ status = RecoveredStatus(status0, deps0, subject, Debug, Retest)
  BY DEF InsertIsRewiring
<1> DEFINE R == Reach(Final, Blocked, Waiters)
<1>1. left = {} /\ left \cup Waiting(stack) = {} /\ Unblocked(status, {}) /\ HalfRewired(deps, {})
  BY EmptyStack DEF InsertInv, Done
<1>2. deps = Final
  BY <1>1, InsertedFacts DEF HalfRewired, WalkTypes, Final, RewiredDeps
<1>3. Changed(status, Blocked, "created") = R
  BY <1>1, SpreadsEnd DEF Unblocked, Spreading
<1>4. status = [d \in Ids |-> IF d \in R THEN "created" ELSE Inserted[d]]
  <2>1. R \subseteq Blocked /\ status \in [Ids -> Status]
    BY ReachIsLeast DEF WalkTypes
  <2> HIDE DEF R
  <2>2. \A d \in Ids : status[d] = IF d \in R THEN "created" ELSE Inserted[d]
    BY <1>1, <1>3, <2>1 DEF Unblocked, Spreading, Changed
  <2>3. QED
    BY <2>1, <2>2
<1>5. Waiters \ {Debug, Retest} = Waiters /\ DOMAIN Inserted = Ids
  BY InsertedFacts, WalkAssumption
<1>6. RecoveredStatus(status0, deps0, subject, Debug, Retest) = Unblock(Inserted, Final, Waiters)
  BY <1>5 DEF RecoveredStatus, Inserted, Final, Waiters
<1>7. QED
  BY <1>2, <1>4, <1>5, <1>6 DEF Unblock, Blocked, Final

-----------------------------------------------------------------------------
(* The searches.                                                             *)

Black == {t \in Planned : colour[t] = "black"}
Grey  == {t \in Planned : colour[t] = "grey"}

(* Among the tasks of S, one waits for no other of them.                     *)
Grounded(S) == \A Q \in SUBSET S : Q # {} => \E t \in Q : deps0[t] \cap Q = {}

(* topological_sort passes by a grey task, which there is only in a cycle.   *)
Exact == op = "validate" \/ ~Circular(deps0)

(* The calls under way are a path of grey tasks, each with its dependencies   *)
(* seen but for those in its loop; the black tasks are behind it.             *)
Path(st, G, B) ==
    /\ \A i \in DOMAIN st :
          /\ st[i].task \in G /\ st[i].todo \subseteq deps0[st[i].task]
          /\ Exact => \A d \in deps0[st[i].task] \ st[i].todo :
                d \in B \/ (i + 1 \in DOMAIN st /\ st[i + 1].task = d)
          /\ i + 1 \in DOMAIN st => st[i + 1].task \in deps0[st[i].task]
          /\ \A j \in DOMAIN st : st[i].task = st[j].task => i = j
    /\ Exact => \A t \in B : deps0[t] \subseteq B

PathInv == Path(stack, Grey, Black)

(* What has been found.                                                      *)
ResultInv ==
    /\ cyclic => op = "validate" /\ Circular(deps0)
    /\ ~cyclic => /\ Grey \subseteq {stack[i].task : i \in DOMAIN stack}
                  /\ Planned \subseteq left \cup Grey \cup Black
    /\ op = "validate" => Grounded(Black)
    /\ op = "sort" =>
         /\ \A t \in Planned : t \in Black <=> \E i \in DOMAIN sorted : sorted[i] = t
         /\ \A i, j \in DOMAIN sorted :
               /\ sorted[i] = sorted[j] => i = j
               /\ ~Circular(deps0) /\ sorted[i] \in deps0[sorted[j]] => i < j

SearchInv == Searching => PathInv /\ ResultInv /\ deps = deps0

\* The colours of a task.
LEMMA ColourFacts ==
  ASSUME WalkTypes
  PROVE  /\ \A t \in Planned : /\ colour[t] = "white" <=> t \notin Grey /\ t \notin Black
                               /\ colour[t] = "grey" <=> t \in Grey
                               /\ colour[t] = "black" <=> t \in Black
         /\ Grey \cap Black = {} /\ Grey \subseteq Planned /\ Black \subseteq Planned
BY DEF WalkTypes, Colour, Grey, Black

\* A dependency that is still being visited closes a cycle.
LEMMA GreyIsCycle ==
  ASSUME WalkTypes, PathInv, NEW d \in Planned, Takes(d), d \in Grey,
         Grey \subseteq {stack[i].task : i \in DOMAIN stack}
  PROVE  Circular(deps0)
<1>1. PICK k \in DOMAIN stack : stack[k].task = d
  OBVIOUS
<1> DEFINE n == Len(stack)
           S == {stack[i].task : i \in {j \in DOMAIN stack : j >= k}}
<1>2. n \in Nat \ {0} /\ DOMAIN stack = 1 .. n /\ d \in stack[n].todo /\ n \in 1 .. n
  BY DEF Takes, Innermost, WalkTypes
<1>3. d \in S /\ S \in SUBSET Planned
  BY <1>1, <1>2, ColourFacts DEF PathInv, Path
<1>4. ASSUME NEW i \in 1 .. n, i >= k PROVE deps0[stack[i].task] \cap S # {}
  <2>1. CASE i = n
    BY <1>2, <1>3, <2>1 DEF PathInv, Path
  <2>2. CASE i # n
    <3>1. i + 1 \in 1 .. n /\ i + 1 >= k
      <4>1. k \in 1 .. n
        BY <1>1, <1>2
      <4> HIDE DEF n
      <4>2. QED
        BY <1>2, <1>4, <2>2, <4>1
    <3>2. stack[i + 1].task \in S
      BY <1>2, <3>1
    <3>3. stack[i + 1].task \in deps0[stack[i].task]
      BY <1>2, <3>1 DEF PathInv, Path
    <3>4. QED
      BY <3>2, <3>3
  <2>3. QED
    BY <2>1, <2>2
<1>5. \A t \in S : deps0[t] \cap S # {}
  <2> SUFFICES ASSUME NEW t \in S PROVE deps0[t] \cap S # {}
    OBVIOUS
  <2>1. PICK i \in 1 .. n : i >= k /\ t = stack[i].task
    BY <1>2
  <2>2. QED
    BY <1>4, <2>1
<1>6. QED
  BY <1>3, <1>5 DEF Circular

\* A task whose dependencies are in a grounded set, and which is not, can join it.
LEMMA GroundedGrows ==
  ASSUME NEW S, Grounded(S), NEW t, t \notin S, deps0[t] \subseteq S,
         \A u \in S : deps0[u] \subseteq S
  PROVE  Grounded(S \cup {t})
<1> SUFFICES ASSUME NEW Q \in SUBSET (S \cup {t}), Q # {} PROVE \E u \in Q : deps0[u] \cap Q = {}
  BY DEF Grounded
<1>1. CASE Q \ {t} = {}
  <2>1. t \in Q /\ deps0[t] \cap Q = {}
    BY <1>1
  <2>2. QED
    BY <2>1
<1>2. CASE Q \ {t} # {}
  <2>1. PICK u \in Q \ {t} : deps0[u] \cap (Q \ {t}) = {}
    BY <1>2 DEF Grounded
  <2>2. t \notin deps0[u]
    BY <2>1
  <2>3. QED
    BY <2>1, <2>2
<1>3. QED
  BY <1>1, <1>2

\* What a search leaves alone.
LEMMA SearchKeeps ==
  ASSUME UNCHANGED <<status, deps, graph0, op, subject>>
  PROVE  /\ Exact' = Exact /\ deps0' = deps0 /\ deps' = deps /\ op' = op
         /\ \A S : Grounded(S)' <=> Grounded(S)
         /\ PathInv' <=> Path(stack', Grey', Black')
<1>1. deps0' = deps0 /\ op' = op /\ deps' = deps
  BY DEF graph0
<1>2. Circular(deps0)' = Circular(deps0)
  BY <1>1 DEF Circular
<1>3. Exact' = Exact
  BY <1>1, <1>2 DEF Exact
<1>4. QED
  BY <1>1, <1>3 DEF Grounded, PathInv, Path

\* A new task is visited: the path s is one longer.
LEMMA PathGrows ==
  ASSUME WalkTypes, PathInv, NEW s \in Seq(Frame), NEW t \in Planned,
         colour[t] = "white", Len(s) = Len(stack), deps = deps0,
         \A i \in DOMAIN s :
            /\ s[i].task = stack[i].task
            /\ s[i].todo = IF i = Len(s) THEN stack[i].todo \ {t} ELSE stack[i].todo,
         stack # <<>> => t \in Innermost.todo,
         Visit(s, t)
  PROVE  /\ Path(stack', Grey', Black') /\ Black' = Black /\ Grey' = Grey \cup {t}
         /\ {stack'[i].task : i \in DOMAIN stack'} = {stack[i].task : i \in DOMAIN stack} \cup {t}
<1> DEFINE n == Len(stack)
<1>1. t \in Ids /\ deps0[t] \in SUBSET Ids /\ stack' = Append(s, Call(t, deps0[t]))
      /\ colour' = [colour EXCEPT ![t] = "grey"]
  BY DEF Visit, WalkTypes, Ids
<1>2. /\ n \in Nat /\ DOMAIN stack' = 1 .. n + 1 /\ DOMAIN s = 1 .. n /\ DOMAIN stack = 1 .. n
      /\ stack'[n + 1].task = t /\ stack'[n + 1].todo = deps0[t]
      /\ \A i \in 1 .. n : stack'[i] = s[i]
  BY <1>1, StackCalls DEF WalkTypes
<1>3. Black' = Black /\ Grey' = Grey \cup {t} /\ t \notin Grey /\ t \notin Black
  BY <1>1, ColourFacts DEF Black, Grey, WalkTypes
<1>4. /\ \A i \in 1 .. n :
            /\ stack'[i].task = stack[i].task
            /\ stack'[i].todo = IF i = n THEN stack[i].todo \ {t} ELSE stack[i].todo
      /\ n # 0 => t \in stack[n].todo
  <2>1. stack # <<>> => t \in stack[n].todo
    BY DEF Innermost
  <2>2. n # 0 => stack # <<>>
    OBVIOUS
  <2>3. QED
    BY <1>2, <2>1, <2>2
<1> HIDE DEF n
<1>5. /\ n + 1 \in 1 .. n + 1 /\ n + 2 \notin 1 .. n + 1
      /\ \A i \in 1 .. n + 1 : i = n + 1 \/ (i \in 1 .. n /\ i + 1 \in 1 .. n + 1)
      /\ \A i \in 1 .. n : i \in 1 .. n + 1 /\ i # n + 1 /\ (i # n => i + 1 \in 1 .. n)
      /\ n + 1 + 1 = n + 2
  BY <1>2
<1>6. {stack'[i].task : i \in DOMAIN stack'} = {stack[i].task : i \in DOMAIN stack} \cup {t}
  <2>1. ASSUME NEW x \in {stack'[i].task : i \in DOMAIN stack'}
        PROVE  x \in {stack[i].task : i \in DOMAIN stack} \cup {t}
    <3>1. PICK i \in 1 .. n + 1 : x = stack'[i].task
      BY <1>2
    <3>2. QED
      BY <1>2, <1>4, <1>5, <3>1
  <2>2. ASSUME NEW x \in {stack[i].task : i \in DOMAIN stack}
        PROVE  x \in {stack'[i].task : i \in DOMAIN stack'}
    <3>1. PICK i \in 1 .. n : x = stack[i].task
      BY <1>2
    <3>2. i \in DOMAIN stack' /\ stack'[i].task = x
      BY <1>2, <1>4, <1>5, <3>1
    <3>3. QED
      BY <3>2
  <2>3. t \in {stack'[j].task : j \in DOMAIN stack'}
    <3>1. n + 1 \in DOMAIN stack' /\ stack'[n + 1].task = t
      BY <1>2, <1>5
    <3>2. QED
      BY <3>1
  <2>4. QED
    BY <2>1, <2>2, <2>3
<1>7. ASSUME NEW i \in 1 .. n + 1
      PROVE  /\ stack'[i].task \in Grey \cup {t} /\ stack'[i].todo \subseteq deps0[stack'[i].task]
             /\ Exact => \A d \in deps0[stack'[i].task] \ stack'[i].todo :
                   d \in Black \/ (i + 1 \in 1 .. n + 1 /\ stack'[i + 1].task = d)
             /\ i + 1 \in 1 .. n + 1 => stack'[i + 1].task \in deps0[stack'[i].task]
             /\ \A j \in 1 .. n + 1 : stack'[i].task = stack'[j].task => i = j
  <2>0. \A j \in 1 .. n :
           /\ stack[j].task \in Grey /\ stack[j].todo \subseteq deps0[stack[j].task]
           /\ Exact => \A d \in deps0[stack[j].task] \ stack[j].todo :
                 d \in Black \/ (j + 1 \in 1 .. n /\ stack[j + 1].task = d)
           /\ j + 1 \in 1 .. n => stack[j + 1].task \in deps0[stack[j].task]
           /\ \A k \in 1 .. n : stack[j].task = stack[k].task => j = k
    BY <1>2 DEF PathInv, Path
  <2>1. ASSUME i \in 1 .. n, NEW j \in 1 .. n + 1, stack'[i].task = stack'[j].task PROVE i = j
    <3>1. stack'[i].task = stack[i].task /\ stack[i].task \in Grey
      BY <1>4, <2>0, <2>1
    <3>2. j # n + 1
      BY <1>2, <1>3, <2>1, <3>1
    <3>3. j \in 1 .. n /\ stack'[j].task = stack[j].task
      BY <1>4, <1>5, <3>2
    <3>4. QED
      BY <2>0, <2>1, <3>1, <3>3
  <2>2. CASE i = n + 1
    BY <1>2, <1>3, <1>4, <1>5, <2>0, <2>2
  <2>3. CASE i \in 1 .. n /\ i # n
    <3>1. i + 1 \in 1 .. n
      BY <1>5, <2>3
    <3>2. /\ stack'[i].task = stack[i].task /\ stack'[i].todo = stack[i].todo
          /\ stack'[i + 1].task = stack[i + 1].task
      BY <1>4, <2>3, <3>1
    <3>3. \A j \in 1 .. n + 1 : stack'[i].task = stack'[j].task => i = j
      BY <2>3, <2>1
    <3>4. QED
      BY <1>5, <2>0, <2>3, <3>1, <3>2, <3>3
  <2>4. CASE i \in 1 .. n /\ i = n
    <3>1. /\ stack'[i].task = stack[i].task /\ stack'[i].todo = stack[i].todo \ {t}
          /\ stack'[i + 1].task = t /\ i + 1 \in 1 .. n + 1 /\ i + 1 \notin 1 .. n
          /\ t \in stack[i].todo
      <4>1. n \in 1 .. n /\ n # 0 /\ n + 1 \notin 1 .. n
        BY <1>2, <2>4
      <4>2. QED
        BY <1>2, <1>4, <1>5, <2>4, <4>1
    <3>2. \A j \in 1 .. n + 1 : stack'[i].task = stack'[j].task => i = j
      BY <2>4, <2>1
    <3>3. QED
      BY <2>0, <2>4, <3>1, <3>2
  <2>5. QED
    BY <1>5, <2>2, <2>3, <2>4
<1>8. Path(stack', Grey', Black')
  BY <1>2, <1>3, <1>7 DEF PathInv, Path
<1>9. QED
  BY <1>3, <1>6, <1>8

\* The innermost visit returns: the path is one shorter, and its task is behind it.
LEMMA PathShrinks ==
  ASSUME WalkTypes, PathInv, VisitReturns
  PROVE  LET t == Innermost.task
         IN  /\ Path(stack', Grey', Black') /\ t \in Grey /\ t \in Planned
             /\ Black' = Black \cup {t} /\ Grey' = Grey \ {t}
             /\ Exact => deps0[t] \subseteq Black
             /\ {stack[i].task : i \in DOMAIN stack} = {stack'[i].task : i \in DOMAIN stack'} \cup {t}
<1> DEFINE n == Len(stack)
           t == Innermost.task
<1>1. /\ n \in Nat \ {0} /\ DOMAIN stack' = 1 .. n - 1 /\ DOMAIN stack = 1 .. n
      /\ t = stack[n].task /\ stack[n].todo = {}
      /\ \A i \in 1 .. n - 1 : stack'[i] = stack[i]
      /\ colour' = [colour EXCEPT ![t] = "black"]
  BY StackReturns DEF VisitReturns, WalkTypes, Innermost
<1> HIDE DEF n
<1>2. /\ n \in 1 .. n /\ n + 1 \notin 1 .. n /\ n \notin 1 .. n - 1
      /\ \A i \in 1 .. n : i = n \/ i \in 1 .. n - 1
      /\ \A i \in 1 .. n - 1 : i \in 1 .. n /\ (i + 1 \in 1 .. n)
  BY <1>1
<1>3. t \in Grey /\ t \in Planned /\ (Exact => deps0[t] \subseteq Black)
  BY <1>1, <1>2, ColourFacts DEF PathInv, Path
<1>4. Black' = Black \cup {t} /\ Grey' = Grey \ {t}
  BY <1>1, <1>3 DEF Black, Grey, WalkTypes
<1>5. {stack[i].task : i \in DOMAIN stack} = {stack'[i].task : i \in DOMAIN stack'} \cup {t}
  BY <1>1, <1>2
<1>6. ASSUME NEW i \in 1 .. n - 1
      PROVE  /\ stack'[i].task \in Grey \ {t} /\ stack'[i].todo \subseteq deps0[stack'[i].task]
             /\ Exact => \A d \in deps0[stack'[i].task] \ stack'[i].todo :
                   d \in Black \cup {t} \/ (i + 1 \in 1 .. n - 1 /\ stack'[i + 1].task = d)
             /\ i + 1 \in 1 .. n - 1 => stack'[i + 1].task \in deps0[stack'[i].task]
             /\ \A j \in 1 .. n - 1 : stack'[i].task = stack'[j].task => i = j
  <2>1. /\ i \in 1 .. n /\ i + 1 \in 1 .. n /\ i # n /\ stack'[i] = stack[i]
        /\ i + 1 = n \/ (i + 1 \in 1 .. n - 1 /\ stack'[i + 1] = stack[i + 1])
    BY <1>1, <1>2
  <2>2. /\ stack[i].task \in Grey /\ stack[i].todo \subseteq deps0[stack[i].task]
        /\ Exact => \A d \in deps0[stack[i].task] \ stack[i].todo :
              d \in Black \/ stack[i + 1].task = d
        /\ stack[i + 1].task \in deps0[stack[i].task]
        /\ \A j \in 1 .. n : stack[i].task = stack[j].task => i = j
    BY <1>1, <2>1 DEF PathInv, Path
  <2>3. stack[i].task # t
    BY <1>1, <1>2, <2>1, <2>2
  <2>4. \A j \in 1 .. n - 1 : stack'[i].task = stack'[j].task => i = j
    BY <1>1, <1>2, <2>1, <2>2
  <2>5. QED
    BY <1>1, <2>1, <2>2, <2>3, <2>4
<1>7. Path(stack', Grey', Black')
  <2>1. Exact => \A u \in Black \cup {t} : deps0[u] \subseteq Black \cup {t}
    BY <1>3 DEF PathInv, Path
  <2>2. QED
    BY <1>1, <1>4, <1>6, <2>1 DEF Path
<1>8. QED
  BY <1>3, <1>4, <1>5, <1>7

\* At the end of a search that met no cycle every task is black.
LEMMA AllSeen ==
  ASSUME WalkTypes, ResultInv, ~cyclic, stack = <<>>, left = {}
  PROVE  Black = Planned
<1>1. DOMAIN stack = {}
  OBVIOUS
<1>2. Grey = {}
  BY <1>1 DEF ResultInv
<1>3. QED
  BY <1>2, ColourFacts DEF ResultInv

\* A search that is over has the answer.
LEMMA SearchEnd == WalkTypes /\ SearchInv => SortIsTopological
<1> SUFFICES ASSUME WalkTypes, SearchInv PROVE SortIsTopological
  OBVIOUS
<1>1. ASSUME op = "validate", Done PROVE cyclic = Circular(deps0)
  <2>1. cyclic => Circular(deps0)
    BY <1>1 DEF SearchInv, Searching, ResultInv
  <2>2. ASSUME ~cyclic PROVE ~Circular(deps0)
    <3>1. stack = <<>> /\ left = {} /\ ResultInv
      BY <1>1 DEF Done, SearchInv, Searching
    <3>2. Black = Planned
      BY <2>2, <3>1, AllSeen
    <3>3. Grounded(Planned)
      BY <1>1, <3>1, <3>2 DEF ResultInv
    <3>4. QED
      BY <3>3, Zenon DEF Grounded, Circular
  <2>3. Circular(deps0) \in BOOLEAN /\ cyclic \in BOOLEAN
    BY DEF WalkTypes, Circular
  <2>4. QED
    BY <2>1, <2>2, <2>3
<1>2. ASSUME op = "sort", Done
      PROVE  /\ \A t \in Planned : \E i \in DOMAIN sorted : sorted[i] = t
             /\ \A i, j \in DOMAIN sorted :
                  /\ sorted[i] \in Planned
                  /\ sorted[i] = sorted[j] => i = j
                  /\ sorted[i] \in deps0[sorted[j]] => i < j \/ Circular(deps0)
  <2>1. stack = <<>> /\ left = {} /\ ResultInv /\ ~cyclic
    BY <1>2 DEF Done, SearchInv, Searching, ResultInv
  <2>2. Black = Planned
    BY <2>1, AllSeen
  <2>3. \A i \in DOMAIN sorted : sorted[i] \in Planned
    BY DEF WalkTypes
  <2>4. QED
    BY <1>2, <2>1, <2>2, <2>3 DEF ResultInv
<1>3. QED
  BY <1>1, <1>2 DEF SortIsTopological

\* A visit that returns keeps the result what the black tasks are.
LEMMA ResultShrinks ==
  ASSUME WalkTypes, PathInv, ResultInv, VisitReturns
  PROVE  ResultInv'
<1> DEFINE t == Innermost.task
<1>1. /\ t \in Grey /\ t \in Planned /\ t \notin Black
      /\ Black' = Black \cup {t} /\ Grey' = Grey \ {t}
      /\ Exact => deps0[t] \subseteq Black
      /\ {stack[i].task : i \in DOMAIN stack} = {stack'[i].task : i \in DOMAIN stack'} \cup {t}
  BY PathShrinks, ColourFacts
<1>2. /\ UNCHANGED <<deps0, op, left, cyclic>>
      /\ sorted' = IF op = "sort" THEN Append(sorted, t) ELSE sorted
  BY DEF VisitReturns, graph0
<1>3. Circular(deps0)' = Circular(deps0) /\ \A S : Grounded(S)' <=> Grounded(S)
  BY <1>2 DEF Circular, Grounded
<1> HIDE DEF t
<1>4. ~cyclic => /\ Grey' \subseteq {stack'[i].task : i \in DOMAIN stack'}
                 /\ Planned \subseteq left \cup Grey' \cup Black'
  BY <1>1 DEF ResultInv
<1>5. ASSUME op = "validate" PROVE Grounded(Black')
  <2>1. Exact /\ Grounded(Black) /\ \A u \in Black : deps0[u] \subseteq Black
    BY <1>5 DEF Exact, ResultInv, PathInv, Path
  <2>2. QED
    BY <1>1, <2>1, GroundedGrows
<1>6. ASSUME op = "sort"
      PROVE  /\ \A u \in Planned : u \in Black' <=> \E i \in DOMAIN sorted' : sorted'[i] = u
             /\ \A i, j \in DOMAIN sorted' :
                   /\ sorted'[i] = sorted'[j] => i = j
                   /\ ~Circular(deps0) /\ sorted'[i] \in deps0[sorted'[j]] => i < j
  <2> DEFINE m == Len(sorted)
  <2>1. /\ m \in Nat /\ DOMAIN sorted = 1 .. m /\ DOMAIN sorted' = 1 .. m + 1
        /\ sorted'[m + 1] = t
        /\ \A i \in 1 .. m : sorted'[i] = sorted[i] /\ sorted[i] \in Planned
    BY <1>1, <1>2, <1>6 DEF WalkTypes
  <2> HIDE DEF m
  <2>2. /\ \A i \in 1 .. m + 1 : i = m + 1 \/ i \in 1 .. m
        /\ \A i \in 1 .. m : i \in 1 .. m + 1 /\ i < m + 1
        /\ m + 1 \in 1 .. m + 1
    BY <2>1
  <2>3. /\ \A i \in 1 .. m : sorted[i] \in Black
        /\ \A u \in Black : \E i \in 1 .. m : sorted[i] = u
        /\ \A i, j \in 1 .. m :
              /\ sorted[i] = sorted[j] => i = j
              /\ ~Circular(deps0) /\ sorted[i] \in deps0[sorted[j]] => i < j
    BY <1>6, <2>1, ColourFacts DEF ResultInv
  <2>4. ASSUME NEW u \in Planned
        PROVE  u \in Black' <=> \E i \in DOMAIN sorted' : sorted'[i] = u
    BY <1>1, <2>1, <2>2, <2>3
  <2>5. ASSUME NEW i \in 1 .. m + 1, NEW j \in 1 .. m + 1
        PROVE  sorted'[i] = sorted'[j] => i = j
    BY <1>1, <2>1, <2>2, <2>3
  <2>6. ASSUME NEW i \in 1 .. m + 1, NEW j \in 1 .. m + 1,
               ~Circular(deps0), sorted'[i] \in deps0[sorted'[j]]
        PROVE  i < j
    <3>1. deps0[t] \subseteq Black /\ \A u \in Black : deps0[u] \subseteq Black
      BY <1>1, <2>6 DEF Exact, PathInv, Path
    <3>2. sorted'[i] \in Black
      BY <2>1, <2>2, <2>3, <2>6, <3>1
    <3>3. i \in 1 .. m
      BY <1>1, <2>1, <2>2, <3>2
    <3>4. QED
      BY <2>1, <2>2, <2>3, <2>6, <3>3
  <2>7. QED
    BY <2>1, <2>4, <2>5, <2>6
<1>7. QED
  BY <1>2, <1>3, <1>4, <1>5, <1>6 DEF ResultInv

\* The search goes on as it began.
LEMMA SearchStep ==
  ASSUME WalkTypes, SearchInv, [Next]_vars
  PROVE  SearchInv'
<1>1. CASE UNCHANGED vars
  BY <1>1 DEF vars, graph0, searchVars, SearchInv, Searching, PathInv, Path, ResultInv, Exact,
              Grounded, Black, Grey, Circular
<1>2. ASSUME NEW o \in {"validate", "sort"}, CallSearch(o) PROVE SearchInv'
  <2>1. /\ deps = deps0 /\ stack = <<>> /\ ~cyclic /\ sorted = <<>>
        /\ colour = [t \in Planned |-> "white"] /\ left' = Planned /\ op' = o
        /\ UNCHANGED <<deps, deps0, stack, colour, cyclic, sorted>>
    BY <1>2 DEF CallSearch, WalkTypes, graph0, searchVars
  <2>2. Grey' = {} /\ Black' = {} /\ DOMAIN stack' = {} /\ DOMAIN sorted' = {}
    BY <2>1 DEF Grey, Black
  <2>3. PathInv'
    BY <2>2 DEF PathInv, Path
  <2>4. Grounded(Black)'
    BY <2>2 DEF Grounded
  <2>5. QED
    BY <2>1, <2>2, <2>3, <2>4 DEF SearchInv, ResultInv
<1>3. ASSUME Searching, UNCHANGED <<status, deps, graph0, op, subject>>,
             Path(stack', Grey', Black'), ResultInv'
      PROVE  SearchInv'
  BY <1>3, SearchKeeps DEF SearchInv
<1>4. ASSUME NEW t \in Planned, VisitRoot(t) PROVE SearchInv'
  <2>1. /\ Searching /\ stack = <<>> /\ t \in left /\ left' = left \ {t}
        /\ UNCHANGED <<status, deps, graph0, op, subject, cyclic, sorted>>
        /\ PathInv /\ ResultInv /\ deps = deps0
    BY <1>4 DEF VisitRoot, SearchInv
  <2>2. CASE colour[t] = "white"
    <3>1. Visit(<<>>, t)
      BY <1>4, <2>1, <2>2 DEF VisitRoot
    <3>2. DOMAIN <<>> = {} /\ <<>> \in Seq(Frame) /\ Len(<<>>) = Len(stack)
      BY <2>1
    <3>3. /\ Path(stack', Grey', Black') /\ Black' = Black /\ Grey' = Grey \cup {t}
          /\ {stack'[i].task : i \in DOMAIN stack'} = {stack[i].task : i \in DOMAIN stack} \cup {t}
      BY <2>1, <2>2, <3>1, <3>2, PathGrows
    <3>4. ResultInv'
      BY <2>1, <3>3, SearchKeeps DEF ResultInv, graph0, Circular
    <3>5. QED
      BY <1>3, <2>1, <3>3, <3>4
  <2>3. CASE colour[t] # "white"
    <3>1. stack' = stack /\ colour' = colour
      BY <1>4, <2>3 DEF VisitRoot
    <3>2. Grey' = Grey /\ Black' = Black /\ Path(stack', Grey', Black')
      BY <2>1, <3>1 DEF Grey, Black, PathInv
    <3>3. t \in Grey \cup Black
      BY <2>3, ColourFacts
    <3>4. ResultInv'
      BY <2>1, <3>1, <3>2, <3>3, SearchKeeps DEF ResultInv, graph0, Circular
    <3>5. QED
      BY <1>3, <2>1, <3>2, <3>4
  <2>4. QED
    BY <2>2, <2>3
<1>5. ASSUME NEW d \in Planned, VisitWhite(d) PROVE SearchInv'
  <2>1. /\ Searching /\ Takes(d) /\ colour[d] = "white" /\ Visit(Taken(d), d)
        /\ UNCHANGED <<status, deps, graph0, op, subject, left, cyclic, sorted>>
        /\ PathInv /\ ResultInv /\ deps = deps0 /\ d \in Ids
    BY <1>5 DEF VisitWhite, SearchInv, Ids
  <2>2. /\ Taken(d) \in Seq(Frame) /\ Len(Taken(d)) = Len(stack)
        /\ \A i \in DOMAIN Taken(d) :
              /\ Taken(d)[i].task = stack[i].task
              /\ Taken(d)[i].todo = IF i = Len(Taken(d)) THEN stack[i].todo \ {d} ELSE stack[i].todo
        /\ d \in Innermost.todo
    BY <2>1, StackTakes DEF WalkTypes
  <2>3. /\ Path(stack', Grey', Black') /\ Black' = Black /\ Grey' = Grey \cup {d}
        /\ {stack'[i].task : i \in DOMAIN stack'} = {stack[i].task : i \in DOMAIN stack} \cup {d}
    BY <2>1, <2>2, PathGrows
  <2>4. ResultInv'
    BY <2>1, <2>3, SearchKeeps DEF ResultInv, graph0, Circular
  <2>5. QED
    BY <1>3, <2>1, <2>3, <2>4
<1>6. ASSUME NEW d \in Planned, MeetGrey(d) PROVE SearchInv'
  <2>1. /\ op = "validate" /\ Searching /\ Takes(d) /\ d \in Grey /\ cyclic' = TRUE
        /\ stack' = <<>> /\ left' = {}
        /\ UNCHANGED <<status, deps, graph0, op, subject, colour, sorted>>
        /\ PathInv /\ ResultInv /\ deps = deps0
    BY <1>6 DEF MeetGrey, SearchInv, Searching, Grey
  <2>2. Circular(deps0)
    BY <2>1, GreyIsCycle DEF ResultInv
  <2>3. Grey' = Grey /\ Black' = Black /\ DOMAIN stack' = {}
    BY <2>1 DEF Grey, Black
  <2>4. Path(stack', Grey', Black')
    BY <2>1, <2>3 DEF PathInv, Path
  <2>5. ResultInv'
    BY <2>1, <2>2, <2>3, SearchKeeps DEF ResultInv, graph0, Circular
  <2>6. QED
    BY <1>3, <2>1, <2>4, <2>5
<1>7. ASSUME NEW d \in Planned, PassBy(d) PROVE SearchInv'
  <2>1. /\ Searching /\ Takes(d) /\ stack' = Taken(d) /\ d \in Ids
        /\ d \in Black \/ (op = "sort" /\ d \in Grey)
        /\ UNCHANGED <<status, deps, graph0, op, subject, left, colour, cyclic, sorted>>
        /\ PathInv /\ ResultInv /\ deps = deps0
    BY <1>7, ColourFacts DEF PassBy, SearchInv, searchVars, Ids
  <2>2. Exact => d \in Black
    BY <2>1, GreyIsCycle DEF ResultInv, Exact
  <2>3. Grey' = Grey /\ Black' = Black
    BY <2>1 DEF Grey, Black
  <2>4. /\ DOMAIN stack' = DOMAIN stack
        /\ \A i \in DOMAIN stack :
              /\ stack'[i].task = stack[i].task
              /\ stack'[i].todo = IF i = Len(stack) THEN stack[i].todo \ {d} ELSE stack[i].todo
    BY <2>1, StackTakes DEF WalkTypes
  <2>5. Path(stack', Grey', Black')
    <3>1. \A i \in DOMAIN stack :
             /\ stack'[i].todo \subseteq stack[i].todo
             /\ \A x \in stack[i].todo : x \in stack'[i].todo \/ x = d
      BY <2>4
    <3>2. ASSUME NEW i \in DOMAIN stack
          PROVE  /\ stack'[i].task \in Grey /\ stack'[i].todo \subseteq deps0[stack'[i].task]
                 /\ Exact => \A x \in deps0[stack'[i].task] \ stack'[i].todo :
                       x \in Black \/ (i + 1 \in DOMAIN stack' /\ stack'[i + 1].task = x)
                 /\ i + 1 \in DOMAIN stack' => stack'[i + 1].task \in deps0[stack'[i].task]
                 /\ \A j \in DOMAIN stack' : stack'[i].task = stack'[j].task => i = j
      <4>1. /\ stack[i].task \in Grey /\ stack[i].todo \subseteq deps0[stack[i].task]
            /\ Exact => \A x \in deps0[stack[i].task] \ stack[i].todo :
                  x \in Black \/ (i + 1 \in DOMAIN stack /\ stack[i + 1].task = x)
            /\ i + 1 \in DOMAIN stack => stack[i + 1].task \in deps0[stack[i].task]
            /\ \A j \in DOMAIN stack : stack[i].task = stack[j].task => i = j
        BY <2>1 DEF PathInv, Path
      <4>2. /\ stack'[i].task = stack[i].task
            /\ i + 1 \in DOMAIN stack => stack'[i + 1].task = stack[i + 1].task
            /\ \A j \in DOMAIN stack : stack'[j].task = stack[j].task
        BY <2>4
      <4>3. QED
        BY <2>2, <2>4, <3>1, <4>1, <4>2
    <3>3. Exact => \A x \in Black : deps0[x] \subseteq Black
      BY <2>1 DEF PathInv, Path
    <3>4. QED
      BY <2>3, <2>4, <3>2, <3>3 DEF Path
  <2>6. {stack'[i].task : i \in DOMAIN stack'} = {stack[i].task : i \in DOMAIN stack}
    BY <2>4
  <2>7. ResultInv'
    BY <2>1, <2>3, <2>6, SearchKeeps DEF ResultInv, graph0, Circular
  <2>8. QED
    BY <1>3, <2>1, <2>5, <2>7
<1>8. CASE VisitReturns
  <2>1. /\ Searching /\ PathInv /\ ResultInv
        /\ UNCHANGED <<status, deps, graph0, op, subject>>
    BY <1>8 DEF VisitReturns, SearchInv
  <2>2. QED
    BY <1>3, <1>8, <2>1, PathShrinks, ResultShrinks
<1>9. QED
  <2>1. CASE \E s \in {"failed", "cancelled"} : CallUpdate(s)
    BY <2>1 DEF CallUpdate, SearchInv, Searching
  <2>2. CASE CallInsert
    BY <2>2 DEF CallInsert, SearchInv, Searching
  <2>3. ASSUME NEW d \in Ids, PropagateTo(d) \/ Rewire(d) \/ UnblockNext(d) PROVE SearchInv'
    BY <2>3 DEF PropagateTo, Rewire, UnblockNext, Cascading, SearchInv, Searching
  <2>4. CASE WalkReturns
    BY <2>4 DEF WalkReturns, SearchInv, Searching
  <2>5. QED
    BY <1>1, <1>2, <1>4, <1>5, <1>6, <1>7, <1>8, <2>1, <2>2, <2>3, <2>4 DEF Next

-----------------------------------------------------------------------------
WalkInv == WalkTypes /\ CascadeInv /\ InsertInv /\ SearchInv

\* The inductive invariant: on every finite graph, in every order of the loops,
\* a walk under way has changed only what it may and misses nothing it must.
THEOREM WalkInvariant == Spec => []WalkInv
<1>1. Init => WalkInv
  <2> SUFFICES ASSUME Init PROVE WalkInv
    OBVIOUS
  <2>1. PICK E \in SUBSET Edges, start \in [Planned -> Statuses] :
           /\ deps = [t \in Ids |-> {d \in Planned : <<d, t>> \in E}]
           /\ status = [t \in Ids |-> IF t \in Planned THEN start[t] ELSE "absent"]
    BY DEF Init
  <2>2. /\ Debug \in Ids /\ Retest \in Ids /\ Debug \notin Planned /\ Retest \notin Planned
        /\ Planned \subseteq Ids
        /\ \A e \in E : e \in Planned \X Planned
        /\ \A t \in Planned : start[t] \in TaskStatus /\ start[t] # "absent"
    BY <2>1, WalkAssumption DEF Ids, TaskStatus, LiveStatus, TerminalStatus
  <2>3. /\ status \in [Ids -> Status] /\ deps \in [Ids -> SUBSET Planned]
        /\ status[Debug] = "absent" /\ status[Retest] = "absent"
        /\ deps[Debug] = {} /\ deps[Retest] = {}
        /\ \A t \in Planned : status[t] # "absent"
    BY <2>1, <2>2 DEF Status
  <2>4. WalkTypes
    <3>1. status0 = status /\ deps0 = deps /\ deps \in [Ids -> SUBSET Ids]
      BY <2>2, <2>3 DEF Init
    <3>2. colour \in [Planned -> Colour] /\ stack \in Seq(Frame) /\ sorted \in Seq(Planned)
      BY DEF Init, Colour
    <3>3. op = "none" /\ op \in Ops /\ subject \in Planned /\ left = {} /\ cyclic \in BOOLEAN
      BY DEF Init, Ops
    <3>4. QED
      BY <2>3, <3>1, <3>2, <3>3 DEF Init, WalkTypes, Cascading, Searching
  <2>5. QED
    BY <2>4 DEF Init, WalkInv, CascadeInv, InsertInv, SearchInv, Cascading, Searching
<1>2. WalkInv /\ [Next]_vars => WalkInv'
  BY TypesStep, CascadeStep, InsertStep, SearchStep DEF WalkInv
<1>3. QED
  BY <1>1, <1>2, PTL DEF Spec

\* A failure or cancellation reaches exactly the dependents it should, in every
\* order of the dict and on cyclic graphs too.
THEOREM WalkCascadeIsReach == Spec => []CascadeIsReach
BY WalkInvariant, CascadeEnd, PTL DEF WalkInv

\* Inserting a recovery rewires and unblocks as if it were done all at once.
THEOREM WalkInsertIsRewiring == Spec => []InsertIsRewiring
BY WalkInvariant, InsertEnd, PTL DEF WalkInv

\* _has_cycle finds a cycle exactly when there is one, and topological_sort sorts.
THEOREM WalkSortIsTopological == Spec => []SortIsTopological
BY WalkInvariant, SearchEnd, PTL DEF WalkInv

-----------------------------------------------------------------------------
(* The end of a walk.                                                        *)

(* The tasks that a walk may still be called on.                             *)
Unvisited ==
    IF Cascading THEN {d \in Affected : status[d] # Spread}
    ELSE IF op = "insert" THEN {d \in Blocked : status[d] # "created"}
    ELSE IF Searching THEN {t \in Planned : colour[t] = "white"}
    ELSE {}

(* What a loop may still take: a task d in a call on task u.                 *)
Ahead(st, U) ==
    {p \in Ids \X Ids :
        p[1] \in U \/ \E i \in DOMAIN st : st[i].task = p[1] /\ p[2] \in st[i].todo}

(* No task has two calls under way, and none that has one gets another.      *)
Single(st, U) ==
    \A i \in DOMAIN st : /\ st[i].task \notin U
                         /\ \A j \in DOMAIN st : st[i].task = st[j].task => i = j

StepsLeft == 2 * Cardinality(Ahead(stack, Unvisited)) + 2 * Cardinality(left) + Len(stack)

WindsDown == op # "none" => StepsLeft' < StepsLeft

\* The numbers are numbers.
LEMMA Finite ==
  ASSUME NEW st, NEW U
  PROVE  /\ IsFiniteSet(Ids) /\ IsFiniteSet(Ahead(st, U)) /\ Cardinality(Ahead(st, U)) \in Nat
         /\ \A S \in SUBSET Ids : IsFiniteSet(S) /\ Cardinality(S) \in Nat
<1>1. IsFiniteSet(Ids)
  <2>1. IsFiniteSet(Planned \cup {Debug})
    BY WalkAssumption, FS_AddElement
  <2>2. IsFiniteSet((Planned \cup {Debug}) \cup {Retest})
    BY <2>1, FS_AddElement
  <2>3. (Planned \cup {Debug}) \cup {Retest} = Ids
    BY DEF Ids
  <2>4. QED
    BY <2>2, <2>3
<1>2. IsFiniteSet(Ids \X Ids)
  BY <1>1, FS_Product
<1>3. Ahead(st, U) \in SUBSET (Ids \X Ids)
  BY DEF Ahead
<1>4. QED
  BY <1>1, <1>2, <1>3, FS_Subset, FS_CardinalityType

\* Fewer elements.
LEMMA Fewer ==
  ASSUME NEW S, IsFiniteSet(S), NEW T, T \subseteq S
  PROVE  /\ Cardinality(T) \in Nat /\ Cardinality(S) \in Nat /\ Cardinality(T) <= Cardinality(S)
         /\ \A x \in S : x \notin T => Cardinality(T) < Cardinality(S)
<1>1. /\ IsFiniteSet(T) /\ Cardinality(T) <= Cardinality(S)
      /\ Cardinality(S) = Cardinality(T) => S = T
  BY FS_Subset
<1>2. Cardinality(T) \in Nat /\ Cardinality(S) \in Nat
  BY <1>1, FS_CardinalityType
<1>3. QED
  BY <1>1, <1>2

\* The innermost call takes a task of its loop, which it does once.
LEMMA TakeIsAhead ==
  ASSUME stack \in Seq(Frame), NEW d \in Ids, Takes(d), NEW U, Single(stack, U)
  PROVE  /\ Single(Taken(d), U) /\ Len(Taken(d)) = Len(stack)
         /\ <<Innermost.task, d>> \in Ahead(stack, U)
         /\ Ahead(Taken(d), U) \subseteq Ahead(stack, U)
         /\ <<Innermost.task, d>> \notin Ahead(Taken(d), U)
<1> DEFINE n == Len(stack)
           p == <<Innermost.task, d>>
<1>1. /\ n \in 1 .. n /\ DOMAIN Taken(d) = 1 .. n /\ DOMAIN stack = 1 .. n
      /\ Len(Taken(d)) = n
      /\ Innermost = stack[n] /\ Innermost \in Frame /\ d \in stack[n].todo
      /\ \A i \in 1 .. n :
            /\ Taken(d)[i].task = stack[i].task
            /\ Taken(d)[i].todo = IF i = n THEN stack[i].todo \ {d} ELSE stack[i].todo
  <2>1. n \in Nat \ {0} /\ Innermost = stack[n]
    BY StackTakes DEF Innermost
  <2>2. n \in 1 .. n
    BY <2>1
  <2>3. QED
    BY <2>1, <2>2, StackTakes
<1> HIDE DEF n
<1>2. p \in Ids \X Ids /\ p[1] = stack[n].task /\ p[2] = d
  BY <1>1 DEF Frame
<1>3. Single(Taken(d), U)
  BY <1>1 DEF Single
<1>4. p \in Ahead(stack, U)
  BY <1>1, <1>2 DEF Ahead
<1>5. Ahead(Taken(d), U) \subseteq Ahead(stack, U)
  <2> SUFFICES ASSUME NEW q \in Ids \X Ids, NEW i \in 1 .. n, Taken(d)[i].task = q[1],
                      q[2] \in Taken(d)[i].todo
               PROVE  stack[i].task = q[1] /\ q[2] \in stack[i].todo
    BY <1>1 DEF Ahead
  <2>1. QED
    BY <1>1
<1>6. p \notin Ahead(Taken(d), U)
  <2>1. p[1] \notin U
    BY <1>1, <1>2 DEF Single
  <2>2. ASSUME NEW i \in 1 .. n, Taken(d)[i].task = p[1], p[2] \in Taken(d)[i].todo PROVE FALSE
    <3>1. i = n
      <4>1. stack[i].task = stack[n].task /\ i \in DOMAIN stack /\ n \in DOMAIN stack
        BY <1>1, <1>2, <2>2
      <4>2. QED
        BY <4>1 DEF Single
    <3>2. QED
      BY <1>1, <1>2, <2>2, <3>1
  <2>3. QED
    BY <1>1, <2>1, <2>2 DEF Ahead
<1>7. QED
  BY <1>1, <1>3, <1>4, <1>5, <1>6

(* A stack, and a stack with a call more.                                    *)
IsStack(s)         == s \in Seq(Frame)
Called(s, d, todo) == Append(s, Call(d, todo))

\* A task is called on that was not before: what lies ahead of the call lay
\* ahead already.
LEMMA CallIsAhead ==
  ASSUME NEW s, IsStack(s), NEW U, Single(s, U), NEW d \in Ids, d \in U, NEW todo \in SUBSET Ids,
         NEW x, x = Called(s, d, todo), NEW V, V = U \ {d}
  PROVE  /\ Single(x, V) /\ Len(x) = Len(s) + 1 /\ Len(s) \in Nat
         /\ Ahead(x, V) \subseteq Ahead(s, U)
<1> DEFINE n == Len(s)
<1>1. /\ n \in Nat /\ Len(x) = n + 1 /\ DOMAIN x = 1 .. n + 1 /\ DOMAIN s = 1 .. n
      /\ x[n + 1].task = d /\ \A i \in 1 .. n : x[i] = s[i]
  BY StackCalls DEF IsStack, Called
<1> HIDE DEF n
<1>2. \A i \in 1 .. n + 1 : i = n + 1 \/ i \in 1 .. n
  BY <1>1
<1>3. \A i \in 1 .. n : s[i].task \notin U /\ s[i].task # d
  BY <1>1 DEF Single
<1>4. Single(x, V)
  <2> SUFFICES ASSUME NEW i \in 1 .. n + 1
               PROVE  /\ x[i].task \notin V
                      /\ \A j \in 1 .. n + 1 : x[i].task = x[j].task => i = j
    BY <1>1 DEF Single
  <2>1. CASE i = n + 1
    BY <1>1, <1>2, <1>3, <2>1
  <2>2. CASE i \in 1 .. n
    BY <1>1, <1>2, <1>3, <2>2 DEF Single
  <2>3. QED
    BY <1>2, <2>1, <2>2
<1>5. ASSUME NEW q \in Ahead(x, V) PROVE q \in Ahead(s, U)
  <2>1. q \in Ids \X Ids
    BY DEF Ahead
  <2>2. CASE q[1] \in U
    BY <2>1, <2>2 DEF Ahead
  <2>3. CASE q[1] \notin U
    <3>1. PICK i \in 1 .. n + 1 : x[i].task = q[1] /\ q[2] \in x[i].todo
      BY <1>1, <2>3 DEF Ahead
    <3>2. i \in 1 .. n
      BY <1>1, <1>2, <2>3, <3>1
    <3>3. QED
      BY <1>1, <2>1, <3>1, <3>2 DEF Ahead
  <2>4. QED
    BY <2>2, <2>3
<1>6. QED
  BY <1>1, <1>4, <1>5 DEF n

\* A call returns.
LEMMA ReturnIsEnd ==
  ASSUME stack \in Seq(Frame), LoopEnds, NEW U, Single(stack, U)
  PROVE  /\ Single(Returned, U) /\ Ahead(Returned, U) \subseteq Ahead(stack, U)
         /\ Len(stack) \in Nat \ {0} /\ Len(Returned) = Len(stack) - 1
<1> DEFINE n == Len(stack)
<1>1. /\ n \in Nat \ {0} /\ Len(Returned) = n - 1 /\ DOMAIN Returned = 1 .. n - 1
      /\ DOMAIN stack = 1 .. n /\ \A i \in 1 .. n - 1 : Returned[i] = stack[i]
  BY StackReturns
<1> HIDE DEF n
<1>2. \A i \in 1 .. n - 1 : i \in 1 .. n
  BY <1>1
<1>3. Single(Returned, U)
  BY <1>1, <1>2 DEF Single
<1>4. Ahead(Returned, U) \subseteq Ahead(stack, U)
  <2> SUFFICES ASSUME NEW q \in Ids \X Ids, NEW i \in 1 .. n - 1, Returned[i].task = q[1],
                      q[2] \in Returned[i].todo
               PROVE  \E j \in 1 .. n : stack[j].task = q[1] /\ q[2] \in stack[j].todo
    BY <1>1 DEF Ahead
  <2>1. QED
    BY <1>1, <1>2
<1>5. QED
  BY <1>1, <1>3, <1>4 DEF n

\* The number falls with a pair that is walked, a task taken, or a call that ends.
LEMMA LessLeft ==
  ASSUME NEW A, IsFiniteSet(A), NEW B, B \subseteq A,
         NEW L, IsFiniteSet(L), NEW M, M \subseteq L,
         NEW m \in Nat, NEW n \in Nat,
         \/ B # A /\ m <= n + 1
         \/ M # L /\ m <= n + 1
         \/ m < n
  PROVE  2 * Cardinality(B) + 2 * Cardinality(M) + m < 2 * Cardinality(A) + 2 * Cardinality(L) + n
<1> DEFINE a == Cardinality(A)  b == Cardinality(B)  l == Cardinality(L)  k == Cardinality(M)
<1>1. /\ a \in Nat /\ b \in Nat /\ l \in Nat /\ k \in Nat /\ b <= a /\ k <= l
      /\ B # A => b < a
      /\ M # L => k < l
  BY Fewer
<1> HIDE DEF a, b, l, k
<1>2. 2 * b + 2 * k + m < 2 * a + 2 * l + n
  BY <1>1
<1>3. QED
  BY <1>2 DEF a, b, l, k

\* A task that the cascade would change is one it has not been called on.
LEMMA CascadeVisits ==
  ASSUME WalkInv, NEW d \in Ids, PropagateTo(d)
  PROVE  IF status[d] \notin TerminalStatus \cup {Spread}
         THEN d \in Unvisited /\ Unvisited' = Unvisited \ {d}
         ELSE Unvisited' = Unvisited
<1>1. /\ Cascading /\ Cascading' /\ Takes(d) /\ Affected' = Affected /\ Spread' = Spread
      /\ stack \in Seq(Frame) /\ status \in [Ids -> Status]
  BY DEF PropagateTo, WalkInv, WalkTypes, Cascading, graph0, Before, Affected, Spread
<1>2. d \in TasksOf(Before) /\ Affected \in SUBSET Ids
  BY <1>1, StackTakes, BeforeFacts DEF WalkInv, CascadeInv
<1>3. status[d] = Before[d] \/ (d \in Affected /\ status[d] = Spread)
  BY <1>1 DEF WalkInv, CascadeInv, Spreading
<1>4. /\ Unvisited = {x \in Affected : status[x] # Spread}
      /\ Unvisited' = {x \in Affected : status'[x] # Spread}
  <2>1. Unvisited = {x \in Affected : status[x] # Spread}
    BY <1>1 DEF Unvisited
  <2>2. Unvisited' = {x \in Affected' : status'[x] # Spread'}
    BY <1>1 DEF Unvisited
  <2>3. QED
    BY <1>1, <2>1, <2>2
<1>5. CASE status[d] \notin TerminalStatus \cup {Spread}
  <2>1. d \in Affected /\ status[d] # Spread
    BY <1>2, <1>3, <1>5 DEF Affected
  <2>2. status' = [status EXCEPT ![d] = Spread]
    BY <1>5 DEF PropagateTo
  <2>3. \A x \in Affected : status'[x] # Spread <=> status[x] # Spread /\ x # d
    BY <1>1, <1>2, <2>2
  <2>4. QED
    BY <1>4, <1>5, <2>1, <2>3
<1>6. CASE ~(status[d] \notin TerminalStatus \cup {Spread})
  BY <1>4, <1>6 DEF PropagateTo
<1>7. QED
  BY <1>5, <1>6

\* So is one that _unblock_dependents would.
LEMMA UnblockVisits ==
  ASSUME WalkInv, op = "insert", UNCHANGED <<op, status0, deps0, subject>>,
         NEW d \in Ids, NEW s, NEW dp, UnblockFrom(s, dp, d)
  PROVE  IF status[d] \in Resettable
         THEN d \in Unvisited /\ Unvisited' = Unvisited \ {d}
         ELSE Unvisited' = Unvisited
<1>1. /\ Blocked' = Blocked /\ status \in [Ids -> Status] /\ Blocked \subseteq Planned
      /\ Planned \subseteq Ids
  BY InsertedFacts DEF Blocked, Inserted, WalkInv, WalkTypes, Ids
<1>2. status[d] = Inserted[d] \/ (d \in Blocked /\ status[d] = "created")
  BY DEF WalkInv, InsertInv, Unblocked, Spreading
<1>3. /\ Unvisited = {x \in Blocked : status[x] # "created"}
      /\ Unvisited' = {x \in Blocked : status'[x] # "created"}
  <2>1. op = "insert" /\ op' = "insert" /\ ~Cascading /\ ~Cascading'
    BY DEF Cascading
  <2>2. Unvisited = {x \in Blocked : status[x] # "created"}
    BY <2>1 DEF Unvisited
  <2>3. Unvisited' = {x \in Blocked' : status'[x] # "created"}
    BY <2>1 DEF Unvisited
  <2>4. QED
    BY <1>1, <2>2, <2>3
<1>4. CASE status[d] \in Resettable
  <2>1. d \in Blocked /\ status[d] # "created"
    <3>1. status[d] # "created" /\ status[d] # "absent"
      BY <1>4 DEF Resettable
    <3>2. QED
      BY <1>2, <1>4, <3>1, InsertedFacts DEF Blocked, TasksOf, WalkInv
  <2>2. status' = [status EXCEPT ![d] = "created"]
    BY <1>4, Zenon DEF UnblockFrom
  <2>3. \A x \in Blocked : status'[x] # "created" <=> status[x] # "created" /\ x # d
    BY <1>1, <2>2
  <2>4. QED
    BY <1>3, <1>4, <2>1, <2>3
<1>5. CASE status[d] \notin Resettable
  BY <1>3, <1>5 DEF UnblockFrom
<1>6. QED
  BY <1>4, <1>5

\* Each step of a walk is one of three kinds.
LEMMA EndStep ==
  ASSUME WalkInv, Single(stack, Unvisited), [Next]_vars, op # "none", vars' # vars
  PROVE  /\ Single(stack', Unvisited')
         /\ Ahead(stack', Unvisited') \subseteq Ahead(stack, Unvisited)
         /\ left' \subseteq left /\ Len(stack') \in Nat /\ Len(stack) \in Nat
         /\ \/ Ahead(stack', Unvisited') # Ahead(stack, Unvisited) /\ Len(stack') <= Len(stack) + 1
            \/ left' # left /\ Len(stack') <= Len(stack) + 1
            \/ Len(stack') < Len(stack)
<1>0. /\ stack \in Seq(Frame) /\ Len(stack) \in Nat /\ status \in [Ids -> Status]
      /\ Planned \subseteq Ids /\ colour \in [Planned -> Colour]
      /\ deps \in [Ids -> SUBSET Ids]
  BY DEF WalkInv, WalkTypes, Ids
<1> DEFINE Goal ==
             /\ Single(stack', Unvisited')
             /\ Ahead(stack', Unvisited') \subseteq Ahead(stack, Unvisited)
             /\ left' \subseteq left /\ Len(stack') \in Nat /\ Len(stack) \in Nat
             /\ \/ Ahead(stack', Unvisited') # Ahead(stack, Unvisited) /\ Len(stack') <= Len(stack) + 1
                \/ left' # left /\ Len(stack') <= Len(stack) + 1
                \/ Len(stack') < Len(stack)
<1>1. ASSUME NEW d \in Ids, Takes(d), left' = left,
             \/ stack' = Taken(d) /\ Unvisited' = Unvisited
             \/ \E todo \in SUBSET Ids :
                   /\ stack' = Append(Taken(d), Call(d, todo))
                   /\ d \in Unvisited /\ Unvisited' = Unvisited \ {d}
      PROVE  Goal
  <2> DEFINE U == Unvisited
             n == Len(stack)
  <2>1. /\ n \in Nat /\ Single(Taken(d), U) /\ Len(Taken(d)) = n /\ Taken(d) \in Seq(Frame)
        /\ Ahead(Taken(d), U) \subseteq Ahead(stack, U)
        /\ Ahead(Taken(d), U) # Ahead(stack, U)
    BY <1>0, <1>1, TakeIsAhead, StackTakes
  <2>2. CASE stack' = Taken(d) /\ Unvisited' = Unvisited
    BY <1>0, <1>1, <2>1, <2>2
  <2>3. CASE \E todo \in SUBSET Ids :
               /\ stack' = Append(Taken(d), Call(d, todo))
               /\ d \in Unvisited /\ Unvisited' = Unvisited \ {d}
    <3>1. PICK todo \in SUBSET Ids :
               /\ stack' = Append(Taken(d), Call(d, todo))
               /\ d \in Unvisited /\ Unvisited' = Unvisited \ {d}
      BY <2>3
    <3>2. /\ Single(stack', Unvisited') /\ Len(stack') = n + 1
          /\ Ahead(stack', Unvisited') \subseteq Ahead(Taken(d), U)
      <4>1. /\ d \in U /\ Unvisited' = U \ {d} /\ d \in Ids
            /\ IsStack(Taken(d)) /\ stack' = Called(Taken(d), d, todo)
        BY <1>1, <2>1, <3>1 DEF IsStack, Called
      <4> HIDE DEF U, n, Goal
      <4>2. /\ Single(stack', Unvisited') /\ Len(stack') = Len(Taken(d)) + 1
            /\ Ahead(stack', Unvisited') \subseteq Ahead(Taken(d), U)
        BY <2>1, <4>1, CallIsAhead
      <4>3. QED
        BY <2>1, <4>2
    <3>3. /\ Ahead(stack', Unvisited') \subseteq Ahead(stack, U)
          /\ Ahead(stack', Unvisited') # Ahead(stack, U)
      BY <2>1, <3>2
    <3>4. QED
      BY <1>0, <1>1, <3>2, <3>3
  <2>4. QED
    BY <1>1, <2>2, <2>3
<1>2. ASSUME NEW d \in Ids, stack = <<>>, d \in left, left' = left \ {d},
             \/ stack' = stack /\ Unvisited' = Unvisited
             \/ \E todo \in SUBSET Ids :
                   /\ stack' = Append(stack, Call(d, todo))
                   /\ d \in Unvisited /\ Unvisited' = Unvisited \ {d}
      PROVE  Goal
  <2>1. CASE stack' = stack /\ Unvisited' = Unvisited
    BY <1>0, <1>2, <2>1
  <2>2. CASE \E todo \in SUBSET Ids :
               /\ stack' = Append(stack, Call(d, todo))
               /\ d \in Unvisited /\ Unvisited' = Unvisited \ {d}
    <3>1. /\ Single(stack', Unvisited') /\ Len(stack') = Len(stack) + 1
          /\ Ahead(stack', Unvisited') \subseteq Ahead(stack, Unvisited)
      <4>1. PICK todo \in SUBSET Ids :
               /\ stack' = Append(stack, Call(d, todo))
               /\ d \in Unvisited /\ Unvisited' = Unvisited \ {d}
        BY <2>2
      <4>2. /\ IsStack(stack) /\ Single(stack, Unvisited) /\ d \in Ids
            /\ stack' = Called(stack, d, todo)
        BY <1>0, <1>2, <4>1 DEF IsStack, Called
      <4> HIDE DEF Goal
      <4>3. QED
        BY <4>1, <4>2, CallIsAhead
    <3>2. QED
      BY <1>0, <1>2, <3>1
  <2>3. QED
    BY <1>2, <2>1, <2>2
<1>3. ASSUME LoopEnds, stack' = Returned, left' = left, Unvisited' = Unvisited
      PROVE  Goal
  BY <1>0, <1>3, ReturnIsEnd
<1>4. ASSUME NEW d \in Ids, PropagateTo(d) PROVE Goal
  <2>1. Dependents(status, deps, d) \in SUBSET Ids
    BY <1>0, DependentsAreIds
  <2>2. CASE status[d] \notin TerminalStatus \cup {Spread}
    BY <1>1, <1>4, <2>1, <2>2, CascadeVisits DEF PropagateTo
  <2>3. CASE ~(status[d] \notin TerminalStatus \cup {Spread})
    BY <1>1, <1>4, <2>3, CascadeVisits DEF PropagateTo
  <2>4. QED
    BY <2>2, <2>3
<1>5. ASSUME NEW d \in Ids, Rewire(d) PROVE Goal
  <2>1. /\ op = "insert" /\ UNCHANGED <<op, status0, deps0, subject>>
        /\ stack = <<>> /\ d \in left /\ left' = left \ {d} /\ UnblockFrom(stack, deps', d)
        /\ Dependents(status, deps', d) \in SUBSET Ids
    BY <1>0, <1>5, DependentsAreIds DEF Rewire, graph0
  <2>2. CASE status[d] \in Resettable
    <3>1. stack' = Append(stack, Call(d, Dependents(status, deps', d)))
      BY <2>1, <2>2, Zenon DEF UnblockFrom
    <3>2. QED
      BY <1>2, <2>1, <2>2, <3>1, UnblockVisits
  <2>3. CASE status[d] \notin Resettable
    <3>1. stack' = stack
      BY <2>1, <2>3 DEF UnblockFrom
    <3>2. QED
      BY <1>2, <2>1, <2>3, <3>1, UnblockVisits
  <2>4. QED
    BY <2>2, <2>3
<1>6. ASSUME NEW d \in Ids, UnblockNext(d) PROVE Goal
  <2>1. /\ op = "insert" /\ UNCHANGED <<op, status0, deps0, subject>>
        /\ Takes(d) /\ left' = left /\ UnblockFrom(Taken(d), deps, d)
        /\ Dependents(status, deps, d) \in SUBSET Ids
    BY <1>0, <1>6, DependentsAreIds DEF UnblockNext, graph0
  <2>2. CASE status[d] \in Resettable
    <3>1. stack' = Append(Taken(d), Call(d, Dependents(status, deps, d)))
      BY <2>1, <2>2, Zenon DEF UnblockFrom
    <3>2. QED
      BY <1>1, <2>1, <2>2, <3>1, UnblockVisits
  <2>3. CASE status[d] \notin Resettable
    <3>1. stack' = Taken(d)
      BY <2>1, <2>3 DEF UnblockFrom
    <3>2. QED
      BY <1>1, <2>1, <2>3, <3>1, UnblockVisits
  <2>4. QED
    BY <2>2, <2>3
<1>7. ASSUME WalkReturns PROVE Goal
  <2>1. Unvisited' = Unvisited
    BY <1>7 DEF WalkReturns, graph0, searchVars, Unvisited, Cascading, Searching, Affected, Before,
                Spread, Blocked, Inserted
  <2>2. QED
    BY <1>3, <1>7, <2>1 DEF WalkReturns
<1>8. ASSUME Searching, op' = op
      PROVE  /\ Unvisited = {t \in Planned : colour[t] = "white"}
             /\ Unvisited' = {t \in Planned : colour'[t] = "white"}
  BY <1>8 DEF Unvisited, Searching, Cascading
<1>9. ASSUME NEW t \in Planned, NEW s, colour[t] = "white", Visit(s, t), Searching, op' = op
      PROVE  /\ stack' = Append(s, Call(t, deps[t])) /\ deps[t] \in SUBSET Ids
             /\ t \in Unvisited /\ Unvisited' = Unvisited \ {t}
  <2>1. colour' = [colour EXCEPT ![t] = "grey"] /\ stack' = Append(s, Call(t, deps[t]))
    BY <1>9 DEF Visit
  <2>2. \A u \in Planned : colour'[u] = "white" <=> colour[u] = "white" /\ u # t
    BY <1>0, <1>9, <2>1
  <2>3. QED
    BY <1>0, <1>8, <1>9, <2>1, <2>2
<1>10. ASSUME NEW t \in Planned, VisitRoot(t) PROVE Goal
  <2>1. /\ Searching /\ op' = op /\ stack = <<>> /\ t \in left /\ left' = left \ {t} /\ t \in Ids
    BY <1>0, <1>10 DEF VisitRoot
  <2>2. CASE colour[t] = "white"
    BY <1>2, <1>9, <1>10, <2>1, <2>2 DEF VisitRoot
  <2>3. CASE colour[t] # "white"
    BY <1>2, <1>8, <1>10, <2>1, <2>3 DEF VisitRoot
  <2>4. QED
    BY <2>2, <2>3
<1>11. ASSUME NEW d \in Planned, VisitWhite(d) PROVE Goal
  BY <1>0, <1>1, <1>9, <1>11 DEF VisitWhite
<1>12. ASSUME NEW d \in Planned, MeetGrey(d) PROVE Goal
  <2>1. /\ Searching /\ op' = op /\ colour' = colour /\ stack # <<>> /\ stack' = <<>> /\ left' = {}
    BY <1>12 DEF MeetGrey, Takes, Searching
  <2>2. Unvisited' = Unvisited
    BY <1>8, <2>1
  <2>3. Single(<<>>, Unvisited) /\ Ahead(<<>>, Unvisited) \subseteq Ahead(stack, Unvisited)
    <3>1. DOMAIN <<>> = {}
      OBVIOUS
    <3>2. QED
      BY <3>1 DEF Single, Ahead
  <2>4. Len(stack') = 0 /\ Len(stack) > 0
    BY <1>0, <2>1
  <2>5. QED
    BY <1>0, <2>1, <2>2, <2>3, <2>4
<1>13. ASSUME NEW d \in Planned, PassBy(d) PROVE Goal
  <2>1. /\ Searching /\ op' = op /\ colour' = colour /\ Takes(d) /\ stack' = Taken(d) /\ left' = left
        /\ d \in Ids
    BY <1>0, <1>13 DEF PassBy, searchVars
  <2>2. Unvisited' = Unvisited
    BY <1>8, <2>1
  <2>3. QED
    BY <1>1, <2>1, <2>2
<1>14. ASSUME VisitReturns PROVE Goal
  <2>1. /\ Searching /\ op' = op /\ LoopEnds /\ stack' = Returned /\ left' = left
        /\ colour' = [colour EXCEPT ![Innermost.task] = "black"]
    BY <1>14 DEF VisitReturns
  <2>2. colour[Innermost.task] # "white"
    <3>1. Innermost.task \in Grey
      BY <1>14, <2>1, PathShrinks DEF WalkInv, SearchInv
    <3>2. QED
      BY <3>1 DEF Grey
  <2>3. \A u \in Planned : colour'[u] = "white" <=> colour[u] = "white"
    BY <1>0, <2>1, <2>2
  <2>4. Unvisited' = Unvisited
    BY <1>8, <2>1, <2>3
  <2>5. QED
    BY <1>3, <2>1, <2>4
<1>15. Goal
  <2>1. ~\E s \in {"failed", "cancelled"} : CallUpdate(s)
    BY DEF CallUpdate
  <2>2. ~CallInsert /\ ~\E o \in {"validate", "sort"} : CallSearch(o)
    BY DEF CallInsert, CallSearch
  <2>3. Next
    OBVIOUS
  <2> HIDE DEF Goal
  <2>4. CASE \E d \in Ids : PropagateTo(d) \/ Rewire(d) \/ UnblockNext(d)
    BY <1>4, <1>5, <1>6, <2>4
  <2>5. CASE \E t \in Planned : VisitRoot(t) \/ VisitWhite(t) \/ MeetGrey(t) \/ PassBy(t)
    BY <1>10, <1>11, <1>12, <1>13, <2>5
  <2>6. QED
    BY <1>7, <1>14, <2>1, <2>2, <2>3, <2>4, <2>5 DEF Next
<1>16. QED
  BY <1>15

\* Every walk comes to its end, on cyclic graphs too: no call is made twice on a
\* task and no dependency walked twice, so that a number, at most twice the pairs
\* of tasks and the tasks, falls with every step.
THEOREM WalkWindsDown == Spec => [](StepsLeft \in Nat) /\ [][WindsDown]_vars
<1>1. Init => Single(stack, Unvisited)
  <2> SUFFICES ASSUME Init PROVE Single(stack, Unvisited)
    OBVIOUS
  <2>1. DOMAIN stack = {}
    BY DEF Init
  <2>2. QED
    BY <2>1 DEF Single
<1>2. ASSUME WalkInv, WalkInv', Single(stack, Unvisited), [Next]_vars
      PROVE  Single(stack, Unvisited)'
  <2>0. Single(stack, Unvisited)' <=> Single(stack', Unvisited')
    BY DEF Single
  <2>1. CASE op # "none" /\ vars' # vars
    BY <1>2, <2>0, <2>1, EndStep
  <2>2. CASE vars' = vars
    <3>1. stack' = stack /\ Unvisited' = Unvisited
      BY <2>2 DEF vars, graph0, searchVars, Unvisited, Cascading, Searching, Affected, Before,
                  Spread, Blocked, Inserted
    <3>2. QED
      BY <1>2, <2>0, <3>1
  <2>3. ASSUME NEW s \in {"failed", "cancelled"}, CallUpdate(s) PROVE Single(stack', Unvisited')
    <3>1. /\ Cascading' /\ subject' = subject
          /\ stack' = <<Call(subject, Dependents(status, deps, subject))>>
      BY <2>3 DEF CallUpdate, Cascading
    <3>2. (WalkTypes /\ Cascading => subject \notin Affected)'
      BY BeforeFacts, PTL
    <3>3. subject \notin Unvisited'
      <4>1. subject' \notin Affected'
        BY <1>2, <3>1, <3>2 DEF WalkInv
      <4>2. Unvisited' = {x \in Affected' : status'[x] # Spread'}
        BY <3>1 DEF Unvisited
      <4>3. QED
        BY <3>1, <4>1, <4>2
    <3>4. DOMAIN stack' = {1} /\ stack'[1].task = subject
      BY <3>1 DEF Call
    <3>5. QED
      BY <3>3, <3>4 DEF Single
  <2>4. CASE CallInsert \/ \E o \in {"validate", "sort"} : CallSearch(o)
    <3>1. stack' = <<>>
      BY <1>2, <2>4 DEF CallInsert, CallSearch, WalkInv, WalkTypes
    <3>2. DOMAIN stack' = {}
      BY <3>1
    <3>3. QED
      BY <3>2 DEF Single
  <2>5. CASE op = "none" /\ vars' # vars
    <3>1. stack = <<>> /\ left = {} /\ ~Cascading /\ ~Searching /\ op # "insert"
      BY <1>2, <2>5 DEF WalkInv, WalkTypes, Cascading, Searching
    <3>2. \A d \in Ids : ~PropagateTo(d) /\ ~Rewire(d) /\ ~UnblockNext(d)
      BY <3>1 DEF PropagateTo, Rewire, UnblockNext
    <3>3. \A t \in Planned : ~VisitRoot(t) /\ ~VisitWhite(t) /\ ~MeetGrey(t) /\ ~PassBy(t)
      BY <3>1 DEF VisitRoot, VisitWhite, MeetGrey, PassBy, Searching
    <3>4. ~WalkReturns /\ ~VisitReturns
      BY <3>1 DEF WalkReturns, VisitReturns, LoopEnds
    <3>5. QED
      BY <1>2, <2>0, <2>3, <2>4, <2>5, <3>2, <3>3, <3>4 DEF Next
  <2>6. QED
    BY <2>1, <2>2, <2>5
<1>3. ASSUME WalkInv PROVE StepsLeft \in Nat
  <2>1. Cardinality(left) \in Nat /\ Len(stack) \in Nat /\ Cardinality(Ahead(stack, Unvisited)) \in Nat
    <3>1. left \in SUBSET Ids /\ stack \in Seq(Frame)
      BY <1>3 DEF WalkInv, WalkTypes, Ids
    <3>2. Len(stack) \in Nat
      BY <3>1
    <3>3. QED
      BY <3>1, <3>2, Finite
  <2>2. QED
    BY <2>1 DEF StepsLeft
<1>4. ASSUME WalkInv, Single(stack, Unvisited), [Next]_vars PROVE [WindsDown]_vars
  <2> SUFFICES ASSUME op # "none", vars' # vars PROVE StepsLeft' < StepsLeft
    BY DEF WindsDown
  <2>1. IsFiniteSet(Ahead(stack, Unvisited)) /\ IsFiniteSet(left)
    BY <1>4, Finite DEF WalkInv, WalkTypes, Ids
  <2>2. /\ Ahead(stack', Unvisited') \subseteq Ahead(stack, Unvisited)
        /\ left' \subseteq left /\ Len(stack') \in Nat /\ Len(stack) \in Nat
        /\ \/ Ahead(stack', Unvisited') # Ahead(stack, Unvisited) /\ Len(stack') <= Len(stack) + 1
           \/ left' # left /\ Len(stack') <= Len(stack) + 1
           \/ Len(stack') < Len(stack)
    BY <1>4, EndStep
  <2>3. StepsLeft' = 2 * Cardinality(Ahead(stack', Unvisited')) + 2 * Cardinality(left') + Len(stack')
    BY DEF StepsLeft, Ahead
  <2>4. QED
    BY <2>1, <2>2, <2>3, LessLeft DEF StepsLeft
<1>5. QED
  BY <1>1, <1>2, <1>3, <1>4, WalkInvariant, PTL DEF Spec

=============================================================================
