--------------------------- MODULE WorkspaceLocks ---------------------------
(***************************************************************************)
(* WorkspaceLockManager (agents/locks.py): which resources of the          *)
(* workspace each task holds.  Every method runs under an asyncio.Lock     *)
(* that is never held across a suspension, so a method is one step.  The   *)
(* conflict test is the constant Conflicts; ResourcePaths gives the test   *)
(* of the code.  Scheduler uses the manager, and implements this module.   *)
(***************************************************************************)
CONSTANTS
    Task,        \* the task ids that may hold locks
    Resource,    \* the resources they may ask for
    Conflicts    \* the pairs of resources for which _is_conflict is true

VARIABLE locks   \* locks[t]: what t holds; {} when _locks has no entry for t

TypeOK == locks \in [Task -> SUBSET Resource]

Init == locks = [t \in Task |-> {}]

\* The test of acquire: nothing t asks for conflicts with what another holds.
Free(t, rs) ==
    \A u \in Task \ {t} : \A r \in rs : \A s \in locks[u] : <<r, s>> \notin Conflicts

\* acquire, when it returns True: all or nothing, added to what t has.
Acquire(t, rs) ==
    /\ rs # {}
    /\ Free(t, rs)
    /\ locks' = [locks EXCEPT ![t] = @ \cup rs]

\* release
Release(t, rs) == locks' = [locks EXCEPT ![t] = @ \ rs]

\* release_all, called for one task after the other of S.
ReleaseAll(S) == locks' = [t \in Task |-> IF t \in S THEN {} ELSE locks[t]]

Next ==
    \/ \E t \in Task, rs \in SUBSET Resource : Acquire(t, rs) \/ Release(t, rs)
    \/ \E S \in SUBSET Task : ReleaseAll(S)

Spec == Init /\ [][Next]_locks

\* What _is_conflict gives: the order of its arguments plays no part.
ConflictsAreMutual == \A r, s \in Resource : <<r, s>> \in Conflicts => <<s, r>> \in Conflicts

-----------------------------------------------------------------------------
\* Two tasks never hold resources that conflict: what agents/locks.py promises
\* ("prevents concurrent file modification").
Exclusion ==
    \A t, u \in Task : t # u =>
        \A r \in locks[t], s \in locks[u] : <<r, s>> \notin Conflicts
=============================================================================
