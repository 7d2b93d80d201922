--------------------------- MODULE WorkspaceFiles ---------------------------
(***************************************************************************)
(* What the locks of the scheduler are for: the resources of the plan are  *)
(* paths and patterns, the lock manager compares these, and the agents     *)
(* work on the files they stand for.                                       *)
(***************************************************************************)
EXTENDS Scheduler, ResourcePaths

CONSTANT Files   \* the files of the workspace, each the names on its path

ASSUME FilesAssumption ==
    /\ Files \subseteq Seq(Name)
    /\ \A r \in Resource : IsResource(r)
    /\ \A r, s \in Resource : <<r, s>> \in Conflicts <=> IsConflict(r, s)

\* What the conflict test cannot see: x has its wildcard inside a part, as src/a*,
\* and y has another name in that place, as src/ab.
Overlooked(x, y) ==
    /\ x.wild = "within"
    /\ Len(y.path) >= Len(x.path)
    /\ IsPrefix(Front(x.path), y.path)
    /\ y.path[Len(x.path)] # Last(x.path)

\* Two agents work on the same file at once, one of them writing it, only by a
\* pattern whose wildcard is inside a part (src/a* and src/ab): the locks that
\* keep live workers apart by whole parts (locks.py, _is_conflict) keep them
\* apart on the files for every other pair of paths and patterns.
NoSharedFile ==
    \A t, u \in Live : t # u =>
        \A r \in Requested(t), s \in Requested(u) :
            /\ r.mode = "write"
            /\ Covers(r, Files) \cap Covers(s, Files) # {}
            => Overlooked(r, s) \/ Overlooked(s, r)
=============================================================================
