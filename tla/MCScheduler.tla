---------------------------- MODULE MCScheduler ----------------------------
(* Small plans for the scheduler, with resources that are paths and the     *)
(* conflict test of the lock manager between them.                          *)
EXTENDS WorkspaceFiles, TLC

Res(path, wild, mode) == [path |-> path, wild |-> wild, mode |-> mode]

MCName   == {"src", "lib", "a", "ab"}
MCStarts == {<<n, n>> : n \in MCName} \cup {<<"a", "ab">>}
MCFiles  == UNION {[1..n -> MCName] : n \in 1..3}

ConflictsOf(S) == {p \in S \X S : IsConflict(p[1], p[2])}

\* A directory; a pattern with its wildcard inside a part and a file that it
\* matches, which the conflict test takes for disjoint; a pattern with its
\* wildcard after a slash and a file that it matches.
SrcTree == Res(<<"src">>, "none", "write")
SrcStem == Res(<<"src", "a">>, "within", "write")
SrcFile == Res(<<"src", "ab">>, "none", "write")
LibAll  == Res(<<"lib">>, "below", "read")
LibFile == Res(<<"lib", "ab">>, "none", "write")

MCResource  == {SrcTree, SrcStem, SrcFile, LibAll, LibFile}
MCConflicts == ConflictsOf(MCResource)

\* Three tasks that may run side by side, the first and the third on one file; a
\* fourth waits for these two and conflicts with all three.
JoinTask      == {"a", "b", "c", "d"}
JoinDeps      == [b \in JoinTask |-> IF b = "d" THEN {"a", "c"} ELSE {}]
JoinPos       == "a" :> 1 @@ "b" :> 2 @@ "c" :> 3 @@ "d" :> 4
JoinResources == "a" :> {SrcStem} @@ "b" :> {LibAll} @@ "c" :> {SrcFile} @@ "d" :> {SrcTree, LibFile}

\* The same with a fifth task that waits for the second; no agent has its role.
PlanTask      == JoinTask \cup {"e"}
PlanDeps      == JoinDeps @@ "e" :> {"b"}
PlanPos       == JoinPos @@ "e" :> 5
PlanResources == JoinResources @@ "e" :> {}

\* A task that locks nothing and its dependent.
ChainTask      == {"a", "b"}
ChainDeps      == "a" :> {} @@ "b" :> {"a"}
ChainPos       == "a" :> 1 @@ "b" :> 2
ChainResources == "a" :> {} @@ "b" :> {SrcTree}
=============================================================================
