--------------------------- MODULE ResourcePaths ---------------------------
(***************************************************************************)
(* The conflict test of WorkspaceLockManager (agents/locks.py) and what it *)
(* is meant to decide: whether two resources can touch the same file.      *)
(*                                                                         *)
(* A resource is a path, an access mode and, when the path holds a "*" or  *)
(* a "?", a wildcard.  path is the sequence of the parts of the static     *)
(* prefix, what stands before the first wildcard; wild says where that     *)
(* wildcard is:                                                            *)
(*   none    the path has none: it names one file or one directory tree    *)
(*   below   right after a slash, as in src/*  or  src/**                  *)
(*   within  inside a part, as in src/te*.py; the last part of path is     *)
(*           then only the beginning of a name                             *)
(***************************************************************************)
EXTENDS Naturals, SequencesExt

CONSTANTS
    Name,        \* the names of files and directories
    Starts       \* the pairs <<stem, name>> where name begins with stem

IsResource(r) ==
    /\ r.path \in Seq(Name)
    /\ r.wild \in {"none", "below", "within"}
    /\ r.wild = "within" => r.path # <<>>
    /\ r.mode \in {"read", "write"}

Comparable(p, q) == IsPrefix(p, q) \/ IsPrefix(q, p)

\* Mutant: a path conflicts with itself only.
IsConflict_SamePath(r1, r2) ==
    ~(r1.mode = "read" /\ r2.mode = "read") /\ r1.path = r2.path

\* _is_conflict: two readers never conflict; otherwise literal paths conflict
\* when one contains the other, and patterns when one static prefix begins
\* with the parts of the other.  An empty prefix conflicts with everything.
IsConflict(r1, r2) ==
    /\ ~(r1.mode = "read" /\ r2.mode = "read")
    /\ Comparable(r1.path, r2.path)

\* The files, out of those in Files, that a task holding r may touch.
Covers(r, Files) ==
    CASE r.wild = "none"   -> {f \in Files : IsPrefix(r.path, f)}
      [] r.wild = "below"  -> {f \in Files : IsStrictPrefix(r.path, f)}
      [] r.wild = "within" ->
            {f \in Files :
                /\ Len(f) >= Len(r.path)
                /\ IsPrefix(Front(r.path), f)
                /\ <<Last(r.path), f[Len(r.path)]>> \in Starts}
=============================================================================
