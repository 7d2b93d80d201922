--------------------------- MODULE MCProjectIndex ---------------------------
(* Two files that import one another, one of which may come to import a      *)
(* module from elsewhere or grow too long; a long file that .gitignore names *)
(* and one in a directory that is skipped.                                   *)
EXTENDS ProjectIndex

MCPaths == {"a", "b", "ignored", "skipped"}
MCModules == MCPaths \cup {"os"}

Text(imports, hit) == [imports |-> imports, hit |-> hit, big |-> FALSE]
Long(hit) == [imports |-> {}, hit |-> hit, big |-> TRUE]

MCTexts ==
    [p \in MCPaths |->
       CASE p = "a"       -> {Text({"b"}, TRUE), Text({"os"}, FALSE), Long(FALSE)}
         [] p = "b"       -> {Text({"a"}, FALSE)}
         [] p = "ignored" -> {Long(TRUE)}
         [] p = "skipped" -> {Text({}, TRUE)}]

=============================================================================
