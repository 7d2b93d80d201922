-------------------------- MODULE MCTaskGraphWalk --------------------------
(* Four planned tasks, every graph whose edges go from an earlier to a later *)
(* task, and the same with one edge back to the first task, which closes     *)
(* cycles of two, three and four tasks.                                      *)
EXTENDS TaskGraphWalk

MCPlanned  == {"t1", "t2", "t3", "t4"}
MCEdges    == { <<"t1", "t2">>, <<"t1", "t3">>, <<"t1", "t4">>, <<"t2", "t3">>,
                <<"t2", "t4">>, <<"t3", "t4">>, <<"t4", "t1">> }
MCStatuses == {"created", "blocked", "completed", "failed"}
=============================================================================
