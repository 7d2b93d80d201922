---------------------------- MODULE MCAgentLoop ----------------------------
(* One operation of each kind, all on one file, and a call of each kind     *)
(* that never runs; a goal with work to test, one that only reads, and one   *)
(* for each script.                                                         *)
EXTENDS AgentLoop

Scripts(kind, readOnly, flow) ==
    [kind |-> kind, readOnly |-> readOnly, canWork |-> TRUE, plan |-> <<>>,
     flow |-> flow]

MCGoals ==
    {[kind |-> "fix", readOnly |-> FALSE, canWork |-> TRUE,
      plan |-> <<"implement", "test">>, flow |-> "none"],
     [kind |-> "explain", readOnly |-> TRUE, canWork |-> TRUE,
      plan |-> <<"inspect">>, flow |-> "none"],
     Scripts("code", FALSE, "push"), Scripts("code", FALSE, "test"),
     Scripts("explain", TRUE, "explain")}
=============================================================================
