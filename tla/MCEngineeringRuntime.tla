------------------------ MODULE MCEngineeringRuntime ------------------------
(* Small projects for the runtime.                                          *)
EXTENDS EngineeringRuntime, TLC

MCResource  == {"w_src", "w_lib"}
MCConflicts == { <<r, r>> : r \in MCResource }

Identity(S) == {<<b, b>> : b \in S}

\* A feature of two parts and its test; one requirement names a part, the other
\* one no task, and none names the second part or the test.  The id of the first
\* part begins that of the second.
FeatureTask      == {"task_1", "task_10", "test"}
FeatureDeps      == "task_1" :> {} @@ "task_10" :> {} @@ "test" :> {"task_1", "task_10"}
FeaturePos       == "task_1" :> 1 @@ "task_10" :> 2 @@ "test" :> 3
FeatureResources == "task_1" :> {"w_src"} @@ "task_10" :> {"w_lib"} @@ "test" :> {"w_src", "w_lib"}
FeatureTraces    == "REQ-001" :> {"task_1"} @@ "REQ-002" :> {}
FeatureBegins    == Identity(FeatureTask) \cup {<<"task_1", "task_10">>}

=============================================================================
