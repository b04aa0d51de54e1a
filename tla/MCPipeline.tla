------------------------------ MODULE MCPipeline ------------------------------
(* Small instances of Pipeline: see the .cfg files for the other constants.   *)
EXTENDS Pipeline

\* The first job has all the steps, the others have one.
FirstIsLongest == [r \in 1..NumRuns |-> IF r = 1 THEN Steps ELSE 1]

\* The first gate may stop, continue or skip a step, the others stop or continue.
FirstMaySkip == [m \in 1..Steps |-> IF m = 1 THEN {0, 2, 3} \cap 0..Steps + 1 ELSE {0, m + 1}]
=============================================================================
