----------------------------- MODULE MCTickEngine -----------------------------
(* Small instances of TickEngine: see the .cfg files for the other constants. *)
EXTENDS TickEngine

Once  == [r \in 1..NumRuns |-> 1]
Twice == [r \in 1..NumRuns |-> 2]
FirstTwice == [r \in 1..NumRuns |-> IF r = 1 THEN 2 ELSE 1]
=============================================================================
