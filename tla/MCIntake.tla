------------------------------- MODULE MCIntake -------------------------------
(* Small instances of Intake: see the .cfg files for the other constants.     *)
EXTENDS Intake

\* The last input of a kind brings two jobs, the others one.
LastBringsTwo == [x \in Adds \cup Orders |->
                    IF \E y \in Adds \cup Orders : y > x THEN 1 ELSE 2]

NamesFirstRun == [m \in Cancels |-> 1]
=============================================================================
