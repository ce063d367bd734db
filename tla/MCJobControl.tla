---------------------------- MODULE MCJobControl ----------------------------
(* Values for model-checking JobControl. *)
EXTENDS JobControl

CONSTANTS j1, s1, s2

OneJob  == {j1}
TwoSessions == {s1, s2}

\* A paid job.
OneCharge == [j \in OneJob |-> 5]
=============================================================================
