----------------------------- MODULE MCAdminJobs -----------------------------
(* Values for model-checking AdminJobs. *)
EXTENDS AdminJobs

CONSTANTS j1, s1

OneJob     == {j1}
OneSession == {s1}
OneCharge  == [j \in OneJob |-> 5]
=============================================================================
