-------------------------- MODULE MCRefundRequests --------------------------
(* Values for model-checking RefundRequests. *)
EXTENDS RefundRequests

CONSTANTS j1, j2

TwoJobs == {j1, j2}

\* Two paid jobs.
TwoCharges == [j \in TwoJobs |-> 5]
=============================================================================
