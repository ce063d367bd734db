---------------------------- MODULE MCAutoRefill ----------------------------
(* Values for model-checking AutoRefill. *)
EXTENDS AutoRefill

CONSTANTS r1, r2, c1, c2

TwoRows  == {r1, r2}
TwoCalls == {c1, c2}
=============================================================================
