--------------------------- MODULE MCPlanRenewals ---------------------------
(* Values for model-checking PlanRenewals. *)
EXTENDS PlanRenewals

CONSTANTS p1, p2, k1, k2, c1, c2

TwoPlans   == {p1, p2}
TwoCharges == {k1, k2}
TwoCalls   == {c1, c2}
=============================================================================
