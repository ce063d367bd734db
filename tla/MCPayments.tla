----------------------------- MODULE MCPayments -----------------------------
(* Values for model-checking Payments: two orders of one buyer. *)
EXTENDS Payments

CONSTANTS o1, o2, u1, c1, c2

TwoOrders == {o1, o2}
OneUser   == {u1}
TwoCalls  == {c1, c2}
OneBuyer  == [o \in TwoOrders |-> u1]
=============================================================================
