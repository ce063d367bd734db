------------------------- MODULE MCParkedScheduler -------------------------
(* Values for model-checking ParkedScheduler: two workers, each serving both pools, and a lane  *)
(* with one slot more than that, for a worker that is registered and cannot be claimed.         *)
EXTENDS ParkedScheduler

CONSTANTS w1, w2, a1, a2, b1, c1

FourJobs    == {a1, a2, b1, c1}
TwoWorkers  == {w1, w2}
OneLane     == {"gpu"}
AllGpu      == [j \in FourJobs |-> "gpu"]
TwoPools    == [j \in FourJobs |-> IF j \in {a1, a2} THEN "catalogue" ELSE "merchant"]
ServesBoth  == [w \in TwoWorkers |-> {"catalogue", "merchant"}]
\* a1 arrived first, on the slower stream.
OneSlow     == [j \in FourJobs |-> IF j = a1 THEN 1 ELSE 0]
ByName      == [j \in FourJobs |-> CASE j = a1 -> 1 [] j = a2 -> 2 [] j = b1 -> 3 [] j = c1 -> 4]
ThreeSlots  == [l \in OneLane |-> 3]
OnlyA1      == {a1}
OnlyA2      == {a2}
OnlyC1      == {c1}
=============================================================================
