------------------------ MODULE MCWorkerReservation ------------------------
(* Values for model-checking WorkerReservation. *)
EXTENDS WorkerReservation

CONSTANTS w1, j1

OneWorker == {w1}
OneJob    == {j1}

\* With two attempts, what changes the owner of a job; with one, everything.
Takeovers == {"crash", "stall"}
=============================================================================
