---------------------------- MODULE JobContract ----------------------------
(***************************************************************************)
(* What the platform promises the payer of a try-on job, without any of    *)
(* the machinery that keeps the promise: a job is opened for a charge and  *)
(* ends at most once, either with an image (the charge is kept) or without *)
(* one (the charge is returned, whole and once).                           *)
(***************************************************************************)
EXTENDS Naturals

CONSTANTS
    Jobs,    \* the jobs customers may create
    Charge   \* Charge[j]: the credits debited when j is created

VARIABLES
    phase,     \* phase[j]: how far the promise about j has got
    returned   \* returned[j]: credits paid back for j so far

vars == <<phase, returned>>

Ended == {"completed", "failed", "cancelled"}

TypeOK ==
    /\ phase \in [Jobs -> {"none", "open"} \cup Ended]
    /\ returned \in [Jobs -> Nat]

Init ==
    /\ phase = [j \in Jobs |-> "none"]
    /\ returned = [j \in Jobs |-> 0]

Open(j) ==
    /\ phase[j] = "none"
    /\ phase' = [phase EXCEPT ![j] = "open"]
    /\ UNCHANGED returned

Deliver(j) ==
    /\ phase[j] = "open"
    /\ phase' = [phase EXCEPT ![j] = "completed"]
    /\ UNCHANGED returned

GiveUp(j) ==
    /\ phase[j] = "open"
    /\ \E outcome \in {"failed", "cancelled"} :
          phase' = [phase EXCEPT ![j] = outcome]
    /\ returned' = [returned EXCEPT ![j] = @ + Charge[j]]

Next == \E j \in Jobs : Open(j) \/ Deliver(j) \/ GiveUp(j)

Spec == Init /\ [][Next]_vars

=============================================================================
