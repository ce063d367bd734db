--------------------------- MODULE MCJobProcessor ---------------------------
(* Values for model-checking JobProcessor. *)
EXTENDS JobProcessor, TLC

CONSTANTS j1, s1, s2, h1, h2, boxA, boxB

OneJob     == {j1}
TwoSessions == {s1, s2}
OneHandler  == {h1}
TwoHandlers == {h1, h2}

OneCharge == [j \in OneJob |-> 1]

\* A restart on another host: entries of the old consumer are claimed by the new.
OwnHosts == s1 :> boxA @@ s2 :> boxB

HandlerSymmetry == Permutations(TwoHandlers)
=============================================================================
