------------------------------ MODULE WorkerUse ------------------------------
(***************************************************************************)
(* What a worker reservation promises: a GPU worker runs one prompt of the *)
(* platform at a time.  A prompt is sent only to a worker on which nothing *)
(* is sent or running, and stays there until it has ended.  A worker that  *)
(* the platform once took for free while a prompt may have been running is *)
(* freed: of such a worker nothing is promised.                            *)
(***************************************************************************)
CONSTANTS Workers, Prompts

VARIABLES
    inUse, \* inUse[w]: prompts sent to w that have not ended
    freed  \* workers that were taken for free too early

useVars == <<inUse, freed>>

Init ==
    /\ inUse = [w \in Workers |-> {}]
    /\ freed = {}

Send(w, p) ==
    /\ inUse[w] = {} \/ w \in freed
    /\ inUse' = [inUse EXCEPT ![w] = @ \cup {p}]
    /\ UNCHANGED freed

End(w, p) ==
    /\ p \in inUse[w]
    /\ inUse' = [inUse EXCEPT ![w] = @ \ {p}]
    /\ UNCHANGED freed

Free(W) ==
    /\ freed' = freed \cup W
    /\ UNCHANGED inUse

Next ==
    \/ \E w \in Workers, p \in Prompts : Send(w, p) \/ End(w, p)
    \/ \E W \in SUBSET Workers : Free(W)

Spec == Init /\ [][Next]_useVars
=============================================================================
