--------------------------- MODULE ParkedScheduler ---------------------------
(***************************************************************************)
(* Jobs that found no worker (stream/parked.ts), the lanes whose slots     *)
(* they give back and ask for again (stream/loop.ts), and the slots the    *)
(* entries of a previous process hold (stream/lane-tickets.ts).  One       *)
(* dispatcher process, whose handlers, lane loops and scheduler interleave *)
(* at every await: the insert of the waiting event, the read of a message, *)
(* the scheduler's read of the rows and its question to Redis per pool.    *)
(***************************************************************************)
EXTENDS Naturals, FiniteSets, FiniteSetsExt

CONSTANTS Jobs, Workers, Lanes,
          LaneOf,      \* the lane of the stream a job rides
          PoolOf,      \* the worker pool a job needs
          Serves,      \* the pools a worker is allowed
          Rank,        \* the priority of its stream: 0 first
          Arrival,     \* its place in queued_at order
          Cap,         \* workers a lane may keep busy (getConcurrency)
          MaxParked,
          LeftOver,    \* delivered to a previous process and still pending
          Cancellable, \* jobs a user may cancel
          Overdue,     \* jobs that may still wait after three hours
          NoWorker

ASSUME SchedulerAssumption ==
  /\ IsFiniteSet(Jobs) /\ NoWorker \notin Workers /\ MaxParked \in Nat
  /\ LaneOf \in [Jobs -> Lanes] /\ DOMAIN PoolOf = Jobs /\ DOMAIN Serves = Workers
  /\ Rank \in [Jobs -> Nat] /\ Arrival \in [Jobs -> Nat] /\ Cap \in [Lanes -> Nat]
  /\ \A j, k \in Jobs : j # k => Arrival[j] # Arrival[k]
  /\ LeftOver \subseteq Jobs

\* The jobs of a pool ride one lane: what is created with `inhouse` goes to jobs:inhouse and is the
\* only work of that pool (dev/create-job.ts:233, create-replay-job.ts:46, processor.ts:1715); the
\* other pools that park are fed by the streams of the GPU lane.
ASSUME PoolAssumption == \A j, k \in Jobs : PoolOf[j] = PoolOf[k] => LaneOf[j] = LaneOf[k]

VARIABLES
  at,          \* where a job is
  via,         \* what its handler occupies: a slot of its lane, a recovery ticket
  hint,        \* assignedWorker of its record
  resuming,    \* resumed and not yet past the claim
  announced,   \* has written its WAITING_FOR_WORKER event
  promoted,    \* has waited PROMOTE_AFTER_MS since it parked
  renewed,     \* in the set of leases this process renews
  occupant,    \* the job a worker is reserved for
  cancelled, expired, taken,
  reading,     \* lanes between their slot check and the answer of the read
  pass,        \* the scheduler's evaluation
  again        \* a kick arrived while it ran

wait == <<hint, resuming, announced, promoted>>
fate == <<cancelled, expired, taken>>
vars == <<at, via, wait, renewed, occupant, fate, reading, pass, again>>

Running == {"admitted", "claimed", "working", "ending", "parking", "resumed"}
Places == Running \cup {"unread", "pending", "parked", "over", "lost", "adrift"}
Parked == {j \in Jobs : at[j] = "parked"}
InFlight(l) == {j \in Jobs : via[j] = "lane" /\ LaneOf[j] = l}
\* laneOccupancy: the placeholders of pending entries and the tickets of running recoveries.
Occupancy(l) == {j \in Jobs : LaneOf[j] = l /\ (at[j] = "pending" \/ via[j] = "ticket")}
FreeSlots(l) == Cap[l] - Min({Cap[l], Cardinality(InFlight(l) \cup Occupancy(l))})
Claimable(p) == {w \in Workers : occupant[w] = NoWorker /\ p \in Serves[w]}

EffectiveRank(j, prom) == IF j \in prom THEN 0 ELSE Rank[j]
Precedes(j, k, prom) ==
  \/ EffectiveRank(j, prom) < EffectiveRank(k, prom)
  \/ EffectiveRank(j, prom) = EffectiveRank(k, prom) /\ Arrival[j] < Arrival[k]
First(S, prom) == CHOOSE j \in S : \A k \in S \ {j} : Precedes(j, k, prom)

NoPass == [step |-> "idle", ids |-> {}, late |-> {}, prom |-> {}, heads |-> {},
           assigned |-> {}, offer |-> NoWorker]
\* What evaluate reads before its first await; with nobody waiting it returns at once.
Started(S) ==
  IF S = {} THEN NoPass
  ELSE [NoPass EXCEPT !.step = "rows", !.ids = S, !.late = expired, !.prom = promoted]
\* A kick that arrives during an evaluation is dropped.
KickDropped(S) ==
  /\ pass' = IF pass.step = "idle" THEN Started(S) ELSE pass
  /\ UNCHANGED again
\* kick, with S the jobs waiting after the step that calls it.
Kick(S) ==
  IF pass.step = "idle" THEN pass' = Started(S) /\ UNCHANGED again
  ELSE again' = TRUE /\ UNCHANGED pass

Init ==
  /\ at = [j \in Jobs |-> IF j \in LeftOver THEN "pending" ELSE "unread"]
  /\ via = [j \in Jobs |-> "none"] /\ hint = [j \in Jobs |-> NoWorker]
  /\ resuming = {} /\ announced = {} /\ promoted = {} /\ renewed = {}
  /\ occupant = [w \in Workers |-> NoWorker]
  /\ cancelled = {} /\ expired = {} /\ taken = {}
  /\ reading = {} /\ pass = NoPass /\ again = FALSE

----------------------------------------------------------------------------
(* The lanes and recovery *)

\* The bound counts the jobs that wait, not those about to.
SlotCheckParkedOnly(l) ==
  /\ l \notin reading /\ Cardinality(Parked) < MaxParked /\ FreeSlots(l) > 0
  /\ reading' = reading \cup {l}
  /\ UNCHANGED <<at, via, wait, renewed, occupant, fate, pass, again>>

\* waitForSlot returns: the lane goes on to read.
SlotCheck(l) ==
  /\ l \notin reading
  /\ Cardinality(Parked) + Cardinality(InFlight(l)) < MaxParked
  /\ FreeSlots(l) > 0
  /\ reading' = reading \cup {l}
  /\ UNCHANGED <<at, via, wait, renewed, occupant, fate, pass, again>>

Unread(l) == {j \in Jobs : at[j] = "unread" /\ LaneOf[j] = l}

\* The handler takes the job's lease; one cancelled meanwhile is acknowledged.
Admit(j, how) ==
  /\ IF j \in cancelled
     THEN at' = [at EXCEPT ![j] = "over"] /\ UNCHANGED <<via, renewed>>
     ELSE /\ at' = [at EXCEPT ![j] = "admitted"] /\ via' = [via EXCEPT ![j] = how]
          /\ renewed' = renewed \cup {j}
  /\ UNCHANGED <<wait, occupant, fate>>

ReadMessage(l) ==
  /\ l \in reading /\ reading' = reading \ {l}
  /\ \E j \in Unread(l) :
       /\ \A k \in Unread(l) : Rank[j] <= Rank[k]
       /\ Admit(j, "lane")
       /\ IF j \in cancelled THEN Kick(Parked) ELSE UNCHANGED <<pass, again>>

ReadNothing(l) ==
  /\ l \in reading /\ Unread(l) = {} /\ reading' = reading \ {l}
  /\ UNCHANGED <<at, via, wait, renewed, occupant, fate, pass, again>>

\* BACKGROUND_CAP is two: more never run at once here.
Recover(j) ==
  /\ at[j] = "pending" /\ Admit(j, "ticket")
  /\ UNCHANGED <<reading, pass, again>>

----------------------------------------------------------------------------
(* The handler of a job *)

\* Only a claim or a new park removes a job from the resumed.
HandlerEndsStaysResuming(j, to) ==
  /\ at' = [at EXCEPT ![j] = to] /\ via' = [via EXCEPT ![j] = "none"]
  /\ UNCHANGED resuming
  /\ IF via[j] = "lane" THEN Kick(Parked \cup {k \in {j} : to = "parked"})
                        ELSE UNCHANGED <<pass, again>>

\* processJob's finally and the lane's: the slot is free, the scheduler is kicked.  A recovery
\* ticket is released without a kick.
HandlerEnds(j, to) ==
  /\ at' = [at EXCEPT ![j] = to] /\ via' = [via EXCEPT ![j] = "none"]
  /\ resuming' = resuming \ {j}
  /\ IF via[j] = "lane" THEN Kick(Parked \cup {k \in {j} : to = "parked"})
                        ELSE UNCHANGED <<pass, again>>

\* A resumed job that finds its lease lost stays in the renewal set.
ResumeKeepsRenewing(j) ==
  /\ at[j] = "resumed"
  /\ IF j \in cancelled \cup taken
     THEN HandlerEnds(j, IF j \in cancelled THEN "over" ELSE "lost")
     ELSE /\ at' = [at EXCEPT ![j] = "admitted"]
          /\ UNCHANGED <<via, resuming, pass, again>>
  /\ UNCHANGED <<hint, announced, promoted, renewed, occupant, fate, reading>>

\* resumeComfyJob: the token the job parked with must still hold the lease.
Resume(j) ==
  /\ at[j] = "resumed"
  /\ IF j \in cancelled \cup taken
     THEN /\ renewed' = renewed \ {j}
          /\ HandlerEnds(j, IF j \in cancelled THEN "over" ELSE "lost")
     ELSE /\ at' = [at EXCEPT ![j] = "admitted"]
          /\ UNCHANGED <<via, resuming, renewed, pass, again>>
  /\ UNCHANGED <<hint, announced, promoted, occupant, fate, reading>>

\* The resumed call throws before it owns anything: processJobOwned reads the job, its inputs and
\* the rows of the lease first, and the finally of processJob has no token in `owned` to give up.
\* The slot is freed, and nothing takes the lease out of the renewal set.  Bound: one such job.
ResumeThrows(j) ==
  /\ at[j] = "resumed" /\ \A k \in Jobs : at[k] # "adrift"
  /\ HandlerEnds(j, "adrift")
  /\ UNCHANGED <<hint, announced, promoted, renewed, occupant, fate, reading>>

Claim(j) ==
  /\ at[j] = "admitted"
  /\ \E w \in Claimable(PoolOf[j]) : occupant' = [occupant EXCEPT ![w] = j]
  /\ at' = [at EXCEPT ![j] = "claimed"]
  /\ UNCHANGED <<via, wait, renewed, fate, reading, pass, again>>

\* beginProcessing, then forgetWaiting.
Begin(j) ==
  /\ at[j] = "claimed" /\ j \notin cancelled
  /\ at' = [at EXCEPT ![j] = "working"]
  /\ announced' = announced \ {j} /\ resuming' = resuming \ {j}
  /\ IF j \in resuming THEN Kick(Parked) ELSE UNCHANGED <<pass, again>>
  /\ UNCHANGED <<via, hint, promoted, renewed, occupant, fate, reading>>

\* The work is over, or a cancel found by beginProcessing: the worker is freed, which emits
\* "released".  The handler still has its message and its lease to see to.
Release(j) ==
  /\ \/ at[j] = "working"
     \/ at[j] = "claimed" /\ j \in cancelled
  /\ at' = [at EXCEPT ![j] = "ending"]
  /\ occupant' = [w \in Workers |-> IF occupant[w] = j THEN NoWorker ELSE occupant[w]]
  /\ Kick(Parked)
  /\ UNCHANGED <<via, wait, renewed, fate, reading>>

End(j) ==
  /\ at[j] = "ending" /\ renewed' = renewed \ {j} /\ HandlerEnds(j, "over")
  /\ UNCHANGED <<hint, announced, promoted, occupant, fate, reading>>

\* park: the record enters the map, and the handler returns with the lease still renewed.
Park(j) ==
  /\ hint' = [hint EXCEPT ![j] = NoWorker] /\ promoted' = promoted \ {j}
  /\ at' = [at EXCEPT ![j] = "parked"] /\ via' = [via EXCEPT ![j] = "none"]
  /\ resuming' = resuming \ {j} /\ Kick(Parked \cup {j})

\* No worker of the pool can be claimed: past the limit the job is terminated with its refund,
\* cancelled it is acknowledged, and otherwise it parks, at once unless its event is to be written.
NoWorkerFound(j) ==
  /\ at[j] = "admitted" /\ Claimable(PoolOf[j]) = {}
  /\ IF j \in cancelled \cup expired
     THEN /\ at' = [at EXCEPT ![j] = "ending"]
          /\ UNCHANGED <<via, wait, pass, again>>
     ELSE IF j \in announced
     THEN Park(j) /\ UNCHANGED announced
     ELSE /\ announced' = announced \cup {j} /\ at' = [at EXCEPT ![j] = "parking"]
          /\ UNCHANGED <<via, hint, resuming, promoted, pass, again>>
  /\ UNCHANGED <<renewed, occupant, fate, reading>>

EventWritten(j) ==
  /\ at[j] = "parking" /\ Park(j)
  /\ UNCHANGED <<announced, renewed, occupant, fate, reading>>

----------------------------------------------------------------------------
(* The scheduler *)

Tick ==
  /\ Parked # {} /\ Kick(Parked)
  /\ UNCHANGED <<at, via, wait, renewed, occupant, fate, reading>>

\* The jobs in S leave the map and start in their lanes.
Dispatched(S) ==
  /\ at' = [j \in Jobs |-> IF j \in S THEN "resumed" ELSE at[j]]
  /\ via' = [j \in Jobs |-> IF j \in S THEN "lane" ELSE via[j]]
  /\ resuming' = resuming \cup S

\* Which of the due jobs start: tryStart in the order of the map, while their lane has a slot.
Startable(due) ==
  {S \in SUBSET due : \A l \in Lanes :
     LET here == {j \in due : LaneOf[j] = l}
     IN  Cardinality(S \cap here) = Min({Cardinality(here), FreeSlots(l)})}

\* Whoever was resumed before is forgotten.
HeadsOfAll(S, busy, prom) ==
  {j \in S : j = First({k \in S : PoolOf[k] = PoolOf[j]}, prom)}

\* The heads: the first waiter of each pool nobody is being resumed for.
Heads(S, busy, prom) ==
  {j \in S : /\ \A k \in busy : PoolOf[k] # PoolOf[j]
             /\ j = First({k \in S : PoolOf[k] = PoolOf[j]}, prom)}

\* The rows arrive.  Finished and overdue waiters start, then the heads and the workers already
\* promised are read from the map, all before the next await.
RowsRead ==
  /\ pass.step = "rows"
  /\ \E S \in Startable((pass.ids \cap cancelled) \cup (Parked \cap pass.late)) :
       /\ Dispatched(S)
       /\ pass' = [pass EXCEPT !.step = "heads",
                     !.heads = Heads(Parked \ S, resuming \cup S, pass.prom),
                     !.assigned = {hint[j] : j \in resuming} \ {NoWorker}]
  /\ UNCHANGED <<hint, announced, promoted, renewed, occupant, fate, reading, again>>

\* listClaimableWorkers for the next head, as Redis answers it.
Ask ==
  /\ pass.step = "heads" /\ pass.heads # {}
  /\ LET j == First(pass.heads, pass.prom)
         free == Claimable(PoolOf[j]) \ pass.assigned
     IN  IF free = {} THEN pass' = [pass EXCEPT !.heads = @ \ {j}]
         ELSE \E w \in free : pass' = [pass EXCEPT !.step = "offer", !.offer = w]
  /\ UNCHANGED <<at, via, wait, renewed, occupant, fate, reading, again>>

\* A head that starts is not struck off.
OfferKeepsHead ==
  /\ pass.step = "offer"
  /\ LET j == First(pass.heads, pass.prom)
         starts == FreeSlots(LaneOf[j]) > 0
     IN  /\ Dispatched({k \in {j} : starts})
         /\ hint' = [hint EXCEPT ![j] = IF starts THEN pass.offer ELSE NoWorker]
         /\ pass' = [pass EXCEPT !.step = "heads", !.offer = NoWorker,
                       !.assigned = @ \cup {w \in {pass.offer} : starts}]
  /\ UNCHANGED <<announced, promoted, renewed, occupant, fate, reading, again>>

\* The answer arrives: the head takes the worker if its lane still has a slot.
Offer ==
  /\ pass.step = "offer"
  /\ LET j == First(pass.heads, pass.prom)
         starts == FreeSlots(LaneOf[j]) > 0
     IN  /\ Dispatched({k \in {j} : starts})
         /\ hint' = [hint EXCEPT ![j] = IF starts THEN pass.offer ELSE NoWorker]
         /\ pass' = [pass EXCEPT !.step = "heads", !.heads = @ \ {j}, !.offer = NoWorker,
                       !.assigned = @ \cup {w \in {pass.offer} : starts}]
  /\ UNCHANGED <<announced, promoted, renewed, occupant, fate, reading, again>>

\* evaluate's finally: the kicks that arrived meanwhile are one more evaluation.
PassEnds ==
  /\ pass.step = "heads" /\ pass.heads = {}
  /\ again' = FALSE /\ pass' = IF again THEN Started(Parked) ELSE NoPass
  /\ UNCHANGED <<at, via, wait, renewed, occupant, fate, reading>>

----------------------------------------------------------------------------
(* What happens to a job from outside *)

\* No handler comes back to the job: it is finished, another owner has it, or it is adrift.
Ended == {"over", "lost", "adrift"}

Cancel(j) ==
  /\ j \in Cancellable \ cancelled /\ at[j] \notin Ended \cup {"working", "ending"}
  /\ cancelled' = cancelled \cup {j}
  /\ UNCHANGED <<at, via, wait, renewed, occupant, expired, taken, reading, pass, again>>

ThreeHoursPass(j) ==
  /\ j \in Overdue \ expired /\ at[j] \notin Ended
  /\ expired' = expired \cup {j}
  /\ UNCHANGED <<at, via, wait, renewed, occupant, cancelled, taken, reading, pass, again>>

PromotionDue(j) ==
  /\ at[j] = "parked" /\ Rank[j] > 0 /\ j \notin promoted
  /\ promoted' = promoted \cup {j}
  /\ UNCHANGED <<at, via, hint, resuming, announced, renewed, occupant, fate, reading, pass, again>>

\* The lease expired while the job waited and another owner took the job.
Taken(j) ==
  /\ at[j] = "parked" /\ taken = {}
  /\ taken' = {j}
  /\ UNCHANGED <<at, via, wait, renewed, occupant, cancelled, expired, reading, pass, again>>

Lane(l) == ReadMessage(l) \/ ReadNothing(l)
Handler(j) ==
  Resume(j) \/ Claim(j) \/ Begin(j) \/ Release(j) \/ End(j) \/ NoWorkerFound(j) \/ EventWritten(j)
Scheduler == RowsRead \/ Ask \/ Offer \/ PassEnds
Outside(j) == Cancel(j) \/ PromotionDue(j) \/ Taken(j)

Done == (\A j \in Jobs : at[j] \in Ended) /\ UNCHANGED vars

Next ==
  \/ \E l \in Lanes : SlotCheck(l) \/ Lane(l)
  \/ \E j \in Jobs : Recover(j) \/ Handler(j) \/ ResumeThrows(j) \/ Outside(j) \/ ThreeHoursPass(j)
  \/ Tick \/ Scheduler
  \/ Done

Spec == Init /\ [][Next]_vars
FairSpec ==
  /\ Spec
  /\ \A l \in Lanes : WF_vars(SlotCheck(l)) /\ WF_vars(Lane(l))
  /\ \A j \in Jobs : WF_vars(Recover(j)) /\ WF_vars(Handler(j)) /\ WF_vars(ThreeHoursPass(j))
  /\ WF_vars(Tick) /\ WF_vars(Scheduler)
----------------------------------------------------------------------------
(* Properties *)

\* The records keep their shape, and the heads an evaluation still has to place are waiting, though
\* it chose them several awaits ago.
ParkedTypeOK ==
  /\ at \in [Jobs -> Places] /\ via \in [Jobs -> {"none", "lane", "ticket"}]
  /\ hint \in [Jobs -> Workers \cup {NoWorker}]
  /\ occupant \in [Workers -> Jobs \cup {NoWorker}]
  /\ resuming \cup announced \cup promoted \cup renewed \cup cancelled \cup expired \subseteq Jobs
  /\ reading \subseteq Lanes /\ again \in BOOLEAN
  /\ pass.step \in {"idle", "rows", "heads", "offer"}
  /\ pass.heads \subseteq Parked

\* "At most one head per pool" (parked.ts:71) and "each takes a distinct worker" (:222): the jobs
\* resumed for a worker and not yet past the claim are of different pools and were promised
\* different workers, whatever parked, claimed or ended during the evaluation's awaits.
OneHeadPerPool ==
  \A j, k \in resuming :
    (j # k /\ hint[j] # NoWorker /\ hint[k] # NoWorker)
      => PoolOf[j] # PoolOf[k] /\ hint[j] # hint[k]

\* "The release event normally wakes the scheduler first" (parked.ts:42): an idle scheduler has
\* nothing it could do, so no release, park or end of a handler is lost while an evaluation awaits
\* (kick, :173).  What wakes it late, on the tick, is left out: the slot of a left-over entry,
\* which is freed without a kick, a cancel and the three-hour limit.
WokenWhenReady ==
  pass.step = "idle" =>
    \A j \in Heads(Parked, resuming, promoted) :
      LET left == {k \in LeftOver : LaneOf[k] = LaneOf[j]}
      IN  \/ Claimable(PoolOf[j]) \subseteq {hint[i] : i \in resuming}
          \/ Cardinality(InFlight(LaneOf[j]) \cup left) >= Cap[LaneOf[j]]

\* MAX_PARKED (parked.ts:29) and "in-flight jobs count too" (loop.ts:85): the jobs a lane read
\* itself never wait and run in a number past the bound, though each read answers long after the
\* check that allowed it.
LaneWithinBound ==
  \A l \in Lanes :
    Cardinality({j \in Jobs \ LeftOver : LaneOf[j] = l /\ (at[j] = "parked" \/ via[j] = "lane")})
      <= MaxParked

\* "Renewing ... would keep a crashed-handler job live until restart, blinding the sweeper and
\* recovery" (ownership.ts:225): a lease is renewed only for a job that waits or has a handler, or
\* for one whose resumed call threw before it owned anything.  That exception is the code's:
\* "whatever the exit ... stop renewing it" (processor.ts:301) holds only once onOwned has run.
RenewedIsHeld == \A j \in renewed : at[j] \in {"parked", "adrift"} \/ via[j] # "none"

\* Every job that is delivered ends or goes adrift, whatever parks, cancels, is taken or throws: no
\* head, no slot and no ticket is kept so that a pool waits forever, not even by a job adrift, and
\* a job no worker can take is terminated.
EveryJobEnds == <>(\A j \in Jobs : at[j] \in Ended)
=============================================================================
