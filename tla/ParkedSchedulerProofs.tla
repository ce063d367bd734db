------------------------ MODULE ParkedSchedulerProofs ------------------------
(***************************************************************************)
(* Proofs about ParkedScheduler: for every set of jobs, workers, pools and *)
(* lanes, and every number of slots and of places to wait.                 *)
(***************************************************************************)
EXTENDS ParkedScheduler, FiniteSetTheorems, TLAPS

-----------------------------------------------------------------------------
(* The order in which the jobs of a pool are served *)

LEMMA RankIsNat ==
  ASSUME NEW prom, NEW j \in Jobs
  PROVE  EffectiveRank(j, prom) \in Nat /\ Arrival[j] \in Nat
BY SchedulerAssumption DEF EffectiveRank

LEMMA PrecedesIsOrder ==
  ASSUME NEW prom
  PROVE  /\ \A j \in Jobs : ~Precedes(j, j, prom)
         /\ \A j, k \in Jobs : j # k => Precedes(j, k, prom) \/ Precedes(k, j, prom)
         /\ \A i, j, k \in Jobs :
              Precedes(i, j, prom) /\ Precedes(j, k, prom) => Precedes(i, k, prom)
<1> DEFINE r(j) == EffectiveRank(j, prom)
<1>1. \A j \in Jobs : r(j) \in Nat /\ Arrival[j] \in Nat
  BY RankIsNat
<1>2. \A j, k \in Jobs : Precedes(j, k, prom) <=>
         r(j) < r(k) \/ (r(j) = r(k) /\ Arrival[j] < Arrival[k])
  BY DEF Precedes
<1>3. \A j, k \in Jobs : j # k => Arrival[j] # Arrival[k]
  BY SchedulerAssumption
<1> HIDE DEF r
<1> QED
  BY <1>1, <1>2, <1>3

\* A set of jobs has a first one: the jobs before the first would be a smaller set.
LEMMA FirstIsIn ==
  ASSUME NEW prom, NEW S \in SUBSET Jobs, S # {}
  PROVE  First(S, prom) \in S
<1> DEFINE before(j) == {k \in S : Precedes(k, j, prom)}
           T == {before(j) : j \in S}
<1>1. IsFiniteSet(S)
  BY FS_Subset, SchedulerAssumption
<1>2. IsWellFoundedOn(StrictSubsetOrdering(S), SUBSET S)
  BY <1>1, FS_StrictSubsetOrderingWellFounded, FS_FiniteSubsetsOfFinite
<1>3. T \subseteq SUBSET S /\ T # {}
  OBVIOUS
<1>4. PICK x \in T : \A y \in T : <<y, x>> \notin StrictSubsetOrdering(S)
  <2> HIDE DEF T
  <2> QED BY <1>2, <1>3, WFMin
<1>5. PICK j \in S : x = before(j)
  BY <1>4
<1>6. ASSUME NEW k \in S, Precedes(k, j, prom)
      PROVE  FALSE
  <2>1. before(k) \subseteq before(j)
    BY <1>6, PrecedesIsOrder
  <2>2. k \in before(j) /\ k \notin before(k)
    BY <1>6, PrecedesIsOrder
  <2>3. <<before(k), before(j)>> \in StrictSubsetOrdering(S)
    <3> HIDE DEF before
    <3>1. before(k) \in SUBSET S /\ before(j) \in SUBSET S
      BY DEF before
    <3> QED BY <2>1, <2>2, <3>1 DEF StrictSubsetOrdering
  <2> QED
    BY <1>4, <1>5, <2>3
<1>7. \A k \in S \ {j} : Precedes(j, k, prom)
  BY <1>6, PrecedesIsOrder
<1> QED
  BY <1>7 DEF First

-----------------------------------------------------------------------------
(* Types *)

PassType == [step : {"idle", "rows", "heads", "offer"}, ids : SUBSET Jobs, late : SUBSET Jobs,
             prom : SUBSET Jobs, heads : SUBSET Jobs, assigned : SUBSET Workers,
             offer : Workers \cup {NoWorker}]

\* What an evaluation has read and not used yet is still waiting: only it starts jobs.
StillWaiting ==
  /\ pass.step = "rows" => pass.ids \subseteq Parked
  /\ pass.heads \subseteq Parked

Shape ==
  /\ at \in [Jobs -> Places] /\ via \in [Jobs -> {"none", "lane", "ticket"}]
  /\ hint \in [Jobs -> Workers \cup {NoWorker}]
  /\ occupant \in [Workers -> Jobs \cup {NoWorker}]
  /\ resuming \cup announced \cup promoted \cup renewed \cup cancelled \cup expired \subseteq Jobs
  /\ reading \subseteq Lanes /\ again \in BOOLEAN
  /\ pass \in PassType

LEMMA StartedType ==
  ASSUME Shape, NEW S \in SUBSET Jobs
  PROVE  /\ Started(S) \in PassType
         /\ Started(S).heads = {} /\ Started(S).ids \subseteq S
         /\ Started(S).step \in {"idle", "rows"}
BY DEF Started, NoPass, PassType, Shape

\* A kick leaves the evaluation that runs alone, or starts one.
Kicked(S) == /\ pass' = pass \/ pass' = Started(S)
             /\ again' \in BOOLEAN

LEMMA KickKicks ==
  ASSUME Shape, NEW S, Kick(S) \/ UNCHANGED <<pass, again>>
  PROVE  Kicked(S)
BY DEF Kick, Kicked, Shape

LEMMA KickedType ==
  ASSUME Shape, NEW S \in SUBSET Jobs, Kicked(S)
  PROVE  pass' \in PassType /\ again' \in BOOLEAN
BY StartedType DEF Kicked, Shape

\* The other jobs, as a step of job j leaves them: an own step of its handler, its lane or its
\* recovery, after which it may wait, hold a slot or have ended, and may have kicked.
Acts(j) ==
  /\ at[j] # "parked"
  /\ \A k \in Jobs \ {j} : /\ at'[k] = at[k] /\ via'[k] = via[k] /\ hint'[k] = hint[k]
                           /\ k \in renewed' => k \in renewed
  /\ resuming' \subseteq resuming /\ reading' \subseteq reading
  /\ hint'[j] = hint[j] \/ j \notin resuming'
  /\ at'[j] \in Running <=> via'[j] # "none"
  /\ at'[j] = "pending" \/ via'[j] = "ticket" => j \in LeftOver
  /\ at'[j] = "parked" => hint'[j] = NoWorker
  /\ j \in renewed' => at'[j] \in {"parked", "adrift"} \/ via'[j] # "none"
  /\ (at'[j] = "parked" \/ via'[j] = "lane") /\ j \notin LeftOver =>
       \/ via[j] = "lane"
       \/ LaneOf[j] \in reading /\ LaneOf[j] \notin reading'
  /\ pass' = pass \/ \E S \in SUBSET Parked' : pass' = Started(S)

\* A job that runs has a slot or a ticket, and no other has; tickets are for left-over entries;
\* no worker is promised to one that waits.
Carried ==
  \A j \in Jobs :
    /\ at[j] \in Running <=> via[j] # "none"
    /\ at[j] = "pending" \/ via[j] = "ticket" => j \in LeftOver
    /\ at[j] = "parked" => hint[j] = NoWorker

-----------------------------------------------------------------------------
(* What the lanes, recovery and the handlers do *)

\* With the jobs that wait, and perhaps the one that starts to.
LEMMA ActKick ==
  ASSUME Shape, NEW j \in Jobs, at[j] # "parked",
         \A k \in Jobs \ {j} : at'[k] = at[k],
         Kicked(Parked) \/ (Kicked(Parked \cup {j}) /\ at'[j] = "parked")
  PROVE  /\ pass' = pass \/ \E S \in SUBSET Parked' : pass' = Started(S)
         /\ pass' \in PassType /\ again' \in BOOLEAN
<1>1. Parked \in SUBSET Jobs /\ Parked \cup {j} \in SUBSET Jobs
  BY DEF Parked
<1>2. Parked \subseteq Parked' /\ (at'[j] = "parked" => Parked \cup {j} \subseteq Parked')
  BY DEF Parked
<1>3. CASE Kicked(Parked)
  BY <1>1, <1>2, <1>3, KickedType DEF Kicked
<1>4. CASE Kicked(Parked \cup {j}) /\ at'[j] = "parked"
  BY <1>1, <1>2, <1>4, KickedType DEF Kicked
<1> QED
  BY <1>3, <1>4

LEMMA AdmitActs ==
  ASSUME Shape, Carried, RenewedIsHeld, NEW j \in Jobs, NEW how \in {"lane", "ticket"},
         at[j] \in {"unread", "pending"}, Admit(j, how),
         how = "lane" => LaneOf[j] \in reading /\ LaneOf[j] \notin reading',
         how = "ticket" => j \in LeftOver,
         reading' \subseteq reading,
         Kick(Parked) \/ UNCHANGED <<pass, again>>
  PROVE  Acts(j) /\ Shape'
<1>1. j \notin renewed /\ via[j] = "none"
  BY DEF RenewedIsHeld, Carried, Running, Shape
<1>2. UNCHANGED <<hint, resuming, announced, promoted, occupant, cancelled, expired, taken>>
  BY DEF Admit, wait, fate
<1>3. /\ at' = [at EXCEPT ![j] = IF j \in cancelled THEN "over" ELSE "admitted"]
      /\ via' = [via EXCEPT ![j] = IF j \in cancelled THEN "none" ELSE how]
      /\ renewed' = IF j \in cancelled THEN renewed ELSE renewed \cup {j}
  BY <1>1 DEF Admit, Shape
<1>4. /\ at' \in [Jobs -> Places] /\ via' \in [Jobs -> {"none", "lane", "ticket"}]
      /\ \A k \in Jobs \ {j} : at'[k] = at[k] /\ via'[k] = via[k]
      /\ at'[j] = (IF j \in cancelled THEN "over" ELSE "admitted")
      /\ via'[j] = (IF j \in cancelled THEN "none" ELSE how)
  BY <1>3 DEF Shape, Places, Running
<1>5. /\ pass' = pass \/ \E S \in SUBSET Parked' : pass' = Started(S)
      /\ pass' \in PassType /\ again' \in BOOLEAN
  BY <1>4, KickKicks, ActKick
<1>6. Shape'
  BY <1>2, <1>3, <1>4, <1>5 DEF Shape
<1>7. Acts(j)
  BY <1>1, <1>2, <1>3, <1>4, <1>5 DEF Acts, Running
<1> QED
  BY <1>6, <1>7

LEMMA LaneActs ==
  ASSUME Shape, Carried, RenewedIsHeld, NEW l \in Lanes, ReadMessage(l)
  PROVE  Shape' /\ \E j \in Jobs : Acts(j)
<1>1. PICK j \in Unread(l) : Admit(j, "lane")
                             /\ (Kick(Parked) \/ UNCHANGED <<pass, again>>)
  BY DEF ReadMessage
<1>2. j \in Jobs /\ at[j] = "unread" /\ LaneOf[j] = l
  BY <1>1 DEF Unread
<1>3. l \in reading /\ l \notin reading' /\ reading' \subseteq reading
  BY DEF ReadMessage
<1> QED
  BY <1>1, <1>2, <1>3, AdmitActs

LEMMA RecoverActs ==
  ASSUME Shape, Carried, RenewedIsHeld, NEW j \in Jobs, Recover(j)
  PROVE  Shape' /\ Acts(j)
<1>1. j \in LeftOver
  BY DEF Recover, Carried
<1> QED
  BY <1>1, AdmitActs DEF Recover

LEMMA ParkActs ==
  ASSUME Shape, Carried, NEW j \in Jobs, at[j] \in Running, Park(j),
         announced' \subseteq Jobs, UNCHANGED <<renewed, reading, occupant, fate>>
  PROVE  Shape' /\ Acts(j)
<1>1. /\ at' = [at EXCEPT ![j] = "parked"] /\ via' = [via EXCEPT ![j] = "none"]
      /\ hint' = [hint EXCEPT ![j] = NoWorker]
      /\ resuming' = resuming \ {j} /\ promoted' = promoted \ {j}
      /\ UNCHANGED <<cancelled, expired>>
  BY DEF Park, fate
<1>2. /\ at' \in [Jobs -> Places] /\ via' \in [Jobs -> {"none", "lane", "ticket"}]
      /\ hint' \in [Jobs -> Workers \cup {NoWorker}]
      /\ \A k \in Jobs \ {j} : at'[k] = at[k] /\ via'[k] = via[k] /\ hint'[k] = hint[k]
      /\ at'[j] = "parked" /\ via'[j] = "none" /\ hint'[j] = NoWorker
  BY <1>1 DEF Shape, Places
<1>3. Kicked(Parked \cup {j})
  BY KickKicks DEF Park
<1>4. at[j] # "parked"
  BY DEF Running
<1>5. /\ pass' = pass \/ \E S \in SUBSET Parked' : pass' = Started(S)
      /\ pass' \in PassType /\ again' \in BOOLEAN
  BY <1>2, <1>3, <1>4, ActKick
<1>6. Shape'
  BY <1>1, <1>2, <1>5 DEF Shape
<1>7. j \notin LeftOver => via[j] = "lane"
  BY DEF Carried, Shape
<1>8. Acts(j)
  BY <1>1, <1>2, <1>4, <1>5, <1>7 DEF Acts, Running
<1> QED
  BY <1>6, <1>8

\* A step of a handler that keeps its slot and lets others read what they read.
LEMMA GoesOn ==
  ASSUME Shape, Carried, NEW j \in Jobs, at[j] \in Running, NEW place \in Running,
         at' = [at EXCEPT ![j] = place], via' = via, hint' = hint,
         resuming' \subseteq resuming, renewed' \subseteq renewed, reading' = reading,
         Kick(Parked) \/ UNCHANGED <<pass, again>>
  PROVE  /\ Acts(j) /\ at' \in [Jobs -> Places]
         /\ pass' \in PassType /\ again' \in BOOLEAN
<1>1. /\ at' \in [Jobs -> Places]
      /\ \A k \in Jobs \ {j} : at'[k] = at[k]
      /\ at'[j] = place
  BY DEF Shape, Places
<1>2. at[j] # "parked" /\ place \notin {"parked", "pending"} /\ via[j] # "none"
  BY DEF Running, Carried
<1>3. /\ pass' = pass \/ \E S \in SUBSET Parked' : pass' = Started(S)
      /\ pass' \in PassType /\ again' \in BOOLEAN
  BY <1>1, <1>2, KickKicks, ActKick
<1>4. via[j] = "ticket" => j \in LeftOver
  BY DEF Carried
<1> QED
  BY <1>1, <1>2, <1>3, <1>4 DEF Acts

\* A step that ends it.
LEMMA EndActs ==
  ASSUME Shape, Carried, NEW j \in Jobs, at[j] \in Running, NEW to \in {"over", "lost", "adrift"},
         HandlerEnds(j, to), renewed' = IF to = "adrift" THEN renewed ELSE renewed \ {j}, hint' = hint, reading' = reading
  PROVE  /\ Acts(j) /\ at' \in [Jobs -> Places]
         /\ via' \in [Jobs -> {"none", "lane", "ticket"}] /\ resuming' \subseteq resuming
         /\ pass' \in PassType /\ again' \in BOOLEAN
<1>1. /\ at' = [at EXCEPT ![j] = to] /\ via' = [via EXCEPT ![j] = "none"]
      /\ resuming' = resuming \ {j}
  BY DEF HandlerEnds
<1>2. /\ at' \in [Jobs -> Places] /\ via' \in [Jobs -> {"none", "lane", "ticket"}]
      /\ \A k \in Jobs \ {j} : at'[k] = at[k] /\ via'[k] = via[k]
      /\ at'[j] = to /\ via'[j] = "none"
  BY <1>1 DEF Shape, Places
<1>3. Parked \cup {k \in {j} : to = "parked"} = Parked
  OBVIOUS
<1>4. Kicked(Parked)
  BY <1>3, KickKicks DEF HandlerEnds
<1>5. at[j] # "parked" /\ to \notin Running \cup {"parked", "pending"}
  BY DEF Running
<1>6. /\ pass' = pass \/ \E S \in SUBSET Parked' : pass' = Started(S)
      /\ pass' \in PassType /\ again' \in BOOLEAN
  BY <1>2, <1>4, <1>5, ActKick
<1>7. Acts(j)
  BY <1>1, <1>2, <1>5, <1>6 DEF Acts
<1> QED
  BY <1>1, <1>2, <1>6, <1>7

LEMMA HandlerActs ==
  ASSUME Shape, Carried, NEW j \in Jobs, Handler(j) \/ ResumeThrows(j)
  PROVE  Shape' /\ Acts(j)
<1>1. CASE Resume(j)
  <2>1. at[j] = "resumed" /\ at[j] \in Running
    BY <1>1 DEF Resume, Running
  <2>2. UNCHANGED <<hint, announced, promoted, occupant, cancelled, expired, reading>>
    BY <1>1 DEF Resume, fate
  <2>3. CASE j \in cancelled \cup taken
    <3> DEFINE to == IF j \in cancelled THEN "over" ELSE "lost"
    <3>1. HandlerEnds(j, to) /\ renewed' = renewed \ {j}
      BY <1>1, <2>3 DEF Resume
    <3>2. /\ Acts(j) /\ at' \in [Jobs -> Places]
          /\ via' \in [Jobs -> {"none", "lane", "ticket"}] /\ resuming' \subseteq resuming
          /\ pass' \in PassType /\ again' \in BOOLEAN
      BY <2>1, <2>2, <3>1, EndActs
    <3> QED
      BY <2>2, <3>1, <3>2 DEF Shape
  <2>4. CASE j \notin cancelled \cup taken
    <3>1. at' = [at EXCEPT ![j] = "admitted"] /\ UNCHANGED <<via, resuming, renewed, pass, again>>
      BY <1>1, <2>4 DEF Resume
    <3>2. Acts(j) /\ at' \in [Jobs -> Places] /\ pass' \in PassType /\ again' \in BOOLEAN
      BY <2>1, <2>2, <3>1, GoesOn DEF Running
    <3> QED
      BY <2>2, <3>1, <3>2 DEF Shape
  <2> QED
    BY <2>3, <2>4
<1>2. CASE Claim(j)
  <2>1. /\ at[j] \in Running /\ at' = [at EXCEPT ![j] = "claimed"]
        /\ UNCHANGED <<via, hint, resuming, announced, promoted, renewed, cancelled, expired,
                       reading, pass, again>>
    BY <1>2 DEF Claim, Running, wait, fate
  <2>2. occupant' \in [Workers -> Jobs \cup {NoWorker}]
    BY <1>2 DEF Claim, Claimable, Shape
  <2>3. Acts(j) /\ at' \in [Jobs -> Places] /\ pass' \in PassType /\ again' \in BOOLEAN
    BY <2>1, GoesOn DEF Running
  <2> QED
    BY <2>1, <2>2, <2>3 DEF Shape
<1>3. CASE Begin(j)
  <2>1. /\ at[j] \in Running /\ at' = [at EXCEPT ![j] = "working"]
        /\ resuming' = resuming \ {j} /\ announced' = announced \ {j}
        /\ UNCHANGED <<via, hint, promoted, renewed, occupant, cancelled, expired, reading>>
        /\ Kick(Parked) \/ UNCHANGED <<pass, again>>
    BY <1>3 DEF Begin, Running, fate
  <2>2. Acts(j) /\ at' \in [Jobs -> Places] /\ pass' \in PassType /\ again' \in BOOLEAN
    BY <2>1, GoesOn DEF Running
  <2> QED
    BY <2>1, <2>2 DEF Shape
<1>4. CASE Release(j)
  <2>1. /\ at[j] \in Running /\ at' = [at EXCEPT ![j] = "ending"]
        /\ UNCHANGED <<via, hint, resuming, announced, promoted, renewed, cancelled, expired,
                       reading>>
        /\ Kick(Parked)
    BY <1>4 DEF Release, Running, wait, fate
  <2>2. occupant' \in [Workers -> Jobs \cup {NoWorker}]
    BY <1>4 DEF Release, Shape
  <2>3. Acts(j) /\ at' \in [Jobs -> Places] /\ pass' \in PassType /\ again' \in BOOLEAN
    BY <2>1, GoesOn DEF Running
  <2> QED
    BY <2>1, <2>2, <2>3 DEF Shape
<1>5. CASE End(j)
  <2>1. /\ at[j] \in Running /\ HandlerEnds(j, "over") /\ renewed' = renewed \ {j}
        /\ UNCHANGED <<hint, announced, promoted, occupant, cancelled, expired, reading>>
    BY <1>5 DEF End, Running, fate
  <2>2. /\ Acts(j) /\ at' \in [Jobs -> Places]
        /\ via' \in [Jobs -> {"none", "lane", "ticket"}] /\ resuming' \subseteq resuming
        /\ pass' \in PassType /\ again' \in BOOLEAN
    BY <2>1, EndActs
  <2> QED
    BY <2>1, <2>2 DEF Shape
<1>6. CASE NoWorkerFound(j)
  <2>1. at[j] \in Running /\ UNCHANGED <<renewed, occupant, fate, cancelled, expired, reading>>
    BY <1>6 DEF NoWorkerFound, Running, fate
  <2>2. CASE j \in announced /\ j \notin cancelled \cup expired
    <3>1. Park(j) /\ UNCHANGED announced
      BY <1>6, <2>2 DEF NoWorkerFound
    <3> QED
      BY <2>1, <3>1, ParkActs DEF Shape
  <2>3. CASE ~(j \in announced /\ j \notin cancelled \cup expired)
    <3>1. PICK place \in {"ending", "parking"} :
            /\ at' = [at EXCEPT ![j] = place] /\ announced' \subseteq announced \cup {j}
            /\ UNCHANGED <<via, hint, resuming, promoted, pass, again>>
      BY <1>6, <2>3 DEF NoWorkerFound, wait
    <3>2. Acts(j) /\ at' \in [Jobs -> Places] /\ pass' \in PassType /\ again' \in BOOLEAN
      BY <2>1, <3>1, GoesOn DEF Running
    <3> QED
      BY <2>1, <3>1, <3>2 DEF Shape
  <2> QED
    BY <2>2, <2>3
<1>7. CASE EventWritten(j)
  BY <1>7, ParkActs DEF EventWritten, Running, Shape
<1>8. CASE ResumeThrows(j)
  <2>1. /\ at[j] \in Running /\ HandlerEnds(j, "adrift")
        /\ UNCHANGED <<hint, announced, promoted, renewed, occupant, cancelled, expired, reading>>
    BY <1>8 DEF ResumeThrows, Running, fate
  <2>2. /\ Acts(j) /\ at' \in [Jobs -> Places]
        /\ via' \in [Jobs -> {"none", "lane", "ticket"}] /\ resuming' \subseteq resuming
        /\ pass' \in PassType /\ again' \in BOOLEAN
    BY <2>1, EndActs
  <2> QED
    BY <2>1, <2>2 DEF Shape
<1> QED
  BY <1>1, <1>2, <1>3, <1>4, <1>5, <1>6, <1>7, <1>8 DEF Handler

-----------------------------------------------------------------------------
(* What moves no job *)

\* The evaluation is left alone, started over the jobs that wait, or goes through its heads.
Quiet ==
  /\ UNCHANGED <<at, via, hint, resuming, renewed>>
  /\ \/ pass' = pass
     \/ \E S \in SUBSET Parked : pass' = Started(S)
     \/ pass' = NoPass
     \/ Ask

LEMMA AskType ==
  ASSUME Shape, Ask
  PROVE  /\ pass' \in PassType /\ pass'.heads \subseteq pass.heads
         /\ pass'.assigned = pass.assigned /\ pass'.step \in {"heads", "offer"}
         /\ pass'.step = "offer" => /\ pass'.offer \in Workers \ pass.assigned
                                    /\ pass'.heads # {}
<1> DEFINE j == First(pass.heads, pass.prom)
           free == Claimable(PoolOf[j]) \ pass.assigned
<1>1. free \subseteq Workers \ pass.assigned
  BY DEF Claimable
<1>2. pass.step = "heads" /\ pass.heads # {} /\ pass \in PassType
  BY DEF Ask, Shape
<1> HIDE DEF free, j
<1>3. CASE free = {}
  <2>1. pass' = [pass EXCEPT !.heads = @ \ {j}]
    BY <1>3 DEF Ask, free, j
  <2> QED
    BY <1>2, <2>1 DEF PassType
<1>4. CASE free # {}
  <2>1. PICK w \in free : pass' = [pass EXCEPT !.step = "offer", !.offer = w]
    BY <1>4 DEF Ask, free, j
  <2> QED
    BY <1>1, <1>2, <2>1 DEF PassType
<1> QED
  BY <1>3, <1>4

LEMMA QuietShape ==
  ASSUME Shape,
         \/ \E l \in Lanes : SlotCheck(l) \/ ReadNothing(l)
         \/ \E j \in Jobs : Outside(j) \/ ThreeHoursPass(j)
         \/ Tick \/ Ask \/ PassEnds \/ UNCHANGED vars
  PROVE  Quiet /\ Shape'
<1>0. Parked \in SUBSET Jobs /\ Parked \in SUBSET Parked
  BY DEF Parked
<1>1. ASSUME NEW l \in Lanes, SlotCheck(l) \/ ReadNothing(l)
      PROVE  Quiet /\ Shape'
  BY <1>1 DEF SlotCheck, ReadNothing, Quiet, Shape, wait, fate
<1>2. ASSUME NEW j \in Jobs, Outside(j) \/ ThreeHoursPass(j)
      PROVE  Quiet /\ Shape'
  BY <1>2 DEF Outside, Cancel, PromotionDue, Taken, ThreeHoursPass, Quiet, Shape, wait, fate
<1>3. CASE Tick
  <2>1. Kicked(Parked)
    BY <1>3, KickKicks DEF Tick
  <2>2. pass' \in PassType /\ again' \in BOOLEAN
    BY <1>0, <2>1, KickedType
  <2> QED
    BY <1>0, <1>3, <2>1, <2>2 DEF Tick, Kicked, Quiet, Shape, wait, fate
<1>4. CASE Ask
  BY <1>4, AskType DEF Ask, Quiet, Shape, wait, fate
<1>5. CASE PassEnds
  <2>1. NoPass \in PassType /\ Started(Parked) \in PassType
    BY <1>0, StartedType DEF NoPass, PassType
  <2> QED
    BY <1>0, <1>5, <2>1 DEF PassEnds, Quiet, Shape, wait, fate
<1>6. CASE UNCHANGED vars
  BY <1>6 DEF vars, Quiet, Shape, wait, fate
<1> QED
  BY <1>1, <1>2, <1>3, <1>4, <1>5, <1>6

-----------------------------------------------------------------------------
(* One head per pool, each with a worker of its own *)

\* The heads of an evaluation are of different pools, and of pools nobody is resumed for.
HeadsApart ==
  /\ \A j, k \in pass.heads : PoolOf[j] = PoolOf[k] => j = k
  /\ \A j \in pass.heads : \A k \in resuming :
       hint[k] # NoWorker => PoolOf[j] # PoolOf[k]

\* An evaluation knows every promise that stands, and offers none of those workers.
KnowsPromises ==
  /\ pass.step \in {"heads", "offer"} =>
       \A k \in resuming : hint[k] # NoWorker => hint[k] \in pass.assigned
  /\ pass.step = "offer" => pass.offer \in Workers \ pass.assigned /\ pass.heads # {}

Served == StillWaiting /\ Carried /\ HeadsApart /\ KnowsPromises /\ OneHeadPerPool

LEMMA ServedByActs ==
  ASSUME Shape, Served, NEW j \in Jobs, Acts(j), Shape'
  PROVE  Served'
<1>1. /\ \A k \in Jobs \ {j} : at'[k] = at[k] /\ via'[k] = via[k] /\ hint'[k] = hint[k]
      /\ at[j] # "parked"
  BY DEF Acts
<1>2. Parked \subseteq Parked' /\ Parked' \in SUBSET Jobs
  BY <1>1 DEF Parked
<1>3. \A k \in resuming' : k \in resuming /\ hint'[k] = hint[k]
  BY <1>1 DEF Acts, Shape
<1>4. OneHeadPerPool'
  BY <1>3 DEF OneHeadPerPool, Served
<1>5. Carried'
  BY <1>1 DEF Acts, Carried, Served
<1>6. CASE pass' = pass
  BY <1>2, <1>3, <1>4, <1>5, <1>6 DEF Served, StillWaiting, HeadsApart, KnowsPromises
<1>7. ASSUME NEW S \in SUBSET Parked', pass' = Started(S)
      PROVE  Served'
  <2>1. /\ pass'.heads = {} /\ pass'.ids \subseteq S /\ pass'.step \in {"idle", "rows"}
    BY <1>2, <1>7, StartedType
  <2> QED
    BY <1>4, <1>5, <1>7, <2>1 DEF Served, StillWaiting, HeadsApart, KnowsPromises
<1> QED
  BY <1>6, <1>7 DEF Acts

LEMMA ServedByQuiet ==
  ASSUME Shape, Served, Quiet
  PROVE  Served'
<1>1. UNCHANGED <<at, via, hint, resuming, renewed>> /\ Parked' = Parked
  BY DEF Quiet, Parked
<1>2. OneHeadPerPool' /\ Carried'
  BY <1>1 DEF OneHeadPerPool, Carried, Served
<1>3. CASE pass' = pass
  BY <1>1, <1>2, <1>3 DEF Served, StillWaiting, HeadsApart, KnowsPromises
<1>4. ASSUME NEW S \in SUBSET Parked, pass' = Started(S)
      PROVE  Served'
  <2>1. S \in SUBSET Jobs
    BY DEF Parked
  <2>2. /\ pass'.heads = {} /\ pass'.ids \subseteq S /\ pass'.step \in {"idle", "rows"}
    BY <1>4, <2>1, StartedType
  <2> QED
    BY <1>1, <1>2, <1>4, <2>2 DEF Served, StillWaiting, HeadsApart, KnowsPromises
<1>5. CASE pass' = NoPass
  BY <1>2, <1>5 DEF NoPass, Served, StillWaiting, HeadsApart, KnowsPromises
<1>6. CASE Ask
  <2>1. /\ pass'.heads \subseteq pass.heads
        /\ pass'.assigned = pass.assigned /\ pass'.step \in {"heads", "offer"}
        /\ pass'.step = "offer" => /\ pass'.offer \in Workers \ pass.assigned
                                   /\ pass'.heads # {}
    BY <1>6, AskType
  <2>2. pass.step = "heads"
    BY <1>6 DEF Ask
  <2> QED
    BY <1>1, <1>2, <2>1, <2>2 DEF Served, StillWaiting, HeadsApart, KnowsPromises
<1> QED
  BY <1>3, <1>4, <1>5, <1>6 DEF Quiet

\* The jobs of S leave the map.
LEMMA DispatchedJobs ==
  ASSUME Shape, Carried, NEW S \in SUBSET Parked, Dispatched(S),
         hint' \in [Jobs -> Workers \cup {NoWorker}],
         \A j \in Jobs : at'[j] = "parked" => hint'[j] = NoWorker
  PROVE  /\ at' \in [Jobs -> Places] /\ via' \in [Jobs -> {"none", "lane", "ticket"}]
         /\ resuming' = resuming \cup S /\ resuming' \subseteq Jobs
         /\ Parked' = Parked \ S /\ Carried'
         /\ \A j \in Jobs : IF j \in S THEN at'[j] = "resumed" /\ via'[j] = "lane"
                                       ELSE at'[j] = at[j] /\ via'[j] = via[j]
<1>1. /\ at' = [j \in Jobs |-> IF j \in S THEN "resumed" ELSE at[j]]
      /\ via' = [j \in Jobs |-> IF j \in S THEN "lane" ELSE via[j]]
      /\ resuming' = resuming \cup S
  BY DEF Dispatched
<1>2. S \subseteq Jobs /\ resuming' \subseteq Jobs
  BY <1>1 DEF Parked, Shape
<1>3. at' \in [Jobs -> Places] /\ via' \in [Jobs -> {"none", "lane", "ticket"}]
  BY <1>1 DEF Shape, Places, Running
<1>4. \A j \in Jobs : IF j \in S THEN at'[j] = "resumed" /\ via'[j] = "lane"
                                 ELSE at'[j] = at[j] /\ via'[j] = via[j]
  BY <1>1
<1>5. Parked' = Parked \ S
  BY <1>4 DEF Parked
<1>6. Carried'
  BY <1>4 DEF Carried, Running
<1> QED
  BY <1>1, <1>2, <1>3, <1>4, <1>5, <1>6

\* The step by which an evaluation starts the jobs of S, with what else a proof needs of it.
Starts(S) ==
  /\ UNCHANGED <<renewed, reading>>
  /\ \A j \in Jobs : IF j \in S THEN at[j] = "parked" /\ via'[j] = "lane"
                                ELSE at'[j] = at[j] /\ via'[j] = via[j]

LEMMA RowsReadServes ==
  ASSUME Shape, Served, RowsRead
  PROVE  Shape' /\ Served' /\ \E S \in SUBSET Jobs : Starts(S)
<1>1. PICK S \in Startable((pass.ids \cap cancelled) \cup (Parked \cap pass.late)) :
        /\ Dispatched(S)
        /\ pass' = [pass EXCEPT !.step = "heads",
                      !.heads = Heads(Parked \ S, resuming \cup S, pass.prom),
                      !.assigned = {hint[j] : j \in resuming} \ {NoWorker}]
  BY DEF RowsRead
<1>2. /\ UNCHANGED <<hint, announced, promoted, renewed, occupant, cancelled, expired, reading,
                     again>>
      /\ pass.step = "rows"
  BY DEF RowsRead, fate
<1>3. S \in SUBSET Parked /\ Parked \subseteq Jobs /\ S \subseteq Jobs
  BY <1>1, <1>2 DEF Startable, Served, StillWaiting, Parked
<1>4. Carried /\ StillWaiting /\ OneHeadPerPool
  BY DEF Served
<1>5. \A j \in S : hint[j] = NoWorker
  BY <1>3, <1>4 DEF Carried, Parked
<1>6. \A j \in Jobs : at'[j] = "parked" => hint'[j] = NoWorker
  BY <1>1, <1>2, <1>4 DEF Dispatched, Carried
<1>7. /\ at' \in [Jobs -> Places] /\ via' \in [Jobs -> {"none", "lane", "ticket"}]
      /\ resuming' = resuming \cup S /\ resuming' \subseteq Jobs
      /\ Parked' = Parked \ S /\ Carried'
      /\ \A j \in Jobs : IF j \in S THEN at'[j] = "resumed" /\ via'[j] = "lane"
                                    ELSE at'[j] = at[j] /\ via'[j] = via[j]
  <2>1. hint' \in [Jobs -> Workers \cup {NoWorker}]
    BY <1>2 DEF Shape
  <2> QED
    BY <1>1, <1>3, <1>4, <1>6, <2>1, DispatchedJobs
<1>8. /\ pass'.step = "heads" /\ pass'.heads = Heads(Parked \ S, resuming \cup S, pass.prom)
      /\ pass'.assigned = {hint[j] : j \in resuming} \ {NoWorker}
      /\ pass' \in PassType
  <2>1. /\ Heads(Parked \ S, resuming \cup S, pass.prom) \in SUBSET Jobs
        /\ {hint[j] : j \in resuming} \ {NoWorker} \in SUBSET Workers
        /\ pass \in PassType
    BY <1>3 DEF Heads, Shape
  <2> QED
    BY <1>1, <2>1 DEF PassType
<1>9. /\ pass'.heads \subseteq Parked \ S
      /\ \A j \in pass'.heads : \A k \in resuming \cup S : PoolOf[k] # PoolOf[j]
      /\ \A j, k \in pass'.heads : PoolOf[j] = PoolOf[k] => j = k
  BY <1>8 DEF Heads
<1>10. Shape'
  BY <1>2, <1>7, <1>8 DEF Shape
<1>11. StillWaiting' /\ HeadsApart' /\ KnowsPromises'
  BY <1>2, <1>5, <1>7, <1>8, <1>9 DEF StillWaiting, HeadsApart, KnowsPromises
<1>12. OneHeadPerPool'
  BY <1>2, <1>4, <1>5, <1>7 DEF OneHeadPerPool
<1>13. Starts(S)
  BY <1>2, <1>3, <1>7 DEF Starts, Parked
<1> QED
  BY <1>3, <1>7, <1>10, <1>11, <1>12, <1>13 DEF Served

LEMMA OfferServes ==
  ASSUME Shape, Served, Offer
  PROVE  Shape' /\ Served' /\ \E S \in SUBSET Jobs : Starts(S)
<1> DEFINE j == First(pass.heads, pass.prom)
           starts == FreeSlots(LaneOf[j]) > 0
           S == {k \in {j} : starts}
<1>1. /\ pass.step = "offer" /\ Dispatched(S)
      /\ hint' = [hint EXCEPT ![j] = IF starts THEN pass.offer ELSE NoWorker]
      /\ pass' = [pass EXCEPT !.step = "heads", !.heads = @ \ {j}, !.offer = NoWorker,
                       !.assigned = @ \cup {w \in {pass.offer} : starts}]
      /\ UNCHANGED <<announced, promoted, renewed, occupant, cancelled, expired, reading, again>>
  BY DEF Offer, fate
<1>2. /\ Carried /\ StillWaiting /\ OneHeadPerPool /\ HeadsApart
      /\ \A k \in resuming : hint[k] # NoWorker => hint[k] \in pass.assigned
      /\ pass.offer \in Workers \ pass.assigned /\ pass.heads # {}
  BY <1>1 DEF Served, KnowsPromises
<1>3. pass.heads \in SUBSET Jobs /\ pass \in PassType
  BY DEF Shape, PassType
<1>4. j \in pass.heads /\ j \in Jobs /\ j \in Parked /\ hint[j] = NoWorker
  BY <1>2, <1>3, FirstIsIn DEF StillWaiting, Carried, Parked
<1> HIDE DEF j, starts
<1>5. S \in SUBSET Parked /\ (IF starts THEN S = {j} ELSE S = {})
  BY <1>4
<1>6. /\ hint' \in [Jobs -> Workers \cup {NoWorker}]
      /\ \A k \in Jobs \ {j} : hint'[k] = hint[k]
      /\ hint'[j] = (IF starts THEN pass.offer ELSE NoWorker)
  BY <1>1, <1>2, <1>4 DEF Shape
<1>7. \A k \in Jobs : at'[k] = "parked" => hint'[k] = NoWorker
  BY <1>1, <1>2, <1>5, <1>6 DEF Dispatched, Carried
<1> HIDE DEF S
<1>8. /\ at' \in [Jobs -> Places] /\ via' \in [Jobs -> {"none", "lane", "ticket"}]
      /\ resuming' = resuming \cup S /\ resuming' \subseteq Jobs
      /\ Parked' = Parked \ S /\ Carried'
      /\ \A k \in Jobs : IF k \in S THEN at'[k] = "resumed" /\ via'[k] = "lane"
                                    ELSE at'[k] = at[k] /\ via'[k] = via[k]
  BY <1>1, <1>2, <1>5, <1>6, <1>7, DispatchedJobs
<1>9. /\ pass'.step = "heads" /\ pass'.heads = pass.heads \ {j}
      /\ pass'.assigned = pass.assigned \cup {w \in {pass.offer} : starts}
      /\ pass' \in PassType
  <2>1. pass.assigned \cup {w \in {pass.offer} : starts} \in SUBSET Workers
    BY <1>2, <1>3 DEF PassType
  <2> QED
    BY <1>1, <1>3, <2>1 DEF PassType
<1>10. Shape'
  BY <1>1, <1>6, <1>8, <1>9 DEF Shape
\* Who is promised a worker after the step was before it, or is the head that starts.
<1>11. \A k \in resuming' : hint'[k] # NoWorker =>
          \/ k \in resuming /\ k # j /\ hint'[k] = hint[k]
          \/ k = j /\ starts /\ hint'[k] = pass.offer
  BY <1>4, <1>5, <1>6, <1>8
<1>12. StillWaiting'
  BY <1>2, <1>5, <1>8, <1>9 DEF StillWaiting
<1>13. HeadsApart'
  <2>1. \A h, k \in pass'.heads : PoolOf[h] = PoolOf[k] => h = k
    BY <1>2, <1>9 DEF HeadsApart
  <2>2. ASSUME NEW h \in pass'.heads, NEW k \in resuming', hint'[k] # NoWorker
        PROVE  PoolOf[h] # PoolOf[k]
    BY <1>2, <1>4, <1>9, <1>11, <2>2 DEF HeadsApart
  <2> QED
    BY <2>1, <2>2 DEF HeadsApart
<1>14. KnowsPromises'
  BY <1>2, <1>9, <1>11 DEF KnowsPromises
<1>15. OneHeadPerPool'
  <2> SUFFICES ASSUME NEW h \in resuming', NEW k \in resuming', h # k,
                      hint'[h] # NoWorker, hint'[k] # NoWorker
               PROVE  PoolOf[h] # PoolOf[k] /\ hint'[h] # hint'[k]
    BY DEF OneHeadPerPool
  <2> QED
    BY <1>2, <1>4, <1>11 DEF OneHeadPerPool, HeadsApart
<1>16. Starts(S)
  BY <1>1, <1>5, <1>8 DEF Starts, Parked
<1>17. S \in SUBSET Jobs
  BY <1>5 DEF Parked
<1> QED
  BY <1>8, <1>10, <1>12, <1>13, <1>14, <1>15, <1>16, <1>17 DEF Served

-----------------------------------------------------------------------------
(* The renewed leases, and the bound of a lane *)

\* The jobs a lane has read itself that wait or run, and the one it may be reading.
Own(l) == {j \in Jobs \ LeftOver : LaneOf[j] = l /\ (at[j] = "parked" \/ via[j] = "lane")}
Counted(l) == Cardinality(Own(l)) + (IF l \in reading THEN 1 ELSE 0)

ReadersWithinBound == \A l \in Lanes : Counted(l) <= MaxParked

LEMMA OwnIsFinite ==
  \A l \in Lanes : /\ IsFiniteSet(Own(l)) /\ Cardinality(Own(l)) \in Nat
                   /\ IsFiniteSet(Own(l)') /\ Cardinality(Own(l)') \in Nat
<1>1. \A l \in Lanes : Own(l) \in SUBSET Jobs /\ Own(l)' \in SUBSET Jobs
  BY DEF Own
<1> QED
  BY <1>1, FS_Subset, FS_CardinalityType, SchedulerAssumption

\* Whoever takes no job more into account, and lets no lane more read, keeps to the bound.
LEMMA BoundKept ==
  ASSUME ReadersWithinBound, NEW l \in Lanes,
         Own(l)' \subseteq Own(l), l \in reading' => l \in reading
  PROVE  Counted(l)' <= MaxParked
<1>1. Cardinality(Own(l)') <= Cardinality(Own(l))
  BY OwnIsFinite, FS_Subset
<1>2. Counted(l) <= MaxParked
  BY DEF ReadersWithinBound
<1> QED
  BY <1>1, <1>2, OwnIsFinite, SchedulerAssumption DEF Counted

LEMMA BoundByActs ==
  ASSUME Shape, ReadersWithinBound, NEW j \in Jobs, Acts(j)
  PROVE  ReadersWithinBound'
<1> SUFFICES ASSUME NEW l \in Lanes PROVE Counted(l)' <= MaxParked
  BY DEF ReadersWithinBound
<1>1. /\ \A k \in Jobs \ {j} : at'[k] = at[k] /\ via'[k] = via[k]
      /\ reading' \subseteq reading
  BY DEF Acts
<1>2. Own(l)' \subseteq Own(l) \cup {j}
  BY <1>1 DEF Own
<1>3. CASE Own(l)' \subseteq Own(l)
  BY <1>1, <1>3, BoundKept
<1>4. CASE ~(Own(l)' \subseteq Own(l))
  <2>1. j \in Own(l)' /\ j \notin Own(l)
    BY <1>2, <1>4
  <2>2. l \in reading /\ l \notin reading'
    BY <2>1 DEF Own, Acts
  <2>3. Cardinality(Own(l)') <= Cardinality(Own(l)) + 1
    <3>1. /\ IsFiniteSet(Own(l) \cup {j})
          /\ Cardinality(Own(l) \cup {j}) = Cardinality(Own(l)) + 1
      BY <2>1, OwnIsFinite, FS_AddElement
    <3> QED
      BY <1>2, <3>1, FS_Subset
  <2>4. Counted(l) <= MaxParked
    BY DEF ReadersWithinBound
  <2> QED
    BY <2>2, <2>3, <2>4, OwnIsFinite, SchedulerAssumption DEF Counted
<1> QED
  BY <1>3, <1>4

\* The lane counts every job that waits and its own that run before it reads.
LEMMA BoundBySlotCheck ==
  ASSUME Shape, ReadersWithinBound, NEW l \in Lanes, SlotCheck(l)
  PROVE  ReadersWithinBound'
<1>1. /\ UNCHANGED <<at, via>> /\ reading' = reading \cup {l}
      /\ Cardinality(Parked) + Cardinality(InFlight(l)) < MaxParked
  BY DEF SlotCheck
<1>2. \A k \in Lanes : Own(k)' = Own(k)
  BY <1>1 DEF Own
<1>3. \A k \in Lanes \ {l} : Counted(k)' <= MaxParked
  BY <1>1, <1>2, BoundKept
<1>4. Counted(l)' <= MaxParked
  <2>1. Parked \in SUBSET Jobs /\ InFlight(l) \in SUBSET Jobs
    BY DEF Parked, InFlight
  <2>2. IsFiniteSet(Parked) /\ IsFiniteSet(InFlight(l))
    BY <2>1, FS_Subset, SchedulerAssumption
  <2>3. IsFiniteSet(Parked \cap InFlight(l))
    BY <2>1, FS_Subset, SchedulerAssumption
  <2>4. /\ IsFiniteSet(Parked \cup InFlight(l))
        /\ Cardinality(Parked \cup InFlight(l))
             = Cardinality(Parked) + Cardinality(InFlight(l)) - Cardinality(Parked \cap InFlight(l))
    BY <2>2, FS_Union
  <2>5. Own(l) \subseteq Parked \cup InFlight(l)
    BY DEF Own, Parked, InFlight
  <2>6. Cardinality(Own(l)) <= Cardinality(Parked \cup InFlight(l))
    BY <2>4, <2>5, FS_Subset
  <2>7. /\ Cardinality(Parked) \in Nat /\ Cardinality(InFlight(l)) \in Nat
        /\ Cardinality(Parked \cap InFlight(l)) \in Nat
    BY <2>2, <2>3, FS_CardinalityType
  <2>8. Cardinality(Own(l)) + 1 <= MaxParked
    BY <1>1, <2>4, <2>6, <2>7, OwnIsFinite, SchedulerAssumption
  <2> QED
    BY <1>1, <1>2, <2>8 DEF Counted
<1> QED
  BY <1>3, <1>4 DEF ReadersWithinBound

LEMMA BoundByStarts ==
  ASSUME Shape, ReadersWithinBound, NEW S \in SUBSET Jobs, Starts(S)
  PROVE  ReadersWithinBound'
<1> SUFFICES ASSUME NEW l \in Lanes PROVE Counted(l)' <= MaxParked
  BY DEF ReadersWithinBound
<1>1. Own(l)' \subseteq Own(l) /\ reading' = reading
  BY DEF Starts, Own
<1> QED
  BY <1>1, BoundKept

-----------------------------------------------------------------------------
(* The invariant *)

LEMMA RenewedByActs ==
  ASSUME Shape, RenewedIsHeld, NEW j \in Jobs, Acts(j), Shape'
  PROVE  RenewedIsHeld'
BY DEF Acts, RenewedIsHeld, Shape

SchedulerInv == Shape /\ Served /\ RenewedIsHeld /\ ReadersWithinBound

LEMMA InitHolds == Init => SchedulerInv
<1> SUFFICES ASSUME Init PROVE SchedulerInv
  OBVIOUS
<1>1. Shape
  BY DEF Init, Shape, Places, Running, NoPass, PassType
<1>2. Served
  BY DEF Init, Served, StillWaiting, Carried, HeadsApart, KnowsPromises, OneHeadPerPool,
         NoPass, Parked, Running
<1>3. ASSUME NEW l \in Lanes PROVE Counted(l) <= MaxParked
  <2>1. Own(l) = {} /\ l \notin reading
    BY DEF Init, Own
  <2> QED
    BY <2>1, FS_EmptySet, SchedulerAssumption DEF Counted
<1> QED
  BY <1>1, <1>2, <1>3 DEF SchedulerInv, ReadersWithinBound, Init, RenewedIsHeld

LEMMA StepKeeps == SchedulerInv /\ [Next]_vars => SchedulerInv'
<1> SUFFICES ASSUME SchedulerInv, [Next]_vars PROVE SchedulerInv'
  OBVIOUS
<1>0. /\ Shape /\ Served /\ RenewedIsHeld /\ ReadersWithinBound /\ Carried
  BY DEF SchedulerInv, Served
\* A handler, a lane that has read a message, recovery.
<1>1. ASSUME NEW j \in Jobs, Acts(j), Shape' PROVE SchedulerInv'
  BY <1>0, <1>1, ServedByActs, RenewedByActs, BoundByActs DEF SchedulerInv
\* The scheduler starts jobs.
<1>2. ASSUME NEW S \in SUBSET Jobs, Starts(S), Shape', Served' PROVE SchedulerInv'
  <2>1. RenewedIsHeld'
    BY <1>0, <1>2 DEF Starts, RenewedIsHeld, Shape
  <2> QED
    BY <1>0, <1>2, <2>1, BoundByStarts DEF SchedulerInv
\* No job moves.
<1>3. ASSUME Quiet, Shape', ReadersWithinBound' PROVE SchedulerInv'
  <2>1. RenewedIsHeld'
    BY <1>0, <1>3 DEF Quiet, RenewedIsHeld
  <2> QED
    BY <1>0, <1>3, <2>1, ServedByQuiet DEF SchedulerInv
<1>4. ASSUME NEW l \in Lanes, SlotCheck(l) PROVE SchedulerInv'
  BY <1>0, <1>3, <1>4, QuietShape, BoundBySlotCheck
<1>5. ASSUME Quiet, Shape', reading' \subseteq reading PROVE SchedulerInv'
  <2>1. \A l \in Lanes : Own(l)' = Own(l)
    BY <1>5 DEF Quiet, Own
  <2>2. ReadersWithinBound'
    BY <1>0, <1>5, <2>1, BoundKept DEF ReadersWithinBound
  <2> QED
    BY <1>3, <1>5, <2>2
<1>6. ASSUME NEW l \in Lanes, ReadMessage(l) PROVE SchedulerInv'
  BY <1>0, <1>1, <1>6, LaneActs
<1>7. ASSUME NEW l \in Lanes, ReadNothing(l) PROVE SchedulerInv'
  BY <1>0, <1>5, <1>7, QuietShape DEF ReadNothing
<1>8. ASSUME NEW j \in Jobs, Recover(j) PROVE SchedulerInv'
  BY <1>0, <1>1, <1>8, RecoverActs
<1>9. ASSUME NEW j \in Jobs, Handler(j) \/ ResumeThrows(j) PROVE SchedulerInv'
  BY <1>0, <1>1, <1>9, HandlerActs
<1>10. ASSUME NEW j \in Jobs, Outside(j) \/ ThreeHoursPass(j) PROVE SchedulerInv'
  <2>1. reading' = reading
    BY <1>10 DEF Outside, Cancel, PromotionDue, Taken, ThreeHoursPass
  <2> QED
    BY <1>0, <1>5, <1>10, <2>1, QuietShape
<1>11. CASE Tick \/ Ask \/ PassEnds
  <2>1. reading' = reading
    BY <1>11 DEF Tick, Ask, PassEnds
  <2> QED
    BY <1>0, <1>5, <1>11, <2>1, QuietShape
<1>12. CASE RowsRead
  BY <1>0, <1>2, <1>12, RowsReadServes
<1>13. CASE Offer
  BY <1>0, <1>2, <1>13, OfferServes
<1>14. CASE UNCHANGED vars
  <2>1. reading' = reading
    BY <1>14 DEF vars
  <2> QED
    BY <1>0, <1>5, <1>14, <2>1, QuietShape
<1> QED
  BY <1>4, <1>6, <1>7, <1>8, <1>9, <1>10, <1>11, <1>12, <1>13, <1>14
  DEF Next, Lane, Scheduler, Done

LEMMA SchedulerInvariant == Spec => []SchedulerInv
BY InitHolds, StepKeeps, PTL DEF Spec

-----------------------------------------------------------------------------
(* The theorems *)

\* Types, and that the heads an evaluation still has to place are waiting.
THEOREM SchedulerTypeCorrect == Spec => []ParkedTypeOK
<1>1. SchedulerInv => ParkedTypeOK
  BY DEF SchedulerInv, Shape, Served, StillWaiting, ParkedTypeOK, PassType
<1> QED
  BY <1>1, SchedulerInvariant, PTL

\* The jobs resumed for a worker are of different pools and were promised different workers
\* (parked.ts:71, :222), for every number of jobs, workers and pools.
THEOREM HeadsHaveOwnWorkers == Spec => []OneHeadPerPool
<1>1. SchedulerInv => OneHeadPerPool
  BY DEF SchedulerInv, Served
<1> QED
  BY <1>1, SchedulerInvariant, PTL

\* A lane never has more than MAX_PARKED jobs of its own that wait and run (parked.ts:29,
\* loop.ts:85), for every value of the bound and every number of lanes.
THEOREM LanesWithinBound == Spec => []LaneWithinBound
<1>1. ASSUME SchedulerInv, NEW l \in Lanes PROVE Cardinality(Own(l)) <= MaxParked
  BY <1>1, OwnIsFinite, SchedulerAssumption DEF SchedulerInv, ReadersWithinBound, Counted
<1>2. SchedulerInv => LaneWithinBound
  BY <1>1 DEF LaneWithinBound, Own
<1> QED
  BY <1>2, SchedulerInvariant, PTL

\* No lease is renewed for a job that neither waits nor has a handler (ownership.ts:225), but for
\* that of a job whose resumed call threw before it owned anything.
THEOREM RenewedAreHeld == Spec => []RenewedIsHeld
<1>1. SchedulerInv => RenewedIsHeld
  BY DEF SchedulerInv
<1> QED
  BY <1>1, SchedulerInvariant, PTL

-----------------------------------------------------------------------------
(* No wake-up is lost *)

\* Its lane has no slot, the left-over entries counted in.
Full(l) == Cardinality(InFlight(l) \cup {k \in LeftOver : LaneOf[k] = l}) >= Cap[l]

\* An evaluation could do nothing for this job.
Stuck(j) == Claimable(PoolOf[j]) \subseteq {hint[i] : i \in resuming} \/ Full(LaneOf[j])

\* Nobody of its pool is about to claim.
Waits(j) == \A k \in resuming : PoolOf[k] # PoolOf[j]

\* The evaluation that runs still has a head of its pool to place.
Considered(j) == \E k \in pass.heads : PoolOf[k] = PoolOf[j]

\* What the evaluation has left out, or is past, it could do nothing for; or another follows.
AllSeen ==
  pass.step # "rows" /\ ~again =>
    /\ pass.step # "idle" => pass.assigned \subseteq {hint[i] : i \in resuming}
    /\ \A j \in Parked : Waits(j) => Stuck(j) \/ Considered(j)

WakeInv ==
  /\ pass.step = "idle" => ~again /\ pass.heads = {}
  /\ \A j \in resuming : via[j] = "lane"
  /\ AllSeen

LEMMA FullIsLasting ==
  ASSUME Shape, NEW l \in Lanes, Full(l), InFlight(l) \subseteq InFlight(l)'
  PROVE  Full(l)'
<1> DEFINE left == {k \in LeftOver : LaneOf[k] = l}
           now == InFlight(l) \cup left
           then == InFlight(l)' \cup left
<1>1. now \subseteq then /\ then \in SUBSET Jobs
  BY SchedulerAssumption DEF InFlight
<1>2. IsFiniteSet(then) /\ IsFiniteSet(now)
  BY <1>1, FS_Subset, SchedulerAssumption
<1>3. Cardinality(now) <= Cardinality(then)
  BY <1>1, <1>2, FS_Subset
<1>4. Cardinality(now) \in Nat /\ Cardinality(then) \in Nat /\ Cap[l] \in Nat
  BY <1>2, FS_CardinalityType, SchedulerAssumption
<1>5. Cardinality(now) >= Cap[l]
  BY DEF Full
<1> HIDE DEF now, then
<1>6. Cardinality(then) >= Cap[l]
  BY <1>3, <1>4, <1>5
<1> QED
  BY <1>6 DEF Full, then

\* A lane without a free slot is full.
LEMMA NoSlotIsFull ==
  ASSUME Shape, Carried, NEW l \in Lanes, ~(FreeSlots(l) > 0)
  PROVE  Full(l)
<1> DEFINE used == InFlight(l) \cup Occupancy(l)
           all == InFlight(l) \cup {k \in LeftOver : LaneOf[k] = l}
           n == Cardinality(used)
           c == Cap[l]
<1>1. used \subseteq all /\ all \in SUBSET Jobs
  BY SchedulerAssumption DEF InFlight, Occupancy, Carried
<1>2. IsFiniteSet(all) /\ IsFiniteSet(used)
  BY <1>1, FS_Subset, SchedulerAssumption
<1>3. n \in Nat /\ Cardinality(all) \in Nat /\ n <= Cardinality(all) /\ c \in Nat
  BY <1>1, <1>2, FS_Subset, FS_CardinalityType, SchedulerAssumption
<1>4. ~(c - Min({c, n}) > 0)
  BY DEF FreeSlots
<1> HIDE DEF used, all, n, c
<1>5. Min({c, n}) \in {c, n} /\ Min({c, n}) <= c /\ Min({c, n}) <= n
  <2>1. \E x \in {c, n} : \A y \in {c, n} : x <= y
    BY <1>3
  <2> QED
    BY <2>1 DEF Min
<1>6. Cardinality(all) >= c
  BY <1>3, <1>4, <1>5
<1> QED
  BY <1>6 DEF Full, all, c

LEMMA LanesOfJobs == \A j \in Jobs : LaneOf[j] \in Lanes
  BY SchedulerAssumption

\* After a kick another evaluation follows, or there is nobody it could be for.
LEMMA KickedWakes ==
  ASSUME Shape, WakeInv, Kick(Parked'), \A j \in resuming' : via'[j] = "lane"
  PROVE  WakeInv'
<1>1. CASE pass.step # "idle"
  <2>1. again' = TRUE /\ pass' = pass
    BY <1>1 DEF Kick
  <2> QED
    BY <1>1, <2>1 DEF WakeInv, AllSeen
<1>2. CASE pass.step = "idle"
  <2>1. again' = again /\ ~again /\ pass' = Started(Parked')
    BY <1>2 DEF Kick, WakeInv
  <2>2. CASE Parked' = {}
    BY <2>1, <2>2 DEF Started, NoPass, WakeInv, AllSeen
  <2>3. CASE Parked' # {}
    <3>1. pass'.step = "rows"
      BY <2>1, <2>3 DEF Started, NoPass
    <3> QED
      BY <2>1, <3>1 DEF WakeInv, AllSeen
  <2> QED
    BY <2>2, <2>3
<1> QED
  BY <1>1, <1>2

\* A step that kicks nobody, since it gives no head, no worker and no slot back.
Calm ==
  /\ UNCHANGED <<pass, again, hint, resuming>>
  /\ Parked' \subseteq Parked
  /\ \A j \in Jobs : Claimable(PoolOf[j])' \subseteq Claimable(PoolOf[j])
  /\ \A j \in Jobs : via[j] = "lane" => via'[j] = "lane"

LEMMA StuckIsLasting ==
  ASSUME Shape, NEW j \in Jobs, Stuck(j),
         Claimable(PoolOf[j])' \subseteq Claimable(PoolOf[j]),
         \A k \in Jobs : via[k] = "lane" => via'[k] = "lane",
         {hint[i] : i \in resuming} \subseteq {hint'[i] : i \in resuming'}
  PROVE  Stuck(j)'
<1>1. InFlight(LaneOf[j]) \subseteq InFlight(LaneOf[j])'
  BY DEF InFlight
<1>2. Full(LaneOf[j]) => Full(LaneOf[j])'
  BY <1>1, LanesOfJobs, FullIsLasting
<1> QED
  BY <1>2 DEF Stuck

LEMMA CalmWakes ==
  ASSUME Shape, WakeInv, Calm
  PROVE  WakeInv'
<1>1. \A j \in resuming' : via'[j] = "lane"
  BY DEF Calm, WakeInv, Shape
<1>2. ASSUME NEW j \in Jobs, Stuck(j) PROVE Stuck(j)'
  BY <1>2, StuckIsLasting DEF Calm
<1>3. AllSeen'
  <2>1. Parked' \subseteq Parked /\ Parked \subseteq Jobs
    BY DEF Calm, Parked
  <2> QED
    BY <1>2, <2>1 DEF Calm, WakeInv, AllSeen, Waits, Considered
<1> QED
  BY <1>1, <1>3 DEF Calm, WakeInv

\* A handler that ends gives its slot back and kicks; one that held a ticket was not resumed.
LEMMA EndWakes ==
  ASSUME Shape, Carried, WakeInv, NEW j \in Jobs, at[j] \in Running,
         NEW to \in {"over", "lost", "adrift"}, HandlerEnds(j, to), UNCHANGED <<hint, occupant>>
  PROVE  WakeInv'
<1>1. /\ at' = [at EXCEPT ![j] = to] /\ via' = [via EXCEPT ![j] = "none"]
      /\ resuming' = resuming \ {j}
      /\ IF via[j] = "lane" THEN Kick(Parked \cup {k \in {j} : to = "parked"})
                            ELSE UNCHANGED <<pass, again>>
  BY DEF HandlerEnds
<1>2. /\ \A k \in Jobs \ {j} : at'[k] = at[k] /\ via'[k] = via[k]
      /\ at'[j] = to /\ at[j] # "parked"
  BY <1>1 DEF Shape, Running
<1>3. Parked' = Parked
  BY <1>2 DEF Parked
<1>4. \A k \in resuming' : via'[k] = "lane"
  BY <1>1, <1>2 DEF WakeInv, Shape
<1>5. CASE via[j] = "lane"
  <2>1. Kick(Parked')
    <3>1. Parked \cup {k \in {j} : to = "parked"} = Parked
      OBVIOUS
    <3> QED
      BY <1>1, <1>3, <1>5, <3>1
  <2> QED
    BY <1>4, <2>1, KickedWakes
<1>6. CASE via[j] # "lane"
  <2>1. j \notin resuming /\ resuming' = resuming
    BY <1>1, <1>6 DEF WakeInv
  <2>2. Calm
    BY <1>1, <1>2, <1>3, <1>6, <2>1 DEF Calm, Claimable
  <2> QED
    BY <2>2, CalmWakes
<1> QED
  BY <1>5, <1>6

LEMMA ParkWakes ==
  ASSUME Shape, WakeInv, NEW j \in Jobs, Park(j)
  PROVE  WakeInv'
<1>1. /\ at' = [at EXCEPT ![j] = "parked"] /\ via' = [via EXCEPT ![j] = "none"]
      /\ resuming' = resuming \ {j} /\ Kick(Parked \cup {j})
  BY DEF Park
<1>2. Parked' = Parked \cup {j}
  BY <1>1 DEF Parked, Shape
<1>3. \A k \in resuming' : via'[k] = "lane"
  BY <1>1 DEF WakeInv, Shape
<1> QED
  BY <1>1, <1>2, <1>3, KickedWakes

\* A step of one job that neither starts nor ends to wait, and keeps its slot or takes one.
LEMMA MovesWake ==
  ASSUME Shape, WakeInv, NEW j \in Jobs, at[j] # "parked", NEW place \in Places \ {"parked"},
         at' = [at EXCEPT ![j] = place],
         via[j] = "lane" => via'[j] = "lane", \A k \in Jobs \ {j} : via'[k] = via[k],
         hint' = hint, resuming' \subseteq resuming,
         \/ Kick(Parked)
         \/ /\ UNCHANGED <<pass, again, resuming>>
            /\ \A w \in Workers : occupant'[w] = NoWorker => occupant[w] = NoWorker
  PROVE  WakeInv'
<1>1. Parked' = Parked
  BY DEF Parked, Shape
<1>2. \A k \in resuming' : via'[k] = "lane"
  BY DEF WakeInv, Shape
<1>3. CASE Kick(Parked)
  BY <1>1, <1>2, <1>3, KickedWakes
<1>4. CASE /\ UNCHANGED <<pass, again, resuming>>
           /\ \A w \in Workers : occupant'[w] = NoWorker => occupant[w] = NoWorker
  <2>1. Calm
    BY <1>1, <1>4 DEF Calm, Claimable
  <2> QED
    BY <2>1, CalmWakes
<1> QED
  BY <1>3, <1>4

LEMMA AdmitWakes ==
  ASSUME Shape, Carried, WakeInv, NEW j \in Jobs, at[j] \in {"unread", "pending"},
         NEW how \in {"lane", "ticket"}, Admit(j, how),
         Kick(Parked) \/ UNCHANGED <<pass, again>>
  PROVE  WakeInv'
<1>1. via[j] = "none"
  BY DEF Carried, Running, Shape
<1>2. UNCHANGED <<hint, resuming, occupant>>
  BY DEF Admit, wait
<1>3. \A k \in Jobs \ {j} : via'[k] = via[k]
  BY DEF Admit, Shape
<1>4. at' = [at EXCEPT ![j] = IF j \in cancelled THEN "over" ELSE "admitted"]
  BY DEF Admit
<1> QED
  BY <1>1, <1>2, <1>3, <1>4, MovesWake DEF Places, Running

LEMMA HandlerWakes ==
  ASSUME Shape, Carried, WakeInv, NEW j \in Jobs, Handler(j) \/ ResumeThrows(j)
  PROVE  WakeInv'
<1>1. CASE Resume(j)
  <2>1. at[j] = "resumed" /\ UNCHANGED <<hint, occupant>>
    BY <1>1 DEF Resume
  <2>2. CASE j \in cancelled \cup taken
    <3> DEFINE to == IF j \in cancelled THEN "over" ELSE "lost"
    <3>1. HandlerEnds(j, to) /\ at[j] \in Running
      BY <1>1, <2>1, <2>2 DEF Resume, Running
    <3> QED
      BY <2>1, <3>1, EndWakes
  <2>3. CASE j \notin cancelled \cup taken
    <3>1. at' = [at EXCEPT ![j] = "admitted"] /\ UNCHANGED <<via, resuming, pass, again>>
      BY <1>1, <2>3 DEF Resume
    <3> QED
      BY <2>1, <3>1, MovesWake DEF Places, Running
  <2> QED
    BY <2>2, <2>3
<1>2. CASE Claim(j)
  <2>1. /\ at[j] = "admitted" /\ at' = [at EXCEPT ![j] = "claimed"]
        /\ UNCHANGED <<via, hint, resuming, pass, again>>
    BY <1>2 DEF Claim, wait
  <2>2. \A w \in Workers : occupant'[w] = NoWorker => occupant[w] = NoWorker
    <3>1. PICK w \in Claimable(PoolOf[j]) : occupant' = [occupant EXCEPT ![w] = j]
      BY <1>2 DEF Claim
    <3> QED
      BY <3>1 DEF Claimable, Shape
  <2> QED
    BY <2>1, <2>2, MovesWake DEF Places, Running
<1>3. CASE Begin(j)
  <2>1. /\ at[j] = "claimed" /\ at' = [at EXCEPT ![j] = "working"]
        /\ resuming' = resuming \ {j} /\ UNCHANGED <<via, hint, occupant>>
        /\ IF j \in resuming THEN Kick(Parked) ELSE UNCHANGED <<pass, again>>
    BY <1>3 DEF Begin
  <2>2. \/ Kick(Parked)
        \/ /\ UNCHANGED <<pass, again, resuming>>
           /\ \A w \in Workers : occupant'[w] = NoWorker => occupant[w] = NoWorker
    BY <2>1
  <2> QED
    BY <2>1, <2>2, MovesWake DEF Places, Running
<1>4. CASE Release(j)
  <2>1. /\ at[j] # "parked" /\ at' = [at EXCEPT ![j] = "ending"]
        /\ UNCHANGED <<via, hint, resuming>> /\ Kick(Parked)
    BY <1>4 DEF Release, wait
  <2> QED
    BY <2>1, MovesWake DEF Places, Running
<1>5. CASE End(j)
  <2>1. at[j] \in Running /\ HandlerEnds(j, "over") /\ UNCHANGED <<hint, occupant>>
    BY <1>5 DEF End, Running
  <2> QED
    BY <2>1, EndWakes
<1>6. CASE NoWorkerFound(j)
  <2>1. at[j] = "admitted" /\ UNCHANGED occupant
    BY <1>6 DEF NoWorkerFound
  <2>2. CASE j \in announced /\ j \notin cancelled \cup expired
    <3>1. Park(j)
      BY <1>6, <2>2 DEF NoWorkerFound
    <3> QED
      BY <3>1, ParkWakes
  <2>3. CASE ~(j \in announced /\ j \notin cancelled \cup expired)
    <3>1. PICK place \in {"ending", "parking"} :
            /\ at' = [at EXCEPT ![j] = place]
            /\ UNCHANGED <<via, hint, resuming, pass, again>>
      BY <1>6, <2>3 DEF NoWorkerFound, wait
    <3> QED
      BY <2>1, <3>1, MovesWake DEF Places, Running
  <2> QED
    BY <2>2, <2>3
<1>7. CASE EventWritten(j)
  BY <1>7, ParkWakes DEF EventWritten
<1>8. CASE ResumeThrows(j)
  <2>1. at[j] \in Running /\ HandlerEnds(j, "adrift") /\ UNCHANGED <<hint, occupant>>
    BY <1>8 DEF ResumeThrows, Running
  <2> QED
    BY <2>1, EndWakes
<1> QED
  BY <1>1, <1>2, <1>3, <1>4, <1>5, <1>6, <1>7, <1>8 DEF Handler

\* The heads are chosen: a pool that waits has its first waiter among them.
LEMMA RowsReadWakes ==
  ASSUME Shape, Served, WakeInv, RowsRead, Shape'
  PROVE  WakeInv'
<1>1. PICK S \in Startable((pass.ids \cap cancelled) \cup (Parked \cap pass.late)) :
        /\ Dispatched(S)
        /\ pass' = [pass EXCEPT !.step = "heads",
                      !.heads = Heads(Parked \ S, resuming \cup S, pass.prom),
                      !.assigned = {hint[j] : j \in resuming} \ {NoWorker}]
  BY DEF RowsRead
<1>2. pass.step = "rows" /\ hint' = hint
  BY DEF RowsRead
<1>3. S \in SUBSET Parked /\ Parked \subseteq Jobs
  BY <1>1, <1>2 DEF Startable, Served, StillWaiting, Parked
<1>4. /\ at' = [j \in Jobs |-> IF j \in S THEN "resumed" ELSE at[j]]
      /\ via' = [j \in Jobs |-> IF j \in S THEN "lane" ELSE via[j]]
      /\ resuming' = resuming \cup S
  BY <1>1 DEF Dispatched
<1>5. Parked' = Parked \ S
  BY <1>3, <1>4 DEF Parked
<1>6. /\ pass'.step = "heads"
      /\ pass'.heads = Heads(Parked \ S, resuming \cup S, pass.prom)
      /\ pass'.assigned = {hint[j] : j \in resuming} \ {NoWorker}
  BY <1>1 DEF Shape, PassType
<1>7. \A j \in resuming' : via'[j] = "lane"
  BY <1>3, <1>4 DEF WakeInv, Shape
<1>8. pass'.assigned \subseteq {hint'[i] : i \in resuming'}
  BY <1>2, <1>4, <1>6
<1>9. ASSUME NEW j \in Parked', Waits(j)' PROVE Considered(j)'
  <2> DEFINE T == {k \in Parked \ S : PoolOf[k] = PoolOf[j]}
  <2>1. T \in SUBSET Jobs /\ T # {}
    BY <1>3, <1>5
  <2>2. First(T, pass.prom) \in T
    BY <2>1, FirstIsIn
  <2>3. PICK h \in T : h = First(T, pass.prom)
    BY <2>2
  <2>4. h \in Parked \ S /\ PoolOf[h] = PoolOf[j]
    OBVIOUS
  <2>5. {k \in Parked \ S : PoolOf[k] = PoolOf[h]} = T
    BY <2>4
  <2>6. h = First({k \in Parked \ S : PoolOf[k] = PoolOf[h]}, pass.prom)
    BY <2>3, <2>5
  <2>7. \A k \in resuming \cup S : PoolOf[k] # PoolOf[h]
    BY <1>4, <1>9, <2>4 DEF Waits
  <2>8. h \in pass'.heads
    BY <1>6, <2>4, <2>6, <2>7 DEF Heads
  <2> QED
    BY <2>4, <2>8 DEF Considered
<1> QED
  BY <1>6, <1>7, <1>8, <1>9 DEF WakeInv, AllSeen

\* A head for which there is no worker left: those that can be claimed are promised.
LEMMA AskWakes ==
  ASSUME Shape, Served, WakeInv, Ask
  PROVE  WakeInv'
<1> DEFINE j == First(pass.heads, pass.prom)
           free == Claimable(PoolOf[j]) \ pass.assigned
<1>1. /\ pass.step = "heads" /\ pass.heads # {} /\ pass \in PassType
      /\ UNCHANGED <<at, via, hint, resuming, occupant, again>>
  BY DEF Ask, wait, Shape
<1>2. j \in pass.heads
  BY <1>1, FirstIsIn DEF PassType
<1>3. /\ Parked' = Parked
      /\ \A k \in Jobs : Claimable(PoolOf[k])' = Claimable(PoolOf[k])
      /\ \A k \in Parked : Waits(k)' = Waits(k)
  BY <1>1 DEF Parked, Claimable, Waits
<1>4. ASSUME NEW k \in Jobs, Stuck(k) PROVE Stuck(k)'
  <2>1. Claimable(PoolOf[k])' \subseteq Claimable(PoolOf[k])
    BY <1>3
  <2> QED
    BY <1>1, <1>4, <2>1, StuckIsLasting
<1>5. Parked \subseteq Jobs
  BY DEF Parked
<1>6. CASE free = {}
  <2>1. pass' = [pass EXCEPT !.heads = @ \ {j}]
    BY <1>6 DEF Ask
  <2>2. pass'.step = "heads" /\ pass'.heads = pass.heads \ {j} /\ pass'.assigned = pass.assigned
    BY <1>1, <2>1 DEF PassType
  <2>3. ASSUME ~again, NEW k \in Parked, PoolOf[k] = PoolOf[j]
        PROVE  Stuck(k)
    <3>1. Claimable(PoolOf[k]) \subseteq pass.assigned
      BY <1>6, <2>3
    <3>2. pass.assigned \subseteq {hint[i] : i \in resuming}
      BY <1>1, <2>3 DEF WakeInv, AllSeen
    <3> QED
      BY <3>1, <3>2 DEF Stuck
  <2> HIDE DEF j, free
  <2>4. ASSUME ~again, NEW k \in Parked, Waits(k)
        PROVE  Stuck(k)' \/ Considered(k)'
    <3>1. Stuck(k) \/ Considered(k)
      BY <1>1, <2>4 DEF WakeInv, AllSeen
    <3>2. CASE Stuck(k)
      BY <1>4, <1>5, <3>2
    <3>3. CASE ~Stuck(k)
      <4>1. PICK h \in pass.heads : PoolOf[h] = PoolOf[k]
        BY <3>1, <3>3 DEF Considered
      <4>2. h # j
        BY <2>3, <2>4, <3>3, <4>1
      <4> QED
        BY <2>2, <4>1, <4>2 DEF Considered
    <3> QED
      BY <3>2, <3>3
  <2> QED
    BY <1>1, <1>3, <2>2, <2>4 DEF WakeInv, AllSeen
<1>7. CASE free # {}
  <2>1. PICK w \in free : pass' = [pass EXCEPT !.step = "offer", !.offer = w]
    BY <1>7 DEF Ask
  <2>2. pass'.step = "offer" /\ pass'.heads = pass.heads /\ pass'.assigned = pass.assigned
    BY <1>1, <2>1 DEF PassType
  <2> HIDE DEF j, free
  <2>3. ASSUME ~again, NEW k \in Parked, Waits(k)
        PROVE  Stuck(k)' \/ Considered(k)'
    BY <1>1, <1>4, <1>5, <2>2, <2>3 DEF WakeInv, AllSeen, Considered
  <2> QED
    BY <1>1, <1>3, <2>2, <2>3 DEF WakeInv, AllSeen
<1> QED
  BY <1>6, <1>7

\* A head that starts takes its pool along; one that does not has a full lane, and so has its pool.
LEMMA OfferWakes ==
  ASSUME Shape, Served, WakeInv, Offer, Shape'
  PROVE  WakeInv'
<1> DEFINE j == First(pass.heads, pass.prom)
           starts == FreeSlots(LaneOf[j]) > 0
           S == {k \in {j} : starts}
<1>1. /\ pass.step = "offer" /\ Dispatched(S)
      /\ hint' = [hint EXCEPT ![j] = IF starts THEN pass.offer ELSE NoWorker]
      /\ pass' = [pass EXCEPT !.step = "heads", !.heads = @ \ {j}, !.offer = NoWorker,
                       !.assigned = @ \cup {w \in {pass.offer} : starts}]
      /\ UNCHANGED <<occupant, again>>
  BY DEF Offer
<1>2. Carried /\ StillWaiting /\ pass.heads # {} /\ pass \in PassType
  BY <1>1 DEF Served, KnowsPromises, Shape
<1>3. j \in pass.heads /\ j \in Jobs /\ at[j] = "parked" /\ hint[j] = NoWorker
  BY <1>2, FirstIsIn DEF StillWaiting, Carried, Parked, PassType
<1>4. ~starts => Full(LaneOf[j])
  BY <1>2, <1>3, LanesOfJobs, NoSlotIsFull
<1> HIDE DEF j, starts
<1>5. /\ at' = [k \in Jobs |-> IF k \in S THEN "resumed" ELSE at[k]]
      /\ via' = [k \in Jobs |-> IF k \in S THEN "lane" ELSE via[k]]
      /\ resuming' = resuming \cup S
  BY <1>1 DEF Dispatched
<1>6. j \notin resuming
  BY <1>2, <1>3 DEF WakeInv, Carried, Running
<1>7. \A k \in resuming' : via'[k] = "lane"
  BY <1>5 DEF WakeInv, Shape
<1>8. {hint[i] : i \in resuming} \subseteq {hint'[i] : i \in resuming'}
  BY <1>1, <1>5, <1>6 DEF Shape
<1>9. /\ pass'.step = "heads" /\ pass'.heads = pass.heads \ {j}
      /\ pass'.assigned = pass.assigned \cup {w \in {pass.offer} : starts}
  BY <1>1, <1>2 DEF PassType
<1>10. starts => pass.offer \in {hint'[i] : i \in resuming'}
  <2> SUFFICES ASSUME starts PROVE pass.offer \in {hint'[i] : i \in resuming'}
    OBVIOUS
  <2>1. hint'[j] = pass.offer /\ j \in resuming'
    BY <1>1, <1>3, <1>5 DEF Shape
  <2> QED
    BY <2>1
<1>11. /\ Parked' \subseteq Parked /\ Parked \subseteq Jobs
       /\ \A k \in Jobs : Claimable(PoolOf[k])' \subseteq Claimable(PoolOf[k])
       /\ \A k \in Jobs : via[k] = "lane" => via'[k] = "lane"
  BY <1>1, <1>5 DEF Parked, Claimable
<1>12. ASSUME NEW k \in Jobs, Stuck(k) PROVE Stuck(k)'
  BY <1>8, <1>11, <1>12, StuckIsLasting
<1>13. ASSUME ~again, NEW k \in Parked', Waits(k)'
       PROVE  Stuck(k)' \/ Considered(k)'
  <2>1. Waits(k) /\ k \in Parked /\ k \in Jobs
    BY <1>5, <1>11, <1>13 DEF Waits
  <2>2. Stuck(k) \/ Considered(k)
    BY <1>1, <1>13, <2>1 DEF WakeInv, AllSeen
  <2>3. CASE Stuck(k)
    BY <1>12, <2>1, <2>3
  <2>4. ASSUME NEW h \in pass.heads, PoolOf[h] = PoolOf[k]
        PROVE  Stuck(k)' \/ Considered(k)'
    <3>1. CASE h # j
      BY <1>9, <2>4, <3>1 DEF Considered
    <3>2. CASE h = j
      <4>1. ~starts
        BY <1>5, <1>13, <2>4, <3>2 DEF Waits
      <4>2. LaneOf[j] = LaneOf[k]
        BY <1>3, <2>1, <2>4, <3>2, PoolAssumption
      <4>3. Stuck(k)
        BY <1>4, <4>1, <4>2 DEF Stuck
      <4> QED
        BY <1>12, <2>1, <4>3
    <3> QED
      BY <3>1, <3>2
  <2> QED
    BY <2>2, <2>3, <2>4 DEF Considered
<1>14. ~again => pass'.assigned \subseteq {hint'[i] : i \in resuming'}
  BY <1>1, <1>8, <1>9, <1>10 DEF WakeInv, AllSeen
<1> QED
  BY <1>1, <1>7, <1>9, <1>13, <1>14 DEF WakeInv, AllSeen

LEMMA PassEndsWakes ==
  ASSUME Shape, WakeInv, PassEnds
  PROVE  WakeInv'
<1>1. /\ pass.step = "heads" /\ pass.heads = {} /\ again' = FALSE
      /\ pass' = IF again THEN Started(Parked) ELSE NoPass
      /\ UNCHANGED <<at, via, hint, resuming, occupant>>
  BY DEF PassEnds, wait
<1>2. Parked' = Parked /\ Parked \subseteq Jobs
  BY <1>1 DEF Parked
<1>3. CASE again /\ Parked # {}
  <2>1. pass'.step = "rows"
    BY <1>1, <1>3 DEF Started, NoPass
  <2> QED
    BY <1>1, <2>1 DEF WakeInv, AllSeen
<1>4. CASE ~again \/ Parked = {}
  <2>1. pass' = NoPass
    BY <1>1, <1>4 DEF Started
  <2>2. pass'.step = "idle" /\ pass'.heads = {}
    BY <2>1 DEF NoPass
  <2>3. ASSUME NEW k \in Parked', Waits(k)' PROVE Stuck(k)'
    <3>1. ~again /\ Waits(k)
      BY <1>1, <1>2, <1>4, <2>3 DEF Waits
    <3>2. Stuck(k)
      BY <1>1, <1>2, <2>3, <3>1 DEF WakeInv, AllSeen, Considered
    <3>3. Claimable(PoolOf[k])' \subseteq Claimable(PoolOf[k]) /\ k \in Jobs
      BY <1>1, <1>2, <2>3 DEF Claimable
    <3> QED
      BY <1>1, <3>2, <3>3, StuckIsLasting
  <2> QED
    BY <1>1, <2>2, <2>3 DEF WakeInv, AllSeen
<1> QED
  BY <1>3, <1>4

LEMMA InitWakes == Init => WakeInv
BY DEF Init, WakeInv, AllSeen, NoPass, Parked

LEMMA StepWakes == SchedulerInv /\ WakeInv /\ [Next]_vars => WakeInv'
<1> SUFFICES ASSUME SchedulerInv, WakeInv, [Next]_vars PROVE WakeInv'
  OBVIOUS
<1>0. Shape /\ Served /\ Carried /\ Shape'
  BY StepKeeps DEF SchedulerInv, Served
\* No job moves, no worker is freed, and nobody is promoted past the head of another pool.
<1>1. ASSUME UNCHANGED <<at, via, hint, resuming, occupant, pass, again>> PROVE WakeInv'
  <2>1. Calm
    BY <1>1 DEF Calm, Parked, Claimable
  <2> QED
    BY <1>0, <2>1, CalmWakes
<1>2. ASSUME NEW l \in Lanes, SlotCheck(l) \/ ReadNothing(l) PROVE WakeInv'
  BY <1>1, <1>2 DEF SlotCheck, ReadNothing, wait
<1>3. ASSUME NEW l \in Lanes, ReadMessage(l) PROVE WakeInv'
  <2>1. PICK j \in Unread(l) : Admit(j, "lane") /\ (Kick(Parked) \/ UNCHANGED <<pass, again>>)
    BY <1>3 DEF ReadMessage
  <2>2. j \in Jobs /\ at[j] = "unread"
    BY DEF Unread
  <2> QED
    BY <1>0, <2>1, <2>2, AdmitWakes
<1>4. ASSUME NEW j \in Jobs, Recover(j) PROVE WakeInv'
  BY <1>0, <1>4, AdmitWakes DEF Recover
<1>5. ASSUME NEW j \in Jobs, Handler(j) \/ ResumeThrows(j) PROVE WakeInv'
  BY <1>0, <1>5, HandlerWakes
<1>6. ASSUME NEW j \in Jobs, Outside(j) \/ ThreeHoursPass(j) PROVE WakeInv'
  BY <1>1, <1>6 DEF Outside, Cancel, PromotionDue, Taken, ThreeHoursPass, wait
<1>7. CASE Tick
  <2>1. Kick(Parked) /\ UNCHANGED <<at, via, resuming>>
    BY <1>7 DEF Tick, wait
  <2>2. Kick(Parked') /\ \A j \in resuming' : via'[j] = "lane"
    BY <2>1 DEF Parked, WakeInv
  <2> QED
    BY <1>0, <2>2, KickedWakes
<1>8. CASE RowsRead
  BY <1>0, <1>8, RowsReadWakes
<1>9. CASE Ask
  BY <1>0, <1>9, AskWakes
<1>10. CASE Offer
  BY <1>0, <1>10, OfferWakes
<1>11. CASE PassEnds
  BY <1>0, <1>11, PassEndsWakes
<1>12. CASE UNCHANGED vars
  BY <1>1, <1>12 DEF vars, wait
<1> QED
  BY <1>2, <1>3, <1>4, <1>5, <1>6, <1>7, <1>8, <1>9, <1>10, <1>11, <1>12
  DEF Next, Lane, Scheduler, Done

\* No release, park or end of a handler is lost while an evaluation awaits (parked.ts:42, :173): an
\* idle scheduler has no pool it could serve, for every number of jobs, workers, lanes and slots.
THEOREM NoWakeUpIsLost == Spec => []WokenWhenReady
<1>1. Init => SchedulerInv /\ WakeInv
  BY InitHolds, InitWakes
<1>2. SchedulerInv /\ WakeInv /\ [Next]_vars => (SchedulerInv /\ WakeInv)'
  BY StepKeeps, StepWakes
<1>3. ASSUME WakeInv, pass.step = "idle", NEW j \in Heads(Parked, resuming, promoted)
      PROVE  Stuck(j)
  <2>1. j \in Parked /\ Waits(j)
    BY DEF Heads, Waits
  <2> QED
    BY <1>3, <2>1 DEF WakeInv, AllSeen, Considered
<1>4. WakeInv => WokenWhenReady
  BY <1>3 DEF WokenWhenReady, Stuck, Full
<1> QED
  BY <1>1, <1>2, <1>4, PTL DEF Spec
=============================================================================
