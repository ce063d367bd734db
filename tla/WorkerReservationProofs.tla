----------------------- MODULE WorkerReservationProofs -----------------------
(***************************************************************************)
(* Proofs about WorkerReservation: for every number of workers, jobs,      *)
(* attempts, generations, calls and troubles.                              *)
(***************************************************************************)
EXTENDS WorkerReservation, FiniteSetTheorems, TLAPS

-----------------------------------------------------------------------------
(* Types *)

\* Places at which a call has an attempt; at all but the first it has a worker, too.
Working == {"claim", "probe", "begin", "drop", "submit", "post", "answer", "wait",
            "release", "rekey", "search"}

WellPlaced(q) ==
  /\ q.pc \in Working => q.attempt # 0
  /\ q.pc \in Working \ {"claim"} => q.worker # NoWorker
  /\ q.pc \in {"idle", "prepare", "adopt", "clear"} => q.worker = NoWorker
  /\ q.worker # NoWorker => q.attempt # 0

CallType == Call \cup {NoCall}
CallsOK == call \in [Calls -> CallType] /\ \A c \in Calls : WellPlaced(call[c])

\* The rows that exist are those of jobs.
RowsOK ==
  /\ row \in [AttemptIds -> Row]
  /\ \A a \in AttemptIds :
       /\ row[a].job \in Jobs <=> row[a].state # "ABSENT"
       /\ row[a].state = "ABSENT" => row[a].worker = NoWorker

\* The attempt of a call, and the active one of a job, are of that job.
NamesOK ==
  /\ \A c \in Calls : call[c].attempt # 0 => row[call[c].attempt].job = c[1]
  /\ \A j \in Jobs : active[j] # 0 => row[active[j]].job = j

ReviewsOK == review \in [Reviewers -> Review \cup {NoReview}]

RestOK ==
  /\ registry \in [Workers -> {"ABSENT", "IDLE", "BUSY", "DRAINING"}]
  /\ hold \in [Workers -> Token \cup {NoHold}]
  /\ admission \in BOOLEAN
  /\ remote \in [AttemptIds -> Remote]
  /\ deadline \in [AttemptIds -> {"unset", "open", "over"}]
  /\ generation \in [Jobs -> 0 .. MaxGeneration]
  /\ live \subseteq Jobs /\ inflight \subseteq Jobs /\ finished \subseteq Jobs
  /\ active \in [Jobs -> 0 .. MaxAttempts]
  /\ rebuild \in [Workers -> Token \cup {NoHold}] \cup {NoRebuild}
  /\ edit \in Edit \cup {NoEdit}
  /\ up \in BOOLEAN
  /\ torn \subseteq Workers
  /\ troubles \in 0 .. MaxTroubles

TypeInv == CallsOK /\ RowsOK /\ NamesOK /\ ReviewsOK /\ RestOK

\* The parts of a call's name, and which reviews are of calls.
LEMMA CallNames ==
  ASSUME NEW c \in Calls
  PROVE  /\ c[1] \in Jobs /\ c[2] \in 1 .. MaxGeneration /\ c[2] \in 0 .. MaxGeneration
         /\ c \in Reviewers /\ c \notin Workers
BY ReservationAssumption DEF Calls, Reviewers

\* A call that is on its way, and the token it claims with.
LEMMA BusyCall ==
  ASSUME TypeInv, NEW c \in Calls, call[c].pc # "idle"
  PROVE  /\ call[c] \in Call
         /\ call[c].pc \in Working => call[c].attempt \in AttemptIds
                                      /\ TokenOf(c) \in Token
                                      /\ row[call[c].attempt].job = c[1]
                                      /\ row[call[c].attempt].state # "ABSENT"
         /\ call[c].pc \in Working \ {"claim"} => call[c].worker \in Workers
<1>1. call[c] \in Call /\ WellPlaced(call[c])
  BY DEF TypeInv, CallsOK, CallType, NoCall
<1>2. c[1] \in Jobs /\ c[2] \in 0 .. MaxGeneration
  BY CallNames
<1>3. call[c].pc \in Working => call[c].attempt \in AttemptIds
  BY <1>1, ReservationAssumption DEF Call, WellPlaced, AttemptIds
<1>4. call[c].pc \in Working => row[call[c].attempt].job = c[1]
  BY <1>3, ReservationAssumption DEF TypeInv, NamesOK, AttemptIds
<1> QED
  BY <1>1, <1>2, <1>3, <1>4 DEF Call, WellPlaced, TokenOf, Token, TypeInv, RowsOK

\* An idle call is a record like the others.
AnyCall == [pc: Place \cup {"idle"}, attempt: 0 .. MaxAttempts, worker: Workers \cup {NoWorker},
            tried: SUBSET Workers]

LEMMA CallRecords ==
  ASSUME TypeInv
  PROVE  call \in [Calls -> AnyCall]
<1>1. Call \subseteq AnyCall /\ NoCall \in AnyCall
  BY ReservationAssumption DEF Call, NoCall, AnyCall
<1> QED
  BY <1>1 DEF TypeInv, CallsOK, CallType

\* A call that goes on to another place keeps what it holds.
Keeps(d) == /\ call'[d].attempt = call[d].attempt
            /\ call'[d].worker = call[d].worker

LEMMA GotoCall ==
  ASSUME TypeInv, NEW c \in Calls, NEW p, Goto(c, p)
  PROVE  /\ call'[c].pc = p /\ Keeps(c)
         /\ \A d \in Calls : d # c => call'[d] = call[d]
         /\ \A d \in Calls : Keeps(d)
<1>1. call \in [Calls -> AnyCall]
  BY CallRecords
<1> QED
  BY <1>1 DEF Goto, AnyCall, Keeps

LEMMA BusyReview ==
  ASSUME TypeInv, NEW k \in Reviewers, review[k].pc # "idle"
  PROVE  /\ review[k] \in Review
         /\ review[k].token \in Token /\ review[k].token.attempt \in AttemptIds
         /\ review[k].worker \in Workers
         /\ review[k].pc \in {"loaded", "queue", "history", "resolve", "free"}
<1>1. review[k] \in Review
  BY DEF TypeInv, ReviewsOK, NoReview
<1> QED
  BY <1>1 DEF Review, Token

\* The way of a call from its start to the prompt.
LEMMA ReserveCalls ==
  ASSUME TypeInv, NEW c \in Calls, ReserveStep(c)
  PROVE  CallsOK'
<1> USE ReservationAssumption
    DEF TypeInv, CallsOK, CallType, WellPlaced, Call, Place, NoCall, Working, LosesJob, Goto, At
<1>1. CASE Prepare(c)
  BY <1>1 DEF Prepare, AttemptIds, NextRow, Unused
<1>2. ASSUME NEW w \in Workers, ClaimWorker(c, w) PROVE CallsOK'
  <2>1. call' = [call EXCEPT ![c].pc = "probe", ![c].worker = w] /\ call[c].pc = "claim"
    BY <1>2 DEF ClaimWorker
  <2> DEFINE q == [call[c] EXCEPT !.pc = "probe", !.worker = w]
  <2>2. call[c] \in Call /\ call[c].attempt # 0
    BY <2>1, BusyCall
  <2>3. q \in Call /\ q.attempt = call[c].attempt /\ q.pc = "probe" /\ q.worker = w
    BY <2>2
  <2>4. call' = [call EXCEPT ![c] = q]
    BY <2>1
  <2>5. w # NoWorker
    OBVIOUS
  <2> HIDE DEF q
  <2> QED
    BY <2>2, <2>3, <2>4, <2>5
<1>3. CASE NoWorkerFree(c) \/ WaitExpires(c)
  BY <1>3 DEF NoWorkerFree, WaitExpires, TooLate
<1>4. CASE ProbeRejects(c)
  BY <1>4 DEF ProbeRejects
<1>5. CASE BindAttemptWorker(c) \/ BeginProcessing(c) \/ DropClaim(c)
  BY <1>5 DEF BindAttemptWorker, BeginProcessing, DropClaim
<1> QED
  BY <1>1, <1>2, <1>3, <1>4, <1>5 DEF ReserveStep

\* ... and to its end.
LEMMA PromptCalls ==
  ASSUME TypeInv, NEW c \in Calls, PromptStep(c) \/ ClaimThrows(c)
  PROVE  CallsOK'
<1> USE ReservationAssumption
    DEF TypeInv, CallsOK, CallType, WellPlaced, Call, Place, NoCall, Working, LosesJob, Goto, At
<1>1. CASE SubmitIntent(c) \/ Post(c) \/ ClaimThrows(c)
  BY <1>1 DEF SubmitIntent, Post, ClaimThrows
<1>2. CASE Accepted(c) \/ Rejected(c) \/ CallThrows(c)
  BY <1>2 DEF Accepted, Rejected, CallThrows
<1>3. CASE Settle(c)
  <2>1. Goto(c, "release") /\ call[c].pc = "wait"
    BY <1>3 DEF Settle, TooLate
  <2> QED
    BY <2>1
<1>4. CASE HandleFailure(c)
  <2>1. /\ call[c].pc = "fail"
        /\ Goto(c, "leave") \/ (call[c].worker # NoWorker /\ Goto(c, "release"))
    BY <1>4 DEF HandleFailure, AfterFailure, TooLate
  <2> QED
    BY <2>1
<1>5. CASE Leave(c)
  BY <1>5 DEF Leave
<1> QED
  BY <1>1, <1>2, <1>3, <1>4, <1>5 DEF PromptStep

LEMMA AdoptCalls ==
  ASSUME TypeInv, NEW c \in Calls, AdoptStep(c) \/ OwnerReviews(c)
  PROVE  CallsOK'
<1> USE ReservationAssumption
    DEF TypeInv, CallsOK, CallType, WellPlaced, Call, Place, NoCall, Working, Goto, At
<1>1. CASE AdoptLoads(c)
  <2> DEFINE a == active[c[1]]
             w == row[a].worker
  <2>1. a \in 0 .. MaxAttempts
    BY CallNames DEF RestOK
  <2>2. a # 0 => w \in Workers \cup {NoWorker}
    BY <2>1 DEF RowsOK, Row, AttemptIds
  <2>3. \/ /\ a # 0 /\ w # NoWorker
           /\ call' = [call EXCEPT ![c].pc = "rekey", ![c].attempt = a, ![c].worker = w]
        \/ Goto(c, "clear") \/ Goto(c, "prepare")
    BY <1>1 DEF AdoptLoads, Adopts
  <2>4. call[c].pc = "adopt"
    BY <1>1 DEF AdoptLoads
  <2> HIDE DEF a, w
  <2> QED
    BY <2>1, <2>2, <2>3, <2>4
<1>2. CASE AdoptReservation(c)
  BY <1>2 DEF AdoptReservation
<1>3. CASE SearchFinds(c) \/ SearchGivesUp(c) \/ SearchPending(c) \/ PromptLost(c)
  BY <1>3 DEF SearchFinds, SearchGivesUp, SearchPending, PromptLost
<1>4. CASE OwnerReviews(c)
  BY <1>4 DEF OwnerReviews
<1> QED
  BY <1>1, <1>2, <1>3, <1>4 DEF AdoptStep

\* A review that ends lets the call that made it go on.
LEMMA EndedReviewCalls ==
  ASSUME TypeInv, NEW k \in Reviewers, EndReview(k)
  PROVE  CallsOK'
BY ReservationAssumption
DEF TypeInv, CallsOK, CallType, WellPlaced, Call, Place, NoCall, Working, EndReview

LEMMA ReviewCalls ==
  ASSUME TypeInv, NEW k \in Reviewers, ReviewStep(k)
  PROVE  CallsOK'
<1>1. EndReview(k) \/ UNCHANGED call
  BY DEF ReviewStep, SkipLiveOwner, Judge, QueueShows, QueueClean, Unreadable, HistoryRead,
     MarkResolved, ReleaseExact
<1> QED
  BY <1>1, EndedReviewCalls DEF TypeInv, CallsOK

LEMMA StartedCalls ==
  ASSUME TypeInv, NEW j \in Jobs, StartCall(j)
  PROVE  CallsOK'
<1>1. generation[j] + 1 \in 1 .. MaxGeneration
  BY ReservationAssumption DEF TypeInv, RestOK, StartCall
<1>2. <<j, generation[j] + 1>> \in Calls
  BY <1>1 DEF Calls
<1> QED
  BY <1>2, ReservationAssumption
  DEF StartCall, TypeInv, CallsOK, CallType, WellPlaced, Call, Place, NoCall, Working

\* Every step keeps the types of the calls.
LEMMA CallTypes ==
  ASSUME TypeInv, [Next]_vars
  PROVE  CallsOK'
<1>1. CASE UNCHANGED call
  BY <1>1 DEF TypeInv, CallsOK
<1>2. ASSUME NEW c \in Calls, CallStep(c) PROVE CallsOK'
  BY <1>2, ReserveCalls, PromptCalls, AdoptCalls DEF CallStep
<1>3. ASSUME NEW k \in Reviewers, ReviewStep(k) PROVE CallsOK'
  BY <1>3, ReviewCalls
<1>4. ASSUME NEW w \in Workers, TickLists(w) \/ EditReads(w) PROVE UNCHANGED call
  BY <1>4 DEF TickLists, EditReads
<1>5. ASSUME NEW a \in AttemptIds, RemoteStep(a) PROVE UNCHANGED call
  BY <1>5 DEF RemoteStep, Lands, Ends, DeadlinePasses, ResolveSuperseded, OnlyRemote
<1>6. ASSUME NEW j \in Jobs, CancelJob(j) \/ LeaseExpires(j) PROVE UNCHANGED call
  BY <1>6 DEF CancelJob, LeaseExpires
<1>7. CASE Dies
  BY <1>7, ReservationAssumption
  DEF Dies, TypeInv, CallsOK, CallType, WellPlaced, NoCall, Working
<1>8. CASE RebuildReads \/ RebuildRegisters \/ RedisReset \/ EditWrites
  BY <1>1, <1>8 DEF RebuildReads, RebuildRegisters, RedisReset, EditWrites
<1> QED
  BY <1>1, <1>2, <1>3, <1>4, <1>5, <1>6, <1>7, <1>8, StartedCalls
  DEF Next, JobStep, SystemStep, vars

\* A step that leaves every row with its job.
RowsKept == RowsOK' /\ \A b \in AttemptIds : row'[b].job = row[b].job

LEMMA RowKept ==
  ASSUME TypeInv, NEW a \in AttemptIds,
         NEW st \in RowState, st = "ABSENT" <=> row[a].state = "ABSENT",
         NEW receipt \in BOOLEAN, NEW resolved \in BOOLEAN,
         row' = [row EXCEPT ![a] = [row[a] EXCEPT !.state = st, !.receipt = receipt,
                                                  !.resolved = resolved]]
  PROVE  RowsKept
<1> DEFINE r == [row[a] EXCEPT !.state = st, !.receipt = receipt, !.resolved = resolved]
<1>1. row[a] \in Row
  BY DEF TypeInv, RowsOK
<1>2. r \in Row /\ r.state = st /\ r.job = row[a].job
  BY <1>1 DEF Row
<1>3. row' = [row EXCEPT ![a] = r]
  OBVIOUS
<1> HIDE DEF r
<1> QED
  BY <1>2, <1>3 DEF TypeInv, RowsOK, RowsKept

LEMMA OutcomeRows ==
  ASSUME TypeInv, NEW j \in Jobs, NEW done \in BOOLEAN, AttemptOutcome(j, done)
  PROVE  RowsKept
<1> DEFINE a == active[j]
           st == IF done THEN "SUCCEEDED" ELSE "FAILED"
<1>1. CASE UNCHANGED row
  BY <1>1 DEF TypeInv, RowsOK, RowsKept
<1>2. CASE ~UNCHANGED row
  <2>1. /\ a # 0 /\ row[a].state = "ACCEPTED"
        /\ row' = [row EXCEPT ![a].state = st, ![a].resolved = @ \/ done]
    BY <1>2 DEF AttemptOutcome
  <2>2. a \in AttemptIds
    BY <2>1, ReservationAssumption DEF TypeInv, RestOK, AttemptIds
  <2>3. row[a] \in Row
    BY <2>2 DEF TypeInv, RowsOK
  <2>4. st \in RowState \ {"ABSENT"} /\ row[a].receipt \in BOOLEAN
    BY <2>3 DEF RowState, Row
  <2>5. PICK over \in BOOLEAN :
          row' = [row EXCEPT ![a] = [row[a] EXCEPT !.state = st, !.receipt = row[a].receipt,
                                                   !.resolved = over]]
    <3>1. (row[a].resolved \/ done) \in BOOLEAN
      OBVIOUS
    <3> QED
      BY <2>1, <2>2, <2>3, <3>1 DEF TypeInv, RowsOK, Row
  <2>6. row[a].state # "ABSENT"
    BY <2>1
  <2> HIDE DEF a, st
  <2> QED
    BY <2>2, <2>4, <2>5, <2>6, RowKept
<1> QED
  BY <1>1, <1>2

LEMMA FoundRows ==
  ASSUME TypeInv, NEW a \in AttemptIds, RecordReceipt(a) \/ UNCHANGED row
  PROVE  RowsKept
<1>1. CASE UNCHANGED row
  BY <1>1 DEF TypeInv, RowsOK, RowsKept
<1>2. CASE row' = [row EXCEPT ![a].receipt = TRUE]
  <2>1. row[a] \in Row
    BY DEF TypeInv, RowsOK
  <2>2. row' = [row EXCEPT ![a] = [row[a] EXCEPT !.state = row[a].state, !.receipt = TRUE,
                                                 !.resolved = row[a].resolved]]
    BY <1>2, <2>1 DEF TypeInv, RowsOK, Row
  <2>3. row[a].state \in RowState /\ row[a].resolved \in BOOLEAN
    BY <2>1 DEF Row
  <2> QED
    BY <2>2, <2>3, RowKept
<1> QED
  BY <1>1, <1>2 DEF RecordReceipt

LEMMA ResolvedRows ==
  ASSUME TypeInv, NEW a \in AttemptIds, row' = [row EXCEPT ![a].resolved = TRUE]
  PROVE  RowsKept
<1>1. row[a] \in Row
  BY DEF TypeInv, RowsOK
<1>3. row' = [row EXCEPT ![a] = [row[a] EXCEPT !.state = row[a].state,
                                               !.receipt = row[a].receipt, !.resolved = TRUE]]
  BY <1>1 DEF TypeInv, RowsOK, Row
<1>4. row[a].state \in RowState /\ row[a].receipt \in BOOLEAN
  BY <1>1 DEF Row
<1> QED
  BY <1>3, <1>4, RowKept

LEMMA CallRows ==
  ASSUME TypeInv, NEW c \in Calls, CallStep(c), ~Prepare(c)
  PROVE  RowsKept
<1> USE BusyCall DEF At, Working, TypeInv, RowsOK, RowsKept, Row, RowState, rowVars
<1>2. CASE BindAttemptWorker(c)
  BY <1>2 DEF BindAttemptWorker, LosesJob, RowOf
<1>3. CASE SubmitIntent(c)
  BY <1>3 DEF SubmitIntent, LosesJob, RowOf
<1>4. CASE Accepted(c)
  BY <1>4 DEF Accepted
<1>5. CASE Rejected(c)
  BY <1>5 DEF Rejected
<1>6. CASE Settle(c)
  BY <1>6, OutcomeRows, CallNames DEF Settle, LosesJob, TooLate
<1>7. CASE HandleFailure(c)
  BY <1>7, OutcomeRows, CallNames DEF HandleFailure, LosesJob, TooLate
<1>8. CASE SearchFinds(c)
  BY <1>8, FoundRows DEF SearchFinds
<1>9. CASE SearchGivesUp(c)
  <2> DEFINE a == call[c].attempt
             st == IF row[a].state = "SUBMITTING" THEN "UNKNOWN_RETRIED" ELSE row[a].state
  <2>1. /\ call[c].pc = "search"
        /\ row' = [row EXCEPT ![a].resolved = TRUE,
                              ![a].state = IF @ = "SUBMITTING" THEN "UNKNOWN_RETRIED" ELSE @]
    BY <1>9 DEF SearchGivesUp
  <2>2. a \in AttemptIds /\ row[a].state # "ABSENT"
    BY <2>1
  <2>3. row[a] \in Row
    BY <2>2
  <2>4. st \in RowState \ {"ABSENT"} /\ row[a].receipt \in BOOLEAN
    BY <2>2, <2>3
  <2>5. row' = [row EXCEPT ![a] = [row[a] EXCEPT !.state = st, !.receipt = row[a].receipt,
                                                 !.resolved = TRUE]]
    BY <2>1, <2>2, <2>3
  <2> HIDE DEF a, st
  <2> QED
    BY <2>2, <2>4, <2>5, RowKept
<1>10. CASE UNCHANGED row
  BY <1>10
<1>11. \/ BindAttemptWorker(c) \/ SubmitIntent(c) \/ Accepted(c) \/ Rejected(c) \/ Settle(c)
       \/ HandleFailure(c) \/ SearchFinds(c) \/ SearchGivesUp(c) \/ UNCHANGED row
  <2>1. ReserveStep(c) => BindAttemptWorker(c) \/ UNCHANGED row
    BY DEF ReserveStep, ClaimWorker, NoWorkerFree, WaitExpires, ProbeRejects, BeginProcessing, DropClaim, LosesJob,
           TooLate
  <2>2. PromptStep(c) => \/ SubmitIntent(c) \/ Accepted(c) \/ Rejected(c) \/ Settle(c)
                         \/ HandleFailure(c) \/ UNCHANGED row
    BY DEF PromptStep, Post, CallThrows, Leave
  <2>3. AdoptStep(c) => SearchFinds(c) \/ SearchGivesUp(c) \/ UNCHANGED row
    BY DEF AdoptStep, AdoptLoads, AdoptReservation, SearchPending, PromptLost
  <2>4. OwnerReviews(c) \/ ClaimThrows(c) => UNCHANGED row
    BY DEF OwnerReviews, ClaimThrows
  <2> QED
    BY <2>1, <2>2, <2>3, <2>4 DEF CallStep
<1> QED
  BY <1>2, <1>3, <1>4, <1>5, <1>6, <1>7, <1>8, <1>9, <1>10, <1>11

LEMMA ReviewRows ==
  ASSUME TypeInv, NEW k \in Reviewers, ReviewStep(k)
  PROVE  RowsKept
<1> DEFINE a == review[k].token.attempt
<1>1. CASE UNCHANGED row
  BY <1>1 DEF TypeInv, RowsOK, RowsKept
<1>2. CASE /\ review[k].pc \in {"queue", "history", "resolve"}
           /\ RecordReceipt(a) \/ row' = [row EXCEPT ![a].resolved = TRUE]
  <2>1. a \in AttemptIds
    BY <1>2, BusyReview
  <2> HIDE DEF a
  <2> QED
    BY <1>2, <2>1, FoundRows, ResolvedRows
<1> QED
  BY <1>1, <1>2 DEF ReviewStep, SkipLiveOwner, Judge, QueueShows, QueueClean, Unreadable,
     HistoryRead, MarkResolved, ReleaseExact, rowVars, InReview

\* Preparation takes a row that is unused, or the next one.
LEMMA PreparedRows ==
  ASSUME TypeInv, NEW c \in Calls, Prepare(c)
  PROVE  RowsOK' /\ NamesOK'
<1>1. CASE LosesJob(c, "leave")
  BY <1>1 DEF LosesJob, Goto, rowVars, jobVars, TypeInv, CallsOK, RowsOK, NamesOK
<1>2. CASE ~LosesJob(c, "leave")
  <2> DEFINE j == c[1]
             r == [NoRow EXCEPT !.state = "PREPARING", !.job = j]
  <2>1. PICK a \in Unused(j) \cup NextRow :
          /\ row' = [row EXCEPT ![a] = r]
          /\ active' = [active EXCEPT ![j] = a]
          /\ call' = [call EXCEPT ![c].pc = "claim", ![c].attempt = a]
    BY <1>2 DEF Prepare
  <2>2. a \in AttemptIds /\ j \in Jobs
    BY CallNames DEF Unused, NextRow
  <2>3. row[a].state = "ABSENT" \/ row[a].job = j
    BY DEF Unused, NextRow
  <2>4. r \in Row /\ r.state = "PREPARING" /\ r.job = j
    BY <2>2 DEF Row, RowState, NoRow
  <2>5. /\ \A d \in Calls : d # c => call'[d] = call[d]
        /\ call'[c].attempt = a
    BY <2>1, CallRecords DEF AnyCall
  <2>6. \A d \in Calls : call[d].attempt # 0 => call[d].attempt \in AttemptIds
    BY ReservationAssumption DEF TypeInv, CallsOK, CallType, Call, NoCall, AttemptIds
  <2>7. \A b \in Jobs : active[b] # 0 => active[b] \in AttemptIds
    BY ReservationAssumption DEF TypeInv, RestOK, AttemptIds
  <2>8. \A d \in Calls : d[1] \in Jobs
    BY CallNames
  <2>9. \A b \in AttemptIds : row[b].job \in Jobs => row'[b].job = row[b].job
    BY <2>1, <2>2, <2>3, <2>4 DEF TypeInv, RowsOK
  <2>10. row'[a].job = j
    BY <2>1, <2>2, <2>4 DEF TypeInv, RowsOK
  <2> HIDE DEF j, r
  <2>11. RowsOK'
    BY <2>1, <2>2, <2>4 DEF TypeInv, RowsOK
  <2>12. \A d \in Calls : call'[d].attempt # 0 => row'[call'[d].attempt].job = d[1]
    BY <2>5, <2>6, <2>8, <2>9, <2>10 DEF TypeInv, NamesOK, j
  <2>13. \A b \in Jobs : active'[b] # 0 => row'[active'[b]].job = b
    BY <2>1, <2>2, <2>7, <2>9, <2>10 DEF TypeInv, NamesOK, RestOK
  <2> QED
    BY <2>11, <2>12, <2>13 DEF NamesOK
<1> QED
  BY <1>1, <1>2

LEMMA NamesKept ==
  ASSUME TypeInv, RowsKept, active' = active,
         \A d \in Calls : \/ call'[d].attempt \in {0, call[d].attempt}
                          \/ call'[d].attempt = active[d[1]]
  PROVE  NamesOK'
<1>1. \A d \in Calls : call[d].attempt # 0 => call[d].attempt \in AttemptIds
  BY ReservationAssumption DEF TypeInv, CallsOK, CallType, Call, NoCall, AttemptIds
<1>2. \A b \in Jobs : active[b] # 0 => active[b] \in AttemptIds
  BY ReservationAssumption DEF TypeInv, RestOK, AttemptIds
<1>3. \A d \in Calls : d[1] \in Jobs
  BY CallNames
<1> QED
  BY <1>1, <1>2, <1>3 DEF TypeInv, NamesOK, RowsKept

\* Only preparation gives a job another attempt; an adopter has the active one.
LEMMA CallAttempts ==
  ASSUME TypeInv, NEW c \in Calls, CallStep(c), ~Prepare(c)
  PROVE  /\ active' = active
         /\ \A d \in Calls : \/ call'[d].attempt \in {0, call[d].attempt}
                             \/ call'[d].attempt = active[d[1]]
<1>1. CASE \E p \in Place : Goto(c, p) /\ active' = active
  BY <1>1, GotoCall DEF Keeps
<1>2. CASE active' = active /\ call' = [call EXCEPT ![c] = NoCall]
  BY <1>2 DEF TypeInv, CallsOK, NoCall
<1>3. CASE ReserveStep(c)
  <2>1. \/ \E p \in Place : Goto(c, p) /\ active' = active
        \/ \E w \in Workers : ClaimWorker(c, w)
        \/ NoWorkerFree(c) \/ ProbeRejects(c)
    BY <1>3 DEF ReserveStep, BindAttemptWorker, BeginProcessing, DropClaim, WaitExpires,
       LosesJob, jobVars, Place, TooLate
  <2>2. ASSUME NEW w \in Workers, ClaimWorker(c, w)
        PROVE  active' = active /\ \A d \in Calls : call'[d].attempt = call[d].attempt
    BY <2>2, CallRecords DEF ClaimWorker, jobVars, AnyCall
  <2>3. CASE ProbeRejects(c) \/ (active' = active /\ call' = [call EXCEPT ![c].tried = {}])
    BY <2>3, CallRecords DEF ProbeRejects, jobVars, AnyCall
  <2>4. ASSUME NoWorkerFree(c)
        PROVE  \/ \E p \in Place : Goto(c, p) /\ active' = active
               \/ active' = active /\ call' = [call EXCEPT ![c].tried = {}]
    BY <2>4 DEF NoWorkerFree, TooLate, LosesJob, jobVars, Place
  <2>5. CASE NoWorkerFree(c)
    BY <1>1, <2>3, <2>4, <2>5
  <2>6. CASE \E w \in Workers : ClaimWorker(c, w)
    BY <2>2, <2>6
  <2> QED
    BY <1>1, <2>1, <2>3, <2>5, <2>6
<1>4. CASE PromptStep(c) \/ ClaimThrows(c)
  <2>1. ASSUME HandleFailure(c) PROVE \E p \in Place : Goto(c, p) /\ active' = active
    BY <2>1 DEF HandleFailure, AfterFailure, LosesJob, jobVars, Place, TooLate
  <2>2. \/ \E p \in Place : Goto(c, p) /\ active' = active
        \/ HandleFailure(c) \/ Leave(c)
    BY <1>4 DEF PromptStep, SubmitIntent, Post, Accepted, Rejected, CallThrows, Settle,
       ClaimThrows, LosesJob, jobVars, Place, TooLate
  <2> QED
    BY <1>1, <1>2, <2>1, <2>2 DEF Leave
<1>5. CASE AdoptLoads(c)
  <2>1. /\ active' = active
        /\ \/ call' = [call EXCEPT ![c].pc = "rekey", ![c].attempt = active[c[1]],
                                   ![c].worker = row[active[c[1]]].worker]
           \/ Goto(c, "clear") \/ Goto(c, "prepare")
    BY <1>5 DEF AdoptLoads, jobVars
  <2>2. CASE call' = [call EXCEPT ![c].pc = "rekey", ![c].attempt = active[c[1]],
                                  ![c].worker = row[active[c[1]]].worker]
    BY <2>1, <2>2, CallRecords DEF AnyCall
  <2> QED
    BY <1>1, <2>1, <2>2 DEF Place
<1>6. CASE \/ AdoptReservation(c) \/ SearchFinds(c) \/ SearchGivesUp(c) \/ SearchPending(c)
           \/ PromptLost(c)
  <2>1. \E p \in Place : Goto(c, p) /\ active' = active
    BY <1>6 DEF AdoptReservation, SearchFinds, SearchGivesUp, SearchPending, PromptLost,
       jobVars, Place
  <2> QED
    BY <1>1, <2>1
<1>7. CASE OwnerReviews(c)
  BY <1>7 DEF OwnerReviews, OnlyReview, jobVars
<1> QED
  BY <1>3, <1>4, <1>5, <1>6, <1>7 DEF CallStep, AdoptStep

LEMMA ReviewAttempts ==
  ASSUME TypeInv, NEW k \in Reviewers, ReviewStep(k)
  PROVE  active' = active /\ \A d \in Calls : call'[d].attempt = call[d].attempt
<1>1. active' = active /\ (EndReview(k) \/ UNCHANGED call)
  BY DEF ReviewStep, SkipLiveOwner, Judge, QueueShows, QueueClean, Unreadable, HistoryRead,
     MarkResolved, ReleaseExact, OnlyReview, jobVars
<1> QED
  BY <1>1 DEF EndReview, TypeInv, CallsOK, CallType, Call, NoCall

\* Every step keeps the types of the rows, and the rows that calls and jobs name.
LEMMA RowTypes ==
  ASSUME TypeInv, [Next]_vars
  PROVE  RowsOK' /\ NamesOK'
<1>1. CASE UNCHANGED <<row, active, call>>
  BY <1>1 DEF TypeInv, RowsOK, NamesOK
<1>2. CASE RowsKept /\ UNCHANGED <<active, call>>
  BY <1>2, NamesKept DEF RowsKept
<1>3. ASSUME NEW c \in Calls, CallStep(c) PROVE RowsOK' /\ NamesOK'
  BY <1>3, PreparedRows, CallRows, CallAttempts, NamesKept DEF RowsKept
<1>4. ASSUME NEW k \in Reviewers, ReviewStep(k) PROVE RowsOK' /\ NamesOK'
  BY <1>4, ReviewRows, ReviewAttempts, NamesKept DEF RowsKept
<1>5. ASSUME NEW a \in AttemptIds, RemoteStep(a) PROVE RowsOK' /\ NamesOK'
  <2>1. RowsKept /\ UNCHANGED <<active, call>>
    BY <1>5, ResolvedRows
    DEF RemoteStep, Lands, Ends, DeadlinePasses, ResolveSuperseded, OnlyRemote, OnlyReview,
        jobVars, TypeInv, RowsOK, RowsKept
  <2> QED
    BY <1>2, <2>1
<1>6. ASSUME NEW j \in Jobs, CancelJob(j) PROVE RowsOK' /\ NamesOK'
  <2>1. RowsKept /\ UNCHANGED <<active, call>>
    BY <1>6 DEF CancelJob, rowVars, TypeInv, RowsOK, RowsKept
  <2> QED
    BY <1>2, <2>1
<1>7. ASSUME NEW j \in Jobs, StartCall(j) \/ LeaseExpires(j) PROVE RowsOK' /\ NamesOK'
  <2>1. /\ row' = row /\ active' = active
        /\ \A d \in Calls : call'[d].attempt \in {0, call[d].attempt}
    BY <1>7 DEF StartCall, LeaseExpires, rowVars, TypeInv, CallsOK, CallType, Call, NoCall
  <2>2. RowsKept
    BY <2>1 DEF TypeInv, RowsOK, RowsKept
  <2> QED
    BY <2>1, <2>2, NamesKept DEF RowsKept
<1>8. CASE Dies
  <2>1. /\ row' = row /\ active' = active
        /\ \A d \in Calls : call'[d].attempt = 0
    BY <1>8 DEF Dies, rowVars, jobVars, NoCall
  <2>2. RowsKept
    BY <2>1 DEF TypeInv, RowsOK, RowsKept
  <2> QED
    BY <2>1, <2>2, NamesKept DEF RowsKept
<1>9. ASSUME \/ RebuildReads \/ RebuildRegisters \/ RedisReset \/ EditWrites \/ UNCHANGED vars
             \/ \E w \in Workers : TickLists(w) \/ EditReads(w)
      PROVE  UNCHANGED <<row, active, call>>
  BY <1>9 DEF RebuildReads, RebuildRegisters, RedisReset, EditWrites, TickLists, EditReads,
     OnlyReview, rowVars, jobVars, vars
<1> QED
  BY <1>1, <1>3, <1>4, <1>5, <1>6, <1>7, <1>8, <1>9 DEF Next, JobStep, SystemStep

\* A set of attempts has a newest one: those after the newest would be a smaller set.
LEMMA NewestIsIn ==
  ASSUME NEW S \in SUBSET AttemptIds, S # {}
  PROVE  \E x \in S : \A y \in S : y <= x
<1> DEFINE after(x) == {y \in S : y > x}
           T == {after(x) : x \in S}
<1>1. IsFiniteSet(S)
  <2>1. IsFiniteSet(AttemptIds)
    BY FS_Interval, ReservationAssumption DEF AttemptIds
  <2> QED
    BY <2>1, FS_Subset
<1>2. IsWellFoundedOn(StrictSubsetOrdering(S), SUBSET S)
  BY <1>1, FS_StrictSubsetOrderingWellFounded, FS_FiniteSubsetsOfFinite
<1>3. T \subseteq SUBSET S /\ T # {}
  OBVIOUS
<1>4. PICK t \in T : \A u \in T : <<u, t>> \notin StrictSubsetOrdering(S)
  <2> HIDE DEF T
  <2> QED BY <1>2, <1>3, WFMin
<1>5. PICK x \in S : t = after(x)
  BY <1>4
<1>6. ASSUME NEW y \in S, y > x
      PROVE  FALSE
  <2>1. S \subseteq Nat
    BY ReservationAssumption DEF AttemptIds
  <2>2. after(y) \subseteq after(x)
    <3>1. \A z \in S : z > y => z > x
      BY <1>6, <2>1
    <3> QED
      BY <3>1
  <2>3. y \in after(x) /\ y \notin after(y)
    BY <1>6, <2>1
  <2>4. <<after(y), after(x)>> \in StrictSubsetOrdering(S)
    <3> HIDE DEF after
    <3>1. after(x) \in SUBSET S /\ after(y) \in SUBSET S
      BY DEF after
    <3> QED BY <2>2, <2>3, <3>1 DEF StrictSubsetOrdering
  <2> QED
    BY <1>4, <1>5, <2>4
<1>7. S \subseteq Nat
  BY ReservationAssumption DEF AttemptIds
<1> QED
  BY <1>6, <1>7

\* What a rebuild computes for a worker names a row that exists and its job's owner.
LEMMA HoldForType ==
  ASSUME TypeInv, NEW w \in Workers
  PROVE  \/ HoldFor(w) = NoHold /\ Unresolved(w) = {}
         \/ /\ HoldFor(w) \in Token
            /\ HoldFor(w).attempt \in Unresolved(w)
            /\ HoldFor(w).generation = generation[row[HoldFor(w).attempt].job]
<1>1. CASE Unresolved(w) = {}
  BY <1>1 DEF HoldFor
<1>2. CASE Unresolved(w) # {}
  <2> DEFINE a == CHOOSE x \in Unresolved(w) : \A y \in Unresolved(w) : y <= x
             t == [attempt |-> a, generation |-> generation[row[a].job]]
  <2>1. Unresolved(w) \in SUBSET AttemptIds
    BY DEF Unresolved
  <2>2. a \in Unresolved(w)
    BY <1>2, <2>1, NewestIsIn
  <2>3. HoldFor(w) = t
    BY <1>2 DEF HoldFor
  <2>4. a \in AttemptIds /\ row[a].job \in Jobs
    BY <2>2 DEF Unresolved, TypeInv, RowsOK
  <2> HIDE DEF a
  <2>5. t \in Token /\ t.attempt = a /\ t.generation = generation[row[a].job]
    BY <2>4 DEF Token, TypeInv, RestOK
  <2> HIDE DEF t
  <2> QED
    BY <2>2, <2>3, <2>5
<1> QED
  BY <1>1, <1>2

HoldsOK == hold' \in [Workers -> Token \cup {NoHold}]
           /\ registry' \in [Workers -> {"ABSENT", "IDLE", "BUSY", "DRAINING"}]

LEMMA ReleaseType ==
  ASSUME TypeInv, NEW w, NEW t, ReleaseIfToken(w, t)
  PROVE  HoldsOK
BY DEF ReleaseIfToken, TypeInv, RestOK, HoldsOK

\* Every step keeps the types of the registry and of the holds.
LEMMA HoldTypes ==
  ASSUME TypeInv, [Next]_vars
  PROVE  HoldsOK
<1>1. CASE UNCHANGED <<hold, registry>>
  BY <1>1 DEF TypeInv, RestOK, HoldsOK
<1>2. ASSUME NEW c \in Calls, ReserveStep(c) PROVE HoldsOK
  <2>1. ASSUME NEW w \in Workers, ClaimWorker(c, w) PROVE HoldsOK
    BY <2>1, BusyCall DEF ClaimWorker, Claim, At, Working, TypeInv, RestOK, HoldsOK
  <2>2. CASE ProbeRejects(c) \/ DropClaim(c)
    BY <1>1, <2>2, ReleaseType DEF ProbeRejects, DropClaim
  <2> QED
    BY <1>1, <1>2, <2>1, <2>2
    DEF ReserveStep, Prepare, NoWorkerFree, WaitExpires, BindAttemptWorker, BeginProcessing,
        LosesJob, redisVars, TooLate
<1>3. ASSUME NEW c \in Calls, PromptStep(c) PROVE UNCHANGED <<hold, registry>>
  BY <1>3 DEF PromptStep, SubmitIntent, Post, Accepted, Rejected, CallThrows, Settle,
     HandleFailure, Leave, LosesJob, redisVars, TooLate
<1>4. ASSUME NEW c \in Calls, AdoptStep(c) PROVE HoldsOK
  <2>1. CASE AdoptReservation(c)
    <3>1. TokenOf(c) \in Token
      BY <2>1, BusyCall DEF AdoptReservation, At, Working
    <3> QED
      BY <2>1, <3>1 DEF AdoptReservation, AdoptHold, TypeInv, RestOK, HoldsOK
  <2> QED
    BY <1>1, <1>4, <2>1
    DEF AdoptStep, AdoptLoads, SearchFinds, SearchGivesUp, SearchPending, PromptLost, redisVars
<1>5. ASSUME NEW c \in Calls, OwnerReviews(c) \/ ClaimThrows(c) PROVE UNCHANGED <<hold, registry>>
  BY <1>5 DEF OwnerReviews, ClaimThrows, redisVars
<1>6. ASSUME NEW k \in Reviewers, ReviewStep(k) PROVE HoldsOK
  BY <1>1, <1>6, ReleaseType
  DEF ReviewStep, SkipLiveOwner, Judge, QueueShows, QueueClean, Unreadable, HistoryRead,
      MarkResolved, ReleaseExact, redisVars
<1>7. ASSUME NEW w \in Workers, TickLists(w) \/ EditReads(w) PROVE UNCHANGED <<hold, registry>>
  BY <1>7 DEF TickLists, EditReads, redisVars
<1>8. ASSUME NEW a \in AttemptIds, RemoteStep(a) PROVE UNCHANGED <<hold, registry>>
  BY <1>8 DEF RemoteStep, Lands, Ends, DeadlinePasses, ResolveSuperseded, OnlyRemote, redisVars
<1>9. ASSUME NEW j \in Jobs, JobStep(j) PROVE UNCHANGED <<hold, registry>>
  BY <1>9 DEF JobStep, StartCall, CancelJob, LeaseExpires, redisVars
<1>10. CASE RebuildReads \/ Dies
  BY <1>1, <1>10 DEF RebuildReads, Dies, redisVars
<1>11. CASE RebuildRegisters
  BY <1>11 DEF RebuildRegisters, NoRebuild, TypeInv, RestOK, HoldsOK
<1>12. CASE RedisReset
  BY <1>12 DEF RedisReset, HoldsOK
<1>13. CASE EditWrites
  BY <1>13 DEF EditWrites, NoEdit, Edit, TypeInv, RestOK, HoldsOK
<1>14. CASE UNCHANGED vars
  BY <1>1, <1>14 DEF vars, redisVars
<1> QED
  BY <1>1, <1>2, <1>3, <1>4, <1>5, <1>6, <1>7, <1>8, <1>9, <1>10, <1>11, <1>12, <1>13, <1>14
  DEF Next, CallStep, SystemStep

LEMMA LoadedType ==
  ASSUME NEW w \in Workers, NEW t \in Token, NEW scheduled \in BOOLEAN
  PROVE  Loaded(w, t, scheduled) \in Review
<1>1. VerdictOn(t.attempt, w) \in Verdict
  BY DEF VerdictOn, Verdict
<1> QED
  BY <1>1 DEF Loaded, Review

\* A review that goes on keeps its worker, its token and who asked for it.
LEMMA LookedType ==
  ASSUME TypeInv, NEW k \in Reviewers, review[k].pc # "idle",
         NEW pc \in {"loaded", "queue", "history", "resolve", "free"},
         NEW verdict \in Verdict, NEW late \in BOOLEAN,
         review' = [review EXCEPT ![k].pc = pc, ![k].verdict = verdict, ![k].late = late]
  PROVE  /\ ReviewsOK'
         /\ review'[k] = [review[k] EXCEPT !.pc = pc, !.verdict = verdict, !.late = late]
         /\ \A m \in Reviewers : m # k => review'[m] = review[m]
<1> DEFINE r == [review[k] EXCEPT !.pc = pc, !.verdict = verdict, !.late = late]
<1>1. review[k] \in Review
  BY BusyReview
<1>2. r \in Review
  BY <1>1 DEF Review
<1>3. review' = [review EXCEPT ![k] = r]
  OBVIOUS
<1> HIDE DEF r
<1>4. ReviewsOK' /\ review'[k] = r /\ \A m \in Reviewers : m # k => review'[m] = review[m]
  BY <1>2, <1>3 DEF TypeInv, ReviewsOK
<1> QED
  BY <1>4 DEF r

\* What a step of a review makes of it: it goes on, or is over.
GoesOn(k, pc, verdict, late) ==
  review' = [review EXCEPT ![k].pc = pc, ![k].verdict = verdict, ![k].late = late]

LEMMA ReviewMoves ==
  ASSUME TypeInv, NEW k \in Reviewers, ReviewStep(k)
  PROVE  /\ review[k].pc # "idle"
         /\ \/ review' = [review EXCEPT ![k] = NoReview]
            \/ \E pc \in {"queue", "history", "resolve", "free"}, verdict \in Verdict,
                  late \in BOOLEAN : GoesOn(k, pc, verdict, late)
<1>1. review[k].pc # "idle"
  BY DEF ReviewStep, SkipLiveOwner, Judge, QueueShows, QueueClean, Unreadable, HistoryRead,
     MarkResolved, ReleaseExact, InReview
<1>2. review[k] \in Review
  BY <1>1, BusyReview
<1>3. review[k].verdict \in Verdict /\ review[k].late \in BOOLEAN /\ "over" \in Verdict
  BY <1>2 DEF Review, Verdict
<1>4. ASSUME NEW pc \in {"queue", "history", "resolve", "free"}, Look(k, pc)
      PROVE  GoesOn(k, pc, review[k].verdict, review[k].late)
  BY <1>2, <1>4 DEF Look, GoesOn, Review, TypeInv, ReviewsOK
<1>5. ASSUME NEW pc \in {"queue", "history", "resolve", "free"}, Concludes(k, pc)
      PROVE  GoesOn(k, pc, "over", FALSE)
  BY <1>5 DEF Concludes, GoesOn
<1>6. ASSUME QueueClean(k)
      PROVE  GoesOn(k, "history", review[k].verdict, deadline[review[k].token.attempt] = "over")
  BY <1>2, <1>6 DEF QueueClean, GoesOn, Review, TypeInv, ReviewsOK
<1>7. \/ review' = [review EXCEPT ![k] = NoReview]
      \/ \E pc \in {"queue", "history", "resolve", "free"} : Look(k, pc) \/ Concludes(k, pc)
      \/ QueueClean(k)
  BY DEF ReviewStep, SkipLiveOwner, Judge, QueueShows, Unreadable, HistoryRead, MarkResolved,
     ReleaseExact, EndReview
<1>8. (deadline[review[k].token.attempt] = "over") \in BOOLEAN
  OBVIOUS
<1> QED
  BY <1>1, <1>3, <1>4, <1>5, <1>6, <1>7, <1>8

\* Every step keeps the types of the reviews.
LEMMA ReviewTypes ==
  ASSUME TypeInv, [Next]_vars
  PROVE  ReviewsOK'
<1>1. CASE UNCHANGED review
  BY <1>1 DEF TypeInv, ReviewsOK
<1>2. ASSUME NEW c \in Calls, OwnerReviews(c) PROVE ReviewsOK'
  <2>1. /\ TokenOf(c) \in Token /\ call[c].worker \in Workers
    BY <1>2, BusyCall DEF OwnerReviews, At, Working
  <2>2. Loaded(call[c].worker, TokenOf(c), FALSE) \in Review
    BY <2>1, LoadedType
  <2> QED
    BY <1>2, <2>2 DEF OwnerReviews, TypeInv, ReviewsOK
<1>3. ASSUME NEW c \in Calls, AdoptLoads(c) PROVE ReviewsOK'
  <2> DEFINE a == active[c[1]]
             w == row[a].worker
             held == a # 0 /\ w # NoWorker /\ hold[w].attempt = a
  <2>1. CASE held /\ review' = [review EXCEPT ![c] = Loaded(w, hold[w], TRUE)]
    <3>1. a \in AttemptIds
      BY <2>1, CallNames, ReservationAssumption DEF TypeInv, RestOK, AttemptIds
    <3>2. w \in Workers
      BY <2>1, <3>1 DEF TypeInv, RowsOK, Row
    <3>3. hold[w] \in Token
      BY <2>1, <3>2 DEF TypeInv, RestOK, NoHold
    <3> HIDE DEF a, w
    <3> QED
      BY <2>1, <3>2, <3>3, LoadedType DEF TypeInv, ReviewsOK
  <2> QED
    BY <1>1, <1>3, <2>1 DEF AdoptLoads
<1>4. ASSUME NEW k \in Reviewers, ReviewStep(k) PROVE ReviewsOK'
  <2>1. CASE review' = [review EXCEPT ![k] = NoReview]
    BY <2>1 DEF TypeInv, ReviewsOK
  <2>2. ASSUME NEW pc \in {"queue", "history", "resolve", "free"}, NEW verdict \in Verdict,
               NEW late \in BOOLEAN, GoesOn(k, pc, verdict, late)
        PROVE  ReviewsOK'
    BY <1>4, <2>2, ReviewMoves, LookedType DEF GoesOn
  <2> QED
    BY <1>4, <2>1, <2>2, ReviewMoves
<1>5. ASSUME NEW w \in Workers, TickLists(w) PROVE ReviewsOK'
  <2>1. hold[w] \in Token
    BY <1>5 DEF TickLists, TypeInv, RestOK
  <2>2. Loaded(w, hold[w], TRUE) \in Review
    BY <2>1, LoadedType
  <2> QED
    BY <1>5, <2>2 DEF TickLists, TypeInv, ReviewsOK
<1>6. CASE Dies
  BY <1>6 DEF Dies, ReviewsOK
<1>7. ASSUME NEW c \in Calls, ReserveStep(c) PROVE UNCHANGED review
  BY <1>7 DEF ReserveStep, Prepare, ClaimWorker, NoWorkerFree, WaitExpires, ProbeRejects,
     BindAttemptWorker, BeginProcessing, DropClaim, OnlyCalls, TooLate
<1>8. ASSUME NEW c \in Calls, PromptStep(c) PROVE UNCHANGED review
  BY <1>8 DEF PromptStep, SubmitIntent, Post, Accepted, Rejected, CallThrows, Settle,
     HandleFailure, Leave, OnlyCalls, TooLate
<1>9. ASSUME NEW c \in Calls, AdoptStep(c) \/ ClaimThrows(c), ~AdoptLoads(c) PROVE UNCHANGED review
  BY <1>9 DEF AdoptStep, AdoptReservation, SearchFinds, SearchGivesUp, SearchPending, PromptLost,
     ClaimThrows, OnlyCalls
<1>10. ASSUME NEW a \in AttemptIds, RemoteStep(a) PROVE UNCHANGED review
  BY <1>10 DEF RemoteStep, Lands, Ends, DeadlinePasses, ResolveSuperseded, OnlyRemote
<1>11. ASSUME NEW j \in Jobs, JobStep(j) PROVE UNCHANGED review
  BY <1>11 DEF JobStep, StartCall, CancelJob, LeaseExpires, OnlyCalls
<1>12. ASSUME \/ RebuildReads \/ RebuildRegisters \/ RedisReset \/ EditWrites \/ UNCHANGED vars
              \/ \E w \in Workers : EditReads(w)
       PROVE  UNCHANGED review
  BY <1>12 DEF RebuildReads, RebuildRegisters, RedisReset, EditWrites, EditReads, vars
<1> QED
  BY <1>1, <1>2, <1>3, <1>4, <1>5, <1>6, <1>7, <1>8, <1>9, <1>10, <1>11, <1>12
  DEF Next, CallStep, SystemStep

JobsOK == /\ generation' \in [Jobs -> 0 .. MaxGeneration]
          /\ live' \subseteq Jobs /\ inflight' \subseteq Jobs /\ finished' \subseteq Jobs
          /\ active' \in [Jobs -> 0 .. MaxAttempts]

\* Every step keeps the types of the jobs.
LEMMA JobTypes ==
  ASSUME TypeInv, [Next]_vars
  PROVE  JobsOK
<1> USE DEF TypeInv, RestOK, JobsOK, jobVars
<1>1. CASE UNCHANGED jobVars
  BY <1>1
<1>2. ASSUME NEW c \in Calls, ReserveStep(c) PROVE JobsOK
  <2>1. CASE Prepare(c)
    <3>1. CASE LosesJob(c, "leave")
      BY <1>1, <3>1 DEF LosesJob
    <3>2. CASE ~LosesJob(c, "leave")
      <4>1. PICK a \in Unused(c[1]) \cup NextRow :
              /\ active' = [active EXCEPT ![c[1]] = a]
              /\ UNCHANGED <<generation, live, inflight, finished>>
        BY <2>1, <3>2 DEF Prepare
      <4>2. a \in 0 .. MaxAttempts
        BY <4>1, ReservationAssumption DEF Unused, NextRow, AttemptIds
      <4> QED
        BY <4>1, <4>2
    <3> QED
      BY <3>1, <3>2
  <2>2. CASE NoWorkerFree(c) \/ WaitExpires(c) \/ BeginProcessing(c)
    BY <2>2, CallNames DEF NoWorkerFree, WaitExpires, BeginProcessing, Retired, LosesJob, TooLate
  <2> QED
    BY <1>1, <1>2, <2>1, <2>2
    DEF ReserveStep, ClaimWorker, ProbeRejects, BindAttemptWorker, DropClaim, LosesJob
<1>3. ASSUME NEW c \in Calls, PromptStep(c) PROVE JobsOK
  <2>1. CASE Settle(c) \/ HandleFailure(c) \/ Leave(c)
    BY <2>1, CallNames DEF Settle, HandleFailure, Leave, Retired, LosesJob, TooLate
  <2> QED
    BY <1>1, <1>3, <2>1
    DEF PromptStep, SubmitIntent, Post, Accepted, Rejected, CallThrows, LosesJob
<1>4. ASSUME NEW c \in Calls, AdoptStep(c) \/ OwnerReviews(c) \/ ClaimThrows(c)
      PROVE  UNCHANGED jobVars
  BY <1>4 DEF AdoptStep, AdoptLoads, AdoptReservation, SearchFinds, SearchGivesUp,
     SearchPending, PromptLost, OwnerReviews, ClaimThrows, OnlyReview
<1>5. ASSUME NEW k \in Reviewers, ReviewStep(k) PROVE UNCHANGED jobVars
  BY <1>5 DEF ReviewStep, SkipLiveOwner, Judge, QueueShows, QueueClean, Unreadable, HistoryRead,
     MarkResolved, ReleaseExact, OnlyReview
<1>6. ASSUME NEW a \in AttemptIds, RemoteStep(a) PROVE UNCHANGED jobVars
  BY <1>6 DEF RemoteStep, Lands, Ends, DeadlinePasses, ResolveSuperseded, OnlyRemote, OnlyReview
<1>7. ASSUME NEW j \in Jobs, StartCall(j) PROVE JobsOK
  <2>1. generation[j] + 1 \in 0 .. MaxGeneration
    BY <1>7, ReservationAssumption DEF StartCall
  <2> QED
    BY <1>7, <2>1 DEF StartCall
<1>8. ASSUME NEW j \in Jobs, CancelJob(j) \/ LeaseExpires(j) PROVE JobsOK
  BY <1>8 DEF CancelJob, LeaseExpires, Retired
<1>9. ASSUME \/ SystemStep \/ UNCHANGED vars
             \/ \E w \in Workers : TickLists(w) \/ EditReads(w)
      PROVE  UNCHANGED jobVars
  BY <1>9 DEF SystemStep, RebuildReads, RebuildRegisters, Dies, RedisReset, EditWrites,
     TickLists, EditReads, OnlyReview, vars
<1> QED
  BY <1>1, <1>2, <1>3, <1>4, <1>5, <1>6, <1>7, <1>8, <1>9 DEF Next, CallStep, JobStep

RemotesOK == /\ remote' \in [AttemptIds -> Remote]
             /\ deadline' \in [AttemptIds -> {"unset", "open", "over"}]

\* Every step keeps the types of the prompts and of their deadlines.
LEMMA RemoteTypes ==
  ASSUME TypeInv, [Next]_vars
  PROVE  RemotesOK
<1> USE DEF TypeInv, RestOK, RemotesOK, rowVars
<1>1. CASE UNCHANGED <<remote, deadline>>
  BY <1>1
<1>2. ASSUME NEW c \in Calls, ReserveStep(c) PROVE UNCHANGED <<remote, deadline>>
  BY <1>2 DEF ReserveStep, Prepare, ClaimWorker, NoWorkerFree, WaitExpires, ProbeRejects,
     BindAttemptWorker, BeginProcessing, DropClaim, LosesJob, TooLate
<1>3. ASSUME NEW c \in Calls, PromptStep(c) PROVE RemotesOK
  <2>1. CASE Post(c) \/ Rejected(c)
    BY <2>1 DEF Post, Rejected, Remote
  <2> QED
    BY <1>1, <1>3, <2>1
    DEF PromptStep, SubmitIntent, Accepted, CallThrows, Settle, HandleFailure, Leave, LosesJob,
        TooLate
<1>4. ASSUME NEW c \in Calls, AdoptStep(c) PROVE RemotesOK
  <2>1. CASE AdoptReservation(c)
    BY <2>1 DEF AdoptReservation
  <2> QED
    BY <1>1, <1>4, <2>1
    DEF AdoptStep, AdoptLoads, SearchFinds, SearchGivesUp, SearchPending, PromptLost
<1>5. ASSUME NEW c \in Calls, OwnerReviews(c) \/ ClaimThrows(c) PROVE UNCHANGED <<remote, deadline>>
  BY <1>5 DEF OwnerReviews, ClaimThrows
<1>6. ASSUME NEW k \in Reviewers, ReviewStep(k) PROVE RemotesOK
  <2>1. CASE Judge(k)
    BY <2>1 DEF Judge
  <2> QED
    BY <1>1, <1>6, <2>1
    DEF ReviewStep, SkipLiveOwner, QueueShows, QueueClean, Unreadable, HistoryRead, MarkResolved,
        ReleaseExact
<1>7. ASSUME NEW a \in AttemptIds, RemoteStep(a) PROVE RemotesOK
  BY <1>7 DEF RemoteStep, Lands, Ends, DeadlinePasses, ResolveSuperseded, Remote
<1>8. ASSUME NEW j \in Jobs, JobStep(j) PROVE UNCHANGED <<remote, deadline>>
  BY <1>8 DEF JobStep, StartCall, CancelJob, LeaseExpires
<1>9. ASSUME \/ SystemStep \/ UNCHANGED vars
             \/ \E w \in Workers : TickLists(w) \/ EditReads(w)
      PROVE  UNCHANGED <<remote, deadline>>
  BY <1>9 DEF SystemStep, RebuildReads, RebuildRegisters, Dies, RedisReset, EditWrites,
     TickLists, EditReads, vars
<1> QED
  BY <1>1, <1>2, <1>3, <1>4, <1>5, <1>6, <1>7, <1>8, <1>9 DEF Next, CallStep

SystemOK == /\ admission' \in BOOLEAN /\ up' \in BOOLEAN
            /\ rebuild' \in [Workers -> Token \cup {NoHold}] \cup {NoRebuild}
            /\ edit' \in Edit \cup {NoEdit}
            /\ torn' \subseteq Workers
            /\ troubles' \in 0 .. MaxTroubles

\* Every step keeps the types of the process, the admin and the troubles.
LEMMA SystemTypes ==
  ASSUME TypeInv, [Next]_vars
  PROVE  SystemOK
<1> DEFINE quiet == UNCHANGED <<admission, up, rebuild, edit, torn>>
<1>1. (\E kind \in Kinds : Trouble(kind)) \/ UNCHANGED troubles => troubles' \in 0 .. MaxTroubles
  BY ReservationAssumption DEF Trouble, TypeInv, RestOK
<1>2. quiet /\ ((\E kind \in Kinds : Trouble(kind)) \/ UNCHANGED troubles) => SystemOK
  BY <1>1 DEF TypeInv, RestOK, SystemOK
<1> USE DEF Kinds, redisVars, OnlyCalls, OnlyReview
<1>3. ASSUME NEW c \in Calls, ReserveStep(c) PROVE SystemOK
  BY <1>2, <1>3 DEF ReserveStep, Prepare, ClaimWorker, NoWorkerFree, WaitExpires, ProbeRejects,
     BindAttemptWorker, BeginProcessing, DropClaim, LosesJob, TooLate
<1>4. ASSUME NEW c \in Calls, PromptStep(c) PROVE SystemOK
  BY <1>2, <1>4 DEF PromptStep, SubmitIntent, Post, Accepted, Rejected, CallThrows, Settle,
     HandleFailure, Leave, LosesJob, TooLate
<1>5. ASSUME NEW c \in Calls, AdoptStep(c) PROVE SystemOK
  BY <1>2, <1>5 DEF AdoptStep, AdoptLoads, AdoptReservation, SearchFinds, SearchGivesUp,
     SearchPending, PromptLost
<1>6. ASSUME NEW c \in Calls, OwnerReviews(c) \/ ClaimThrows(c) PROVE SystemOK
  BY <1>2, <1>6 DEF OwnerReviews, ClaimThrows
<1>7. ASSUME NEW k \in Reviewers, ReviewStep(k) PROVE SystemOK
  <2>1. CASE Judge(k)
    <3>1. UNCHANGED <<admission, up, rebuild, edit, troubles>>
      BY <2>1 DEF Judge
    <3>2. review[k].worker \in Workers
      BY <2>1, BusyReview DEF Judge, InReview
    <3>3. torn' \in {torn, torn \cup {review[k].worker}}
      BY <2>1 DEF Judge
    <3> QED
      BY <3>1, <3>2, <3>3 DEF TypeInv, RestOK, SystemOK
  <2> QED
    BY <1>2, <1>7, <2>1 DEF ReviewStep, SkipLiveOwner, QueueShows, QueueClean, Unreadable,
       HistoryRead, MarkResolved, ReleaseExact
<1>8. ASSUME NEW a \in AttemptIds, RemoteStep(a) PROVE SystemOK
  BY <1>2, <1>8 DEF RemoteStep, Lands, Ends, DeadlinePasses, ResolveSuperseded, OnlyRemote
<1>9. ASSUME NEW j \in Jobs, JobStep(j) PROVE SystemOK
  BY <1>2, <1>9 DEF JobStep, StartCall, CancelJob, LeaseExpires
<1>10. ASSUME NEW w \in Workers, TickLists(w) PROVE SystemOK
  BY <1>2, <1>10 DEF TickLists
<1>11. ASSUME NEW w \in Workers, EditReads(w) PROVE SystemOK
  <2>1. registry[w] \in {"IDLE", "BUSY", "DRAINING"}
    BY <1>11 DEF EditReads, TypeInv, RestOK
  <2>2. edit' \in Edit
    BY <1>11, <2>1 DEF EditReads, Edit
  <2>3. UNCHANGED <<admission, up, rebuild>> /\ Trouble("edit")
    BY <1>11 DEF EditReads
  <2>4. UNCHANGED torn
    BY <1>11 DEF EditReads
  <2> QED
    BY <1>1, <2>2, <2>3, <2>4 DEF TypeInv, RestOK, SystemOK
<1>12. CASE RebuildReads
  <2>1. rebuild' \in [Workers -> Token \cup {NoHold}]
    BY <1>12, HoldForType DEF RebuildReads
  <2> QED
    BY <1>12, <2>1 DEF RebuildReads, TypeInv, RestOK, SystemOK
<1>13. CASE RebuildRegisters
  BY <1>13 DEF RebuildRegisters, TypeInv, RestOK, SystemOK
<1>14. CASE Dies \/ RedisReset
  BY <1>1, <1>14 DEF Dies, RedisReset, TypeInv, RestOK, SystemOK
<1>15. CASE EditWrites
  BY <1>15 DEF EditWrites, TypeInv, RestOK, SystemOK
<1>16. CASE UNCHANGED vars
  BY <1>2, <1>16 DEF vars
<1> QED
  BY <1>3, <1>4, <1>5, <1>6, <1>7, <1>8, <1>9, <1>10, <1>11, <1>12, <1>13, <1>14, <1>15, <1>16
  DEF Next, CallStep, SystemStep

LEMMA TypeStep == TypeInv /\ [Next]_vars => TypeInv'
BY CallTypes, RowTypes, ReviewTypes, HoldTypes, JobTypes, RemoteTypes, SystemTypes
DEF TypeInv, RestOK, HoldsOK, JobsOK, RemotesOK, SystemOK

LEMMA TypeInit == Init => TypeInv
<1> SUFFICES ASSUME Init PROVE TypeInv
  OBVIOUS
<1> USE ReservationAssumption DEF Init
<1>1. CallsOK
  BY DEF CallsOK, CallType, NoCall, WellPlaced, Working
<1>2. RowsOK /\ NamesOK
  BY DEF RowsOK, NamesOK, NoRow, Row, RowState, NoCall
<1>3. ReviewsOK
  BY DEF ReviewsOK
<1>4. RestOK
  <2>1. /\ 0 \in 0 .. MaxGeneration /\ 0 \in 0 .. MaxAttempts /\ 0 \in 0 .. MaxTroubles
    OBVIOUS
  <2>2. remote \in [AttemptIds -> Remote]
    BY DEF Remote
  <2> QED
    BY <2>1, <2>2 DEF RestOK
<1> QED
  BY <1>1, <1>2, <1>3, <1>4 DEF TypeInv

LEMMA TypeAlways == Spec => []TypeInv
BY TypeInit, TypeStep, PTL DEF Spec

\* The registry, the holds, the rows, the calls and the reviews are of their types, whatever
\* troubles there are.
THEOREM ReservationTypeCorrect == Spec => []ResvTypeOK
<1>1. TypeInv => ResvTypeOK
  BY DEF TypeInv, CallsOK, CallType, RowsOK, ReviewsOK, RestOK, ResvTypeOK
<1> QED
  BY <1>1, TypeAlways, PTL


-----------------------------------------------------------------------------
(* What the rows say is true *)

\* Nothing of the attempt has been sent.
Unsent(a) == row[a].state \in {"ABSENT", "PREPARING"}

\* The prompt has ended, or the time is over in which it could have arrived.
Ended(a) == remote[a] \in {"history", "gone"} \/ (remote[a] = "none" /\ deadline[a] = "over")

RowTruth(a) ==
  /\ row[a].resolved => Ended(a)
  /\ row[a].receipt => remote[a] \in {"working", "history", "gone"}
  /\ Unsent(a) => remote[a] = "none" /\ deadline[a] = "unset" /\ ~row[a].receipt
  /\ ~Unsent(a) => row[a].worker # NoWorker
  /\ deadline[a] = "over" => remote[a] # "posted"

RowsTellTruth == \A a \in AttemptIds : RowTruth(a)

\* Generations are given in order, and the newest call of a job has its active attempt.
CallsInOrder ==
  \A c \in Calls :
    /\ call[c].pc # "idle" => c[2] <= generation[c[1]]
    /\ call[c].attempt # 0 /\ c[2] = generation[c[1]] => active[c[1]] = call[c].attempt

\* A call that asks about a hold waits for the answer.
OwnReviews ==
  \A c \in Calls : review[c].pc # "idle" =>
    IF review[c].scheduled THEN At(c, "clear")
    ELSE At(c, "release") /\ review[c].token = TokenOf(c) /\ review[c].worker = call[c].worker

\* Where the prompt of a call is; and nobody else posts it.
Placed(c) ==
  LET a == call[c].attempt IN
  /\ At(c, "post") => ~Unsent(a) /\ remote[a] = "none" /\ deadline[a] # "over"
  /\ At(c, "answer") => remote[a] # "none"
  /\ call[c].pc \in {"rekey", "search"} => ~Unsent(a) /\ row[a].worker = call[c].worker

Posting ==
  /\ \A c \in Calls : Placed(c)
  /\ \A c, d \in Calls :
       At(c, "post") /\ At(d, "post") /\ call[c].attempt = call[d].attempt => c = d

\* What a review has seen stays so.
SeenTruly(r) ==
  LET a == r.token.attempt IN
  /\ r.verdict = "known" => row[a].receipt
  /\ r.verdict = "unknown" => ~Unsent(a)
  /\ r.verdict = "over" /\ r.pc = "loaded" => row[a].resolved
  /\ r.pc \in {"queue", "history"} => r.verdict \in {"known", "unknown"}
  /\ r.pc = "history" /\ (r.verdict = "known" \/ r.late) => Ended(a)
  /\ r.pc = "resolve" => Ended(a)

ReviewsTellTruth == \A k \in Reviewers : review[k].pc # "idle" => SeenTruly(review[k])

TruthInv == TypeInv /\ RowsTellTruth /\ CallsInOrder /\ OwnReviews /\ Posting /\ ReviewsTellTruth

\* What no step takes back.
RowStays(a) ==
  /\ row[a].job \in Jobs => row'[a].job = row[a].job
  /\ ~Unsent(a) => row'[a].state \notin {"ABSENT", "PREPARING"} /\ row'[a].worker = row[a].worker
  /\ row[a].receipt => row'[a].receipt
  /\ row[a].resolved => row'[a].resolved
  /\ Ended(a) => \/ remote'[a] \in {"history", "gone"}
                 \/ remote'[a] = "none" /\ deadline'[a] = "over"
  /\ remote[a] # "none" => remote'[a] # "none"

\* A step that keeps the rows true, and takes nothing back.
RowStep(a) == RowStays(a) /\ RowTruth(a)'

LEMMA RowUnchanged ==
  ASSUME TruthInv, NEW a \in AttemptIds, UNCHANGED <<row[a], remote[a], deadline[a]>>
  PROVE  RowStep(a)
BY DEF RowStep, RowStays, RowTruth, Unsent, Ended, TruthInv, RowsTellTruth

\* Steps that write one row, and nothing about its prompt.
LEMMA RowWritten ==
  ASSUME TruthInv, NEW a \in AttemptIds, NEW r \in Row,
         row' = [row EXCEPT ![a] = r], UNCHANGED <<remote, deadline>>,
         r.job = row[a].job \/ row[a].job \notin Jobs,
         \/ Unsent(a) /\ ~r.receipt /\ ~r.resolved
                      /\ (r.state \notin {"ABSENT", "PREPARING"} => r.worker # NoWorker)
         \/ /\ r.state \notin {"ABSENT", "PREPARING"} /\ ~Unsent(a)
            /\ r.worker = row[a].worker
            /\ row[a].receipt => r.receipt
            /\ r.receipt => row[a].receipt \/ remote[a] \in {"working", "history", "gone"}
            /\ row[a].resolved => r.resolved
            /\ r.resolved => Ended(a),
         NEW b \in AttemptIds
  PROVE  RowStep(b)
<1>1. CASE b # a
  BY <1>1, RowUnchanged DEF TruthInv, TypeInv, RowsOK
<1>2. CASE b = a
  <2>1. row'[a] = r
    BY DEF TruthInv, TypeInv, RowsOK
  <2> QED
    BY <1>2, <2>1 DEF RowStep, RowStays, RowTruth, Unsent, Ended, TruthInv, RowsTellTruth
<1> QED
  BY <1>1, <1>2

LEMMA ReserveTruth ==
  ASSUME TruthInv, NEW c \in Calls, ReserveStep(c), NEW b \in AttemptIds
  PROVE  RowStep(b)
<1> USE DEF TruthInv, TypeInv, RowsOK
<1>1. CASE UNCHANGED rowVars
  BY <1>1, RowUnchanged DEF rowVars
<1>2. CASE Prepare(c) /\ ~LosesJob(c, "leave")
  <2> DEFINE r == [NoRow EXCEPT !.state = "PREPARING", !.job = c[1]]
  <2>1. PICK a \in Unused(c[1]) \cup NextRow :
          row' = [row EXCEPT ![a] = r] /\ UNCHANGED <<remote, deadline>>
    BY <1>2 DEF Prepare
  <2>2. a \in AttemptIds /\ Unsent(a) /\ (row[a].job = c[1] \/ row[a].state = "ABSENT")
    BY DEF Unused, NextRow, Unsent
  <2>3. r \in Row /\ r.job = c[1] /\ r.state = "PREPARING" /\ ~r.receipt /\ ~r.resolved
    BY CallNames DEF Row, RowState, NoRow
  <2> HIDE DEF r
  <2> QED
    BY <2>1, <2>2, <2>3, RowWritten
<1>3. CASE BindAttemptWorker(c) /\ ~LosesJob(c, "drop")
  <2> DEFINE a == call[c].attempt
             r == [row[a] EXCEPT !.worker = call[c].worker]
  <2>1. /\ row[a].state = "PREPARING" /\ call[c].pc = "probe" /\ UNCHANGED <<remote, deadline>>
        /\ row' = [row EXCEPT ![a].worker = call[c].worker]
    BY <1>3 DEF BindAttemptWorker, RowOf, At
  <2>2. a \in AttemptIds /\ Unsent(a) /\ call[c].worker \in Workers
    BY <2>1, BusyCall DEF Unsent, Working
  <2>3. row[a] \in Row /\ ~row[a].receipt /\ ~row[a].resolved
    BY <2>2 DEF RowsTellTruth, RowTruth, Row, Ended
  <2>4. r \in Row /\ r.job = row[a].job /\ r.state = "PREPARING" /\ ~r.receipt /\ ~r.resolved
    BY <2>1, <2>2, <2>3 DEF Row
  <2>5. row' = [row EXCEPT ![a] = r]
    BY <2>1, <2>2
  <2> HIDE DEF a, r
  <2> QED
    BY <2>1, <2>2, <2>4, <2>5, RowWritten
<1> QED
  BY <1>1, <1>2, <1>3
  DEF ReserveStep, Prepare, ClaimWorker, NoWorkerFree, WaitExpires, ProbeRejects,
      BindAttemptWorker, BeginProcessing, DropClaim, LosesJob, rowVars, TooLate

\* The job's accepted attempt is closed; as succeeded only if its prompt has ended.
LEMMA OutcomeTruth ==
  ASSUME TruthInv, NEW j \in Jobs, NEW done \in BOOLEAN, AttemptOutcome(j, done),
         UNCHANGED <<remote, deadline>>, done => active[j] # 0 /\ Ended(active[j]),
         NEW b \in AttemptIds
  PROVE  RowStep(b)
<1> DEFINE a == active[j]
           st == IF done THEN "SUCCEEDED" ELSE "FAILED"
<1>1. CASE UNCHANGED row
  BY <1>1, RowUnchanged
<1>2. CASE ~UNCHANGED row
  <2>1. /\ a # 0 /\ row[a].state = "ACCEPTED"
        /\ row' = [row EXCEPT ![a].state = st, ![a].resolved = @ \/ done]
    BY <1>2 DEF AttemptOutcome
  <2>2. a \in AttemptIds
    BY <2>1, ReservationAssumption DEF TruthInv, TypeInv, RestOK, AttemptIds
  <2>3. row[a] \in Row /\ (row[a].resolved \/ done) \in BOOLEAN
    BY <2>2 DEF TruthInv, TypeInv, RowsOK
  <2>4. PICK over \in BOOLEAN : over = (row[a].resolved \/ done)
    BY <2>3
  <2> DEFINE r == [row[a] EXCEPT !.state = st, !.resolved = over]
  <2>5. row' = [row EXCEPT ![a] = r]
    BY <2>1, <2>2, <2>3, <2>4 DEF TruthInv, TypeInv, RowsOK
  <2>6. /\ r \in Row /\ r.job = row[a].job /\ r.worker = row[a].worker
        /\ r.receipt = row[a].receipt /\ r.resolved = over
        /\ r.state \notin {"ABSENT", "PREPARING"}
    BY <2>3 DEF Row, RowState
  <2>7. ~Unsent(a)
    BY <2>1 DEF Unsent
  <2>8. over => Ended(a)
    BY <2>2, <2>4 DEF TruthInv, RowsTellTruth, RowTruth
  <2>9. row[a].resolved => over
    BY <2>4
  <2> HIDE DEF a, st, r
  <2> QED
    BY <2>2, <2>5, <2>6, <2>7, <2>8, <2>9, RowWritten
<1> QED
  BY <1>1, <1>2

\* A prompt that is known of gets its receipt.
LEMMA ReceiptTruth ==
  ASSUME TruthInv, NEW a \in AttemptIds, RecordReceipt(a), remote[a] \in {"working", "history"},
         UNCHANGED <<remote, deadline>>, NEW b \in AttemptIds
  PROVE  RowStep(b)
<1> DEFINE r == [row[a] EXCEPT !.receipt = TRUE]
<1>1. row[a] \in Row /\ row' = [row EXCEPT ![a] = r]
  BY DEF RecordReceipt, TruthInv, TypeInv, RowsOK
<1>2. /\ r \in Row /\ r.job = row[a].job /\ r.worker = row[a].worker /\ r.state = row[a].state
      /\ r.resolved = row[a].resolved /\ r.receipt
  BY <1>1 DEF Row
<1>3. ~Unsent(a) /\ (row[a].resolved => Ended(a))
  BY DEF TruthInv, RowsTellTruth, RowTruth
<1> HIDE DEF r
<1> QED
  BY <1>1, <1>2, <1>3, RowWritten DEF Unsent

\* An attempt whose prompt has ended is resolved, and maybe closed.
LEMMA ResolvedTruth ==
  ASSUME TruthInv, NEW a \in AttemptIds, Ended(a), ~Unsent(a),
         NEW st \in RowState \ {"ABSENT", "PREPARING"},
         row' = [row EXCEPT ![a] = [row[a] EXCEPT !.state = st, !.resolved = TRUE]],
         UNCHANGED <<remote, deadline>>, NEW b \in AttemptIds
  PROVE  RowStep(b)
<1> DEFINE r == [row[a] EXCEPT !.state = st, !.resolved = TRUE]
<1>1. row[a] \in Row
  BY DEF TruthInv, TypeInv, RowsOK
<1>2. /\ r \in Row /\ r.job = row[a].job /\ r.worker = row[a].worker /\ r.state = st
      /\ r.receipt = row[a].receipt /\ r.resolved
  BY <1>1 DEF Row
<1> HIDE DEF r
<1> QED
  BY <1>2, RowWritten DEF r

LEMMA PromptTruth ==
  ASSUME TruthInv, NEW c \in Calls, PromptStep(c), NEW b \in AttemptIds
  PROVE  RowStep(b)
<1> DEFINE a == call[c].attempt
<1> USE DEF TruthInv, TypeInv
<1>1. CASE UNCHANGED rowVars
  BY <1>1, RowUnchanged DEF rowVars, RowsOK
<1>2. CASE SubmitIntent(c) /\ ~LosesJob(c, "release")
  <2> DEFINE r == [row[a] EXCEPT !.state = "SUBMITTING"]
  <2>1. /\ row[a].state = "PREPARING" /\ call[c].pc = "submit" /\ UNCHANGED <<remote, deadline>>
        /\ row' = [row EXCEPT ![a].state = "SUBMITTING"] /\ row[a].worker = call[c].worker
    BY <1>2 DEF SubmitIntent, RowOf, At
  <2>2. a \in AttemptIds /\ Unsent(a) /\ call[c].worker \in Workers
    BY <2>1, BusyCall DEF Unsent, Working
  <2>3. row[a] \in Row /\ ~row[a].receipt /\ ~row[a].resolved
    BY <2>2 DEF RowsTellTruth, RowTruth, Row, Ended, RowsOK
  <2>4. /\ r \in Row /\ r.job = row[a].job /\ r.worker = row[a].worker
        /\ ~r.receipt /\ ~r.resolved
    BY <2>3 DEF Row, RowState
  <2>5. row' = [row EXCEPT ![a] = r] /\ r.worker # NoWorker
    BY <2>1, <2>2, <2>4, ReservationAssumption DEF RowsOK
  <2> HIDE DEF a, r
  <2> QED
    BY <2>2, <2>4, <2>5, <2>1, RowWritten
<1>3. CASE Post(c)
  <2>1. call[c].pc = "post" /\ remote' = [remote EXCEPT ![a] = "posted"] /\ UNCHANGED <<row, deadline>>
    BY <1>3 DEF Post, At
  <2>2. a \in AttemptIds
    BY <2>1, BusyCall DEF Working
  <2>3. ~Unsent(a) /\ remote[a] = "none" /\ deadline[a] # "over"
    BY <2>1 DEF Posting, Placed, At
  <2>4. CASE b = a
    BY <2>1, <2>2, <2>3, <2>4
    DEF RowStep, RowStays, RowTruth, Unsent, Ended, RowsTellTruth, RestOK
  <2>5. CASE b # a
    BY <2>1, <2>2, <2>5, RowUnchanged DEF RestOK
  <2> QED
    BY <2>4, <2>5
<1>4. CASE Accepted(c) /\ ~UNCHANGED row
  <2> DEFINE r == [row[a] EXCEPT !.state = "ACCEPTED", !.receipt = TRUE]
  <2>1. /\ call[c].pc = "answer" /\ remote[a] \in {"working", "history"}
        /\ row' = [row EXCEPT ![a].state = "ACCEPTED", ![a].receipt = TRUE]
        /\ UNCHANGED <<remote, deadline>>
    BY <1>4 DEF Accepted, At
  <2>2. a \in AttemptIds
    BY <2>1, BusyCall DEF Working
  <2>3. ~Unsent(a) /\ row[a] \in Row /\ (row[a].resolved => Ended(a))
    BY <2>1, <2>2 DEF RowsTellTruth, RowTruth, RowsOK
  <2>4. /\ r \in Row /\ r.job = row[a].job /\ r.worker = row[a].worker
        /\ r.receipt /\ r.resolved = row[a].resolved /\ r.state = "ACCEPTED"
    BY <2>3 DEF Row, RowState
  <2>5. row' = [row EXCEPT ![a] = r]
    BY <2>1, <2>2, <2>3 DEF RowsOK
  <2> HIDE DEF a, r
  <2> QED
    BY <2>1, <2>2, <2>3, <2>4, <2>5, RowWritten
<1>5. CASE Rejected(c)
  <2>1. /\ call[c].pc = "answer" /\ remote[a] = "posted"
        /\ remote' = [remote EXCEPT ![a] = "gone"] /\ UNCHANGED deadline
        /\ row' = IF row[a].state = "SUBMITTING"
                  THEN [row EXCEPT ![a].state = "FAILED", ![a].resolved = TRUE] ELSE row
    BY <1>5 DEF Rejected, At
  <2>2. a \in AttemptIds
    BY <2>1, BusyCall DEF Working
  <2>3. row[a] \in Row
    BY <2>2 DEF RowsOK
  <2>4. CASE b = a
    <3>1. remote'[a] = "gone"
      BY <2>1, <2>2 DEF RestOK
    <3>2. /\ row'[a].job = row[a].job /\ row'[a].worker = row[a].worker
          /\ row'[a].receipt = row[a].receipt /\ (row[a].resolved => row'[a].resolved)
          /\ row'[a].state \in {row[a].state, "FAILED"}
      BY <2>1, <2>2, <2>3 DEF RowsOK, Row
    <3> QED
      BY <2>1, <2>2, <2>4, <3>1, <3>2
      DEF RowStep, RowStays, RowTruth, Unsent, Ended, RowsTellTruth
  <2>5. CASE b # a
    BY <2>1, <2>2, <2>5, RowUnchanged DEF RestOK, RowsOK
  <2> QED
    BY <2>4, <2>5
<1>6. CASE Settle(c) /\ ~UNCHANGED rowVars
  <2>1. /\ call[c].pc = "wait" /\ remote[a] = "history" /\ Owns(c)
        /\ AttemptOutcome(c[1], TRUE) /\ UNCHANGED <<remote, deadline>>
    BY <1>6 DEF Settle, At, TooLate, LosesJob
  <2>2. a = active[c[1]] /\ a # 0
    BY <2>1, BusyCall, ReservationAssumption DEF Working, Owns, CallsInOrder, AttemptIds
  <2>3. Ended(a)
    BY <2>1 DEF Ended
  <2> HIDE DEF a
  <2> QED
    BY <2>1, <2>2, <2>3, OutcomeTruth, CallNames
<1>7. CASE HandleFailure(c) /\ ~UNCHANGED rowVars
  BY <1>7, OutcomeTruth, CallNames DEF HandleFailure, LosesJob, TooLate
<1> QED
  BY <1>1, <1>2, <1>3, <1>4, <1>5, <1>6, <1>7
  DEF PromptStep, SubmitIntent, Accepted, CallThrows, Settle, Leave, LosesJob, rowVars, TooLate

LEMMA AdoptTruth ==
  ASSUME TruthInv, NEW c \in Calls, AdoptStep(c), NEW b \in AttemptIds
  PROVE  RowStep(b)
<1> DEFINE a == call[c].attempt
<1> USE DEF TruthInv, TypeInv
<1>1. CASE UNCHANGED rowVars
  BY <1>1, RowUnchanged DEF rowVars, RowsOK
<1>2. CASE AdoptReservation(c) /\ ~UNCHANGED rowVars
  <2>1. /\ call[c].pc = "rekey" /\ deadline[a] = "unset" /\ UNCHANGED <<row, remote>>
        /\ deadline' = [deadline EXCEPT ![a] = "open"]
    BY <1>2 DEF AdoptReservation, At, rowVars
  <2>2. a \in AttemptIds /\ ~Unsent(a)
    BY <2>1, BusyCall DEF Working, Posting, Placed
  <2>3. CASE b = a
    BY <2>1, <2>2, <2>3 DEF RowStep, RowStays, RowTruth, Unsent, Ended, RowsTellTruth, RestOK
  <2>4. CASE b # a
    BY <2>1, <2>2, <2>4, RowUnchanged DEF RestOK
  <2> QED
    BY <2>3, <2>4
<1>3. CASE SearchFinds(c)
  <2>1. /\ call[c].pc = "search" /\ remote[a] \in {"working", "history"}
        /\ RecordReceipt(a) /\ UNCHANGED <<remote, deadline>>
    BY <1>3 DEF SearchFinds, At
  <2>2. a \in AttemptIds
    BY <2>1, BusyCall DEF Working
  <2> HIDE DEF a
  <2> QED
    BY <2>1, <2>2, ReceiptTruth
<1>4. CASE SearchGivesUp(c)
  <2> DEFINE st == IF row[a].state = "SUBMITTING" THEN "UNKNOWN_RETRIED" ELSE row[a].state
  <2>1. /\ call[c].pc = "search" /\ UNCHANGED <<remote, deadline>>
        /\ remote[a] \notin {"working", "history"} /\ deadline[a] = "over"
        /\ row' = [row EXCEPT ![a].resolved = TRUE,
                              ![a].state = IF @ = "SUBMITTING" THEN "UNKNOWN_RETRIED" ELSE @]
    BY <1>4 DEF SearchGivesUp, At
  <2>2. a \in AttemptIds /\ ~Unsent(a)
    BY <2>1, BusyCall DEF Working, Posting, Placed
  <2>3. row[a] \in Row
    BY <2>2 DEF RowsOK
  <2>4. st \in RowState \ {"ABSENT", "PREPARING"}
    BY <2>2, <2>3 DEF Row, RowState, Unsent
  <2>5. Ended(a)
    BY <2>1, <2>2 DEF Ended, RowsTellTruth, RowTruth, RestOK, Remote
  <2>6. row' = [row EXCEPT ![a] = [row[a] EXCEPT !.state = st, !.resolved = TRUE]]
    BY <2>1, <2>2, <2>3 DEF RowsOK
  <2> HIDE DEF a, st
  <2> QED
    BY <2>1, <2>2, <2>4, <2>5, <2>6, ResolvedTruth
<1> QED
  BY <1>1, <1>2, <1>3, <1>4
  DEF AdoptStep, AdoptLoads, AdoptReservation, SearchPending, PromptLost, rowVars

\* A deadline is set once, after the prompt was sent.
LEMMA DeadlineTruth ==
  ASSUME TruthInv, NEW a \in AttemptIds, ~Unsent(a), deadline[a] = "unset",
         deadline' = [deadline EXCEPT ![a] = "open"], UNCHANGED <<row, remote>>,
         NEW b \in AttemptIds
  PROVE  RowStep(b)
<1>1. CASE b = a
  BY <1>1 DEF RowStep, RowStays, RowTruth, Unsent, Ended, TruthInv, RowsTellTruth, TypeInv, RestOK
<1>2. CASE b # a
  BY <1>2, RowUnchanged DEF TruthInv, TypeInv, RestOK
<1> QED
  BY <1>1, <1>2

LEMMA ReviewTruth ==
  ASSUME TruthInv, NEW k \in Reviewers, ReviewStep(k), NEW b \in AttemptIds
  PROVE  RowStep(b)
<1> DEFINE a == review[k].token.attempt
<1> USE DEF TruthInv, TypeInv
<1>1. CASE UNCHANGED rowVars
  BY <1>1, RowUnchanged DEF rowVars
<1>2. CASE Judge(k) /\ ~UNCHANGED rowVars
  <2>1. /\ review[k].pc = "loaded" /\ review[k].verdict = "unknown" /\ deadline[a] = "unset"
        /\ deadline' = [deadline EXCEPT ![a] = "open"] /\ UNCHANGED <<row, remote>>
    BY <1>2 DEF Judge, InReview, rowVars
  <2>2. a \in AttemptIds /\ ~Unsent(a)
    BY <2>1, BusyReview DEF ReviewsTellTruth, SeenTruly
  <2> HIDE DEF a
  <2> QED
    BY <2>1, <2>2, DeadlineTruth
<1>3. CASE (QueueShows(k) \/ HistoryRead(k)) /\ ~UNCHANGED rowVars
  <2>1. /\ review[k].pc \in {"queue", "history"} /\ remote[a] \in {"working", "history"}
        /\ RecordReceipt(a) /\ UNCHANGED <<remote, deadline>>
    BY <1>3 DEF QueueShows, HistoryRead, InReview, rowVars
  <2>2. a \in AttemptIds
    BY <2>1, BusyReview
  <2> HIDE DEF a
  <2> QED
    BY <2>1, <2>2, ReceiptTruth
<1>4. CASE MarkResolved(k)
  <2>1. /\ review[k].pc = "resolve" /\ UNCHANGED <<remote, deadline>>
        /\ row' = [row EXCEPT ![a].resolved = TRUE]
    BY <1>4 DEF MarkResolved, InReview
  <2>2. a \in AttemptIds /\ Ended(a)
    BY <2>1, BusyReview DEF ReviewsTellTruth, SeenTruly
  <2>3. ~Unsent(a) /\ row[a] \in Row
    BY <2>2 DEF RowsTellTruth, RowTruth, Ended, RowsOK
  <2>4. row[a].state \in RowState \ {"ABSENT", "PREPARING"}
    BY <2>3 DEF Row, Unsent
  <2>5. row' = [row EXCEPT ![a] = [row[a] EXCEPT !.state = row[a].state, !.resolved = TRUE]]
    BY <2>1, <2>2, <2>3 DEF RowsOK, Row
  <2> HIDE DEF a
  <2> QED
    BY <2>1, <2>2, <2>3, <2>4, <2>5, ResolvedTruth
<1> QED
  BY <1>1, <1>2, <1>3, <1>4
  DEF ReviewStep, SkipLiveOwner, Judge, QueueShows, QueueClean, Unreadable, HistoryRead,
      MarkResolved, ReleaseExact, rowVars

LEMMA RemoteTruth ==
  ASSUME TruthInv, NEW a \in AttemptIds, RemoteStep(a), NEW b \in AttemptIds
  PROVE  RowStep(b)
<1> USE DEF TruthInv, TypeInv
<1>1. CASE Lands(a) \/ Ends(a) \/ DeadlinePasses(a)
  <2>1. CASE b # a
    BY <1>1, <2>1, RowUnchanged DEF Lands, Ends, DeadlinePasses, OnlyRemote, RestOK
  <2>2. CASE b = a
    BY <1>1, <2>2
    DEF Lands, Ends, DeadlinePasses, OnlyRemote, RestOK, RowStep, RowStays, RowTruth, Unsent,
        Ended, RowsTellTruth
  <2> QED
    BY <2>1, <2>2
<1>2. CASE ResolveSuperseded(a)
  <2>1. /\ row' = [row EXCEPT ![a].resolved = TRUE] /\ UNCHANGED <<remote, deadline>>
        /\ ~Unsent(a) /\ Ended(a)
    BY <1>2 DEF ResolveSuperseded, Unsent, Ended
  <2>2. row[a] \in Row
    BY DEF RowsOK
  <2>3. row[a].state \in RowState \ {"ABSENT", "PREPARING"}
    BY <2>1, <2>2 DEF Row, Unsent
  <2>4. row' = [row EXCEPT ![a] = [row[a] EXCEPT !.state = row[a].state, !.resolved = TRUE]]
    BY <2>1, <2>2 DEF RowsOK, Row
  <2> QED
    BY <2>1, <2>2, <2>3, <2>4, ResolvedTruth
<1> QED
  BY <1>1, <1>2 DEF RemoteStep

\* Whatever happens, the rows are true, and nothing that is known of a prompt is taken back.
LEMMA RowSteps ==
  ASSUME TruthInv, [Next]_vars
  PROVE  \A b \in AttemptIds : RowStep(b)
<1> SUFFICES ASSUME NEW b \in AttemptIds PROVE RowStep(b)
  OBVIOUS
<1>1. ASSUME NEW c \in Calls, CallStep(c) PROVE RowStep(b)
  BY <1>1, ReserveTruth, PromptTruth, AdoptTruth, RowUnchanged
  DEF CallStep, OwnerReviews, ClaimThrows, rowVars
<1>2. ASSUME NEW j \in Jobs, JobStep(j) PROVE RowStep(b)
  BY <1>2, RowUnchanged DEF JobStep, StartCall, CancelJob, LeaseExpires, rowVars
<1>3. ASSUME \/ SystemStep \/ UNCHANGED vars
             \/ \E w \in Workers : TickLists(w) \/ EditReads(w)
      PROVE  UNCHANGED rowVars
  BY <1>3 DEF SystemStep, RebuildReads, RebuildRegisters, Dies, RedisReset, EditWrites,
     TickLists, EditReads, vars
<1> QED
  BY <1>1, <1>2, <1>3, ReviewTruth, RemoteTruth, RowUnchanged DEF Next, rowVars

-----------------------------------------------------------------------------
(* Who moves what *)

\* A call moves itself, and no other.
LEMMA OtherCalls ==
  ASSUME TypeInv, NEW c \in Calls, CallStep(c)
  PROVE  /\ call[c].pc # "idle"
         /\ call[c].pc \in {"clear", "release"} => OwnerReviews(c)
         /\ \A d \in Calls : d # c => call'[d] = call[d]
<1> USE DEF TypeInv, CallsOK
<1>1. CASE ReserveStep(c)
  BY <1>1 DEF ReserveStep, Prepare, ClaimWorker, NoWorkerFree, WaitExpires, ProbeRejects,
     BindAttemptWorker, BeginProcessing, DropClaim, LosesJob, Goto, At, TooLate
<1>2. CASE PromptStep(c) \/ ClaimThrows(c)
  BY <1>2 DEF PromptStep, SubmitIntent, Post, Accepted, Rejected, CallThrows, Settle,
     HandleFailure, Leave, ClaimThrows, LosesJob, Goto, At, TooLate
<1>3. CASE AdoptStep(c)
  BY <1>3 DEF AdoptStep, AdoptLoads, AdoptReservation, SearchFinds, SearchGivesUp,
     SearchPending, PromptLost, Goto, At
<1>4. CASE OwnerReviews(c)
  BY <1>4 DEF OwnerReviews, At
<1> QED
  BY <1>1, <1>2, <1>3, <1>4 DEF CallStep

\* A review goes on, and no call moves; or it is over, and the call that made it moves.
LEMMA ReviewWays ==
  ASSUME TypeInv, NEW k \in Reviewers, ReviewStep(k)
  PROVE  \/ EndReview(k)
         \/ /\ UNCHANGED call
            /\ \E pc \in {"queue", "history", "resolve", "free"}, verdict \in Verdict,
                  late \in BOOLEAN : GoesOn(k, pc, verdict, late)
<1>1. EndReview(k) \/ (UNCHANGED call /\ ~EndReview(k))
  BY DEF ReviewStep, SkipLiveOwner, Judge, QueueShows, QueueClean, Unreadable, HistoryRead,
     MarkResolved, ReleaseExact
<1>2. CASE UNCHANGED call /\ ~EndReview(k)
  <2>1. \/ \E pc \in {"queue", "history", "resolve", "free"} : Look(k, pc) \/ Concludes(k, pc)
        \/ QueueClean(k)
    BY <1>2 DEF ReviewStep, SkipLiveOwner, Judge, QueueShows, Unreadable, HistoryRead,
       MarkResolved, ReleaseExact
  <2>2. review[k].pc # "idle" /\ review[k] \in Review
    BY ReviewMoves, BusyReview
  <2>3. /\ review[k].verdict \in Verdict /\ review[k].late \in BOOLEAN /\ "over" \in Verdict
        /\ (deadline[review[k].token.attempt] = "over") \in BOOLEAN
    BY <2>2 DEF Review, Verdict
  <2>4. ASSUME NEW pc \in {"queue", "history", "resolve", "free"}, Look(k, pc)
        PROVE  GoesOn(k, pc, review[k].verdict, review[k].late)
    BY <2>2, <2>4 DEF Look, GoesOn, Review, TypeInv, ReviewsOK
  <2>5. ASSUME NEW pc \in {"queue", "history", "resolve", "free"}, Concludes(k, pc)
        PROVE  GoesOn(k, pc, "over", FALSE)
    BY <2>5 DEF Concludes, GoesOn
  <2>6. ASSUME QueueClean(k)
        PROVE  GoesOn(k, "history", review[k].verdict, deadline[review[k].token.attempt] = "over")
    BY <2>2, <2>6 DEF QueueClean, GoesOn, Review, TypeInv, ReviewsOK
  <2> QED
    BY <1>2, <2>1, <2>3, <2>4, <2>5, <2>6
<1> QED
  BY <1>1, <1>2

LEMMA ReviewedCalls ==
  ASSUME TypeInv, OwnReviews, NEW k \in Reviewers, ReviewStep(k), NEW d \in Calls
  PROVE  \/ call'[d] = call[d]
         \/ /\ k = d /\ review'[d] = NoReview /\ Keeps(d)
            /\ call[d].pc \in {"clear", "release"}
            /\ call'[d].pc = IF call[d].pc = "clear" THEN "prepare" ELSE "leave"
<1>1. review[k].pc # "idle"
  BY ReviewMoves
<1>2. CASE UNCHANGED call
  BY <1>2
<1>3. CASE EndReview(k) /\ k = d
  <2>1. call[d].pc \in {"clear", "release"}
    BY <1>1, <1>3 DEF OwnReviews, At
  <2>2. call' = [call EXCEPT ![d].pc = IF @ = "clear" THEN "prepare" ELSE "leave"]
    BY <1>3 DEF EndReview
  <2>3. review'[d] = NoReview
    BY <1>3 DEF EndReview, TypeInv, ReviewsOK
  <2> QED
    BY <1>3, <2>1, <2>2, <2>3, CallRecords DEF AnyCall, Keeps
<1>4. CASE EndReview(k) /\ k # d
  BY <1>4, CallRecords DEF EndReview
<1> QED
  BY <1>2, <1>3, <1>4, ReviewWays

\* A new call has nothing yet, and its place was free.
LEMMA StartedCall ==
  ASSUME TruthInv, NEW j \in Jobs, StartCall(j)
  PROVE  \E c \in Calls :
           /\ c = <<j, generation[j] + 1>> /\ c[1] = j /\ c[2] = generation[j] + 1
           /\ call[c].pc = "idle" /\ review[c].pc = "idle"
           /\ call'[c].pc \in {"adopt", "prepare"}
           /\ call'[c].attempt = 0 /\ call'[c].worker = NoWorker
           /\ \A d \in Calls : d # c => call'[d] = call[d]
           /\ generation' = [generation EXCEPT ![j] = c[2]]
           /\ generation[j] \in Nat /\ generation[j] < c[2]
<1> DEFINE g == generation[j] + 1
           c == <<j, g>>
<1>1. g \in 1 .. MaxGeneration /\ generation[j] \in Nat /\ generation[j] < g
  BY ReservationAssumption DEF TruthInv, TypeInv, RestOK, StartCall
<1>2. c \in Calls /\ c[1] = j /\ c[2] = g
  BY <1>1 DEF Calls
<1>3. call[c].pc = "idle"
  <2>1. ~(g <= generation[j])
    BY <1>1
  <2> QED
    BY <1>2, <2>1 DEF TruthInv, CallsInOrder
<1>4. review[c].pc = "idle"
  BY <1>2, <1>3 DEF TruthInv, OwnReviews, At
<1>5. generation' = [generation EXCEPT ![j] = g]
  BY DEF StartCall
<1>6. PICK p \in {"adopt", "prepare"} : call' = [call EXCEPT ![c] = [NoCall EXCEPT !.pc = p]]
  BY DEF StartCall
<1> HIDE DEF g, c
<1>7. /\ call'[c].pc = p /\ call'[c].attempt = 0 /\ call'[c].worker = NoWorker
      /\ \A d \in Calls : d # c => call'[d] = call[d]
  <2> DEFINE q == [NoCall EXCEPT !.pc = p]
  <2>1. q.pc = p /\ q.attempt = 0 /\ q.worker = NoWorker
    BY DEF NoCall
  <2>2. call' = [call EXCEPT ![c] = q]
    BY <1>6
  <2> HIDE DEF q
  <2> QED
    BY <1>2, <2>1, <2>2, CallRecords DEF TruthInv
<1>8. c = <<j, generation[j] + 1>> /\ g = generation[j] + 1
  BY DEF g, c
<1> QED
  BY <1>1, <1>2, <1>3, <1>4, <1>5, <1>6, <1>7, <1>8

\* The steps that move no call.
LEMMA CallsStill ==
  ASSUME \/ \E w \in Workers : TickLists(w) \/ EditReads(w)
         \/ \E a \in AttemptIds : RemoteStep(a)
         \/ \E j \in Jobs : CancelJob(j) \/ LeaseExpires(j)
         \/ RebuildReads \/ RebuildRegisters \/ RedisReset \/ EditWrites \/ UNCHANGED vars
  PROVE  UNCHANGED <<call, generation, active>>
BY DEF TickLists, EditReads, RemoteStep, Lands, Ends, DeadlinePasses, ResolveSuperseded,
   OnlyRemote, OnlyReview, OnlyCalls, CancelJob, LeaseExpires, RebuildReads, RebuildRegisters,
   RedisReset, EditWrites, jobVars, vars

LEMMA GenerationKept ==
  ASSUME NEW c \in Calls, CallStep(c)
  PROVE  generation' = generation
<1>1. CASE ReserveStep(c)
  BY <1>1 DEF ReserveStep, Prepare, ClaimWorker, NoWorkerFree, WaitExpires, ProbeRejects,
     BindAttemptWorker, BeginProcessing, DropClaim, LosesJob, jobVars, TooLate
<1>2. CASE PromptStep(c) \/ ClaimThrows(c)
  BY <1>2 DEF PromptStep, SubmitIntent, Post, Accepted, Rejected, CallThrows, Settle,
     HandleFailure, Leave, ClaimThrows, LosesJob, jobVars, TooLate
<1>3. CASE AdoptStep(c) \/ OwnerReviews(c)
  BY <1>3 DEF AdoptStep, AdoptLoads, AdoptReservation, SearchFinds, SearchGivesUp,
     SearchPending, PromptLost, OwnerReviews, OnlyReview, jobVars
<1> QED
  BY <1>1, <1>2, <1>3 DEF CallStep

LEMMA OrderStep ==
  ASSUME TruthInv, [Next]_vars
  PROVE  CallsInOrder'
<1> USE DEF TruthInv
<1>1. CASE UNCHANGED <<call, generation, active>>
  BY <1>1 DEF CallsInOrder
<1>2. ASSUME NEW c \in Calls, CallStep(c), ~Prepare(c) PROVE CallsInOrder'
  <2>1. \A d \in Calls : call'[d].pc # "idle" => call[d].pc # "idle"
    BY <1>2, OtherCalls
  <2> QED
    BY <1>2, <2>1, CallAttempts, GenerationKept DEF CallsInOrder
<1>3. ASSUME NEW c \in Calls, Prepare(c) PROVE CallsInOrder'
  <2>1. CallStep(c)
    BY <1>3 DEF CallStep, ReserveStep
  <2>2. CASE LosesJob(c, "leave")
    <3>1. UNCHANGED <<generation, active>> /\ Goto(c, "leave") /\ call[c].pc # "idle"
      BY <1>3, <2>2 DEF LosesJob, jobVars, Prepare, At
    <3> QED
      BY <3>1, GotoCall DEF CallsInOrder, Keeps
  <2>3. CASE ~LosesJob(c, "leave")
    <3>1. PICK a \in Nat :
            /\ Owns(c)
            /\ active' = [active EXCEPT ![c[1]] = a]
            /\ call' = [call EXCEPT ![c].pc = "claim", ![c].attempt = a]
      BY <1>3, <2>3 DEF Prepare, Unused, NextRow, AttemptIds
    <3>2. call'[c].attempt = a /\ call[c].pc # "idle"
      BY <1>3, <3>1, CallRecords DEF AnyCall, Prepare, At
    <3>3. \A d \in Calls : d # c => call'[d] = call[d]
      BY <2>1, OtherCalls
    <3>4. c[2] = generation[c[1]] /\ generation' = generation
      BY <2>1, <3>1, GenerationKept DEF Owns
    <3>5. active'[c[1]] = a /\ \A b \in Jobs : b # c[1] => active'[b] = active[b]
      BY <3>1, CallNames DEF TypeInv, RestOK
    <3>6. \A d \in Calls : d # c /\ d[2] = generation[d[1]] => d[1] # c[1]
      BY <3>4 DEF Calls
    <3> QED
      BY <3>2, <3>3, <3>4, <3>5, <3>6, CallNames DEF CallsInOrder
  <2> QED
    BY <2>2, <2>3
<1>4. ASSUME NEW k \in Reviewers, ReviewStep(k) PROVE CallsInOrder'
  <2>1. UNCHANGED <<generation, active>>
    BY <1>4 DEF ReviewStep, SkipLiveOwner, Judge, QueueShows, QueueClean, Unreadable,
       HistoryRead, MarkResolved, ReleaseExact, OnlyReview, jobVars
  <2>2. \A d \in Calls : call'[d].attempt = call[d].attempt
    BY <1>4, ReviewAttempts
  <2>3. \A d \in Calls : call'[d].pc # "idle" => call[d].pc # "idle"
    BY <1>4, ReviewedCalls
  <2> QED
    BY <2>1, <2>2, <2>3 DEF CallsInOrder
<1>5. ASSUME NEW j \in Jobs, StartCall(j) PROVE CallsInOrder'
  <2>1. PICK c \in Calls :
           /\ c[1] = j /\ c[2] = generation[j] + 1
           /\ call'[c].attempt = 0
           /\ \A d \in Calls : d # c => call'[d] = call[d]
           /\ generation' = [generation EXCEPT ![j] = c[2]]
           /\ generation[j] \in Nat /\ generation[j] < c[2]
    BY <1>5, StartedCall
  <2>2. active' = active
    BY <1>5 DEF StartCall
  <2>3. generation'[j] = c[2] /\ \A b \in Jobs : b # j => generation'[b] = generation[b]
    BY <2>1 DEF TypeInv, RestOK
  <2>4. \A d \in Calls : d[2] \in Nat /\ d[1] \in Jobs /\ (d # c => d[1] # j \/ d[2] # c[2])
    BY <2>1, ReservationAssumption DEF Calls
  <2>5. ASSUME NEW d \in Calls, call'[d].pc # "idle" PROVE d[2] <= generation'[d[1]]
    BY <2>1, <2>3, <2>4, <2>5 DEF CallsInOrder
  <2>6. ASSUME NEW d \in Calls, call'[d].attempt # 0, d[2] = generation'[d[1]]
        PROVE  active'[d[1]] = call'[d].attempt
    BY <2>1, <2>2, <2>3, <2>4, <2>6 DEF CallsInOrder
  <2> QED
    BY <2>5, <2>6 DEF CallsInOrder
<1>6. CASE Dies
  BY <1>6 DEF Dies, CallsInOrder, NoCall
<1> QED
  BY <1>1, <1>2, <1>3, <1>4, <1>5, <1>6, CallsStill DEF Next, JobStep, SystemStep

\* A call at its POST finds nothing sent, and its time not over, until it posts.
LEMMA PostWaits ==
  ASSUME TruthInv, [Next]_vars, NEW d \in Calls, At(d, "post"), ~Post(d)
  PROVE  remote'[call[d].attempt] = "none" /\ deadline'[call[d].attempt] # "over"
<1> DEFINE a == call[d].attempt
<1> USE DEF TruthInv, TypeInv, RestOK
<1>1. a \in AttemptIds
  BY BusyCall DEF At, Working
<1>2. remote[a] = "none" /\ deadline[a] # "over"
  BY DEF Posting, Placed
<1> HIDE DEF a
<1>3. CASE UNCHANGED <<remote, deadline>>
  BY <1>2, <1>3 DEF a
<1>4. ASSUME NEW c \in Calls, PromptStep(c) PROVE remote'[a] = "none" /\ deadline'[a] # "over"
  <2>1. CASE Post(c)
    <3>1. c # d /\ At(c, "post")
      BY <2>1 DEF Post
    <3>2. call[c].attempt # a
      BY <3>1 DEF a, Posting
    <3> QED
      BY <1>1, <1>2, <2>1, <3>2 DEF Post
  <2>2. CASE Rejected(c)
    BY <1>1, <1>2, <2>2 DEF Rejected
  <2> QED
    BY <1>2, <1>4, <2>1, <2>2
    DEF PromptStep, SubmitIntent, Accepted, CallThrows, Settle, HandleFailure, Leave, LosesJob,
        rowVars, TooLate
<1>5. ASSUME NEW c \in Calls, AdoptStep(c) PROVE remote'[a] = "none" /\ deadline'[a] # "over"
  BY <1>1, <1>2, <1>5
  DEF AdoptStep, AdoptLoads, AdoptReservation, SearchFinds, SearchGivesUp, SearchPending,
      PromptLost, rowVars
<1>6. ASSUME NEW k \in Reviewers, ReviewStep(k) PROVE remote'[a] = "none" /\ deadline'[a] # "over"
  BY <1>1, <1>2, <1>6
  DEF ReviewStep, SkipLiveOwner, Judge, QueueShows, QueueClean, Unreadable, HistoryRead,
      MarkResolved, ReleaseExact, rowVars
<1>7. ASSUME NEW b \in AttemptIds, RemoteStep(b) PROVE remote'[a] = "none" /\ deadline'[a] # "over"
  <2>1. CASE DeadlinePasses(b)
    <3>1. b # a
      BY <2>1 DEF DeadlinePasses, a
    <3> QED
      BY <1>1, <1>2, <2>1, <3>1 DEF DeadlinePasses
  <2>2. CASE Lands(b) \/ Ends(b)
    BY <1>1, <1>2, <2>2 DEF Lands, Ends
  <2> QED
    BY <1>2, <1>7, <2>1, <2>2 DEF RemoteStep, ResolveSuperseded
<1>8. ASSUME \/ \E c \in Calls : ReserveStep(c) \/ OwnerReviews(c) \/ ClaimThrows(c)
             \/ \E j \in Jobs : JobStep(j)
             \/ \E w \in Workers : TickLists(w) \/ EditReads(w)
             \/ SystemStep \/ UNCHANGED vars
      PROVE  UNCHANGED <<remote, deadline>>
  BY <1>8 DEF ReserveStep, Prepare, ClaimWorker, NoWorkerFree, WaitExpires, ProbeRejects,
     BindAttemptWorker, BeginProcessing, DropClaim, LosesJob, OwnerReviews, ClaimThrows,
     JobStep, StartCall, CancelJob, LeaseExpires, TickLists, EditReads, SystemStep, RebuildReads,
     RebuildRegisters, Dies, RedisReset, EditWrites, rowVars, vars, TooLate
<1> QED
  BY <1>3, <1>4, <1>5, <1>6, <1>7, <1>8 DEF Next, CallStep, a

\* How a call gets to its POST, its answer and its search.
LEMMA HotPlaces ==
  ASSUME TypeInv, NEW c \in Calls, CallStep(c), call'[c].pc \in {"post", "answer", "rekey", "search"}
  PROVE  \/ call'[c].pc = "post" /\ SubmitIntent(c)
         \/ call'[c].pc = "answer" /\ Post(c)
         \/ call'[c].pc = "rekey" /\ AdoptLoads(c)
         \/ call'[c].pc = "search" /\ AdoptReservation(c) /\ Goto(c, "search")
         \/ UNCHANGED call
<1>1. ASSUME NEW p \in {"claim", "prepare", "probe", "begin", "submit", "drop", "fail", "wait",
                        "leave", "release", "clear"},
             Goto(c, p)
      PROVE  FALSE
  BY <1>1, GotoCall
<1>2. CASE ReserveStep(c)
  <2>1. CASE Prepare(c)
    BY <1>1, <2>1, CallRecords DEF Prepare, LosesJob, AnyCall
  <2>2. ASSUME NEW w \in Workers, ClaimWorker(c, w) PROVE FALSE
    BY <2>2, CallRecords DEF ClaimWorker, AnyCall
  <2>3. CASE NoWorkerFree(c)
    <3>1. \/ Goto(c, "leave")
          \/ call' = [call EXCEPT ![c].tried = {}] /\ call[c].pc = "claim"
      BY <2>3 DEF NoWorkerFree, LosesJob, TooLate, At
    <3> QED
      BY <1>1, <3>1, CallRecords DEF AnyCall
  <2>4. CASE ProbeRejects(c)
    BY <2>4, CallRecords DEF ProbeRejects, AnyCall
  <2>5. CASE WaitExpires(c) \/ BindAttemptWorker(c) \/ BeginProcessing(c) \/ DropClaim(c)
    BY <1>1, <2>5 DEF WaitExpires, BindAttemptWorker, BeginProcessing, DropClaim, LosesJob,
                      TooLate
  <2> QED
    BY <1>2, <2>1, <2>2, <2>3, <2>4, <2>5 DEF ReserveStep
<1>3. CASE PromptStep(c) \/ ClaimThrows(c)
  <2>1. CASE SubmitIntent(c) \/ Post(c)
    BY <1>1, <2>1, GotoCall DEF SubmitIntent, Post, LosesJob
  <2>2. CASE Leave(c)
    BY <2>2 DEF Leave, NoCall, TypeInv, CallsOK
  <2>3. CASE HandleFailure(c)
    BY <1>1, <2>3 DEF HandleFailure, AfterFailure, LosesJob, TooLate
  <2> QED
    BY <1>1, <1>3, <2>1, <2>2, <2>3
    DEF PromptStep, Accepted, Rejected, CallThrows, Settle, ClaimThrows, LosesJob, TooLate
<1>4. CASE AdoptStep(c)
  <2>1. CASE AdoptLoads(c)
    <3>1. call'[c].pc = "rekey"
      <4>1. \/ \E b, w : call' = [call EXCEPT ![c].pc = "rekey", ![c].attempt = b, ![c].worker = w]
            \/ Goto(c, "clear") \/ Goto(c, "prepare")
        BY <2>1 DEF AdoptLoads
      <4> QED
        BY <1>1, <4>1, CallRecords DEF AnyCall
    <3> QED
      BY <2>1, <3>1
  <2>2. CASE AdoptReservation(c)
    BY <1>1, <2>2, GotoCall DEF AdoptReservation
  <2> QED
    BY <1>1, <1>4, <2>1, <2>2
    DEF AdoptStep, SearchFinds, SearchGivesUp, SearchPending, PromptLost
<1>5. CASE OwnerReviews(c)
  BY <1>5 DEF OwnerReviews
<1> QED
  BY <1>2, <1>3, <1>4, <1>5 DEF CallStep

\* The active attempt that an adopter takes over.
LEMMA AdoptedCall ==
  ASSUME TypeInv, NEW c \in Calls, AdoptLoads(c), call'[c].pc = "rekey"
  PROVE  /\ call'[c].attempt \in AttemptIds /\ call'[c].attempt = active[c[1]]
         /\ Adopts(call'[c].attempt)
         /\ call'[c].worker = row[call'[c].attempt].worker
         /\ UNCHANGED <<row, remote, deadline>>
<1> DEFINE a == active[c[1]]
<1>1. \/ /\ Adopts(a)
         /\ call' = [call EXCEPT ![c].pc = "rekey", ![c].attempt = a, ![c].worker = row[a].worker]
      \/ Goto(c, "clear") \/ Goto(c, "prepare")
  BY DEF AdoptLoads
<1>2. /\ Adopts(a)
      /\ call' = [call EXCEPT ![c].pc = "rekey", ![c].attempt = a, ![c].worker = row[a].worker]
  BY <1>1, GotoCall
<1>3. a \in AttemptIds
  BY <1>2, CallNames, ReservationAssumption DEF Adopts, TypeInv, RestOK, AttemptIds
<1>4. UNCHANGED <<row, remote, deadline>>
  BY DEF AdoptLoads, rowVars
<1> HIDE DEF a
<1>5. call'[c].attempt = a /\ call'[c].worker = row[a].worker
  BY <1>2, CallRecords DEF AnyCall
<1> QED
  BY <1>2, <1>3, <1>4, <1>5 DEF a

\* A call that stays where it is finds its prompt as it was.
LEMMA PlacedStill ==
  ASSUME TruthInv, [Next]_vars, NEW d \in Calls, call'[d].pc = call[d].pc, Keeps(d)
  PROVE  Placed(d)'
<1> DEFINE a == call[d].attempt
<1>1. call[d].pc \in {"post", "answer", "rekey", "search"} => a \in AttemptIds
  BY BusyCall DEF TruthInv, Working
<1>2. a \in AttemptIds => RowStays(a)
  BY RowSteps DEF RowStep
<1>3. ~At(d, "post") => Placed(d)'
  BY <1>1, <1>2 DEF Placed, RowStays, Keeps, At, Unsent, TruthInv, Posting
<1>4. CASE At(d, "post")
  <2>1. ~Post(d)
    BY <1>4, GotoCall DEF Post, TruthInv, At
  <2>2. remote'[a] = "none" /\ deadline'[a] # "over"
    BY <1>4, <2>1, PostWaits
  <2>3. ~Unsent(a)
    BY <1>4 DEF TruthInv, Posting, Placed
  <2> QED
    BY <1>1, <1>2, <1>4, <2>2, <2>3 DEF Placed, RowStays, Keeps, At, Unsent
<1> QED
  BY <1>3, <1>4

LEMMA CallPlaced ==
  ASSUME TruthInv, NEW c \in Calls, CallStep(c)
  PROVE  Placed(c)'
<1> DEFINE a == call[c].attempt
<1> USE DEF TruthInv
<1>0. [Next]_vars
  BY DEF Next
<1>1. CASE call'[c].pc \notin {"post", "answer", "rekey", "search"}
  BY <1>1 DEF Placed, At
<1>2. CASE call'[c].pc = "post" /\ SubmitIntent(c)
  <2>1. /\ call[c].pc = "submit" /\ row[a].state = "PREPARING" /\ UNCHANGED <<remote, deadline>>
        /\ row' = [row EXCEPT ![a].state = "SUBMITTING"] /\ Goto(c, "post")
    <3>1. ~LosesJob(c, "release")
      BY <1>2, GotoCall DEF LosesJob
    <3> QED
      BY <1>2, <3>1 DEF SubmitIntent, RowOf, At
  <2>2. a \in AttemptIds
    BY <2>1, BusyCall DEF Working
  <2>3. Keeps(c)
    BY <2>1, GotoCall
  <2>4. remote[a] = "none" /\ deadline[a] # "over"
    BY <2>1, <2>2 DEF RowsTellTruth, RowTruth, Unsent
  <2>5. row'[a].state = "SUBMITTING"
    BY <2>1, <2>2 DEF TypeInv, RowsOK, Row
  <2> QED
    BY <1>2, <2>1, <2>3, <2>4, <2>5 DEF Placed, Keeps, At, Unsent
<1>3. CASE call'[c].pc = "answer" /\ Post(c)
  <2>1. /\ call[c].pc = "post" /\ remote' = [remote EXCEPT ![a] = "posted"] /\ Goto(c, "answer")
    BY <1>3 DEF Post, At
  <2>2. a \in AttemptIds
    BY <2>1, BusyCall DEF Working
  <2>3. Keeps(c)
    BY <2>1, GotoCall
  <2> QED
    BY <1>3, <2>1, <2>2, <2>3 DEF Placed, Keeps, At, TypeInv, RestOK
<1>4. CASE call'[c].pc = "rekey" /\ AdoptLoads(c)
  BY <1>4, AdoptedCall DEF Placed, At, Unsent, Adopts
<1>5. CASE call'[c].pc = "search" /\ AdoptReservation(c) /\ Goto(c, "search")
  <2>1. call[c].pc = "rekey" /\ row' = row /\ Keeps(c)
    BY <1>5, GotoCall DEF AdoptReservation, At
  <2> QED
    BY <1>5, <2>1 DEF Placed, Keeps, At, Unsent, Posting
<1>6. CASE UNCHANGED call
  BY <1>0, <1>6, PlacedStill DEF Keeps
<1> QED
  BY <1>1, <1>2, <1>3, <1>4, <1>5, <1>6, HotPlaces

LEMMA PostingStep ==
  ASSUME TruthInv, [Next]_vars
  PROVE  Posting'
<1> USE DEF TruthInv
<1>1. CASE UNCHANGED call
  <2>1. \A c \in Calls : Placed(c)'
    BY <1>1, PlacedStill DEF Keeps
  <2> QED
    BY <1>1, <2>1 DEF Posting, At
<1>2. ASSUME NEW c \in Calls, CallStep(c) PROVE Posting'
  <2>1. \A d \in Calls : d # c => call'[d] = call[d]
    BY <1>2, OtherCalls
  <2>2. \A d \in Calls : d # c => Placed(d)'
    BY <2>1, PlacedStill DEF Keeps
  <2>3. Placed(c)'
    BY <1>2, CallPlaced
  <2>4. ASSUME NEW d \in Calls, call'[c].pc = "post", call'[d].pc = "post",
               call'[c].attempt = call'[d].attempt, c # d
        PROVE  FALSE
    <3>1. At(d, "post") /\ call[d].attempt = call'[c].attempt
      BY <2>1, <2>4 DEF At
    <3>2. CASE UNCHANGED call
      BY <2>4, <3>1, <3>2 DEF Posting, At
    <3>3. CASE SubmitIntent(c)
      <4>1. ~LosesJob(c, "release")
        BY <2>4, GotoCall DEF LosesJob
      <4>2. row[call[c].attempt].state = "PREPARING" /\ Goto(c, "post")
        BY <3>3, <4>1 DEF SubmitIntent, RowOf
      <4>3. call'[c].attempt = call[c].attempt
        BY <4>2, GotoCall DEF Keeps
      <4> QED
        BY <3>1, <4>2, <4>3 DEF Posting, Placed, Unsent
    <3> QED
      BY <1>2, <2>4, <3>2, <3>3, HotPlaces
  <2>5. \A d, e \in Calls : call'[d].pc = "post" /\ call'[e].pc = "post"
                            /\ call'[d].attempt = call'[e].attempt => d = e
    BY <2>1, <2>4 DEF Posting, At
  <2> QED
    BY <2>2, <2>3, <2>5 DEF Posting, At
<1>3. ASSUME NEW k \in Reviewers, ReviewStep(k) PROVE Posting'
  <2>1. \A d \in Calls : \/ call'[d] = call[d] /\ Placed(d)'
                         \/ call'[d].pc \in {"prepare", "leave"}
    BY <1>3, ReviewedCalls, PlacedStill DEF Keeps
  <2>2. \A d \in Calls : Placed(d)'
    BY <2>1 DEF Placed, At
  <2>3. \A d \in Calls : call'[d].pc = "post" => call'[d] = call[d]
    BY <2>1
  <2> QED
    BY <2>2, <2>3 DEF Posting, At
<1>4. ASSUME NEW j \in Jobs, StartCall(j) PROVE Posting'
  <2>1. PICK c \in Calls : /\ call'[c].pc \in {"adopt", "prepare"}
                           /\ \A d \in Calls : d # c => call'[d] = call[d]
    BY <1>4, StartedCall
  <2>2. \A d \in Calls : Placed(d)'
    BY <2>1, PlacedStill DEF Placed, At, Keeps
  <2>3. \A d \in Calls : call'[d].pc = "post" => call'[d] = call[d]
    BY <2>1
  <2> QED
    BY <2>2, <2>3 DEF Posting, At
<1>5. CASE Dies
  BY <1>5 DEF Dies, Posting, Placed, At, NoCall
<1> QED
  BY <1>1, <1>2, <1>3, <1>4, <1>5, CallsStill DEF Next, JobStep, SystemStep

\* What reviews are of: nothing but their own steps, the tick, the calls that ask, and the
\* end of the process change them.
LEMMA ReviewsStill ==
  ASSUME [Next]_vars
  PROVE  \/ UNCHANGED review
         \/ \E k \in Reviewers : ReviewStep(k)
         \/ \E w \in Workers : TickLists(w)
         \/ \E c \in Calls : AdoptLoads(c) \/ OwnerReviews(c)
         \/ Dies
<1>1. ASSUME NEW c \in Calls, CallStep(c) PROVE UNCHANGED review \/ AdoptLoads(c) \/ OwnerReviews(c)
  BY <1>1 DEF CallStep, ReserveStep, Prepare, ClaimWorker, NoWorkerFree, WaitExpires, ProbeRejects,
     BindAttemptWorker, BeginProcessing, DropClaim, PromptStep, SubmitIntent, Post, Accepted,
     Rejected, CallThrows, Settle, HandleFailure, Leave, AdoptStep, AdoptReservation, SearchFinds,
     SearchGivesUp, SearchPending, PromptLost, ClaimThrows, OnlyCalls, TooLate
<1>2. ASSUME NEW a \in AttemptIds, RemoteStep(a) PROVE UNCHANGED review
  BY <1>2 DEF RemoteStep, Lands, Ends, DeadlinePasses, ResolveSuperseded, OnlyRemote
<1>3. ASSUME NEW j \in Jobs, JobStep(j) PROVE UNCHANGED review
  BY <1>3 DEF JobStep, StartCall, CancelJob, LeaseExpires, OnlyCalls
<1>4. ASSUME \/ RebuildReads \/ RebuildRegisters \/ RedisReset \/ EditWrites \/ UNCHANGED vars
             \/ \E w \in Workers : EditReads(w)
      PROVE  UNCHANGED review
  BY <1>4 DEF RebuildReads, RebuildRegisters, RedisReset, EditWrites, EditReads, vars
<1> QED
  BY <1>1, <1>2, <1>3, <1>4 DEF Next, SystemStep

\* The reviews that a step begins.
LEMMA NewReview ==
  ASSUME TypeInv, [Next]_vars, NEW k \in Reviewers,
         \/ k \in Workers /\ TickLists(k)
         \/ k \in Calls /\ (AdoptLoads(k) \/ OwnerReviews(k)),
         review' # review
  PROVE  /\ \E w \in Workers, t \in Token, s \in BOOLEAN :
              /\ review' = [review EXCEPT ![k] = Loaded(w, t, s)]
              /\ review'[k] = Loaded(w, t, s)
              /\ \/ s /\ t = hold[w]
                 \/ ~s /\ k \in Calls /\ OwnerReviews(k) /\ t = TokenOf(k) /\ w = call[k].worker
         /\ \A m \in Reviewers : m # k => review'[m] = review[m]
         /\ UNCHANGED rowVars
<1> USE DEF TypeInv
<1>1. CASE k \in Workers /\ TickLists(k)
  <2>1. hold[k] \in Token
    BY <1>1 DEF TickLists, RestOK
  <2>2. review' = [review EXCEPT ![k] = Loaded(k, hold[k], TRUE)] /\ UNCHANGED rowVars
    BY <1>1 DEF TickLists
  <2> QED
    BY <1>1, <2>1, <2>2 DEF ReviewsOK
<1>2. CASE k \in Calls /\ OwnerReviews(k)
  <2>1. TokenOf(k) \in Token /\ call[k].worker \in Workers
    BY <1>2, BusyCall DEF OwnerReviews, At, Working
  <2>2. review' = [review EXCEPT ![k] = Loaded(call[k].worker, TokenOf(k), FALSE)]
        /\ UNCHANGED rowVars
    BY <1>2 DEF OwnerReviews
  <2> QED
    BY <1>2, <2>1, <2>2 DEF ReviewsOK
<1>3. CASE k \in Calls /\ AdoptLoads(k)
  <2> DEFINE a == active[k[1]]
             w == row[a].worker
  <2>1. /\ a # 0 /\ w # NoWorker /\ hold[w].attempt = a
        /\ review' = [review EXCEPT ![k] = Loaded(w, hold[w], TRUE)] /\ UNCHANGED rowVars
    BY <1>3 DEF AdoptLoads
  <2>2. a \in AttemptIds
    BY <1>3, <2>1, CallNames, ReservationAssumption DEF RestOK, AttemptIds
  <2>3. w \in Workers
    BY <2>1, <2>2 DEF RowsOK, Row
  <2>4. hold[w] \in Token
    BY <2>1, <2>2, <2>3 DEF RestOK, NoHold, AttemptIds
  <2> HIDE DEF a, w
  <2> QED
    BY <1>3, <2>1, <2>3, <2>4 DEF ReviewsOK
<1> QED
  BY <1>1, <1>2, <1>3

\* The row that a review has loaded says what its verdict is.
LEMMA LoadedTruth ==
  ASSUME TypeInv, NEW w \in Workers, NEW t \in Token, NEW s \in BOOLEAN
  PROVE  SeenTruly(Loaded(w, t, s)) /\ Loaded(w, t, s).pc = "loaded"
<1> DEFINE a == t.attempt
<1>1. a \in AttemptIds
  BY DEF Token
<1>2. row[a].state = "ABSENT" => row[a].worker = NoWorker
  BY <1>1 DEF TypeInv, RowsOK
<1>3. VerdictOn(a, w) = "known" => row[a].receipt
  BY DEF VerdictOn
<1>4. VerdictOn(a, w) = "over" => row[a].resolved
  BY DEF VerdictOn
<1>5. VerdictOn(a, w) = "unknown" => row[a].state # "PREPARING" /\ row[a].worker # NoWorker
  BY ReservationAssumption DEF VerdictOn
<1>6. /\ Loaded(w, t, s).pc = "loaded" /\ Loaded(w, t, s).verdict = VerdictOn(a, w)
      /\ Loaded(w, t, s).token = t
  BY DEF Loaded
<1> QED
  BY <1>2, <1>3, <1>4, <1>5, <1>6 DEF SeenTruly, Unsent

LEMMA SeenStays ==
  ASSUME TruthInv, [Next]_vars, NEW k \in Reviewers, review'[k] = review[k], review[k].pc # "idle"
  PROVE  SeenTruly(review[k])'
<1> DEFINE r == review[k]
           a == r.token.attempt
<1>1. a \in AttemptIds
  BY BusyReview DEF TruthInv
<1>2. RowStays(a)
  BY <1>1, RowSteps DEF RowStep
<1>3. SeenTruly(r)
  BY DEF TruthInv, ReviewsTellTruth
<1>4. /\ row[a].receipt => row'[a].receipt
      /\ ~Unsent(a) => ~Unsent(a)'
      /\ row[a].resolved => row'[a].resolved
      /\ Ended(a) => Ended(a)'
  BY <1>2 DEF RowStays, Unsent, Ended
<1> QED
  BY <1>3, <1>4 DEF SeenTruly

\* A review that goes on has seen what it says.
LEMMA SeenNext ==
  ASSUME TruthInv, NEW k \in Reviewers, ReviewStep(k), review'[k].pc # "idle"
  PROVE  SeenTruly(review[k])'
<1> DEFINE r == review[k]
           a == r.token.attempt
<1> USE DEF TruthInv
<1>1. r \in Review /\ a \in AttemptIds /\ r.pc # "idle"
  BY ReviewMoves, BusyReview
<1>2. RowStays(a)
  <2>1. [Next]_vars
    BY DEF Next
  <2> QED
    BY <1>1, <2>1, RowSteps DEF RowStep
<1>3. SeenTruly(r)
  BY <1>1 DEF ReviewsTellTruth
<1>4. ~EndReview(k)
  BY DEF EndReview, NoReview, TypeInv, ReviewsOK
<1>5. ASSUME NEW pc \in {"queue", "history", "resolve", "free"}, Look(k, pc)
      PROVE  review'[k].pc = pc /\ review'[k].token = r.token /\ review'[k].verdict = r.verdict
  BY <1>1, <1>5 DEF Look, Review, TypeInv, ReviewsOK
<1>6. ASSUME NEW pc \in {"queue", "history", "resolve", "free"}, Concludes(k, pc)
      PROVE  review'[k].pc = pc /\ review'[k].token = r.token /\ review'[k].verdict = "over"
             /\ ~review'[k].late
  BY <1>1, <1>6 DEF Concludes, Review, TypeInv, ReviewsOK
<1>7. CASE Judge(k)
  <2>1. \/ Concludes(k, "free")
        \/ Look(k, "queue") /\ r.verdict \in {"known", "unknown"}
    BY <1>4, <1>7 DEF Judge
  <2> QED
    BY <1>2, <1>3, <1>5, <1>6, <2>1 DEF SeenTruly, RowStays, Unsent
<1>8. CASE QueueClean(k)
  <2>1. /\ r.pc = "queue" /\ remote[a] # "working" /\ UNCHANGED <<row, remote, deadline>>
        /\ review' = [review EXCEPT ![k].pc = "history", ![k].late = deadline[a] = "over"]
    BY <1>8 DEF QueueClean, InReview, rowVars
  <2>2. /\ review'[k].pc = "history" /\ review'[k].token = r.token
        /\ review'[k].verdict = r.verdict
        /\ review'[k].late <=> deadline[a] = "over"
    BY <1>1, <2>1 DEF Review, TypeInv, ReviewsOK
  <2>3. r.verdict = "known" \/ deadline[a] = "over" => Ended(a)
    BY <1>1, <1>3, <2>1
    DEF SeenTruly, RowsTellTruth, RowTruth, Ended, TypeInv, RestOK, Remote
  <2> QED
    BY <1>3, <2>1, <2>2, <2>3 DEF SeenTruly, Unsent, Ended
<1>9. CASE HistoryRead(k)
  <2>1. ShownEnded(r) /\ Concludes(k, "resolve") /\ r.pc = "history" /\ UNCHANGED <<remote, deadline>>
    BY <1>4, <1>9 DEF HistoryRead, InReview
  <2>2. Ended(a)
    BY <1>3, <2>1 DEF SeenTruly, ShownEnded, Ended
  <2> QED
    BY <1>6, <2>1, <2>2 DEF SeenTruly, Ended
<1>10. CASE MarkResolved(k)
  BY <1>6, <1>10 DEF MarkResolved, SeenTruly
<1> QED
  BY <1>4, <1>7, <1>8, <1>9, <1>10
  DEF ReviewStep, SkipLiveOwner, QueueShows, Unreadable, ReleaseExact

LEMMA ReviewsTruth ==
  ASSUME TruthInv, [Next]_vars
  PROVE  ReviewsTellTruth'
<1> SUFFICES ASSUME NEW k \in Reviewers, review'[k].pc # "idle" PROVE SeenTruly(review[k])'
  BY DEF ReviewsTellTruth
<1> USE DEF TruthInv
<1>1. CASE review'[k] = review[k]
  BY <1>1, SeenStays
<1>2. CASE ReviewStep(k)
  BY <1>2, SeenNext
<1>3. ASSUME NEW m \in Reviewers, ReviewStep(m), m # k PROVE review'[k] = review[k]
  BY <1>3, ReviewMoves DEF GoesOn, TypeInv, ReviewsOK
<1>4. ASSUME NEW m \in Reviewers, review' # review,
             \/ m \in Workers /\ TickLists(m)
             \/ m \in Calls /\ (AdoptLoads(m) \/ OwnerReviews(m))
      PROVE  review'[k] = review[k] \/ SeenTruly(review[k])'
  <2>1. CASE m = k
    <3>1. PICK w \in Workers, t \in Token, s \in BOOLEAN : review'[k] = Loaded(w, t, s)
      BY <1>4, <2>1, NewReview
    <3>2. SeenTruly(Loaded(w, t, s)) /\ Loaded(w, t, s).pc = "loaded"
      BY LoadedTruth
    <3>3. UNCHANGED <<row, remote, deadline>>
      BY <1>4, NewReview DEF rowVars
    <3> QED
      BY <3>1, <3>2, <3>3 DEF SeenTruly, Unsent, Ended
  <2> QED
    BY <1>4, <2>1, NewReview
<1>5. CASE Dies
  BY <1>5 DEF Dies, NoReview
<1>6. Workers \subseteq Reviewers /\ Calls \subseteq Reviewers
  BY DEF Reviewers
<1> QED
  BY <1>1, <1>2, <1>3, <1>4, <1>5, <1>6, ReviewsStill

LEMMA OwnReviewsStep ==
  ASSUME TruthInv, [Next]_vars
  PROVE  OwnReviews'
<1> SUFFICES ASSUME NEW c \in Calls, review'[c].pc # "idle"
             PROVE  IF review'[c].scheduled THEN call'[c].pc = "clear"
                    ELSE /\ call'[c].pc = "release" /\ review'[c].token = TokenOf(c)'
                         /\ review'[c].worker = call'[c].worker
  BY DEF OwnReviews, At
<1> USE DEF TruthInv
<1>1. c \in Reviewers /\ c \notin Workers
  BY CallNames
<1>2. CASE review'[c] = review[c] /\ call'[c] = call[c]
  BY <1>2 DEF OwnReviews, At, TokenOf
<1>3. CASE review'[c] = review[c]
  <2>1. call[c].pc \in {"clear", "release"}
    BY <1>3 DEF OwnReviews, At
  <2>2. ASSUME NEW d \in Calls, CallStep(d) PROVE call'[c] = call[c]
    <3>1. CASE d = c
      BY <1>3, <2>1, <2>2, <3>1, OtherCalls DEF OwnerReviews
    <3> QED
      BY <2>2, <3>1, OtherCalls
  <2>3. ASSUME NEW k \in Reviewers, ReviewStep(k) PROVE call'[c] = call[c]
    BY <2>3, ReviewedCalls DEF NoReview
  <2>4. ASSUME NEW j \in Jobs, StartCall(j) PROVE call'[c] = call[c]
    BY <2>1, <2>4, StartedCall
  <2>5. ~Dies
    BY <1>1 DEF Dies, NoReview
  <2> QED
    BY <1>2, <1>3, <2>2, <2>3, <2>4, <2>5, CallsStill DEF Next, JobStep, SystemStep
<1>4. ASSUME NEW k \in Reviewers, ReviewStep(k), review'[c] # review[c]
      PROVE  call'[c] = call[c] /\ review'[c].token = review[c].token
             /\ review'[c].worker = review[c].worker
             /\ review'[c].scheduled = review[c].scheduled /\ review[c].pc # "idle"
  <2>1. k = c
    BY <1>1, <1>4, ReviewMoves DEF GoesOn, TypeInv, ReviewsOK
  <2>2. ~EndReview(c)
    BY <1>1 DEF EndReview, NoReview, TypeInv, ReviewsOK
  <2>3. PICK pc \in {"queue", "history", "resolve", "free"}, verdict \in Verdict,
             late \in BOOLEAN : GoesOn(c, pc, verdict, late)
    BY <1>1, <1>4, <2>1, <2>2, ReviewWays
  <2>4. review[c] \in Review /\ review[c].pc # "idle"
    BY <1>4, <2>1, ReviewMoves, BusyReview
  <2>5. UNCHANGED call
    BY <1>1, <1>4, <2>1, <2>2, ReviewWays
  <2> QED
    BY <1>1, <2>3, <2>4, <2>5 DEF GoesOn, Review, TypeInv, ReviewsOK
<1>5. ASSUME NEW w \in Workers, TickLists(w) PROVE review'[c] = review[c]
  BY <1>1, <1>5 DEF TickLists, TypeInv, ReviewsOK
<1>6. ASSUME NEW d \in Calls, AdoptLoads(d) \/ OwnerReviews(d), review'[c] # review[c]
      PROVE  IF review'[c].scheduled THEN call'[c].pc = "clear"
             ELSE /\ call'[c].pc = "release" /\ review'[c].token = TokenOf(c)'
                  /\ review'[c].worker = call'[c].worker
  <2>1. d \in Reviewers
    BY CallNames
  <2>2. d = c
    BY <1>6, <1>1, <2>1, NewReview
  <2>3. PICK w \in Workers, t \in Token, s \in BOOLEAN :
          /\ review' = [review EXCEPT ![c] = Loaded(w, t, s)]
          /\ review'[c] = Loaded(w, t, s)
          /\ s \/ (OwnerReviews(c) /\ t = TokenOf(c) /\ w = call[c].worker)
    BY <1>6, <2>1, <2>2, NewReview
  <2>4. review'[c].token = t /\ review'[c].worker = w /\ review'[c].scheduled = s
    BY <2>3 DEF Loaded
  <2>5. CASE OwnerReviews(c)
    <3>1. UNCHANGED call /\ call[c].pc = "release"
      BY <2>5 DEF OwnerReviews, At
    <3>2. review' = [review EXCEPT ![c] = Loaded(call[c].worker, TokenOf(c), FALSE)]
      BY <2>5 DEF OwnerReviews
    <3>3. review'[c] = Loaded(call[c].worker, TokenOf(c), FALSE)
      BY <1>1, <3>2 DEF TypeInv, ReviewsOK
    <3> QED
      BY <3>1, <3>3 DEF Loaded, TokenOf
  <2>6. CASE AdoptLoads(c)
    <3>1. ~UNCHANGED review
      BY <1>6
    <3>2. /\ Goto(c, "clear")
          /\ review' = [review EXCEPT ![c] = Loaded(row[active[c[1]]].worker,
                                                    hold[row[active[c[1]]].worker], TRUE)]
      BY <2>6, <3>1 DEF AdoptLoads
    <3>3. review'[c].scheduled
      BY <1>1, <3>2 DEF TypeInv, ReviewsOK, Loaded
    <3> QED
      BY <3>2, <3>3, GotoCall
  <2> QED
    BY <1>6, <2>2, <2>5, <2>6
<1>7. ~Dies
  BY <1>1 DEF Dies, NoReview
<1> QED
  BY <1>3, <1>4, <1>5, <1>6, <1>7, ReviewsStill DEF OwnReviews, At, TokenOf

LEMMA TruthStep == TruthInv /\ [Next]_vars => TruthInv'
<1> SUFFICES ASSUME TruthInv, [Next]_vars PROVE TruthInv'
  OBVIOUS
<1>1. TypeInv'
  BY TypeStep DEF TruthInv
<1>2. RowsTellTruth'
  BY RowSteps DEF RowStep, RowsTellTruth
<1> QED
  BY <1>1, <1>2, OrderStep, OwnReviewsStep, PostingStep, ReviewsTruth DEF TruthInv

LEMMA TruthInit == Init => TruthInv
<1> SUFFICES ASSUME Init PROVE TruthInv
  OBVIOUS
<1>1. TypeInv
  BY TypeInit
<1>2. RowsTellTruth
  BY DEF Init, RowsTellTruth, RowTruth, Unsent, NoRow
<1>3. CallsInOrder /\ Posting
  BY DEF Init, CallsInOrder, Posting, Placed, At, NoCall
<1>4. OwnReviews /\ ReviewsTellTruth
  BY CallNames DEF Init, OwnReviews, ReviewsTellTruth, NoReview
<1> QED
  BY <1>1, <1>2, <1>3, <1>4 DEF TruthInv

LEMMA TruthAlways == Spec => []TruthInv
BY TruthInit, TruthStep, PTL DEF Spec

\* resolved_at states a fact about the worker: whatever calls, reviews, adoptions and
\* rebuilds cross, and whatever is lost or reset, the prompt of a resolved attempt has
\* ended and cannot arrive any more.
THEOREM ResolvedStatesAFact == Spec => []ResolvedIsOver
<1>1. TruthInv => ResolvedIsOver
  BY DEF TruthInv, RowsTellTruth, RowTruth, Ended, ResolvedIsOver, Alive
<1> QED
  BY <1>1, TruthAlways, PTL

-----------------------------------------------------------------------------
(* Who holds a worker that is not torn *)

\* Calls and reviews are of a process that has booted, and admission is open to it, until
\* the Redis data is lost.
UpInv ==
  /\ up => torn = Workers \/ (admission /\ rebuild = NoRebuild)
  /\ ~up => /\ \A c \in Calls : call[c].pc = "idle"
            /\ \A k \in Reviewers : review[k].pc = "idle"

\* A token is of an attempt that exists and of a generation that was granted.
Granted(t) == row[t.attempt].state # "ABSENT" /\ t.generation <= generation[row[t.attempt].job]

TokensGranted ==
  /\ \A w \in Workers : hold[w] # NoHold => Granted(hold[w])
  /\ \A k \in Reviewers : review[k].pc # "idle" => Granted(review[k].token)
  /\ rebuild # NoRebuild => \A w \in Workers : rebuild[w] # NoHold => Granted(rebuild[w])

\* The token is one that this call claims with.
OfCall(t, c) == t.generation = c[2] /\ row[t.attempt].job = c[1]

\* An adopter has held nothing yet.
NotYetHolding ==
  \A c \in Calls : call[c].pc \in {"adopt", "clear", "rekey"} =>
    /\ \A w \in Workers \ torn : hold[w] # NoHold => ~OfCall(hold[w], c)
    /\ \A k \in Reviewers : review[k].pc # "idle" /\ review[k].worker \notin torn
                               => ~OfCall(review[k].token, c)

\* Reviews of the tick are scheduled ones, and a scheduled review that has asked for the owner
\* is of a dead one's hold.
ReviewedAreDead ==
  /\ \A w \in Workers : review[w].pc # "idle" => review[w].scheduled
  /\ \A k \in Reviewers :
       review[k].pc \notin {"idle", "loaded"} /\ review[k].scheduled
         => ~OwnerIsLive(review[k].token)

\* The prompt was sent, and nobody has said that it has ended.
Open(a) == ~Unsent(a) /\ ~row[a].resolved

\* To free the worker of this token uncovers nothing.
Harmless(w, t) == hold[w] = t => ~Open(t.attempt) \/ row[t.attempt].worker # w

CallSafe(c) ==
  call[c].pc \in {"probe", "begin", "drop"} /\ call[c].worker \notin torn
    => Harmless(call[c].worker, TokenOf(c))

ReviewSafe(k) ==
  review[k].pc = "free" /\ review[k].worker \notin torn
    => Harmless(review[k].worker, review[k].token)

SafeToFree == (\A c \in Calls : CallSafe(c)) /\ (\A k \in Reviewers : ReviewSafe(k))

\* From its claim to its intent, an owner has the row and the hold.
OwnerHolds(c) ==
  Owns(c) =>
    LET a == call[c].attempt
        w == call[c].worker
    IN  /\ call[c].pc \in {"claim", "probe"} =>
             row[a].state = "PREPARING" /\ row[a].worker = NoWorker
        /\ call[c].pc \in {"begin", "submit"} => row[a].state = "PREPARING" /\ row[a].worker = w
        /\ call[c].pc \in {"probe", "begin", "submit"} /\ w \notin torn => hold[w] = TokenOf(c)

OwnersHold == \A c \in Calls : OwnerHolds(c)

\* A worker is held for the attempt that is open on it; so only one is.
OpenIsHeld ==
  \A a \in AttemptIds : Open(a) /\ row[a].worker \notin torn => hold[row[a].worker].attempt = a

\* And so it will be when a rebuild is written.
RebuiltHolds ==
  rebuild # NoRebuild =>
    \A a \in AttemptIds :
      Open(a) /\ row[a].worker \notin torn => rebuild[row[a].worker].attempt = a

HoldInv == /\ TruthInv /\ UpInv /\ TokensGranted /\ NotYetHolding /\ ReviewedAreDead
           /\ SafeToFree /\ OwnersHold /\ OpenIsHeld /\ RebuiltHolds

\* A worker that is torn stays so.
LEMMA TornGrows ==
  ASSUME TypeInv, [Next]_vars
  PROVE  torn \subseteq torn' /\ (torn = Workers => torn' = Workers)
<1> USE DEF OnlyCalls, OnlyRemote
<1>1. ASSUME NEW c \in Calls, CallStep(c) PROVE UNCHANGED torn
  <2>1. CASE ReserveStep(c)
    BY <2>1 DEF ReserveStep, Prepare, ClaimWorker, NoWorkerFree, WaitExpires, ProbeRejects,
       BindAttemptWorker, BeginProcessing, DropClaim
  <2>2. CASE PromptStep(c) \/ ClaimThrows(c) \/ OwnerReviews(c)
    BY <2>2 DEF PromptStep, SubmitIntent, Post, Accepted, Rejected, CallThrows, Settle,
       HandleFailure, Leave, ClaimThrows, OwnerReviews
  <2>3. CASE AdoptStep(c)
    BY <2>3 DEF AdoptStep, AdoptLoads, AdoptReservation, SearchFinds, SearchGivesUp,
       SearchPending, PromptLost
  <2> QED
    BY <1>1, <2>1, <2>2, <2>3 DEF CallStep
<1>2. ASSUME NEW k \in Reviewers, ReviewStep(k) PROVE torn \subseteq torn'
  BY <1>2 DEF ReviewStep, SkipLiveOwner, Judge, QueueShows, QueueClean, Unreadable, HistoryRead,
     MarkResolved, ReleaseExact
<1>3. ASSUME \/ \E a \in AttemptIds : RemoteStep(a)
             \/ \E j \in Jobs : JobStep(j)
             \/ \E w \in Workers : TickLists(w) \/ EditReads(w)
             \/ RebuildReads \/ RebuildRegisters \/ Dies \/ EditWrites \/ UNCHANGED vars
      PROVE  UNCHANGED torn
  BY <1>3 DEF RemoteStep, Lands, Ends, DeadlinePasses, ResolveSuperseded, JobStep, StartCall,
     CancelJob, LeaseExpires, TickLists, EditReads, RebuildReads, RebuildRegisters, Dies,
     EditWrites, vars
<1>4. torn \subseteq Workers /\ torn' \subseteq Workers
  BY TypeStep DEF TypeInv, RestOK
<1>5. RedisReset => torn' = Workers
  BY DEF RedisReset
<1> QED
  BY <1>1, <1>2, <1>3, <1>4, <1>5 DEF Next, SystemStep

LEMMA SystemStill ==
  ASSUME [Next]_vars
  PROVE  \/ UNCHANGED <<admission, up, rebuild>>
         \/ RebuildReads \/ RebuildRegisters \/ Dies \/ RedisReset
<1> USE DEF OnlyCalls, OnlyReview, OnlyRemote, redisVars
<1>1. ASSUME NEW c \in Calls, CallStep(c) PROVE UNCHANGED <<admission, up, rebuild>>
  <2>1. CASE ReserveStep(c)
    BY <2>1 DEF ReserveStep, Prepare, ClaimWorker, NoWorkerFree, WaitExpires, ProbeRejects,
       BindAttemptWorker, BeginProcessing, DropClaim, LosesJob, TooLate
  <2>2. CASE PromptStep(c) \/ ClaimThrows(c) \/ OwnerReviews(c)
    BY <2>2 DEF PromptStep, SubmitIntent, Post, Accepted, Rejected, CallThrows, Settle,
       HandleFailure, Leave, LosesJob, ClaimThrows, OwnerReviews, TooLate
  <2>3. CASE AdoptStep(c)
    BY <2>3 DEF AdoptStep, AdoptLoads, AdoptReservation, SearchFinds, SearchGivesUp,
       SearchPending, PromptLost
  <2> QED
    BY <1>1, <2>1, <2>2, <2>3 DEF CallStep
<1>2. ASSUME NEW k \in Reviewers, ReviewStep(k) PROVE UNCHANGED <<admission, up, rebuild>>
  BY <1>2 DEF ReviewStep, SkipLiveOwner, Judge, QueueShows, QueueClean, Unreadable, HistoryRead,
     MarkResolved, ReleaseExact
<1>3. ASSUME NEW a \in AttemptIds, RemoteStep(a) PROVE UNCHANGED <<admission, up, rebuild>>
  BY <1>3 DEF RemoteStep, Lands, Ends, DeadlinePasses, ResolveSuperseded
<1>4. ASSUME NEW j \in Jobs, JobStep(j) PROVE UNCHANGED <<admission, up, rebuild>>
  BY <1>4 DEF JobStep, StartCall, CancelJob, LeaseExpires
<1>5. ASSUME NEW w \in Workers, TickLists(w) \/ EditReads(w)
      PROVE  UNCHANGED <<admission, up, rebuild>>
  BY <1>5 DEF TickLists, EditReads
<1>6. EditWrites \/ UNCHANGED vars => UNCHANGED <<admission, up, rebuild>>
  BY DEF EditWrites, vars
<1> QED
  BY <1>1, <1>2, <1>3, <1>4, <1>5, <1>6 DEF Next, SystemStep

\* A process that is down does nothing.
LEMMA DownStill ==
  ASSUME TypeInv, UpInv, ~up, [Next]_vars
  PROVE  /\ UNCHANGED <<call, review>>
         /\ \A c \in Calls : ~CallStep(c)
         /\ \A k \in Reviewers : ~ReviewStep(k)
         /\ \A j \in Jobs : ~StartCall(j)
<1>1. \A c \in Calls : ~CallStep(c)
  BY OtherCalls DEF UpInv
<1>2. \A k \in Reviewers : ~ReviewStep(k)
  BY ReviewMoves DEF UpInv
<1>3. \A j \in Jobs : ~StartCall(j)
  BY DEF StartCall
<1>4. \A w \in Workers : ~TickLists(w)
  BY DEF TickLists
<1>5. ~Dies
  BY DEF Dies
<1>6. UNCHANGED review
  BY <1>1, <1>2, <1>4, <1>5, ReviewsStill DEF CallStep, AdoptStep
<1>7. UNCHANGED call
  BY <1>1, <1>2, <1>3, <1>5, CallsStill DEF Next, JobStep, SystemStep
<1> QED
  BY <1>1, <1>2, <1>3, <1>6, <1>7

LEMMA UpStep ==
  ASSUME TypeInv, UpInv, [Next]_vars
  PROVE  UpInv'
<1>1. CASE UNCHANGED <<admission, up, rebuild>>
  BY <1>1, DownStill, TornGrows DEF UpInv
<1>2. CASE RebuildReads \/ RebuildRegisters
  BY <1>2, DownStill DEF UpInv, RebuildReads, RebuildRegisters
<1>3. CASE Dies
  BY <1>3 DEF Dies, UpInv, NoCall, NoReview
<1>4. CASE RedisReset
  BY <1>4 DEF RedisReset, UpInv
<1> QED
  BY <1>1, <1>2, <1>3, <1>4, SystemStill

\* What becomes of a row of which nothing was sent: its owner binds it, sends it, or another
\* preparation takes it.
LEMMA UnsentMoves ==
  ASSUME TruthInv, [Next]_vars, NEW a \in AttemptIds, Unsent(a)
  PROVE  \/ row'[a].state = row[a].state /\ row'[a].worker = row[a].worker
         \/ \E d \in Calls : /\ Owns(d) /\ Prepare(d)
                             /\ row'[a].state = "PREPARING" /\ row'[a].worker = NoWorker
                             /\ row[a].state = "ABSENT" \/ row[a].job = d[1]
         \/ \E d \in Calls : /\ Owns(d) /\ BindAttemptWorker(d) /\ call[d].attempt = a
                             /\ row'[a].state = "PREPARING" /\ UNCHANGED hold
         \/ \E d \in Calls : /\ Owns(d) /\ SubmitIntent(d) /\ call[d].attempt = a
                             /\ call[d].pc = "submit" /\ row[a].state = "PREPARING"
                             /\ row[a].worker = call[d].worker
                             /\ row'[a].worker = row[a].worker /\ UNCHANGED hold
<1> DEFINE same == row'[a].state = row[a].state /\ row'[a].worker = row[a].worker
<1> USE DEF TruthInv, TypeInv, RowsOK
<1>0. row[a] \in Row /\ remote[a] = "none"
  BY DEF RowsTellTruth, RowTruth
<1>1. CASE UNCHANGED row
  BY <1>1
<1>2. ASSUME NEW b \in AttemptIds, RecordReceipt(b) \/ row' = [row EXCEPT ![b].resolved = TRUE]
      PROVE  same
  BY <1>0, <1>2 DEF RecordReceipt, Row
<1>3. ASSUME NEW j \in Jobs, NEW done \in BOOLEAN, AttemptOutcome(j, done) PROVE same
  BY <1>3 DEF AttemptOutcome, Unsent
<1>4. ASSUME NEW d \in Calls, Prepare(d), ~LosesJob(d, "leave")
      PROVE  \/ same
             \/ /\ Owns(d) /\ row'[a].state = "PREPARING" /\ row'[a].worker = NoWorker
                /\ row[a].state = "ABSENT" \/ row[a].job = d[1]
  <2>1. PICK b \in Unused(d[1]) \cup NextRow :
          /\ Owns(d)
          /\ row' = [row EXCEPT ![b] = [NoRow EXCEPT !.state = "PREPARING", !.job = d[1]]]
    BY <1>4 DEF Prepare
  <2> QED
    BY <2>1 DEF Unused, NextRow, NoRow
<1>5. ASSUME NEW d \in Calls, BindAttemptWorker(d), ~LosesJob(d, "drop")
      PROVE  \/ same
             \/ /\ Owns(d) /\ call[d].attempt = a /\ row'[a].state = "PREPARING" /\ UNCHANGED hold
  BY <1>0, <1>5 DEF BindAttemptWorker, RowOf, Row, redisVars
<1>6. ASSUME NEW d \in Calls, SubmitIntent(d), ~LosesJob(d, "release")
      PROVE  \/ same
             \/ /\ Owns(d) /\ call[d].attempt = a
                /\ call[d].pc = "submit" /\ row[a].state = "PREPARING"
                /\ row[a].worker = call[d].worker
                /\ row'[a].worker = row[a].worker /\ UNCHANGED hold
  BY <1>0, <1>6 DEF SubmitIntent, RowOf, Row, At, redisVars
<1>7. ASSUME NEW d \in Calls, Accepted(d) \/ Rejected(d) PROVE same
  <2>1. remote[call[d].attempt] # "none"
    BY <1>7 DEF Accepted, Rejected
  <2>2. call[d].attempt # a
    BY <1>0, <2>1
  <2> QED
    BY <1>7, <2>2 DEF Accepted, Rejected
<1>8. ASSUME NEW d \in Calls, SearchGivesUp(d) PROVE same
  <2>1. call[d].attempt # a
    BY <1>8 DEF SearchGivesUp, Posting, Placed, At
  <2> QED
    BY <1>8, <2>1 DEF SearchGivesUp
<1>9. ASSUME NEW d \in Calls, SearchFinds(d) PROVE same
  <2>1. call[d].attempt \in AttemptIds
    BY <1>9, BusyCall DEF SearchFinds, At, Working
  <2> QED
    BY <1>2, <1>9, <2>1 DEF SearchFinds
<1>10. ASSUME NEW d \in Calls, CallStep(d)
       PROVE  \/ Prepare(d) /\ ~LosesJob(d, "leave")
              \/ BindAttemptWorker(d) /\ ~LosesJob(d, "drop")
              \/ SubmitIntent(d) /\ ~LosesJob(d, "release")
              \/ Accepted(d) \/ Rejected(d) \/ SearchGivesUp(d) \/ SearchFinds(d)
              \/ AttemptOutcome(d[1], TRUE) \/ AttemptOutcome(d[1], FALSE)
              \/ UNCHANGED row
  <2> USE DEF rowVars
  <2>1. CASE ReserveStep(d)
    BY <2>1 DEF ReserveStep, Prepare, ClaimWorker, NoWorkerFree, WaitExpires, ProbeRejects,
       BindAttemptWorker, BeginProcessing, DropClaim, LosesJob, TooLate
  <2>2. CASE PromptStep(d)
    BY <2>2 DEF PromptStep, SubmitIntent, Post, CallThrows, Settle, HandleFailure, Leave, LosesJob,
                TooLate
  <2>3. CASE AdoptStep(d)
    BY <2>3 DEF AdoptStep, AdoptLoads, AdoptReservation, SearchPending, PromptLost
  <2> QED
    BY <1>10, <2>1, <2>2, <2>3 DEF CallStep, OwnerReviews, ClaimThrows
<1>11. ASSUME NEW k \in Reviewers, ReviewStep(k) PROVE same
  <2> DEFINE b == review[k].token.attempt
  <2>1. b \in AttemptIds
    BY <1>11, ReviewMoves, BusyReview
  <2>2. UNCHANGED row \/ RecordReceipt(b) \/ row' = [row EXCEPT ![b].resolved = TRUE]
    BY <1>11 DEF ReviewStep, SkipLiveOwner, Judge, QueueShows, QueueClean, Unreadable, HistoryRead,
       MarkResolved, ReleaseExact, rowVars
  <2> HIDE DEF b
  <2> QED
    BY <1>2, <2>1, <2>2
<1>12. ASSUME NEW b \in AttemptIds, RemoteStep(b) PROVE same
  BY <1>2, <1>12 DEF RemoteStep, Lands, Ends, DeadlinePasses, ResolveSuperseded, OnlyRemote
<1>13. ASSUME NEW j \in Jobs, JobStep(j) PROVE same
  BY <1>3, <1>13 DEF JobStep, StartCall, CancelJob, LeaseExpires, rowVars
<1>14. ASSUME \/ SystemStep \/ UNCHANGED vars
              \/ \E w \in Workers : TickLists(w) \/ EditReads(w)
       PROVE  UNCHANGED row
  BY <1>14 DEF SystemStep, RebuildReads, RebuildRegisters, Dies, RedisReset, EditWrites,
     TickLists, EditReads, rowVars, vars
<1>15. \A d \in Calls : d[1] \in Jobs
  BY CallNames
<1>16. TRUE \in BOOLEAN /\ FALSE \in BOOLEAN
  OBVIOUS
<1>17. ASSUME NEW d \in Calls, CallStep(d)
       PROVE  \/ same
              \/ /\ Owns(d) /\ Prepare(d)
                 /\ row'[a].state = "PREPARING" /\ row'[a].worker = NoWorker
                 /\ row[a].state = "ABSENT" \/ row[a].job = d[1]
              \/ /\ Owns(d) /\ BindAttemptWorker(d) /\ call[d].attempt = a
                 /\ row'[a].state = "PREPARING" /\ UNCHANGED hold
              \/ /\ Owns(d) /\ SubmitIntent(d) /\ call[d].attempt = a
                 /\ call[d].pc = "submit" /\ row[a].state = "PREPARING"
                 /\ row[a].worker = call[d].worker
                 /\ row'[a].worker = row[a].worker /\ UNCHANGED hold
  BY <1>1, <1>3, <1>4, <1>5, <1>6, <1>7, <1>8, <1>9, <1>10, <1>15, <1>16, <1>17
<1> HIDE DEF same
<1>18. CASE \E d \in Calls : CallStep(d)
  BY <1>17, <1>18 DEF same
<1>19. CASE ~\E d \in Calls : CallStep(d)
  BY <1>1, <1>11, <1>12, <1>13, <1>14, <1>19 DEF Next, same
<1> QED
  BY <1>18, <1>19

\* A row on which a prompt becomes open is sent by its owner; others were open before.
LEMMA OpenMoves ==
  ASSUME TruthInv, [Next]_vars, NEW a \in AttemptIds, Open(a)'
  PROVE  \/ Open(a) /\ row'[a].worker = row[a].worker
         \/ \E d \in Calls : /\ Owns(d) /\ SubmitIntent(d) /\ call[d].attempt = a
                             /\ call[d].pc = "submit"
                             /\ row[a].worker = call[d].worker
                             /\ row'[a].worker = row[a].worker /\ UNCHANGED hold
<1>1. RowStays(a)
  BY RowSteps DEF RowStep
<1>2. CASE ~Unsent(a)
  BY <1>1, <1>2 DEF RowStays, Open
<1>3. CASE Unsent(a)
  BY <1>3, UnsentMoves DEF Open, Unsent
<1> QED
  BY <1>2, <1>3

\* What becomes of the hold of a worker.
LEMMA HoldMoves ==
  ASSUME TypeInv, [Next]_vars, NEW w \in Workers
  PROVE  \/ hold'[w] = hold[w]
         \/ hold'[w] = NoHold /\ torn' = Workers
         \/ \E c \in Calls : /\ ClaimWorker(c, w) /\ hold[w] = NoHold /\ hold'[w] = TokenOf(c)
                             /\ call[c].pc = "claim" /\ UNCHANGED rowVars
         \/ \E c \in Calls : /\ call[c].pc \in {"probe", "drop"} /\ call[c].worker = w
                             /\ hold[w] = TokenOf(c) /\ hold'[w] = NoHold /\ UNCHANGED rowVars
                             /\ ProbeRejects(c) \/ DropClaim(c)
         \/ \E k \in Reviewers : /\ review[k].pc = "free" /\ review[k].worker = w
                                 /\ hold[w] = review[k].token /\ hold'[w] = NoHold
                                 /\ UNCHANGED rowVars
         \/ \E c \in Calls : /\ AdoptReservation(c) /\ call[c].pc = "rekey"
                             /\ call[c].worker = w /\ Adoptable(w, call[c].attempt)
                             /\ hold'[w] = TokenOf(c) /\ UNCHANGED row
         \/ RebuildRegisters
<1> DEFINE kept == hold'[w] = hold[w]
<1> USE DEF TypeInv, RestOK
<1>1. CASE UNCHANGED hold
  BY <1>1
<1>2. ASSUME NEW c \in Calls, NEW v \in Workers, ClaimWorker(c, v)
      PROVE  \/ kept
             \/ /\ ClaimWorker(c, w) /\ hold[w] = NoHold /\ hold'[w] = TokenOf(c)
                /\ call[c].pc = "claim" /\ UNCHANGED rowVars
  BY <1>2 DEF ClaimWorker, Claim, Claimable, At
<1>3. ASSUME NEW v, NEW t, ReleaseIfToken(v, t)
      PROVE  kept \/ (v = w /\ hold[w] = t /\ hold'[w] = NoHold)
  BY <1>3 DEF ReleaseIfToken
<1>4. ASSUME NEW c \in Calls, ProbeRejects(c) \/ DropClaim(c)
      PROVE  \/ kept
             \/ /\ call[c].pc \in {"probe", "drop"} /\ call[c].worker = w
                /\ hold[w] = TokenOf(c) /\ hold'[w] = NoHold /\ UNCHANGED rowVars
                /\ ProbeRejects(c) \/ DropClaim(c)
  BY <1>3, <1>4 DEF ProbeRejects, DropClaim, At
<1>5. ASSUME NEW k \in Reviewers, ReleaseExact(k)
      PROVE  \/ kept
             \/ /\ review[k].pc = "free" /\ review[k].worker = w
                /\ hold[w] = review[k].token /\ hold'[w] = NoHold
                /\ UNCHANGED rowVars
  BY <1>3, <1>5 DEF ReleaseExact, InReview
<1>6. ASSUME NEW c \in Calls, AdoptReservation(c)
      PROVE  \/ kept
             \/ /\ AdoptReservation(c) /\ call[c].pc = "rekey"
                /\ call[c].worker = w /\ Adoptable(w, call[c].attempt)
                /\ hold'[w] = TokenOf(c) /\ UNCHANGED row
  BY <1>6 DEF AdoptReservation, AdoptHold, At
<1>7. ASSUME NEW c \in Calls, CallStep(c)
      PROVE  \/ \E v \in Workers : ClaimWorker(c, v)
             \/ ProbeRejects(c) \/ DropClaim(c) \/ AdoptReservation(c)
             \/ UNCHANGED hold
  <2> USE DEF redisVars
  <2>1. CASE ReserveStep(c)
    BY <2>1 DEF ReserveStep, Prepare, NoWorkerFree, WaitExpires, BindAttemptWorker,
       BeginProcessing, LosesJob, TooLate
  <2>2. CASE PromptStep(c) \/ ClaimThrows(c) \/ OwnerReviews(c)
    BY <2>2 DEF PromptStep, SubmitIntent, Post, Accepted, Rejected, CallThrows, Settle,
       HandleFailure, Leave, LosesJob, ClaimThrows, OwnerReviews, TooLate
  <2>3. CASE AdoptStep(c)
    BY <2>3 DEF AdoptStep, AdoptLoads, SearchFinds, SearchGivesUp, SearchPending, PromptLost
  <2> QED
    BY <1>7, <2>1, <2>2, <2>3 DEF CallStep
<1>8. ASSUME NEW k \in Reviewers, ReviewStep(k) PROVE ReleaseExact(k) \/ UNCHANGED hold
  BY <1>8 DEF ReviewStep, SkipLiveOwner, Judge, QueueShows, QueueClean, Unreadable, HistoryRead,
     MarkResolved, redisVars
<1>9. ASSUME \/ \E a \in AttemptIds : RemoteStep(a)
             \/ \E j \in Jobs : JobStep(j)
             \/ \E v \in Workers : TickLists(v) \/ EditReads(v)
             \/ RebuildReads \/ Dies \/ EditWrites \/ UNCHANGED vars
      PROVE  UNCHANGED hold
  BY <1>9 DEF RemoteStep, Lands, Ends, DeadlinePasses, ResolveSuperseded, OnlyRemote, JobStep,
     StartCall, CancelJob, LeaseExpires, TickLists, EditReads, RebuildReads, Dies, EditWrites,
     redisVars, vars
<1>10. RedisReset => hold'[w] = NoHold /\ torn' = Workers
  BY DEF RedisReset
<1> HIDE DEF kept
<1>11. ASSUME NEW c \in Calls, CallStep(c), ~kept
       PROVE  \/ /\ ClaimWorker(c, w) /\ hold[w] = NoHold /\ hold'[w] = TokenOf(c)
                 /\ call[c].pc = "claim" /\ UNCHANGED rowVars
              \/ /\ call[c].pc \in {"probe", "drop"} /\ call[c].worker = w
                 /\ hold[w] = TokenOf(c) /\ hold'[w] = NoHold /\ UNCHANGED rowVars
                 /\ ProbeRejects(c) \/ DropClaim(c)
              \/ /\ AdoptReservation(c) /\ call[c].pc = "rekey"
                 /\ call[c].worker = w /\ Adoptable(w, call[c].attempt)
                 /\ hold'[w] = TokenOf(c) /\ UNCHANGED row
  <2>1. ~UNCHANGED hold
    BY <1>11 DEF kept
  <2> QED
    BY <1>2, <1>4, <1>6, <1>7, <1>11, <2>1
<1>12. ASSUME NEW k \in Reviewers, ReviewStep(k), ~kept
       PROVE  /\ review[k].pc = "free" /\ review[k].worker = w
              /\ hold[w] = review[k].token /\ hold'[w] = NoHold
              /\ UNCHANGED rowVars
  <2>1. ~UNCHANGED hold
    BY <1>12 DEF kept
  <2> QED
    BY <1>5, <1>8, <1>12, <2>1
<1>13. CASE kept
  BY <1>13 DEF kept
<1>14. CASE ~kept /\ \E c \in Calls : CallStep(c)
  BY <1>11, <1>14
<1>15. CASE ~kept /\ \E k \in Reviewers : ReviewStep(k)
  BY <1>12, <1>15
<1>16. CASE ~kept /\ ~(\E c \in Calls : CallStep(c)) /\ ~(\E k \in Reviewers : ReviewStep(k))
  <2>1. ~UNCHANGED hold
    BY <1>16 DEF kept
  <2> QED
    BY <1>9, <1>10, <1>16, <2>1 DEF Next, SystemStep
<1> QED
  BY <1>13, <1>14, <1>15, <1>16

\* An owner after a step was one before, or has just started.
LEMMA OwnerMoves ==
  ASSUME TruthInv, [Next]_vars, NEW j \in Jobs, j \in live'
  PROVE  \/ j \in live /\ generation'[j] = generation[j]
         \/ StartCall(j)
<1> USE DEF TruthInv, TypeInv, RestOK
<1>1. ASSUME NEW c \in Calls, CallStep(c) PROVE live' \subseteq live /\ UNCHANGED generation
  <2>1. CASE ReserveStep(c)
    BY <2>1 DEF ReserveStep, Prepare, ClaimWorker, NoWorkerFree, WaitExpires, ProbeRejects,
       BindAttemptWorker, BeginProcessing, DropClaim, LosesJob, jobVars, TooLate, Retired
  <2>2. CASE PromptStep(c) \/ ClaimThrows(c) \/ OwnerReviews(c)
    BY <2>2 DEF PromptStep, SubmitIntent, Post, Accepted, Rejected, CallThrows, Settle,
       HandleFailure, Leave, LosesJob, ClaimThrows, OwnerReviews, OnlyReview, jobVars, Retired,
       TooLate
  <2>3. CASE AdoptStep(c)
    BY <2>3 DEF AdoptStep, AdoptLoads, AdoptReservation, SearchFinds, SearchGivesUp,
       SearchPending, PromptLost, jobVars
  <2> QED
    BY <1>1, <2>1, <2>2, <2>3 DEF CallStep
<1>2. ASSUME NEW k \in Reviewers, ReviewStep(k) PROVE UNCHANGED jobVars
  BY <1>2 DEF ReviewStep, SkipLiveOwner, Judge, QueueShows, QueueClean, Unreadable, HistoryRead,
     MarkResolved, ReleaseExact, OnlyReview
<1>3. ASSUME NEW a \in AttemptIds, RemoteStep(a) PROVE UNCHANGED jobVars
  BY <1>3 DEF RemoteStep, Lands, Ends, DeadlinePasses, ResolveSuperseded, OnlyRemote, OnlyReview
<1>4. ASSUME NEW i \in Jobs, JobStep(i), ~StartCall(j)
      PROVE  j \in live /\ generation'[j] = generation[j]
  BY <1>4 DEF JobStep, StartCall, CancelJob, LeaseExpires, Retired
<1>5. ASSUME \/ \E w \in Workers : TickLists(w) \/ EditReads(w)
             \/ SystemStep \/ UNCHANGED vars
      PROVE  UNCHANGED jobVars
  BY <1>5 DEF TickLists, EditReads, SystemStep, RebuildReads, RebuildRegisters, Dies, RedisReset,
     EditWrites, OnlyReview, vars
<1> QED
  BY <1>1, <1>2, <1>3, <1>4, <1>5 DEF Next, jobVars

\* Generations only grow.
LEMMA GenerationGrows ==
  ASSUME TruthInv, [Next]_vars, NEW j \in Jobs
  PROVE  generation[j] \in Nat /\ generation'[j] \in Nat /\ generation[j] <= generation'[j]
<1> USE ReservationAssumption DEF TruthInv, TypeInv, RestOK
<1>1. CASE generation'[j] = generation[j]
  BY <1>1
<1>2. ASSUME NEW i \in Jobs, JobStep(i) PROVE generation'[j] \in {generation[j], generation[j] + 1}
  BY <1>2 DEF JobStep, StartCall, CancelJob, LeaseExpires
<1>3. ASSUME NEW k \in Reviewers, ReviewStep(k) PROVE UNCHANGED generation
  BY <1>3 DEF ReviewStep, SkipLiveOwner, Judge, QueueShows, QueueClean, Unreadable, HistoryRead,
     MarkResolved, ReleaseExact, OnlyReview, jobVars
<1>4. CASE Dies
  BY <1>4 DEF Dies, jobVars
<1> QED
  BY <1>1, <1>2, <1>3, <1>4, GenerationKept, CallsStill DEF Next, SystemStep

\* A token that was granted stays so, and one of a dead owner stays that.
LEMMA GrantedStays ==
  ASSUME TruthInv, [Next]_vars, NEW t \in Token, Granted(t)
  PROVE  /\ Granted(t)'
         /\ row'[t.attempt].job = row[t.attempt].job /\ row[t.attempt].job \in Jobs
         /\ ~OwnerIsLive(t) => ~OwnerIsLive(t)'
<1> DEFINE a == t.attempt
           j == row[a].job
<1>1. a \in AttemptIds /\ j \in Jobs /\ t.generation \in 0 .. MaxGeneration
  BY DEF Token, Granted, TruthInv, TypeInv, RowsOK
<1>2. row'[a].job = j
  BY <1>1, RowSteps DEF RowStep, RowStays
<1>3. row'[a].state # "ABSENT"
  BY <1>1, <1>2, RowTypes DEF RowsOK, TruthInv
<1>4. generation[j] \in Nat /\ generation'[j] \in Nat /\ generation[j] <= generation'[j]
  BY <1>1, GenerationGrows
<1>5. t.generation \in Nat /\ t.generation <= generation[j]
  BY <1>1, ReservationAssumption DEF Granted
<1>6. Granted(t)'
  BY <1>2, <1>3, <1>4, <1>5 DEF Granted
<1>7. ASSUME j \in live', generation'[j] = t.generation
      PROVE  j \in live /\ generation[j] = t.generation
  <2>1. ~StartCall(j)
    <3>1. StartCall(j) => generation'[j] = generation[j] + 1
      BY <1>1 DEF StartCall, TruthInv, TypeInv, RestOK
    <3> QED
      BY <1>4, <1>5, <1>7, <3>1
  <2> QED
    BY <1>1, <1>7, <2>1, OwnerMoves
<1> QED
  BY <1>1, <1>2, <1>6, <1>7 DEF OwnerIsLive

\* The token of a call on its way is granted, and is of no other call.
LEMMA CallToken ==
  ASSUME TruthInv, NEW c \in Calls, call[c].pc \in Working
  PROVE  /\ TokenOf(c) \in Token /\ Granted(TokenOf(c)) /\ OfCall(TokenOf(c), c)
         /\ TokenOf(c).attempt = call[c].attempt /\ TokenOf(c) # NoHold
         /\ call[c].attempt \in AttemptIds
         /\ \A d \in Calls : OfCall(TokenOf(c), d) => d = c
<1>1. call[c].pc # "idle"
  BY DEF Working
<1>2. /\ call[c].attempt \in AttemptIds /\ TokenOf(c) \in Token
      /\ row[call[c].attempt].job = c[1] /\ row[call[c].attempt].state # "ABSENT"
  BY <1>1, BusyCall DEF TruthInv
<1>3. c[2] <= generation[c[1]]
  BY <1>1 DEF TruthInv, CallsInOrder
<1>4. TokenOf(c).attempt = call[c].attempt /\ TokenOf(c).generation = c[2]
  BY DEF TokenOf
<1>5. \A d \in Calls : d[1] = c[1] /\ d[2] = c[2] => d = c
  BY DEF Calls
<1>6. call[c].attempt # 0
  BY <1>2, ReservationAssumption DEF AttemptIds
<1> QED
  BY <1>2, <1>3, <1>4, <1>5, <1>6 DEF Granted, OfCall, NoHold

\* Where the reviews of the next state come from.
LEMMA ReviewFrom ==
  ASSUME TypeInv, [Next]_vars, NEW k \in Reviewers, review'[k].pc # "idle"
  PROVE  \/ /\ review[k].pc # "idle" /\ review'[k].token = review[k].token
            /\ review'[k].worker = review[k].worker
            /\ review'[k].scheduled = review[k].scheduled
         \/ \E w \in Workers :
              /\ hold[w] \in Token /\ review'[k] = Loaded(w, hold[w], TRUE)
              /\ UNCHANGED <<rowVars, jobVars, hold>>
         \/ /\ k \in Calls /\ call[k].pc = "release"
            /\ review'[k] = Loaded(call[k].worker, TokenOf(k), FALSE)
            /\ UNCHANGED <<rowVars, jobVars, hold, call>>
<1> USE DEF TypeInv
<1>0. /\ Workers \subseteq Reviewers /\ Calls \subseteq Reviewers
      /\ Workers \cap Calls = {}
  BY CallNames DEF Reviewers
<1>1. CASE review'[k] = review[k]
  BY <1>1
<1>2. ASSUME NEW m \in Reviewers, ReviewStep(m), review'[k] # review[k]
      PROVE  /\ review[k].pc # "idle" /\ review'[k].token = review[k].token
             /\ review'[k].worker = review[k].worker
             /\ review'[k].scheduled = review[k].scheduled
  <2>1. m = k
    BY <1>2, ReviewMoves DEF GoesOn, ReviewsOK
  <2>2. ~EndReview(k)
    BY DEF EndReview, NoReview, ReviewsOK
  <2>3. PICK pc \in {"queue", "history", "resolve", "free"}, verdict \in Verdict,
             late \in BOOLEAN : GoesOn(k, pc, verdict, late)
    BY <1>2, <2>1, <2>2, ReviewWays
  <2>4. review[k] \in Review /\ review[k].pc # "idle"
    BY <1>2, <2>1, ReviewMoves, BusyReview
  <2> QED
    BY <2>3, <2>4 DEF GoesOn, Review, ReviewsOK
<1>3. ASSUME NEW v \in Workers, TickLists(v), review'[k] # review[k]
      PROVE  \E w \in Workers :
              /\ hold[w] \in Token /\ review'[k] = Loaded(w, hold[w], TRUE)
              /\ UNCHANGED <<rowVars, jobVars, hold>>
  <2>1. k = v /\ review'[k] = Loaded(v, hold[v], TRUE)
    BY <1>0, <1>3 DEF TickLists, ReviewsOK
  <2>2. hold[v] \in Token
    BY <1>3 DEF TickLists, RestOK
  <2> QED
    BY <1>3, <2>1, <2>2 DEF TickLists, OnlyReview, redisVars
<1>4. ASSUME NEW c \in Calls, AdoptLoads(c), review'[k] # review[k]
      PROVE  \E w \in Workers :
              /\ hold[w] \in Token /\ review'[k] = Loaded(w, hold[w], TRUE)
              /\ UNCHANGED <<rowVars, jobVars, hold>>
  <2> DEFINE a == active[c[1]]
             w == row[a].worker
  <2>1. /\ a # 0 /\ w # NoWorker /\ hold[w].attempt = a
        /\ review' = [review EXCEPT ![c] = Loaded(w, hold[w], TRUE)]
        /\ UNCHANGED <<rowVars, jobVars, hold>>
    BY <1>4 DEF AdoptLoads, redisVars
  <2>2. a \in AttemptIds
    BY <2>1, CallNames, ReservationAssumption DEF RestOK, AttemptIds
  <2>3. w \in Workers
    BY <2>1, <2>2 DEF RowsOK, Row
  <2>4. hold[w] \in Token
    BY <2>1, <2>3 DEF RestOK, NoHold
  <2> HIDE DEF a, w
  <2>5. k = c /\ review'[k] = Loaded(w, hold[w], TRUE)
    BY <1>0, <1>4, <2>1 DEF ReviewsOK
  <2> QED
    BY <2>1, <2>3, <2>4, <2>5
<1>5. ASSUME NEW c \in Calls, OwnerReviews(c), review'[k] # review[k]
      PROVE  /\ k \in Calls /\ call[k].pc = "release"
             /\ review'[k] = Loaded(call[k].worker, TokenOf(k), FALSE)
             /\ UNCHANGED <<rowVars, jobVars, hold, call>>
  <2>1. k = c /\ review'[k] = Loaded(call[c].worker, TokenOf(c), FALSE)
    BY <1>0, <1>5 DEF OwnerReviews, ReviewsOK
  <2> QED
    BY <1>5, <2>1 DEF OwnerReviews, At, OnlyReview, redisVars
<1>6. ~Dies
  BY DEF Dies, NoReview
<1> QED
  BY <1>1, <1>2, <1>3, <1>4, <1>5, <1>6, ReviewsStill

\* A review that moves and is not over made a step of its own.
LEMMA ReviewGoes ==
  ASSUME TruthInv, [Next]_vars, NEW k \in Reviewers, review[k].pc # "idle",
         review'[k].pc # "idle", review'[k] # review[k]
  PROVE  ReviewStep(k) /\ ~EndReview(k)
<1> USE DEF TruthInv, TypeInv
<1>1. ASSUME NEW m \in Reviewers, m # k, ReviewStep(m) PROVE review'[k] = review[k]
  BY <1>1, ReviewMoves DEF GoesOn, ReviewsOK
<1>2. ASSUME NEW m \in Reviewers,
             \/ m \in Workers /\ TickLists(m)
             \/ m \in Calls /\ (AdoptLoads(m) \/ OwnerReviews(m))
      PROVE  review'[k] = review[k]
  BY <1>2 DEF TickLists, OwnerReviews, InReview, AdoptLoads, ReviewsOK, OwnReviews, At
<1>3. ~Dies
  BY DEF Dies, NoReview
<1>4. ~EndReview(k)
  BY DEF EndReview, NoReview, ReviewsOK
<1> QED
  BY <1>1, <1>2, <1>3, <1>4, ReviewsStill DEF Reviewers

LEMMA GrantedStep ==
  ASSUME HoldInv, [Next]_vars
  PROVE  TokensGranted'
<1> USE DEF HoldInv, TruthInv, TypeInv
<1>1. ASSUME NEW t \in Token, Granted(t) PROVE Granted(t)'
  BY <1>1, GrantedStays
<1>2. ASSUME NEW w \in Workers, hold[w] # NoHold PROVE hold[w] \in Token /\ Granted(hold[w])
  BY <1>2 DEF RestOK, TokensGranted
<1>3. ASSUME NEW w \in Workers, hold'[w] # NoHold PROVE Granted(hold[w])'
  <2>1. PICK t \in Token : hold'[w] = t /\ Granted(t)
    <3>1. CASE hold'[w] = hold[w]
      BY <1>2, <1>3, <3>1
    <3>2. ASSUME NEW c \in Calls, call[c].pc \in {"claim", "rekey"}, hold'[w] = TokenOf(c)
          PROVE  TokenOf(c) \in Token /\ Granted(TokenOf(c))
      BY <3>2, CallToken DEF Working
    <3>3. CASE RebuildRegisters
      BY <1>3, <3>3 DEF RebuildRegisters, RestOK, TokensGranted
    <3> QED
      BY <1>3, <3>1, <3>2, <3>3, HoldMoves
  <2>2. Granted(t)'
    BY <1>1, <2>1
  <2> QED
    BY <2>1, <2>2 DEF Granted
<1>4. ASSUME NEW k \in Reviewers, review'[k].pc # "idle" PROVE Granted(review[k].token)'
  <2>1. PICK t \in Token : review'[k].token = t /\ Granted(t)
    <3>1. CASE review[k].pc # "idle" /\ review'[k].token = review[k].token
      BY <3>1, BusyReview DEF TokensGranted
    <3>2. ASSUME NEW w \in Workers, hold[w] \in Token, review'[k] = Loaded(w, hold[w], TRUE)
          PROVE  review'[k].token = hold[w] /\ Granted(hold[w])
      <4>1. hold[w] # NoHold
        BY <3>2, ReservationAssumption DEF Token, NoHold, AttemptIds
      <4> QED
        BY <3>2, <4>1 DEF Loaded, TokensGranted
    <3>3. CASE k \in Calls /\ call[k].pc = "release"
               /\ review'[k] = Loaded(call[k].worker, TokenOf(k), FALSE)
      BY <3>3, CallToken DEF Working, Loaded
    <3> QED
      BY <1>4, <3>1, <3>2, <3>3, ReviewFrom
  <2>2. Granted(t)'
    BY <1>1, <2>1
  <2> QED
    BY <2>1, <2>2 DEF Granted
<1>5. ASSUME rebuild' # NoRebuild, NEW w \in Workers, rebuild'[w] # NoHold
      PROVE  Granted(rebuild[w])'
  <2>1. PICK t \in Token : rebuild'[w] = t /\ Granted(t)
    <3>1. CASE UNCHANGED rebuild
      BY <1>5, <3>1 DEF RestOK, TokensGranted
    <3>2. CASE RebuildReads
      <4>1. rebuild'[w] = HoldFor(w)
        BY <3>2 DEF RebuildReads
      <4>2. /\ HoldFor(w) \in Token /\ HoldFor(w).attempt \in Unresolved(w)
            /\ HoldFor(w).generation = generation[row[HoldFor(w).attempt].job]
        BY <1>5, <4>1, HoldForType
      <4>3. HoldFor(w).attempt \in AttemptIds /\ row[HoldFor(w).attempt].state # "ABSENT"
        BY <4>2 DEF Unresolved
      <4>4. generation[row[HoldFor(w).attempt].job] \in Nat
        BY <4>3, GenerationGrows DEF RowsOK
      <4> QED
        BY <4>1, <4>2, <4>3, <4>4 DEF Granted
    <3> QED
      BY <1>5, <3>1, <3>2, SystemStill DEF RebuildRegisters, Dies, RedisReset
  <2>2. Granted(t)'
    BY <1>1, <2>1
  <2> QED
    BY <2>1, <2>2 DEF Granted
<1> QED
  BY <1>3, <1>4, <1>5 DEF TokensGranted

\* Who is an adopter after a step was one, or has just started.
LEMMA AdopterFrom ==
  ASSUME TruthInv, [Next]_vars, NEW c \in Calls, call'[c].pc \in {"adopt", "clear", "rekey"}
  PROVE  \/ call[c].pc \in {"adopt", "clear", "rekey"}
            /\ ~AdoptReservation(c)
         \/ call[c].pc = "idle" /\ c[2] = generation[c[1]] + 1
<1> USE DEF TruthInv
<1>1. ASSUME NEW p \in {"claim", "prepare", "probe", "begin", "submit", "drop", "fail", "wait",
                        "leave", "release", "post", "answer", "search"},
             Goto(c, p)
      PROVE  FALSE
  BY <1>1, GotoCall
<1>2. ~AdoptReservation(c)
  BY <1>1 DEF AdoptReservation
<1>3. CASE CallStep(c)
  <2>1. CASE ReserveStep(c)
    <3>1. CASE Prepare(c)
      BY <1>1, <3>1, CallRecords DEF Prepare, LosesJob, AnyCall
    <3>2. ASSUME NEW w \in Workers, ClaimWorker(c, w) PROVE FALSE
      BY <3>2, CallRecords DEF ClaimWorker, AnyCall
    <3>3. CASE NoWorkerFree(c)
      <4>1. \/ Goto(c, "leave")
            \/ call' = [call EXCEPT ![c].tried = {}] /\ call[c].pc = "claim"
        BY <3>3 DEF NoWorkerFree, LosesJob, TooLate, At
      <4> QED
        BY <1>1, <4>1, CallRecords DEF AnyCall
    <3>4. CASE ProbeRejects(c)
      BY <3>4, CallRecords DEF ProbeRejects, AnyCall
    <3>5. CASE WaitExpires(c) \/ BindAttemptWorker(c) \/ BeginProcessing(c) \/ DropClaim(c)
      BY <1>1, <3>5 DEF WaitExpires, BindAttemptWorker, BeginProcessing, DropClaim, LosesJob,
                        TooLate
    <3> QED
      BY <2>1, <3>1, <3>2, <3>3, <3>4, <3>5 DEF ReserveStep
  <2>2. CASE PromptStep(c) \/ ClaimThrows(c)
    <3>1. CASE Leave(c)
      BY <3>1 DEF Leave, NoCall, TypeInv, CallsOK
    <3>2. CASE HandleFailure(c)
      BY <1>1, <3>2 DEF HandleFailure, AfterFailure, LosesJob, TooLate
    <3> QED
      BY <1>1, <2>2, <3>1, <3>2
      DEF PromptStep, SubmitIntent, Post, Accepted, Rejected, CallThrows, Settle, ClaimThrows,
          LosesJob, TooLate
  <2>3. CASE AdoptStep(c)
    BY <1>1, <1>2, <2>3
    DEF AdoptStep, AdoptLoads, SearchFinds, SearchGivesUp, SearchPending, PromptLost, At
  <2>4. CASE OwnerReviews(c)
    BY <1>2, <2>4 DEF OwnerReviews
  <2> QED
    BY <1>2, <1>3, <2>1, <2>2, <2>3, <2>4 DEF CallStep
<1>4. ASSUME NEW d \in Calls, CallStep(d), d # c PROVE call'[c] = call[c]
  BY <1>4, OtherCalls
<1>5. ASSUME NEW k \in Reviewers, ReviewStep(k) PROVE call'[c] = call[c]
  BY <1>5, ReviewedCalls
<1>6. ASSUME NEW j \in Jobs, StartCall(j)
      PROVE  call'[c] = call[c] \/ (call[c].pc = "idle" /\ c[2] = generation[c[1]] + 1)
  BY <1>6, StartedCall
<1>7. ~Dies
  BY DEF Dies, NoCall
<1> QED
  BY <1>2, <1>3, <1>4, <1>5, <1>6, <1>7, CallsStill DEF Next, JobStep, SystemStep

LEMMA NotYetStep ==
  ASSUME HoldInv, [Next]_vars
  PROVE  NotYetHolding'
<1> USE DEF HoldInv, TruthInv, TypeInv
<1> SUFFICES ASSUME NEW c \in Calls, call'[c].pc \in {"adopt", "clear", "rekey"}
             PROVE  /\ \A w \in Workers : hold'[w] # NoHold /\ w \notin torn'
                                           => ~OfCall(hold[w], c)'
                    /\ \A k \in Reviewers :
                         review'[k].pc # "idle" /\ review'[k].worker \notin torn'
                           => ~OfCall(review[k].token, c)'
  BY DEF NotYetHolding
<1>0. torn \subseteq torn'
  BY TornGrows
<1>1. ASSUME NEW t \in Token, Granted(t), call[c].pc \in {"adopt", "clear", "rekey"} => ~OfCall(t, c)
      PROVE  ~OfCall(t, c)'
  <2>1. row'[t.attempt].job = row[t.attempt].job /\ t.generation <= generation[row[t.attempt].job]
    BY <1>1, GrantedStays DEF Granted
  <2>2. CASE call[c].pc \in {"adopt", "clear", "rekey"}
    BY <1>1, <2>1, <2>2 DEF OfCall
  <2>3. CASE c[2] = generation[c[1]] + 1
    <3>1. generation[c[1]] \in Nat
      BY CallNames, GenerationGrows
    <3> QED
      BY <2>1, <2>3, <3>1 DEF OfCall
  <2> QED
    BY <2>2, <2>3, AdopterFrom
<1>2. ASSUME NEW w \in Workers, hold[w] # NoHold, w \notin torn
      PROVE  /\ hold[w] \in Token /\ Granted(hold[w])
             /\ call[c].pc \in {"adopt", "clear", "rekey"} => ~OfCall(hold[w], c)
  BY <1>2 DEF RestOK, TokensGranted, NotYetHolding
<1>3. ASSUME NEW w \in Workers, hold'[w] # NoHold, w \notin torn' PROVE ~OfCall(hold[w], c)'
  <2>1. CASE hold'[w] = hold[w]
    BY <1>0, <1>1, <1>2, <1>3, <2>1 DEF OfCall
  <2>2. ASSUME NEW d \in Calls, call[d].pc \in {"claim", "rekey"}, hold'[w] = TokenOf(d),
               call[d].pc = "rekey" => AdoptReservation(d)
        PROVE  ~OfCall(hold[w], c)'
    <3>1. d # c
      BY <2>2, AdopterFrom
    <3>2. /\ TokenOf(d) \in Token /\ Granted(TokenOf(d)) /\ ~OfCall(TokenOf(d), c)
      BY <2>2, <3>1, CallToken DEF Working
    <3>3. \A t \in Token : Granted(t) /\ ~OfCall(t, c) => ~OfCall(t, c)'
      BY <1>1
    <3>4. \A t \in Token : hold'[w] = t /\ ~OfCall(t, c)' => ~OfCall(hold[w], c)'
      BY DEF OfCall
    <3> QED
      BY <2>2, <3>2, GrantedStays DEF OfCall
  <2>3. CASE RebuildRegisters
    <3>1. ~up
      BY <1>0, <1>3, <2>3 DEF RebuildRegisters, UpInv
    <3> QED
      BY <3>1, DownStill DEF UpInv
  <2> QED
    BY <1>3, <2>1, <2>2, <2>3, HoldMoves
<1>4. ASSUME NEW k \in Reviewers, review'[k].pc # "idle", review'[k].worker \notin torn'
      PROVE  ~OfCall(review[k].token, c)'
  <2>1. PICK t \in Token : /\ review'[k].token = t /\ Granted(t)
                           /\ call[c].pc \in {"adopt", "clear", "rekey"} => ~OfCall(t, c)
    <3>1. CASE review[k].pc # "idle" /\ review'[k].token = review[k].token
               /\ review'[k].worker = review[k].worker
      BY <1>0, <1>4, <3>1, BusyReview DEF TokensGranted, NotYetHolding
    <3>2. ASSUME NEW w \in Workers, hold[w] \in Token, review'[k] = Loaded(w, hold[w], TRUE)
          PROVE  /\ review'[k].token = hold[w] /\ Granted(hold[w])
                 /\ call[c].pc \in {"adopt", "clear", "rekey"} => ~OfCall(hold[w], c)
      <4>1. hold[w] # NoHold /\ w \notin torn
        BY <1>0, <1>4, <3>2, ReservationAssumption DEF Token, NoHold, AttemptIds, Loaded
      <4> QED
        BY <1>2, <3>2, <4>1 DEF Loaded
    <3>3. CASE k \in Calls /\ call[k].pc = "release"
               /\ review'[k] = Loaded(call[k].worker, TokenOf(k), FALSE)
      BY <3>3, CallToken DEF Working, Loaded
    <3> QED
      BY <1>4, <3>1, <3>2, <3>3, ReviewFrom
  <2> QED
    BY <1>1, <2>1 DEF OfCall
<1> QED
  BY <1>3, <1>4

LEMMA DeadStep ==
  ASSUME HoldInv, [Next]_vars
  PROVE  ReviewedAreDead'
<1> USE DEF HoldInv, TruthInv, TypeInv
<1>1. ASSUME NEW w \in Workers, review'[w].pc # "idle" PROVE review'[w].scheduled
  <2>1. w \in Reviewers /\ w \notin Calls
    BY CallNames DEF Reviewers
  <2>2. \A v \in Workers : Loaded(v, hold[v], TRUE).scheduled
    BY DEF Loaded
  <2>3. review[w].pc # "idle" => review[w].scheduled
    BY DEF ReviewedAreDead
  <2>4. \/ review[w].pc # "idle" /\ review'[w].scheduled = review[w].scheduled
        \/ \E v \in Workers : review'[w] = Loaded(v, hold[v], TRUE)
    BY <1>1, <2>1, ReviewFrom
  <2> QED
    BY <2>2, <2>3, <2>4
<1>2. ASSUME NEW k \in Reviewers, review'[k].pc \notin {"idle", "loaded"}, review'[k].scheduled
      PROVE  ~OwnerIsLive(review[k].token)'
  <2>0. \A w, t, s : Loaded(w, t, s).pc = "loaded"
    BY DEF Loaded
  <2>1. /\ review[k].pc # "idle" /\ review'[k].token = review[k].token
        /\ review'[k].scheduled = review[k].scheduled
    <3>1. review'[k].pc # "idle" /\ review'[k].pc # "loaded"
      BY <1>2
    <3>2. /\ \A w \in Workers : review'[k] # Loaded(w, hold[w], TRUE)
          /\ review'[k] # Loaded(call[k].worker, TokenOf(k), FALSE)
      BY <2>0, <3>1
    <3> QED
      BY <3>1, <3>2, ReviewFrom
  <2>2. PICK t \in Token : t = review[k].token /\ Granted(t)
    BY <2>1, BusyReview DEF TokensGranted
  <2>3. CASE review[k].pc # "loaded"
    BY <1>2, <2>1, <2>2, <2>3, GrantedStays DEF ReviewedAreDead, OwnerIsLive
  <2>4. CASE review[k].pc = "loaded"
    <3>1. ReviewStep(k) /\ ~EndReview(k)
      BY <1>2, <2>1, <2>4, ReviewGoes
    <3>2. Judge(k)
      BY <2>4, <3>1 DEF ReviewStep, SkipLiveOwner, QueueShows, QueueClean, Unreadable,
         HistoryRead, MarkResolved, ReleaseExact, InReview
    <3>3. ~OwnerIsLive(t)
      BY <1>2, <2>1, <2>2, <3>2 DEF Judge
    <3>4. ~OwnerIsLive(t)'
      BY <2>2, <3>3, GrantedStays
    <3> QED
      BY <2>1, <2>2, <3>4 DEF OwnerIsLive
  <2> QED
    BY <2>3, <2>4
<1> QED
  BY <1>1, <1>2 DEF ReviewedAreDead

\* No review that has asked is of the hold of a call that owns its job and is not on its way out.
LEMMA OwnTokenSafe ==
  ASSUME HoldInv, NEW c \in Calls, Owns(c), call[c].pc \in {"probe", "begin", "submit"},
         NEW k \in Reviewers, review[k].pc \notin {"idle", "loaded"}, review[k].token = TokenOf(c)
  PROVE  FALSE
<1> USE DEF HoldInv, TruthInv
<1>1. OfCall(TokenOf(c), c) /\ \A d \in Calls : OfCall(TokenOf(c), d) => d = c
  BY CallToken DEF Working
<1>2. OwnerIsLive(TokenOf(c))
  BY <1>1 DEF OwnerIsLive, Owns, OfCall
<1>3. ~review[k].scheduled
  BY <1>2 DEF ReviewedAreDead
<1>4. k \in Calls
  BY <1>3 DEF ReviewedAreDead, Reviewers
<1>5. call[k].pc = "release" /\ review[k].token = TokenOf(k)
  BY <1>3, <1>4 DEF OwnReviews, At
<1>6. OfCall(TokenOf(k), k)
  BY <1>4, <1>5, CallToken DEF Working
<1> QED
  BY <1>1, <1>4, <1>5, <1>6

\* What is harmless stays so, if nobody holds or sends under this token.
LEMMA HarmlessStays ==
  ASSUME HoldInv, [Next]_vars, up, NEW w \in Workers, w \notin torn', NEW t \in Token,
         Harmless(w, t),
         \A d \in Calls : call[d].pc = "rekey" => TokenOf(d) # t,
         \A d \in Calls : call[d].pc = "submit" /\ Owns(d) => TokenOf(d) # t
  PROVE  Harmless(w, t)'
<1> DEFINE a == t.attempt
<1> USE DEF HoldInv, TruthInv
<1> SUFFICES ASSUME hold'[w] = t, Open(a)', row'[a].worker = w PROVE FALSE
  BY DEF Harmless
<1>0. w \notin torn
  BY TornGrows
<1>1. a \in AttemptIds /\ t # NoHold /\ a # 0
  BY ReservationAssumption DEF Token, NoHold, AttemptIds
<1>2. CASE \E d \in Calls : /\ Owns(d) /\ SubmitIntent(d) /\ call[d].attempt = a
                            /\ call[d].pc = "submit"
                            /\ row[a].worker = call[d].worker
                            /\ row'[a].worker = row[a].worker /\ UNCHANGED hold
  <2>1. PICK d \in Calls : /\ Owns(d) /\ call[d].attempt = a /\ call[d].pc = "submit"
                           /\ call[d].worker = w /\ UNCHANGED hold
    BY <1>2
  <2> QED
    BY <1>0, <2>1 DEF OwnersHold, OwnerHolds
<1>3. CASE Open(a) /\ row[a].worker = w
  <2>1. hold[w].attempt = a
    BY <1>0, <1>1, <1>3 DEF OpenIsHeld
  <2>2. hold[w] # NoHold
    BY <1>1, <2>1 DEF NoHold
  <2>3. CASE hold'[w] = hold[w]
    BY <1>3, <2>3 DEF Harmless
  <2>4. ~RebuildRegisters
    BY <1>0 DEF RebuildRegisters, UpInv
  <2> QED
    BY <1>1, <2>2, <2>3, <2>4, HoldMoves DEF TypeInv
<1> QED
  BY <1>1, <1>2, <1>3, OpenMoves

\* The ways to a claim, to a bound row, and to the releases.
LEMMA ReserveMoves ==
  ASSUME TypeInv, NEW c \in Calls, CallStep(c),
         call'[c].pc \in {"claim", "probe", "begin", "submit", "drop"}, ~UNCHANGED call
  PROVE  \/ call'[c].pc = "claim" /\ Prepare(c) /\ ~LosesJob(c, "leave")
         \/ /\ call'[c].pc = "claim" /\ (NoWorkerFree(c) \/ ProbeRejects(c))
            /\ call[c].pc \in {"claim", "probe"}
            /\ call'[c].attempt = call[c].attempt /\ UNCHANGED rowVars
         \/ /\ call'[c].pc = "probe" /\ call'[c].attempt = call[c].attempt
            /\ call[c].pc = "claim" /\ ClaimWorker(c, call'[c].worker)
            /\ call'[c].worker \in Workers
         \/ /\ call'[c].pc = "begin" /\ BindAttemptWorker(c) /\ Goto(c, "begin")
            /\ call[c].pc = "probe" /\ Keeps(c)
         \/ /\ call'[c].pc = "submit" /\ BeginProcessing(c) /\ call[c].pc = "begin" /\ Keeps(c)
            /\ UNCHANGED <<rowVars, redisVars>>
         \/ /\ call'[c].pc = "drop" /\ call[c].pc \in {"probe", "begin"} /\ Keeps(c)
         \/ /\ call'[c].pc = "drop" /\ SearchGivesUp(c) /\ Keeps(c)
<1>1. ASSUME NEW p \in {"prepare", "fail", "wait", "leave", "release", "post", "answer", "search",
                        "clear", "rekey"},
             Goto(c, p)
      PROVE  FALSE
  BY <1>1, GotoCall
<1>2. CASE Prepare(c)
  BY <1>1, <1>2, CallRecords DEF Prepare, LosesJob, AnyCall
<1>3. ASSUME NEW w \in Workers, ClaimWorker(c, w)
      PROVE  /\ call'[c].pc = "probe" /\ call'[c].attempt = call[c].attempt
             /\ call[c].pc = "claim" /\ call'[c].worker = w
  BY <1>3, CallRecords DEF ClaimWorker, AnyCall, At
<1>4. CASE NoWorkerFree(c)
  <2>1. \/ Goto(c, "leave")
        \/ call' = [call EXCEPT ![c].tried = {}] /\ call[c].pc = "claim"
    BY <1>4 DEF NoWorkerFree, LosesJob, TooLate, At
  <2>2. UNCHANGED rowVars
    BY <1>4 DEF NoWorkerFree, TooLate, LosesJob
  <2> QED
    BY <1>1, <1>4, <2>1, <2>2, CallRecords DEF AnyCall
<1>5. CASE ProbeRejects(c)
  BY <1>5, CallRecords DEF ProbeRejects, AnyCall, At
<1>6. CASE BindAttemptWorker(c) \/ BeginProcessing(c)
  BY <1>6, GotoCall DEF BindAttemptWorker, BeginProcessing, LosesJob, At
<1>7. CASE WaitExpires(c) \/ DropClaim(c)
  BY <1>1, <1>7 DEF WaitExpires, DropClaim, LosesJob, TooLate
<1>8. CASE PromptStep(c) \/ ClaimThrows(c)
  <2>1. CASE Leave(c)
    BY <2>1 DEF Leave, NoCall, TypeInv, CallsOK
  <2>2. CASE HandleFailure(c)
    BY <1>1, <2>2 DEF HandleFailure, AfterFailure, LosesJob, TooLate
  <2> QED
    BY <1>1, <1>8, <2>1, <2>2
    DEF PromptStep, SubmitIntent, Post, Accepted, Rejected, CallThrows, Settle, ClaimThrows,
        LosesJob, TooLate
<1>9. CASE AdoptStep(c)
  <2>1. CASE SearchGivesUp(c)
    BY <2>1, GotoCall DEF SearchGivesUp
  <2>2. CASE AdoptLoads(c)
    <3>1. \/ \E b, w : call' = [call EXCEPT ![c].pc = "rekey", ![c].attempt = b, ![c].worker = w]
          \/ Goto(c, "clear") \/ Goto(c, "prepare")
      BY <2>2 DEF AdoptLoads
    <3>2. call'[c].pc = "rekey"
      BY <1>1, <3>1, CallRecords DEF AnyCall
    <3> QED
      BY <3>2
  <2> QED
    BY <1>1, <1>9, <2>1, <2>2
    DEF AdoptStep, AdoptReservation, SearchFinds, SearchPending, PromptLost
<1>10. CASE OwnerReviews(c)
  BY <1>10 DEF OwnerReviews
<1> QED
  BY <1>2, <1>3, <1>4, <1>5, <1>6, <1>7, <1>8, <1>9, <1>10 DEF CallStep, ReserveStep

\* A call that some step has moved moved itself, or its review is over, or it is new.
LEMMA CallFrom ==
  ASSUME TruthInv, [Next]_vars, NEW c \in Calls,
         call'[c].pc \in {"claim", "probe", "begin", "submit", "drop"}
  PROVE  (CallStep(c) /\ ~UNCHANGED call) \/ call'[c] = call[c]
<1> USE DEF TruthInv
<1>1. ASSUME NEW d \in Calls, CallStep(d), d # c PROVE call'[c] = call[c]
  BY <1>1, OtherCalls
<1>2. ASSUME NEW k \in Reviewers, ReviewStep(k) PROVE call'[c] = call[c]
  BY <1>2, ReviewedCalls
<1>3. ASSUME NEW j \in Jobs, StartCall(j) PROVE call'[c] = call[c]
  BY <1>3, StartedCall
<1>4. ~Dies
  BY DEF Dies, NoCall
<1> QED
  BY <1>1, <1>2, <1>3, <1>4, CallsStill DEF Next, JobStep, SystemStep

LEMMA CallsSafe ==
  ASSUME HoldInv, [Next]_vars, NEW c \in Calls
  PROVE  CallSafe(c)'
<1> USE DEF HoldInv, TruthInv, TypeInv
<1> SUFFICES ASSUME call'[c].pc \in {"probe", "begin", "drop"}, call'[c].worker \notin torn'
             PROVE  Harmless(call[c].worker, TokenOf(c))'
  BY DEF CallSafe
<1>0. call'[c].worker \notin torn
  BY TornGrows
<1>1. call[c].pc \in Working /\ call[c].pc # "idle" /\ call'[c].attempt = call[c].attempt
  BY CallFrom, ReserveMoves DEF Working, Keeps, SearchGivesUp, At
<1>2. PICK w \in Workers : w = call'[c].worker
  <2>1. TypeInv'
    BY TypeStep
  <2> QED
    BY <2>1 DEF CallsOK, CallType, Call, NoCall, WellPlaced, Working
<1>3. PICK t \in Token : t = TokenOf(c)
  BY <1>1, CallToken
<1> DEFINE a == t.attempt
<1>4. /\ a \in AttemptIds /\ a = call[c].attempt
      /\ OfCall(t, c) /\ \A d \in Calls : OfCall(t, d) => d = c
  BY <1>1, <1>3, CallToken
<1>5. TokenOf(c)' = t
  BY <1>1, <1>3 DEF TokenOf
<1>6. SUFFICES Harmless(w, t)'
  <2>1. call'[c].worker = w
    BY <1>2
  <2> QED
    BY <1>5, <2>1 DEF Harmless
<1>7. CASE call[c].pc \in {"probe", "begin", "drop"} /\ call[c].worker = w
  <2>1. Harmless(w, t) /\ up /\ w \notin torn'
    BY <1>0, <1>1, <1>2, <1>3, <1>7 DEF SafeToFree, CallSafe, UpInv
  <2>2. \A d \in Calls : call[d].pc \in {"rekey", "submit"} => TokenOf(d) # t
    BY <1>4, <1>7, CallToken DEF Working
  <2> QED
    BY <2>1, <2>2, HarmlessStays
<1>8. CASE call[c].pc = "claim" /\ ClaimWorker(c, w)
  <2>1. hold[w] = NoHold /\ UNCHANGED rowVars
    BY <1>8 DEF ClaimWorker, Claim, Claimable
  <2>2. ASSUME Open(a), row[a].worker = w PROVE FALSE
    BY <1>0, <1>2, <1>4, <2>1, <2>2, ReservationAssumption DEF OpenIsHeld, NoHold, AttemptIds
  <2>3. row' = row
    BY <2>1 DEF rowVars
  <2> QED
    BY <2>2, <2>3 DEF Harmless, Open, Unsent
<1>9. CASE SearchGivesUp(c)
  <2>1. row'[a].resolved
    BY <1>4, <1>9 DEF SearchGivesUp, RowsOK, Row
  <2> QED
    BY <2>1 DEF Harmless, Open
<1> QED
  BY <1>2, <1>7, <1>8, <1>9, CallFrom, ReserveMoves DEF Keeps

LEMMA ReviewsSafe ==
  ASSUME HoldInv, [Next]_vars, NEW k \in Reviewers
  PROVE  ReviewSafe(k)'
<1> USE DEF HoldInv, TruthInv, TypeInv
<1> DEFINE w == review[k].worker
           t == review[k].token
           a == t.attempt
<1> SUFFICES ASSUME review'[k].pc = "free", review'[k].worker \notin torn'
             PROVE  Harmless(review[k].worker, review[k].token)'
  BY DEF ReviewSafe
<1>0. \A v, u, s : Loaded(v, u, s).pc = "loaded"
  BY DEF Loaded
<1>1. review[k].pc # "idle" /\ review'[k].token = t /\ review'[k].worker = w
  BY <1>0, ReviewFrom
<1>2. /\ w \in Workers /\ w \notin torn /\ w \notin torn'
      /\ t \in Token /\ a \in AttemptIds /\ up
  BY <1>1, BusyReview, TornGrows DEF UpInv
<1>3. CASE review[k].pc = "free"
  <2>1. \A d \in Calls : call[d].pc = "rekey" => TokenOf(d) # t
    BY <1>1, <1>2, CallToken DEF Working, NotYetHolding
  <2>2. \A d \in Calls : call[d].pc = "submit" /\ Owns(d) => TokenOf(d) # t
    BY <1>3, OwnTokenSafe
  <2>3. Harmless(w, t)
    BY <1>2, <1>3 DEF SafeToFree, ReviewSafe
  <2>4. \A v \in Workers, u \in Token :
          /\ Harmless(v, u) /\ v \notin torn'
          /\ \A d \in Calls : call[d].pc = "rekey" => TokenOf(d) # u
          /\ \A d \in Calls : call[d].pc = "submit" /\ Owns(d) => TokenOf(d) # u
          => Harmless(v, u)'
    BY <1>2, HarmlessStays
  <2>5. PICK v \in Workers, u \in Token : v = w /\ u = t
    BY <1>2
  <2>6. Harmless(v, u)'
    BY <1>2, <2>1, <2>2, <2>3, <2>4, <2>5
  <2>7. v = review'[k].worker /\ u = review'[k].token
    BY <1>1, <2>5
  <2> QED
    BY <2>6, <2>7 DEF Harmless
<1>4. CASE review[k].pc # "free"
  <2>1. ReviewStep(k) /\ ~EndReview(k)
    BY <1>1, <1>4, ReviewGoes
  <2>2. review[k] \in Review
    BY <1>1, BusyReview
  <2>3. CASE MarkResolved(k)
    <3>1. row' = [row EXCEPT ![a].resolved = TRUE]
      BY <2>3 DEF MarkResolved
    <3>2. row'[a].resolved
      BY <1>2, <3>1 DEF RowsOK, Row
    <3> QED
      BY <1>1, <3>2 DEF Harmless, Open
  <2>4. CASE Judge(k)
    <3>1. ~Look(k, "queue")
      BY <2>2, <1>4 DEF Look, Review, ReviewsOK
    <3>2. UNCHANGED row /\ torn' = IF VerdictOn(a, w) \in Idle THEN torn ELSE torn \cup {w}
      BY <2>1, <2>4, <3>1 DEF Judge
    <3>3. VerdictOn(a, w) \in Idle
      BY <1>2, <3>2
    <3>4. ~Open(a) \/ row[a].worker # w
      BY <1>2, <3>3, ReservationAssumption DEF VerdictOn, Idle, Open, Unsent
    <3> QED
      BY <1>1, <3>2, <3>4 DEF Harmless, Open, Unsent
  <2>5. CASE QueueClean(k) \/ Concludes(k, "resolve")
    BY <2>2, <2>5 DEF QueueClean, Concludes, Review, ReviewsOK
  <2> QED
    BY <1>4, <2>1, <2>3, <2>4, <2>5
    DEF ReviewStep, SkipLiveOwner, QueueShows, Unreadable, HistoryRead, ReleaseExact, InReview
<1> QED
  BY <1>3, <1>4

LEMMA SafeStep ==
  ASSUME HoldInv, [Next]_vars
  PROVE  SafeToFree'
<1>1. \A c \in Calls : CallSafe(c)'
  BY CallsSafe
<1>2. \A k \in Reviewers : ReviewSafe(k)'
  BY ReviewsSafe
<1> QED
  BY <1>1, <1>2 DEF SafeToFree

\* What an owner has, nobody else takes.
LEMMA OwnerUndisturbed ==
  ASSUME HoldInv, [Next]_vars, NEW c \in Calls, Owns(c), call'[c] = call[c],
         call[c].pc \in {"claim", "probe", "begin", "submit"}
  PROVE  OwnerHolds(c)'
<1> USE DEF HoldInv, TruthInv, TypeInv
<1> DEFINE a == call[c].attempt
           w == call[c].worker
<1>1. a \in AttemptIds /\ row[a].job = c[1] /\ Unsent(a) /\ row[a].state = "PREPARING"
  BY BusyCall DEF Working, OwnersHold, OwnerHolds, Unsent
<1>2. \A d \in Calls : Owns(d) /\ d[1] = c[1] => d = c
  BY DEF Owns, Calls
<1>3. row'[a].state = row[a].state /\ row'[a].worker = row[a].worker
  <2>1. ASSUME NEW d \in Calls, Owns(d), Prepare(d), row[a].job = d[1] PROVE FALSE
    BY <1>1, <1>2, <2>1 DEF Prepare, At
  <2>2. ASSUME NEW d \in Calls, Owns(d), call[d].attempt = a, BindAttemptWorker(d) \/ SubmitIntent(d)
        PROVE  FALSE
    <3>1. call[d].pc \in {"probe", "submit"}
      BY <2>2 DEF BindAttemptWorker, SubmitIntent, At
    <3>2. d = c
      BY <1>1, <1>2, <2>2, <3>1, BusyCall DEF Working
    <3>3. \/ call[c].pc = "probe" /\ call'[c].pc \in {"begin", "drop"}
          \/ call[c].pc = "submit" /\ call'[c].pc \in {"post", "release"}
      BY <2>2, <3>2, GotoCall DEF BindAttemptWorker, SubmitIntent, LosesJob, At
    <3> QED
      BY <3>3
  <2> QED
    BY <1>1, <2>1, <2>2, UnsentMoves
<1>4. CASE call[c].pc = "claim" \/ w \in torn'
  BY <1>3, <1>4 DEF OwnersHold, OwnerHolds
<1>5. CASE call[c].pc # "claim" /\ w \notin torn'
  <2>1. w \in Workers /\ w \notin torn /\ hold[w] = TokenOf(c)
    BY <1>5, BusyCall, TornGrows DEF OwnersHold, OwnerHolds, Working
  <2>2. /\ TokenOf(c) # NoHold /\ TokenOf(c).attempt = a
        /\ OfCall(TokenOf(c), c) /\ \A d \in Calls : OfCall(TokenOf(c), d) => d = c
    BY CallToken DEF Working
  <2>3. ASSUME NEW d \in Calls, call[d].pc \in {"probe", "drop"}, hold[w] = TokenOf(d),
               ProbeRejects(d) \/ DropClaim(d)
        PROVE  FALSE
    <3>1. d = c
      BY <2>1, <2>2, <2>3, CallToken DEF Working
    <3>2. ProbeRejects(c)
      BY <2>3, <3>1 DEF DropClaim, At
    <3> QED
      BY <3>2, CallRecords DEF ProbeRejects, AnyCall, At
  <2>4. ASSUME NEW k \in Reviewers, review[k].pc = "free", hold[w] = review[k].token PROVE FALSE
    BY <1>5, <2>1, <2>4, OwnTokenSafe
  <2>5. ASSUME NEW d \in Calls, call[d].pc = "rekey", Adoptable(w, call[d].attempt) PROVE FALSE
    BY <1>1, <2>1, <2>2, <2>5 DEF Adoptable, Posting, Placed
  <2>6. ~RebuildRegisters
    BY <2>1 DEF RebuildRegisters, UpInv
  <2>7. hold'[w] = hold[w]
    BY <1>5, <2>1, <2>2, <2>3, <2>4, <2>5, <2>6, HoldMoves
  <2> QED
    BY <1>3, <2>1, <2>7 DEF OwnersHold, OwnerHolds, TokenOf
<1> QED
  BY <1>4, <1>5

LEMMA OwnersStep ==
  ASSUME HoldInv, [Next]_vars
  PROVE  OwnersHold'
<1> USE DEF HoldInv, TruthInv, TypeInv
<1> SUFFICES ASSUME NEW c \in Calls, Owns(c)',
                    call'[c].pc \in {"claim", "probe", "begin", "submit"}
             PROVE  OwnerHolds(c)'
  BY DEF OwnersHold, OwnerHolds
<1>0. torn \subseteq torn'
  BY TornGrows
<1>1. c[1] \in Jobs /\ c[1] \in live' /\ generation'[c[1]] = c[2]
  BY CallNames DEF Owns
<1>2. ~StartCall(c[1])
  <2>1. ASSUME NEW d \in Calls, d[1] = c[1], d[2] = c[2] PROVE d = c
    BY <2>1 DEF Calls
  <2>2. ASSUME StartCall(c[1]) PROVE FALSE
    <3>1. PICK d \in Calls : /\ d[1] = c[1] /\ call'[d].pc \in {"adopt", "prepare"}
                             /\ generation' = [generation EXCEPT ![c[1]] = d[2]]
      BY <1>1, <2>2, StartedCall
    <3>2. d[2] = c[2]
      BY <1>1, <3>1 DEF RestOK
    <3> QED
      BY <2>1, <3>1, <3>2
  <2> QED
    BY <2>2
<1>3. Owns(c)
  BY <1>1, <1>2, OwnerMoves DEF Owns
<1>4. CASE call'[c] = call[c]
  BY <1>3, <1>4, OwnerUndisturbed
<1>5. CASE call'[c].pc = "claim" /\ Prepare(c) /\ ~LosesJob(c, "leave")
  <2> DEFINE r == [NoRow EXCEPT !.state = "PREPARING", !.job = c[1]]
  <2>1. PICK a \in Unused(c[1]) \cup NextRow :
          /\ row' = [row EXCEPT ![a] = r]
          /\ call' = [call EXCEPT ![c].pc = "claim", ![c].attempt = a]
    BY <1>5 DEF Prepare
  <2>2. a \in AttemptIds
    BY DEF Unused, NextRow
  <2>3. r.state = "PREPARING" /\ r.worker = NoWorker
    BY DEF NoRow
  <2> HIDE DEF r
  <2>4. call'[c].attempt = a
    BY <2>1, CallRecords DEF AnyCall
  <2>5. row'[a].state = "PREPARING" /\ row'[a].worker = NoWorker
    BY <2>1, <2>2, <2>3 DEF RowsOK
  <2> QED
    BY <1>5, <2>4, <2>5 DEF OwnerHolds
<1>6. CASE /\ call'[c].pc = "claim"
           /\ call[c].pc \in {"claim", "probe"}
           /\ call'[c].attempt = call[c].attempt /\ UNCHANGED rowVars
  BY <1>3, <1>6 DEF OwnersHold, OwnerHolds, rowVars
<1>7. CASE /\ call'[c].pc = "probe" /\ call'[c].attempt = call[c].attempt
           /\ call[c].pc = "claim" /\ ClaimWorker(c, call'[c].worker)
           /\ call'[c].worker \in Workers
  <2>1. row' = row
    BY <1>7 DEF ClaimWorker, rowVars
  <2>2. hold' = [hold EXCEPT ![call'[c].worker] = TokenOf(c)]
    BY <1>7 DEF ClaimWorker, Claim
  <2>3. hold'[call'[c].worker] = TokenOf(c)
    BY <1>7, <2>2 DEF RestOK
  <2> QED
    BY <1>3, <1>7, <2>1, <2>3 DEF OwnersHold, OwnerHolds, TokenOf
<1>8. CASE /\ call'[c].pc = "begin" /\ BindAttemptWorker(c) /\ Goto(c, "begin")
           /\ call[c].pc = "probe" /\ Keeps(c)
  <2> DEFINE a == call[c].attempt
  <2>1. ~LosesJob(c, "drop")
    BY <1>3 DEF LosesJob
  <2>2. /\ row' = [row EXCEPT ![a].worker = call[c].worker] /\ hold' = hold
        /\ row[a].state = "PREPARING"
    BY <1>8, <2>1 DEF BindAttemptWorker, RowOf, redisVars
  <2>3. a \in AttemptIds /\ (call[c].worker \notin torn' => hold[call[c].worker] = TokenOf(c))
    BY <1>0, <1>3, <1>8, BusyCall DEF Working, OwnersHold, OwnerHolds
  <2>4. row'[a].state = "PREPARING" /\ row'[a].worker = call[c].worker
    BY <2>2, <2>3 DEF RowsOK, Row
  <2> QED
    BY <1>8, <2>2, <2>3, <2>4 DEF OwnerHolds, Keeps, TokenOf
<1>9. CASE /\ call'[c].pc = "submit" /\ call[c].pc = "begin" /\ Keeps(c)
           /\ UNCHANGED <<rowVars, redisVars>>
  BY <1>0, <1>3, <1>9 DEF OwnersHold, OwnerHolds, Keeps, TokenOf, rowVars, redisVars
<1> QED
  BY <1>4, <1>5, <1>6, <1>7, <1>8, <1>9, CallFrom, ReserveMoves

\* The worker of an open attempt is one of the workers.
LEMMA OpenWorker ==
  ASSUME TruthInv, NEW a \in AttemptIds, Open(a)
  PROVE  row[a].worker \in Workers /\ a # 0
BY ReservationAssumption
DEF TruthInv, TypeInv, RowsOK, Row, RowsTellTruth, RowTruth, Open, AttemptIds

LEMMA OpenStep ==
  ASSUME HoldInv, [Next]_vars
  PROVE  OpenIsHeld'
<1> USE DEF HoldInv, TruthInv
<1> SUFFICES ASSUME NEW a \in AttemptIds, Open(a)', row'[a].worker \notin torn'
             PROVE  hold'[row'[a].worker].attempt = a
  BY DEF OpenIsHeld
<1>0. row'[a].worker \notin torn
  BY TornGrows
<1>1. ASSUME NEW d \in Calls, Owns(d), SubmitIntent(d), call[d].attempt = a,
             call[d].pc = "submit", row[a].worker = call[d].worker,
             row'[a].worker = row[a].worker, UNCHANGED hold
      PROVE  hold'[row'[a].worker].attempt = a
  <2>1. hold[call[d].worker] = TokenOf(d) /\ TokenOf(d).attempt = a
    BY <1>0, <1>1 DEF OwnersHold, OwnerHolds, TokenOf
  <2> QED
    BY <1>1, <2>1
<1>2. CASE Open(a) /\ row'[a].worker = row[a].worker
  <2>1. PICK w \in Workers : w = row[a].worker /\ w \notin torn /\ w \notin torn'
    BY <1>0, <1>2, OpenWorker
  <2>2. hold[w].attempt = a /\ hold[w] # NoHold
    BY <1>2, <2>1, OpenWorker DEF OpenIsHeld, NoHold
  <2>3. ASSUME NEW c \in Calls, call[c].pc \in {"probe", "drop"}, call[c].worker = w,
               hold[w] = TokenOf(c)
        PROVE  FALSE
    BY <1>2, <2>1, <2>2, <2>3 DEF SafeToFree, CallSafe, Harmless
  <2>4. ASSUME NEW k \in Reviewers, review[k].pc = "free", review[k].worker = w,
               hold[w] = review[k].token
        PROVE  FALSE
    BY <1>2, <2>1, <2>2, <2>4 DEF SafeToFree, ReviewSafe, Harmless
  <2>5. ASSUME NEW c \in Calls, Adoptable(w, call[c].attempt), hold'[w] = TokenOf(c)
        PROVE  hold'[w].attempt = a
    BY <2>2, <2>5 DEF Adoptable, TokenOf
  <2>6. ASSUME RebuildRegisters PROVE hold'[w].attempt = a
    BY <1>2, <2>1, <2>6 DEF RebuildRegisters, RebuiltHolds
  <2>7. hold'[w].attempt = a
    BY <2>1, <2>2, <2>3, <2>4, <2>5, <2>6, HoldMoves
  <2> QED
    BY <1>2, <2>1, <2>7
<1> QED
  BY <1>1, <1>2, OpenMoves

LEMMA RebuiltStep ==
  ASSUME HoldInv, [Next]_vars
  PROVE  RebuiltHolds'
<1> USE DEF HoldInv, TruthInv
<1> SUFFICES ASSUME rebuild' # NoRebuild, NEW a \in AttemptIds, Open(a)',
                    row'[a].worker \notin torn'
             PROVE  rebuild'[row'[a].worker].attempt = a
  BY DEF RebuiltHolds
<1>0. row'[a].worker \notin torn /\ row'[a].worker \in Workers
  <2>1. TruthInv'
    BY TruthStep
  <2> QED
    BY <2>1, TornGrows DEF TypeInv, RowsOK, Row, RowsTellTruth, RowTruth, Open, Unsent
<1>1. CASE UNCHANGED rebuild
  <2>1. \A d \in Calls : ~SubmitIntent(d)
    BY <1>0, <1>1, DownStill DEF UpInv, CallStep, PromptStep
  <2> QED
    BY <1>0, <1>1, <2>1, OpenMoves DEF RebuiltHolds
<1>2. CASE RebuildReads
  <2>1. Open(a) /\ row' = row
    BY <1>2 DEF RebuildReads, rowVars, Open, Unsent
  <2>2. PICK w \in Workers : w = row[a].worker /\ w \notin torn
    BY <1>0, <2>1
  <2>3. \A b \in AttemptIds : Open(b) /\ row[b].worker = w => b = a
    BY <2>1, <2>2 DEF OpenIsHeld
  <2>4. \A b \in Unresolved(w) : b = a
    BY <2>3 DEF Unresolved, Open, Unsent
  <2>5. a \in Unresolved(w)
    BY <2>1, <2>2 DEF Unresolved, Open, Unsent
  <2>6. HoldFor(w).attempt = a
    BY <2>4, <2>5, HoldForType
  <2>7. rebuild'[w] = HoldFor(w)
    BY <1>2 DEF RebuildReads
  <2> QED
    BY <2>1, <2>2, <2>6, <2>7
<1> QED
  BY <1>1, <1>2, SystemStill DEF RebuildRegisters, Dies, RedisReset

LEMMA HoldStep == HoldInv /\ [Next]_vars => HoldInv'
<1> SUFFICES ASSUME HoldInv, [Next]_vars PROVE HoldInv'
  OBVIOUS
<1>1. TruthInv'
  BY TruthStep DEF HoldInv
<1>2. UpInv'
  BY UpStep DEF HoldInv, TruthInv
<1> QED
  BY <1>1, <1>2, GrantedStep, NotYetStep, DeadStep, SafeStep, OwnersStep, OpenStep, RebuiltStep
  DEF HoldInv

LEMMA HoldInit == Init => HoldInv
<1> SUFFICES ASSUME Init PROVE HoldInv
  OBVIOUS
<1>1. TruthInv
  BY TruthInit
<1>2. \A a \in AttemptIds : ~Open(a)
  BY DEF Init, Open, Unsent, NoRow
<1>3. \A c \in Calls : call[c].pc = "idle"
  BY DEF Init, NoCall
<1>4. \A k \in Reviewers : review[k].pc = "idle"
  BY DEF Init, NoReview
<1>5. Workers \subseteq Reviewers
  BY DEF Reviewers
<1>6. UpInv /\ TokensGranted /\ NotYetHolding /\ ReviewedAreDead
  BY <1>3, <1>4, <1>5 DEF Init, UpInv, TokensGranted, NotYetHolding, ReviewedAreDead
<1>7. SafeToFree
  BY <1>3, <1>4 DEF SafeToFree, CallSafe, ReviewSafe
<1>8. OwnersHold
  BY <1>3 DEF OwnersHold, OwnerHolds
<1>9. OpenIsHeld /\ RebuiltHolds
  BY <1>2 DEF OpenIsHeld, RebuiltHolds
<1> QED
  BY <1>1, <1>6, <1>7, <1>8, <1>9 DEF HoldInv

LEMMA HoldAlways == Spec => []HoldInv
<1>1. Init => HoldInv
  BY HoldInit
<1>2. HoldInv /\ [Next]_vars => HoldInv'
  BY HoldStep
<1> QED
  BY <1>1, <1>2, PTL DEF Spec

\* What may still be running on a worker is open there.
LEMMA AliveIsOpen ==
  ASSUME TruthInv, NEW a \in AttemptIds, Alive(a)
  PROVE  Open(a)
BY DEF TruthInv, RowsTellTruth, RowTruth, Ended, Alive, Open

\* "never a free worker over unresolved remote work": a worker on which a prompt may be running
\* is held in the name of that prompt's attempt, whatever crashes, stalls, lost answers, resets
\* and admin edits there are, unless a pass that read the row too early has torn it, or the loss
\* of the Redis data.
THEOREM HeldWhileWorking == Spec => []HeldWhileRemote
<1>1. HoldInv => HeldWhileRemote
  BY AliveIsOpen DEF HoldInv, OpenIsHeld, HeldWhileRemote
<1> QED
  BY <1>1, HoldAlways, PTL

-----------------------------------------------------------------------------
(* One prompt per worker *)

\* inUse, as the refinement mapping has it.
UsedBy(w) == {a \in AttemptIds : row[a].worker = w /\ Alive(a)}
InUse == [w \in Workers |-> UsedBy(w)]

\* Two attempts that are open on one worker, which is not torn, are the same.
LEMMA NobodyElse ==
  ASSUME HoldInv, NEW a \in AttemptIds, NEW b \in AttemptIds, Open(a), Open(b),
         row[a].worker = row[b].worker, row[a].worker \notin torn
  PROVE  a = b
BY DEF HoldInv, OpenIsHeld

\* What becomes of the prompts: one is posted, or one that was posted goes on or ends.
LEMMA PromptMoves ==
  ASSUME TruthInv, [Next]_vars
  PROVE  \/ UNCHANGED remote
         \/ \E a \in AttemptIds : /\ ~Unsent(a) /\ remote[a] = "none" /\ deadline[a] # "over"
                                  /\ remote' = [remote EXCEPT ![a] = "posted"]
         \/ \E a \in AttemptIds : /\ remote[a] = "posted"
                                  /\ remote' = [remote EXCEPT ![a] = "working"]
         \/ \E a \in AttemptIds, end \in {"history", "gone"} :
              remote[a] # "none" /\ remote' = [remote EXCEPT ![a] = end]
<1> USE DEF TruthInv, OnlyRemote, rowVars
<1>1. ASSUME NEW c \in Calls, Post(c)
      PROVE  \E a \in AttemptIds : /\ ~Unsent(a) /\ remote[a] = "none" /\ deadline[a] # "over"
                                   /\ remote' = [remote EXCEPT ![a] = "posted"]
  <2>1. At(c, "post") /\ call[c].attempt \in AttemptIds
    BY <1>1, BusyCall DEF Post, At, Working
  <2> QED
    BY <1>1, <2>1 DEF Post, Posting, Placed
<1>2. ASSUME NEW c \in Calls, Rejected(c)
      PROVE  \E a \in AttemptIds : remote[a] # "none" /\ remote' = [remote EXCEPT ![a] = "gone"]
  <2>1. call[c].attempt \in AttemptIds
    BY <1>2, BusyCall DEF Rejected, At, Working
  <2> QED
    BY <1>2, <2>1 DEF Rejected
<1>3. ASSUME NEW a \in AttemptIds, RemoteStep(a)
      PROVE  \/ UNCHANGED remote
             \/ remote[a] = "posted" /\ remote' = [remote EXCEPT ![a] = "working"]
             \/ \E end \in {"history", "gone"} :
                  remote[a] # "none" /\ remote' = [remote EXCEPT ![a] = end]
  BY <1>3 DEF RemoteStep, Lands, Ends, DeadlinePasses, ResolveSuperseded
<1>4. ASSUME NEW c \in Calls, CallStep(c) PROVE Post(c) \/ Rejected(c) \/ UNCHANGED remote
  <2>1. CASE ReserveStep(c)
    BY <2>1 DEF ReserveStep, Prepare, ClaimWorker, NoWorkerFree, WaitExpires, ProbeRejects,
       BindAttemptWorker, BeginProcessing, DropClaim, LosesJob, TooLate
  <2>2. CASE PromptStep(c) \/ ClaimThrows(c) \/ OwnerReviews(c)
    BY <2>2 DEF PromptStep, SubmitIntent, Accepted, CallThrows, Settle, HandleFailure, Leave,
       LosesJob, ClaimThrows, OwnerReviews, TooLate
  <2>3. CASE AdoptStep(c)
    BY <2>3 DEF AdoptStep, AdoptLoads, AdoptReservation, SearchFinds, SearchGivesUp,
       SearchPending, PromptLost
  <2> QED
    BY <1>4, <2>1, <2>2, <2>3 DEF CallStep
<1>5. ASSUME NEW k \in Reviewers, ReviewStep(k) PROVE UNCHANGED remote
  BY <1>5 DEF ReviewStep, SkipLiveOwner, Judge, QueueShows, QueueClean, Unreadable, HistoryRead,
     MarkResolved, ReleaseExact
<1>6. ASSUME \/ \E j \in Jobs : JobStep(j)
             \/ \E w \in Workers : TickLists(w) \/ EditReads(w)
             \/ SystemStep \/ UNCHANGED vars
      PROVE  UNCHANGED remote
  BY <1>6 DEF JobStep, StartCall, CancelJob, LeaseExpires, TickLists, EditReads, SystemStep,
     RebuildReads, RebuildRegisters, Dies, RedisReset, EditWrites, vars
<1>7. CASE \E c \in Calls : CallStep(c)
  BY <1>1, <1>2, <1>4, <1>7
<1>8. CASE \E a \in AttemptIds : RemoteStep(a)
  BY <1>3, <1>8
<1>9. CASE \E k \in Reviewers : ReviewStep(k)
  BY <1>5, <1>9
<1> QED
  BY <1>6, <1>7, <1>8, <1>9 DEF Next

\* A worker is torn by a look at Postgres or by the loss of Redis, which no prompt notices.
LEMMA TornMoves ==
  ASSUME TypeInv, [Next]_vars
  PROVE  \/ UNCHANGED torn
         \/ UNCHANGED remote /\ \E W \in SUBSET Workers : torn' = torn \cup W
<1>1. torn \subseteq torn' /\ torn' \subseteq Workers
  BY TornGrows, TypeStep DEF TypeInv, RestOK
<1>2. torn' = torn \cup (torn' \ torn) /\ (torn' \ torn) \in SUBSET Workers
  BY <1>1
<1>3. ASSUME NEW c \in Calls, CallStep(c) PROVE UNCHANGED torn
  BY <1>3 DEF CallStep, ReserveStep, Prepare, ClaimWorker, NoWorkerFree, WaitExpires,
     ProbeRejects, BindAttemptWorker, BeginProcessing, DropClaim, PromptStep, SubmitIntent, Post,
     Accepted, Rejected, CallThrows, Settle, HandleFailure, Leave, ClaimThrows, OwnerReviews,
     AdoptStep, AdoptLoads, AdoptReservation, SearchFinds, SearchGivesUp, SearchPending,
     PromptLost, OnlyCalls
<1>4. ASSUME NEW k \in Reviewers, ReviewStep(k) PROVE UNCHANGED remote
  BY <1>4 DEF ReviewStep, SkipLiveOwner, Judge, QueueShows, QueueClean, Unreadable, HistoryRead,
     MarkResolved, ReleaseExact, rowVars
<1>5. ASSUME NEW a \in AttemptIds, RemoteStep(a) PROVE UNCHANGED torn
  BY <1>5 DEF RemoteStep, Lands, Ends, DeadlinePasses, ResolveSuperseded, OnlyRemote
<1>6. ASSUME \/ \E j \in Jobs : JobStep(j)
             \/ \E w \in Workers : TickLists(w) \/ EditReads(w)
             \/ SystemStep \/ UNCHANGED vars
      PROVE  UNCHANGED remote
  BY <1>6 DEF JobStep, StartCall, CancelJob, LeaseExpires, TickLists, EditReads, SystemStep,
     RebuildReads, RebuildRegisters, Dies, RedisReset, EditWrites, vars, rowVars
<1> QED
  BY <1>2, <1>3, <1>4, <1>5, <1>6 DEF Next

\* A prompt that is neither begun nor ended stays where it was.
LEMMA UseKept ==
  ASSUME TruthInv, [Next]_vars, NEW a \in AttemptIds,
         Alive(a)' <=> Alive(a), NEW w \in Workers
  PROVE  a \in UsedBy(w)' <=> a \in UsedBy(w)
<1>1. Alive(a) => row'[a].worker = row[a].worker
  BY RowSteps DEF RowStep, RowStays, Alive, TruthInv, RowsTellTruth, RowTruth
<1> QED
  BY <1>1 DEF UsedBy

\* A prompt is sent to a worker only when none is in use there or the worker is torn, and
\* leaves it when it ends.
LEMMA UseStep ==
  ASSUME HoldInv, [Next]_vars
  PROVE  [Use!Next]_<<InUse, torn>>
<1> USE DEF HoldInv
<1>0. /\ remote \in [AttemptIds -> Remote]
      /\ \A w \in Workers : UsedBy(w) \subseteq AttemptIds /\ UsedBy(w)' \subseteq AttemptIds
  BY DEF TruthInv, TypeInv, RestOK, UsedBy
<1>1. ASSUME \A a \in AttemptIds : Alive(a)' <=> Alive(a) PROVE UNCHANGED InUse
  <2>1. \A w \in Workers : UsedBy(w)' = UsedBy(w)
    BY <1>0, <1>1, UseKept
  <2> QED
    BY <2>1 DEF InUse
<1>2. ASSUME NEW a \in AttemptIds, ~Unsent(a), remote[a] = "none", deadline[a] # "over",
             remote' = [remote EXCEPT ![a] = "posted"], UNCHANGED torn
      PROVE  Use!Next
  <2>1. PICK w \in Workers : w = row[a].worker
    <3>1. ~row[a].resolved
      BY <1>2 DEF TruthInv, RowsTellTruth, RowTruth, Ended
    <3> QED
      BY <1>2, <3>1, OpenWorker DEF Open
  <2>2. Open(a)
    BY <1>2 DEF TruthInv, RowsTellTruth, RowTruth, Ended, Open
  <2>3. UsedBy(w) = {} \/ w \in torn
    <3>1. ASSUME NEW b \in UsedBy(w), w \notin torn PROVE FALSE
      <4>1. b \in AttemptIds /\ row[b].worker = row[a].worker /\ Alive(b) /\ Open(b)
        BY <2>1, AliveIsOpen DEF UsedBy
      <4>2. b = a
        BY <2>1, <2>2, <3>1, <4>1, NobodyElse
      <4> QED
        BY <1>2, <4>1, <4>2 DEF Alive
    <3> QED
      BY <3>1
  <2>4. \A b \in AttemptIds : b # a => (Alive(b)' <=> Alive(b))
    BY <1>0, <1>2 DEF Alive
  <2>5. row'[a].worker = w /\ Alive(a)' /\ ~Alive(a)
    BY <1>0, <1>2, <2>1, RowSteps DEF RowStep, RowStays, Alive
  <2>6. UsedBy(w)' = UsedBy(w) \cup {a}
    <3>1. \A b \in AttemptIds : b # a => (b \in UsedBy(w)' <=> b \in UsedBy(w))
      BY <2>4, UseKept
    <3>2. a \in UsedBy(w)'
      BY <2>5 DEF UsedBy
    <3> QED
      BY <1>0, <3>1, <3>2
  <2>7. \A v \in Workers : v # w => UsedBy(v)' = UsedBy(v)
    BY <1>0, <2>1, <2>4, <2>5, UseKept DEF UsedBy
  <2>8. InUse' = [InUse EXCEPT ![w] = @ \cup {a}] /\ (InUse[w] = {} \/ w \in torn)
    BY <2>3, <2>6, <2>7 DEF InUse
  <2> QED
    BY <1>2, <2>8 DEF Use!Next, Use!Send, InUse, UsedBy
<1>3. ASSUME NEW a \in AttemptIds, NEW end \in {"history", "gone"}, Alive(a),
             remote' = [remote EXCEPT ![a] = end], UNCHANGED torn
      PROVE  Use!Next
  <2>1. PICK w \in Workers : w = row[a].worker
    BY <1>3, AliveIsOpen, OpenWorker
  <2>2. \A b \in AttemptIds : b # a => (Alive(b)' <=> Alive(b))
    BY <1>0, <1>3 DEF Alive
  <2>3. a \in UsedBy(w) /\ ~Alive(a)' /\ (\A v \in Workers : v # w => a \notin UsedBy(v))
    BY <1>0, <1>3, <2>1 DEF UsedBy, Alive
  <2>4. \A v \in Workers : a \notin UsedBy(v)'
    BY <2>3 DEF UsedBy
  <2>5. UsedBy(w)' = UsedBy(w) \ {a} /\ (\A v \in Workers : v # w => UsedBy(v)' = UsedBy(v))
    <3>1. \A b \in AttemptIds, v \in Workers : b # a => (b \in UsedBy(v)' <=> b \in UsedBy(v))
      BY <2>2, UseKept
    <3>2. UsedBy(w)' = UsedBy(w) \ {a}
      BY <1>0, <2>4, <3>1
    <3>3. ASSUME NEW v \in Workers, v # w PROVE UsedBy(v)' = UsedBy(v)
      BY <1>0, <2>3, <2>4, <3>1, <3>3
    <3> QED
      BY <3>2, <3>3
  <2>6. InUse' = [InUse EXCEPT ![w] = @ \ {a}] /\ a \in InUse[w]
    BY <2>3, <2>5 DEF InUse
  <2> QED
    BY <1>3, <2>6 DEF Use!Next, Use!End, InUse, UsedBy
<1>4. ASSUME NEW a \in AttemptIds, NEW to \in {"working", "history", "gone"},
             remote' = [remote EXCEPT ![a] = to], Alive(a) <=> to = "working"
      PROVE  \A b \in AttemptIds : Alive(b)' <=> Alive(b)
  BY <1>0, <1>4 DEF Alive
<1>5. ASSUME NEW a \in AttemptIds, remote[a] = "posted",
             remote' = [remote EXCEPT ![a] = "working"]
      PROVE  UNCHANGED InUse
  BY <1>1, <1>4, <1>5 DEF Alive
<1>6. ASSUME NEW a \in AttemptIds, NEW end \in {"history", "gone"},
             remote' = [remote EXCEPT ![a] = end], UNCHANGED torn
      PROVE  Use!Next \/ UNCHANGED InUse
  BY <1>1, <1>3, <1>4, <1>6
<1>7. UNCHANGED remote => UNCHANGED InUse
  BY <1>1 DEF Alive
<1>8. CASE UNCHANGED torn
  BY <1>2, <1>5, <1>6, <1>7, <1>8, PromptMoves DEF TruthInv
<1>9. ASSUME UNCHANGED remote, NEW W \in SUBSET Workers, torn' = torn \cup W
      PROVE  Use!Next
  BY <1>7, <1>9 DEF Use!Next, Use!Free, InUse, UsedBy
<1> QED
  BY <1>8, <1>9, TornMoves DEF TruthInv

\* A reservation does what it promises: a prompt is sent only to a worker on which no prompt is
\* on its way or running, unless that worker was once taken for free too early.
THEOREM ReservationGivesToOne == Spec => OnePromptPerWorker
<1>1. Init => Use!Init
  BY DEF Init, Use!Init, Alive
<1>2. HoldInv /\ [Next]_vars => [Use!Next]_<<InUse, torn>>
  BY UseStep
<1> QED
  BY <1>1, <1>2, HoldAlways, PTL DEF Spec, OnePromptPerWorker, Use!Spec, Use!useVars, InUse, UsedBy
=============================================================================
