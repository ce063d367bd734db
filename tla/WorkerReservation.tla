-------------------------- MODULE WorkerReservation --------------------------
(***************************************************************************)
(* Who holds a GPU worker.  The registry and the hash of holds in Redis    *)
(* say which worker may be claimed; the attempt rows in Postgres say what  *)
(* may still be running on it.  A hold is a token that names the attempt   *)
(* and the generation of its owner.  It is written by a claim, re-keyed by *)
(* an adoption, and given back on evidence only: by the call that leaves,  *)
(* by the reconciler that looks at every hold every 10 s, or by the        *)
(* rebuild of a booting process.                                           *)
(*                                                                         *)
(* One action is one Redis script, one transaction or one answer of the    *)
(* worker.  Ownership is reduced to the generation of a job and whether    *)
(* its lease lives; JobControl and JobProcessor have it in full.           *)
(***************************************************************************)
EXTENDS Naturals, FiniteSets

CONSTANTS
    Workers,       \* ComfyUI workers
    NoWorker,      \* worker_id of a row that is not bound
    Jobs,
    NoJob,         \* job of a row that does not exist
    MaxAttempts,   \* bound: attempt rows, numbered in the order of created_at
    MaxGeneration, \* bound: ownership generations per job
    MaxCalls,      \* bound: ownership generations of all jobs
    Troubles,      \* the kinds of trouble there may be
    MaxTroubles    \* bound: troubles in all

ASSUME ReservationAssumption ==
    /\ NoWorker \notin Workers /\ NoJob \notin Jobs
    /\ Workers \cap (Jobs \X (1 .. MaxGeneration)) = {}
    /\ MaxAttempts \in Nat /\ MaxGeneration \in Nat /\ MaxCalls \in Nat
    /\ MaxTroubles \in Nat

VARIABLES
    registry,   \* worker:registry: status of each worker
    hold,       \* worker:reservations: the token over each worker
    admission,  \* worker:admission: the registry has been built
    row,        \* execution_attempts
    remote,     \* what has become of the prompt of an attempt on its worker
    deadline,   \* uncertain_deadline of an attempt
    generation, \* dispatcher_job_control.generation
    live,       \* jobs whose owner is not retired and whose lease runs
    active,     \* active_attempt_id, 0 for none
    inflight,   \* jobs whose status says that they were being processed
    finished,   \* jobs in a terminal status
    call,       \* processJob calls, by job and generation
    review,     \* runs of reconcileReservation, of the tick and of calls
    rebuild,    \* the holds a registry build has computed and not written
    edit,       \* an admin route between its read and its write of an entry
    up,         \* the dispatcher has booted
    torn,       \* history: workers once taken for free without evidence
    troubles    \* how many there have been

redisVars == <<registry, hold, admission>>
rowVars   == <<row, remote, deadline>>
jobVars   == <<generation, live, active, inflight, finished>>
vars == <<redisVars, rowVars, jobVars, call, review, rebuild, edit, up, torn, troubles>>

-----------------------------------------------------------------------------
(* Values *)

AttemptIds == 1 .. MaxAttempts
Calls == Jobs \X (1 .. MaxGeneration)

\* reservationToken: the session is the one the generation was granted to.
Token  == [attempt: AttemptIds, generation: 0 .. MaxGeneration]
NoHold == [attempt |-> 0, generation |-> 0]

RowState == {"ABSENT", "PREPARING", "SUBMITTING", "ACCEPTED", "SUCCEEDED",
             "FAILED", "UNKNOWN_RETRIED"}
Row == [state: RowState, job: Jobs \cup {NoJob}, worker: Workers \cup {NoWorker},
        receipt: BOOLEAN, resolved: BOOLEAN]
NoRow == [state |-> "ABSENT", job |-> NoJob, worker |-> NoWorker,
          receipt |-> FALSE, resolved |-> FALSE]

\* posted: the POST is on its way.  history: ended, and the worker says so.
\* gone: the POST was lost, the worker restarted, or its history moved on.
Remote == {"none", "posted", "working", "history", "gone"}

Place == {"prepare", "claim", "probe", "begin", "drop", "submit", "post",
          "answer", "wait", "fail", "release", "leave",
          "adopt", "clear", "rekey", "search"}
Call   == [pc: Place, attempt: 0 .. MaxAttempts, worker: Workers \cup {NoWorker},
           tried: SUBSET Workers]
NoCall == [pc |-> "idle", attempt |-> 0, worker |-> NoWorker, tried |-> {}]

\* What reconcileReservation makes of the row it has loaded.
Verdict == {"unbound", "elsewhere", "unsent", "over", "known", "unknown"}

\* late: the search was made after the window in which the POST could arrive.
Review   == [pc: {"loaded", "queue", "history", "resolve", "free"},
             worker: Workers, token: Token, scheduled: BOOLEAN,
             verdict: Verdict, late: BOOLEAN]
NoReview == [pc |-> "idle"]
Reviewers == Workers \cup Calls

NoRebuild == [w \in {} |-> NoHold]
NoEdit == [pc |-> "idle"]
Edit == [pc: {"read"}, worker: Workers, status: {"IDLE", "BUSY", "DRAINING"}]

\* crash: the process dies.  stall: a lease runs out under it.  unread: a worker does
\* not answer.  lost: a Redis command or its answer is.  reset: the Redis data is.
\* edit: an admin writes a registry entry.
Kinds == {"crash", "stall", "unread", "lost", "reset", "edit"}

Trouble(kind) ==
    /\ kind \in Troubles
    /\ troubles < MaxTroubles
    /\ troubles' = troubles + 1

\* Held bookkeeping, rows and the progress of calls have the types of their tables.
ResvTypeOK ==
    /\ registry \in [Workers -> {"ABSENT", "IDLE", "BUSY", "DRAINING"}]
    /\ hold \in [Workers -> Token \cup {NoHold}]
    /\ admission \in BOOLEAN
    /\ row \in [AttemptIds -> Row]
    /\ remote \in [AttemptIds -> Remote]
    /\ deadline \in [AttemptIds -> {"unset", "open", "over"}]
    /\ generation \in [Jobs -> 0 .. MaxGeneration]
    /\ live \subseteq Jobs /\ inflight \subseteq Jobs /\ finished \subseteq Jobs
    /\ active \in [Jobs -> 0 .. MaxAttempts]
    /\ call \in [Calls -> Call \cup {NoCall}]
    /\ review \in [Reviewers -> Review \cup {NoReview}]
    /\ rebuild \in [Workers -> Token \cup {NoHold}] \cup {NoRebuild}
    /\ edit \in Edit \cup {NoEdit}
    /\ up \in BOOLEAN
    /\ torn \subseteq Workers
    /\ troubles \in 0 .. MaxTroubles

Init ==
    /\ registry = [w \in Workers |-> "ABSENT"]
    /\ hold = [w \in Workers |-> NoHold]
    /\ admission = FALSE
    /\ row = [a \in AttemptIds |-> NoRow]
    /\ remote = [a \in AttemptIds |-> "none"]
    /\ deadline = [a \in AttemptIds |-> "unset"]
    /\ generation = [j \in Jobs |-> 0]
    /\ live = {} /\ inflight = {} /\ finished = {}
    /\ active = [j \in Jobs |-> 0]
    /\ call = [c \in Calls |-> NoCall]
    /\ review = [k \in Reviewers |-> NoReview]
    /\ rebuild = NoRebuild
    /\ edit = NoEdit
    /\ up = FALSE
    /\ torn = {}
    /\ troubles = 0

-----------------------------------------------------------------------------
(* The Redis scripts *)

\* Mutant: the token names the generation that comes next.
TokenAhead(c) == [attempt |-> call[c].attempt, generation |-> c[2] + 1]
TokenOf(c) == [attempt |-> call[c].attempt, generation |-> c[2]]

\* CLAIM_LUA, CLAIM_SPECIFIC_LUA: IDLE, without a token, and the registry built.
Claimable(w) == admission /\ registry[w] = "IDLE" /\ hold[w] = NoHold

Claim(w, t) ==
    /\ Claimable(w)
    /\ registry' = [registry EXCEPT ![w] = "BUSY"]
    /\ hold' = [hold EXCEPT ![w] = t]

\* Mutants: whoever holds the worker is thrown out; the status is left BUSY.
ReleaseAnyToken(w, t) ==
    /\ hold' = [hold EXCEPT ![w] = NoHold]
    /\ registry' = IF registry[w] = "BUSY" THEN [registry EXCEPT ![w] = "IDLE"] ELSE registry

ReleaseTokenOnly(w, t) ==
    /\ hold' = IF hold[w] = t THEN [hold EXCEPT ![w] = NoHold] ELSE hold
    /\ UNCHANGED registry

\* RELEASE_IF_TOKEN_LUA: nothing, unless the token is the one presented.
ReleaseIfToken(w, t) ==
    /\ hold' = IF hold[w] = t THEN [hold EXCEPT ![w] = NoHold] ELSE hold
    /\ registry' = IF hold[w] = t /\ registry[w] = "BUSY"
                   THEN [registry EXCEPT ![w] = "IDLE"] ELSE registry

\* ADOPT_RESERVATION_LUA: the same attempt is re-keyed, an absent hold is put back.
Adoptable(w, a) == hold[w] = NoHold \/ hold[w].attempt = a

AdoptHold(w, t) ==
    /\ hold' = [hold EXCEPT ![w] = t]
    /\ registry' = IF hold[w] = NoHold /\ registry[w] = "IDLE"
                   THEN [registry EXCEPT ![w] = "BUSY"] ELSE registry

-----------------------------------------------------------------------------
(* A call takes a worker and runs its prompt *)

At(c, pc) == call[c].pc = pc
Goto(c, pc) == call' = [call EXCEPT ![c].pc = pc]
RowOf(c) == row[call[c].attempt]

\* assertOwnerInTransaction.
Owns(c) == c[1] \in live /\ generation[c[1]] = c[2]

OnlyCalls == UNCHANGED <<review, rebuild, edit, up, torn>>

\* A lost fence ends the call; what it holds is looked at on the way out.
LosesJob(c, pc) ==
    /\ ~Owns(c)
    /\ Goto(c, pc)
    /\ UNCHANGED <<redisVars, rowVars, jobVars, troubles>>

\* What is left of an owner when its job is settled or put back.
Retired(j) == live' = live \ {j}

\* The job was finished by somebody else meanwhile: the lease is all that is given up.
TooLate(c, pc) ==
    /\ Owns(c) /\ c[1] \in finished
    /\ Retired(c[1])
    /\ Goto(c, pc)
    /\ UNCHANGED <<redisVars, rowVars, generation, active, inflight, finished, troubles>>

\* acquireComfyJob and takeoverComfyJob: a new generation, when nobody's lease runs.
StartCall(j) ==
    LET g == generation[j] + 1 IN
    /\ up
    /\ j \notin live /\ j \notin finished
    /\ generation[j] < MaxGeneration
    /\ Cardinality({c \in Calls : c[2] <= generation[c[1]]}) < MaxCalls
    /\ generation' = [generation EXCEPT ![j] = g]
    /\ live' = live \cup {j}
    /\ call' = [call EXCEPT ![<<j, g>>] =
                  [NoCall EXCEPT !.pc = IF j \in inflight THEN "adopt" ELSE "prepare"]]
    /\ UNCHANGED <<redisVars, rowVars, active, inflight, finished, troubles>>
    /\ OnlyCalls

Unused(j) == {a \in AttemptIds : row[a].job = j /\ row[a].state = "PREPARING"
                                 /\ row[a].worker = NoWorker}
NextRow == {a \in AttemptIds : row[a].state = "ABSENT"
                               /\ \A b \in 1 .. (a - 1) : row[b].state # "ABSENT"}

\* prepareAttempt: an attempt that never reached a worker is used again.
Prepare(c) ==
    LET j == c[1] IN
    /\ At(c, "prepare")
    /\ \/ /\ Owns(c)
          /\ \E a \in IF Unused(j) # {} THEN Unused(j) ELSE NextRow :
               /\ row' = [row EXCEPT ![a] = [NoRow EXCEPT !.state = "PREPARING", !.job = j]]
               /\ active' = [active EXCEPT ![j] = a]
               /\ call' = [call EXCEPT ![c].pc = "claim", ![c].attempt = a]
          /\ UNCHANGED <<redisVars, remote, deadline, generation, live, inflight,
                         finished, troubles>>
       \/ LosesJob(c, "leave")
    /\ OnlyCalls

\* selectWorker claims a worker this selection has not tried.  With none left the job
\* is parked, QUEUED: it keeps its lease, and asks again when the scheduler resumes it.
ClaimWorker(c, w) ==
    /\ At(c, "claim")
    /\ w \notin call[c].tried
    /\ Claim(w, TokenOf(c))
    /\ call' = [call EXCEPT ![c].pc = "probe", ![c].worker = w]
    /\ UNCHANGED <<admission, rowVars, jobVars, troubles>>
    /\ OnlyCalls

NoWorkerFree(c) ==
    LET j == c[1] IN
    /\ At(c, "claim")
    /\ \A w \in Workers \ call[c].tried : ~Claimable(w)
    /\ \/ /\ Owns(c) /\ j \notin finished
          /\ inflight' = inflight \ {j}
          /\ call' = [call EXCEPT ![c].tried = {}]
          /\ <<call', inflight'>> # <<call, inflight>>
          /\ UNCHANGED <<redisVars, rowVars, generation, live, active, finished, troubles>>
       \/ TooLate(c, "leave")
       \/ LosesJob(c, "leave")
    /\ OnlyCalls

\* MAX_QUEUE_WAIT_MS: after 3 h of that, terminateJob.
WaitExpires(c) ==
    LET j == c[1] IN
    /\ At(c, "claim")
    /\ \A w \in Workers : ~Claimable(w)
    /\ \/ /\ Owns(c) /\ j \notin finished
          /\ finished' = finished \cup {j}
          /\ inflight' = inflight \ {j}
          /\ Retired(j)
          /\ Goto(c, "leave")
          /\ UNCHANGED <<redisVars, rowVars, generation, active, troubles>>
       \/ TooLate(c, "leave")
       \/ LosesJob(c, "leave")
    /\ OnlyCalls

\* isComfyQueueEmpty is asked after the claim: somebody may be using the worker.
ProbeRejects(c) ==
    LET w == call[c].worker IN
    /\ At(c, "probe")
    /\ ReleaseIfToken(w, TokenOf(c))
    /\ call' = [call EXCEPT ![c].pc = "claim", ![c].worker = NoWorker,
                            ![c].tried = @ \cup {w}]
    /\ UNCHANGED <<admission, rowVars, jobVars, troubles>>
    /\ OnlyCalls

\* The worker is idle.  bindAttemptWorker: under the fence, and only over an unbound
\* PREPARING row.
BindAttemptWorker(c) ==
    /\ At(c, "probe")
    /\ \/ /\ Owns(c) /\ RowOf(c).state = "PREPARING" /\ RowOf(c).worker = NoWorker
          /\ row' = [row EXCEPT ![call[c].attempt].worker = call[c].worker]
          /\ Goto(c, "begin")
          /\ UNCHANGED <<redisVars, remote, deadline, jobVars, troubles>>
       \/ LosesJob(c, "drop")
    /\ OnlyCalls

\* onBound is beginProcessing; a job cancelled while it waited gives its worker back.
BeginProcessing(c) ==
    /\ At(c, "begin")
    /\ \/ /\ Owns(c) /\ c[1] \notin finished
          /\ inflight' = inflight \cup {c[1]}
          /\ Goto(c, "submit")
          /\ UNCHANGED <<redisVars, rowVars, generation, live, active, finished, troubles>>
       \/ /\ Owns(c) /\ c[1] \in finished
          /\ Goto(c, "drop")
          /\ UNCHANGED <<redisVars, rowVars, jobVars, troubles>>
       \/ LosesJob(c, "drop")
    /\ OnlyCalls

\* The catch of reserveWorker: nothing was uploaded or sent.  A release that fails
\* twice leaves the hold behind.
DropClaim(c) ==
    /\ At(c, "drop")
    /\ \/ ReleaseIfToken(call[c].worker, TokenOf(c)) /\ UNCHANGED troubles
       \/ Trouble("lost") /\ UNCHANGED <<hold, registry>>
    /\ Goto(c, IF row[call[c].attempt].state = "UNKNOWN_RETRIED" THEN "fail" ELSE "leave")
    /\ UNCHANGED <<admission, rowVars, jobVars>>
    /\ OnlyCalls

\* The intent of submitRecordedPhase.
SubmitIntent(c) ==
    /\ At(c, "submit")
    /\ \/ /\ Owns(c)
          /\ RowOf(c).state = "PREPARING" /\ RowOf(c).worker = call[c].worker
          /\ row' = [row EXCEPT ![call[c].attempt].state = "SUBMITTING"]
          /\ Goto(c, "post")
          /\ UNCHANGED <<redisVars, remote, deadline, jobVars, troubles>>
       \/ LosesJob(c, "release")
    /\ OnlyCalls

\* POST /prompt leaves for the worker the row is bound to.
Post(c) ==
    /\ At(c, "post")
    /\ remote' = [remote EXCEPT ![call[c].attempt] = "posted"]
    /\ Goto(c, "answer")
    /\ UNCHANGED <<redisVars, row, deadline, jobVars, troubles>>
    /\ OnlyCalls

\* Accepted; the write of the receipt is best effort.
Accepted(c) ==
    /\ At(c, "answer")
    /\ remote[call[c].attempt] \in {"working", "history"}
    /\ \/ row' = [row EXCEPT ![call[c].attempt].state = "ACCEPTED",
                             ![call[c].attempt].receipt = TRUE]
       \/ UNCHANGED row
    /\ Goto(c, "wait")
    /\ UNCHANGED <<redisVars, remote, deadline, jobVars, troubles>>
    /\ OnlyCalls

\* A validation error of the worker is the only answer that proves nothing was queued.
Rejected(c) ==
    LET a == call[c].attempt IN
    /\ At(c, "answer")
    /\ remote[a] = "posted"
    /\ remote' = [remote EXCEPT ![a] = "gone"]
    /\ row' = IF row[a].state = "SUBMITTING"
              THEN [row EXCEPT ![a].state = "FAILED", ![a].resolved = TRUE] ELSE row
    /\ Goto(c, "fail")
    /\ UNCHANGED <<redisVars, deadline, jobVars, troubles>>
    /\ OnlyCalls

\* A query fails; no answer, or one that proves nothing; a wait that times out.
CallThrows(c) ==
    /\ call[c].pc \in {"prepare", "submit", "answer", "wait"}
    /\ Goto(c, "fail")
    /\ UNCHANGED <<redisVars, rowVars, jobVars, troubles>>
    /\ OnlyCalls

\* recordAttemptOutcome: only an accepted attempt moves, and only success resolves.
AttemptOutcome(j, done) ==
    LET a == active[j] IN
    row' = IF a # 0 /\ row[a].state = "ACCEPTED"
           THEN [row EXCEPT ![a].state = IF done THEN "SUCCEEDED" ELSE "FAILED",
                            ![a].resolved = @ \/ done]
           ELSE row

\* The image is there and the settlement commits, or the job is no longer ours.
Settle(c) ==
    LET j == c[1] IN
    /\ At(c, "wait")
    /\ remote[call[c].attempt] = "history"
    /\ \/ /\ Owns(c) /\ j \notin finished
          /\ AttemptOutcome(j, TRUE)
          /\ Retired(j)
          /\ finished' = finished \cup {j}
          /\ inflight' = inflight \ {j}
          /\ Goto(c, "release")
          /\ UNCHANGED <<redisVars, remote, deadline, generation, active, troubles>>
       \/ TooLate(c, "release")
       \/ LosesJob(c, "release")
    /\ OnlyCalls

\* A call that has no worker, or gave its search up, has none to free.
AfterFailure(c) ==
    IF call[c].worker = NoWorker \/ RowOf(c).state = "UNKNOWN_RETRIED"
      THEN "leave" ELSE "release"

\* handleFailure: the job fails for good, or goes back to QUEUED.
HandleFailure(c) ==
    LET j == c[1] IN
    /\ At(c, "fail")
    /\ \/ /\ Owns(c) /\ j \notin finished
          /\ AttemptOutcome(j, FALSE)
          /\ Retired(j)
          /\ finished' \in {finished, finished \cup {j}}
          /\ inflight' = inflight \ {j}
          /\ Goto(c, AfterFailure(c))
          /\ UNCHANGED <<redisVars, remote, deadline, generation, active, troubles>>
       \/ TooLate(c, AfterFailure(c))
       \/ LosesJob(c, AfterFailure(c))
    /\ OnlyCalls

\* A user or an admin cancels the job in a transaction of the API, which writes the
\* status and the refund: the owner, its lease and its attempt go on until they see it.
CancelJob(j) ==
    /\ generation[j] > 0 /\ j \notin finished
    /\ finished' = finished \cup {j}
    /\ inflight' = inflight \ {j}
    /\ UNCHANGED <<redisVars, rowVars, generation, live, active, call, troubles>>
    /\ OnlyCalls

\* The finally of processJob: retireOwnership, matched by generation.
Leave(c) ==
    /\ At(c, "leave")
    /\ IF Owns(c) THEN Retired(c[1]) ELSE UNCHANGED live
    /\ call' = [call EXCEPT ![c] = NoCall]
    /\ UNCHANGED <<redisVars, rowVars, generation, active, inflight, finished, troubles>>
    /\ OnlyCalls

-----------------------------------------------------------------------------
(* reconcileReservation *)

VerdictOn(a, w) ==
    CASE row[a].worker = NoWorker     -> "unbound"
      [] row[a].worker \notin {w, NoWorker} -> "elsewhere"
      [] row[a].worker = w /\ row[a].state = "PREPARING" -> "unsent"
      [] row[a].worker = w /\ row[a].state # "PREPARING" /\ row[a].resolved -> "over"
      [] OTHER -> IF row[a].receipt THEN "known" ELSE "unknown"

\* ownerIsLive: the token's own generation, not the one that followed it.
OwnerIsLive(t) == LET j == row[t.attempt].job IN
                  j \in live /\ generation[j] = t.generation

\* loadAttempt, of the attempt that the token names.
Loaded(w, t, scheduled) ==
    [pc |-> "loaded", worker |-> w, token |-> t, scheduled |-> scheduled,
     verdict |-> VerdictOn(t.attempt, w), late |-> FALSE]

InReview(k, pc) == review[k].pc = pc

\* A step of a review, to a place where it asks the worker or where it has the answer.
Look(k, pc) == review' = [review EXCEPT ![k].pc = pc]
Concludes(k, pc) == review' = [review EXCEPT ![k].pc = pc, ![k].verdict = "over",
                                             ![k].late = FALSE]

\* The review is over; a call that made it on its way goes on.
EndReview(k) ==
    /\ review' = [review EXCEPT ![k] = NoReview]
    /\ call' = IF k \in Calls
               THEN [call EXCEPT ![k].pc = IF @ = "clear" THEN "prepare" ELSE "leave"]
               ELSE call

OnlyReview == UNCHANGED <<jobVars, rebuild, edit, up>>

\* The tick takes the holds one by one, every 10 s and never over an unbuilt registry.
\* It loads the row here; whether its owner lives is a query of its own, in a later step.
TickLists(w) ==
    /\ up /\ admission
    /\ InReview(w, "idle")
    /\ hold[w] # NoHold
    /\ review' = [review EXCEPT ![w] = Loaded(w, hold[w], TRUE)]
    /\ UNCHANGED <<redisVars, rowVars, call, torn, troubles>>
    /\ OnlyReview

\* releaseReservation: a call on its way out asks about its own hold.
OwnerReviews(c) ==
    /\ At(c, "release")
    /\ InReview(c, "idle")
    /\ review' = [review EXCEPT ![c] = Loaded(call[c].worker, TokenOf(c), FALSE)]
    /\ UNCHANGED <<redisVars, rowVars, call, torn, troubles>>
    /\ OnlyReview

\* The scheduled pass never touches the hold of a live owner.
SkipLiveOwner(k) ==
    /\ InReview(k, "loaded")
    /\ review[k].scheduled /\ OwnerIsLive(review[k].token)
    /\ EndReview(k)
    /\ UNCHANGED <<redisVars, rowVars, torn, troubles>>
    /\ OnlyReview

\* Rows of which a review believes at once that nothing runs for them.
Idle == {"unbound", "unsent", "over"}

\* Nobody's hold: what the row said when it was loaded decides where to look, even if the
\* owner has bound, sent and left it since.
Judge(k) ==
    LET r == review[k]
        a == r.token.attempt
    IN  /\ InReview(k, "loaded")
        /\ r.scheduled => ~OwnerIsLive(r.token)
        /\ \/ /\ r.verdict \in Idle
              /\ Concludes(k, "free")
              /\ torn' = IF VerdictOn(a, r.worker) \in Idle THEN torn ELSE torn \cup {r.worker}
              /\ UNCHANGED <<call, deadline>>
           \/ /\ \/ r.verdict = "elsewhere"
                 \/ r.verdict = "unknown" /\ ~r.scheduled
              /\ EndReview(k)
              /\ UNCHANGED <<deadline, torn>>
           \/ /\ \/ r.verdict = "known"
                 \/ r.verdict = "unknown" /\ r.scheduled
              /\ Look(k, "queue")
              /\ deadline' = IF r.verdict = "unknown" /\ deadline[a] = "unset"
                             THEN [deadline EXCEPT ![a] = "open"] ELSE deadline
              /\ UNCHANGED <<call, torn>>
        /\ UNCHANGED <<redisVars, row, remote, troubles>>
        /\ OnlyReview

\* recordDiscoveredReceipt: fills a missing receipt and touches nothing else.
RecordReceipt(a) == row' = [row EXCEPT ![a].receipt = TRUE]

\* GET /queue: the prompt is queued or running, and the worker stays held.
QueueShows(k) ==
    LET a == review[k].token.attempt IN
    /\ InReview(k, "queue")
    /\ remote[a] = "working"
    /\ IF review[k].verdict = "unknown" THEN RecordReceipt(a) ELSE UNCHANGED row
    /\ EndReview(k)
    /\ UNCHANGED <<redisVars, remote, deadline, torn, troubles>>
    /\ OnlyReview

\* It is not there; the history is read after the queue.
QueueClean(k) ==
    LET a == review[k].token.attempt IN
    /\ InReview(k, "queue")
    /\ remote[a] # "working"
    /\ review' = [review EXCEPT ![k].pc = "history", ![k].late = deadline[a] = "over"]
    /\ UNCHANGED <<redisVars, rowVars, call, torn, troubles>>
    /\ OnlyReview

\* A worker that cannot be read, or is read wrongly, is never evidence.
Unreadable(k) ==
    /\ review[k].pc \in {"queue", "history"}
    /\ Trouble("unread")
    /\ EndReview(k)
    /\ UNCHANGED <<redisVars, rowVars, torn>>
    /\ OnlyReview

\* Mutant: a clean look is believed at once.
EndedAtOnce(r) == TRUE
\* The prompt has ended; or a known one is nowhere; or an unknown one is nowhere and
\* its time is over.
ShownEnded(r) == remote[r.token.attempt] = "history" \/ r.verdict = "known" \/ r.late

\* GET /history decides.
HistoryRead(k) ==
    LET r == review[k]
        a == r.token.attempt
    IN  /\ InReview(k, "history")
        /\ IF remote[a] = "history" /\ r.verdict = "unknown"
             THEN RecordReceipt(a) ELSE UNCHANGED row
        /\ IF ShownEnded(r) THEN Concludes(k, "resolve") /\ UNCHANGED call ELSE EndReview(k)
        /\ UNCHANGED <<redisVars, remote, deadline, torn, troubles>>
        /\ OnlyReview

\* releaseExact resolves first ...
MarkResolved(k) ==
    /\ InReview(k, "resolve")
    /\ row' = [row EXCEPT ![review[k].token.attempt].resolved = TRUE]
    /\ Concludes(k, "free")
    /\ UNCHANGED <<redisVars, remote, deadline, call, torn, troubles>>
    /\ OnlyReview

\* ... and frees the worker after it, if the token is still the one it looked at.
ReleaseExact(k) ==
    /\ InReview(k, "free")
    /\ ReleaseIfToken(review[k].worker, review[k].token)
    /\ EndReview(k)
    /\ UNCHANGED <<admission, rowVars, torn, troubles>>
    /\ OnlyReview

\* resolveSupersededAttempts: a known prompt that no token names, of no live owner,
\* found ended.
ResolveSuperseded(a) ==
    /\ up /\ admission
    /\ row[a].state \notin {"ABSENT", "PREPARING"} /\ row[a].receipt /\ ~row[a].resolved
    /\ \A w \in Workers : hold[w].attempt # a
    /\ row[a].job \notin live
    /\ remote[a] \in {"history", "gone"}
    /\ row' = [row EXCEPT ![a].resolved = TRUE]
    /\ UNCHANGED <<redisVars, remote, deadline, call, review, torn, troubles>>
    /\ OnlyReview

-----------------------------------------------------------------------------
(* adoptComfyJob *)

\* Running, or possibly so, on a worker: the prompt is waited for, not repeated.
Adopts(a) == a # 0 /\ row[a].state \in {"SUBMITTING", "ACCEPTED"}
                   /\ row[a].worker # NoWorker

\* loadActiveAttempt, and what it leads to: a hold that names an attempt which is not
\* adopted is reviewed first, as the tick would review it.
AdoptLoads(c) ==
    LET a == active[c[1]]
        w == row[a].worker
        held == a # 0 /\ w # NoWorker /\ hold[w].attempt = a
    IN  /\ At(c, "adopt")
        /\ \/ /\ Adopts(a)
              /\ call' = [call EXCEPT ![c].pc = "rekey", ![c].attempt = a, ![c].worker = w]
              /\ UNCHANGED review
           \/ /\ ~Adopts(a) /\ held
              /\ review' = [review EXCEPT ![c] = Loaded(w, hold[w], TRUE)]
              /\ Goto(c, "clear")
           \/ /\ ~Adopts(a) /\ ~held
              /\ Goto(c, "prepare")
              /\ UNCHANGED review
        /\ UNCHANGED <<redisVars, rowVars, jobVars, rebuild, edit, up, torn, troubles>>

\* The script is not fenced: the adopter may have lost the job by now.
AdoptReservation(c) ==
    LET a == call[c].attempt
        w == call[c].worker
    IN  /\ At(c, "rekey")
        /\ \/ /\ registry[w] # "ABSENT" /\ Adoptable(w, a)
              /\ AdoptHold(w, TokenOf(c))
              /\ Goto(c, IF row[a].receipt THEN "wait" ELSE "search")
              /\ deadline' = IF ~row[a].receipt /\ deadline[a] = "unset"
                             THEN [deadline EXCEPT ![a] = "open"] ELSE deadline
           \/ /\ registry[w] = "ABSENT" \/ ~Adoptable(w, a)
              /\ Goto(c, "leave")
              /\ UNCHANGED <<hold, registry, deadline>>
        /\ UNCHANGED <<admission, row, remote, jobVars, troubles>>
        /\ OnlyCalls

\* searchForReceipt finds the prompt ...
SearchFinds(c) ==
    /\ At(c, "search")
    /\ remote[call[c].attempt] \in {"working", "history"}
    /\ RecordReceipt(call[c].attempt)
    /\ Goto(c, "wait")
    /\ UNCHANGED <<redisVars, remote, deadline, jobVars, troubles>>
    /\ OnlyCalls

\* ... or is sure that there is none, and lets the job be retried.
SearchGivesUp(c) ==
    LET a == call[c].attempt IN
    /\ At(c, "search")
    /\ remote[a] \notin {"working", "history"} /\ deadline[a] = "over"
    /\ row' = [row EXCEPT ![a].resolved = TRUE,
                          ![a].state = IF @ = "SUBMITTING" THEN "UNKNOWN_RETRIED" ELSE @]
    /\ Goto(c, "drop")
    /\ UNCHANGED <<redisVars, remote, deadline, jobVars, troubles>>
    /\ OnlyCalls

\* The worker cannot be read past the deadline: pending, and adopted again later.
SearchPending(c) ==
    /\ At(c, "search")
    /\ deadline[call[c].attempt] = "over"
    /\ Goto(c, "leave")
    /\ UNCHANGED <<redisVars, rowVars, jobVars, troubles>>
    /\ OnlyCalls

\* findPromptById of an adopter: the worker has no record of the prompt.
PromptLost(c) ==
    /\ At(c, "wait")
    /\ remote[call[c].attempt] = "gone"
    /\ Goto(c, "fail")
    /\ UNCHANGED <<redisVars, rowVars, jobVars, troubles>>
    /\ OnlyCalls

-----------------------------------------------------------------------------
(* rebuildWorkerRegistry *)

\* Mutant: an attempt that is recorded as failed is taken for ended.
UnresolvedRunning(w) == {a \in AttemptIds : /\ row[a].worker = w /\ ~row[a].resolved
                                            /\ row[a].state \in {"SUBMITTING", "ACCEPTED"}}
Unresolved(w) == {a \in AttemptIds : /\ row[a].worker = w /\ ~row[a].resolved
                                     /\ row[a].state \notin {"ABSENT", "PREPARING"}}

\* One hold per worker, the newest unresolved attempt, under its job's present owner.
HoldFor(w) ==
    IF Unresolved(w) = {} THEN NoHold
    ELSE LET a == CHOOSE x \in Unresolved(w) : \A y \in Unresolved(w) : y <= x
         IN  [attempt |-> a, generation |-> generation[row[a].job]]

\* At boot, and on a tick that finds the marker gone: admission closes, then Postgres is read.
RebuildReads ==
    /\ rebuild = NoRebuild
    /\ ~up \/ ~admission
    /\ admission' = FALSE
    /\ rebuild' = [w \in Workers |-> HoldFor(w)]
    /\ UNCHANGED <<registry, hold, rowVars, jobVars, call, review, edit, up, torn, troubles>>

\* registerWorkers: holds nobody rebuilt are dropped, admission opens last.
RebuildRegisters ==
    /\ rebuild # NoRebuild
    /\ hold' = rebuild
    /\ registry' = [w \in Workers |-> IF rebuild[w] # NoHold THEN "BUSY" ELSE "IDLE"]
    /\ admission' = TRUE
    /\ up' = TRUE
    /\ rebuild' = NoRebuild
    /\ UNCHANGED <<rowVars, jobVars, call, review, edit, torn, troubles>>

-----------------------------------------------------------------------------
(* The worker, time, faults, the admin *)

OnlyRemote == UNCHANGED <<redisVars, row, jobVars, call, review, rebuild, edit, up, torn>>

\* The worker takes the prompt, within the 15 s of the POST and long before the
\* end of the 90 s for which it is searched.
Lands(a) ==
    /\ remote[a] = "posted" /\ deadline[a] # "over"
    /\ remote' = [remote EXCEPT ![a] = "working"]
    /\ UNCHANGED <<deadline, troubles>>
    /\ OnlyRemote

\* The prompt ends, with a result or an error; the POST is lost; the worker restarts
\* or its history moves on.
Ends(a) ==
    /\ \/ /\ remote[a] = "working"
          /\ remote' = [remote EXCEPT ![a] = "history"]
       \/ /\ remote[a] \in {"posted", "working", "history"}
          /\ remote' = [remote EXCEPT ![a] = "gone"]
    /\ UNCHANGED <<deadline, troubles>>
    /\ OnlyRemote

\* The search window is past the point at which a POST can still arrive: it is made
\* by the same process, right after the intent commits.
DeadlinePasses(a) ==
    /\ deadline[a] = "open" /\ remote[a] # "posted"
    /\ ~\E c \in Calls : At(c, "post") /\ call[c].attempt = a
    /\ deadline' = [deadline EXCEPT ![a] = "over"]
    /\ UNCHANGED <<remote, troubles>>
    /\ OnlyRemote

\* The process renews the lease of every call it has.
Renewed(j) == \E g \in 1 .. MaxGeneration : g = generation[j] /\ ~At(<<j, g>>, "idle")

\* A lease runs out: nobody renews it, or the process that should stalls.
LeaseExpires(j) ==
    /\ j \in live
    /\ live' = live \ {j}
    /\ IF Renewed(j) THEN Trouble("stall") ELSE UNCHANGED troubles
    /\ UNCHANGED <<redisVars, rowVars, generation, active, inflight, finished, call,
                   review, rebuild, edit, up, torn>>

\* The process stops; Redis and Postgres keep what they have.
Dies ==
    /\ up
    /\ Trouble("crash")
    /\ up' = FALSE
    /\ call' = [c \in Calls |-> NoCall]
    /\ review' = [k \in Reviewers |-> NoReview]
    /\ rebuild' = NoRebuild
    /\ UNCHANGED <<redisVars, rowVars, jobVars, edit, torn>>

\* A Redis command of a claim or of its release succeeds and its answer is lost.
ClaimThrows(c) ==
    /\ call[c].pc = "probe"
    /\ Trouble("lost")
    /\ Goto(c, "leave")
    /\ UNCHANGED <<redisVars, rowVars, jobVars>>
    /\ OnlyCalls

\* Redis comes back empty.
RedisReset ==
    /\ up /\ rebuild = NoRebuild
    /\ Trouble("reset")
    /\ registry' = [w \in Workers |-> "ABSENT"]
    /\ hold' = [w \in Workers |-> NoHold]
    /\ admission' = FALSE
    /\ torn' = Workers
    /\ UNCHANGED <<rowVars, jobVars, call, review, rebuild, edit, up>>

\* setDrainState and syncToRedis read a whole entry ...
EditReads(w) ==
    /\ edit = NoEdit
    /\ registry[w] # "ABSENT"
    /\ Trouble("edit")
    /\ edit' = [pc |-> "read", worker |-> w, status |-> registry[w]]
    /\ UNCHANGED <<redisVars, rowVars, jobVars, call, review, rebuild, up, torn>>

\* ... and write it back: drained, undrained, or with another field changed.
EditWrites ==
    /\ edit # NoEdit
    /\ \E to \in {"DRAINING", "IDLE", edit.status} :
         /\ to = "DRAINING" => edit.status # "DRAINING" \/ to = edit.status
         /\ to = "IDLE" => edit.status \in {"DRAINING", "IDLE"}
         /\ registry' = [registry EXCEPT ![edit.worker] = to]
    /\ edit' = NoEdit
    /\ UNCHANGED <<hold, admission, rowVars, jobVars, call, review, rebuild, up, torn, troubles>>

-----------------------------------------------------------------------------
(* The specification *)

ReserveStep(c) ==
    \/ Prepare(c) \/ \E w \in Workers : ClaimWorker(c, w)
    \/ NoWorkerFree(c) \/ WaitExpires(c) \/ ProbeRejects(c)
    \/ BindAttemptWorker(c) \/ BeginProcessing(c) \/ DropClaim(c)

PromptStep(c) ==
    \/ SubmitIntent(c) \/ Post(c) \/ Accepted(c) \/ Rejected(c) \/ CallThrows(c)
    \/ Settle(c) \/ HandleFailure(c) \/ Leave(c)

AdoptStep(c) ==
    \/ AdoptLoads(c) \/ AdoptReservation(c) \/ SearchFinds(c) \/ SearchGivesUp(c)
    \/ SearchPending(c) \/ PromptLost(c)

ReviewStep(k) ==
    \/ SkipLiveOwner(k) \/ Judge(k) \/ QueueShows(k) \/ QueueClean(k)
    \/ Unreadable(k) \/ HistoryRead(k) \/ MarkResolved(k) \/ ReleaseExact(k)

CallStep(c) == ReserveStep(c) \/ PromptStep(c) \/ AdoptStep(c) \/ OwnerReviews(c)
               \/ ClaimThrows(c)

RemoteStep(a) == Lands(a) \/ Ends(a) \/ DeadlinePasses(a) \/ ResolveSuperseded(a)

JobStep(j) == StartCall(j) \/ CancelJob(j) \/ LeaseExpires(j)

SystemStep == RebuildReads \/ RebuildRegisters \/ Dies \/ RedisReset \/ EditWrites

Next ==
    \/ \E c \in Calls : CallStep(c)
    \/ \E k \in Reviewers : ReviewStep(k)
    \/ \E w \in Workers : TickLists(w) \/ EditReads(w)
    \/ \E a \in AttemptIds : RemoteStep(a)
    \/ \E j \in Jobs : JobStep(j)
    \/ SystemStep

Spec == Init /\ [][Next]_vars

-----------------------------------------------------------------------------
(* Properties *)

\* The prompt is on its way, or queued or running.
Alive(a) == remote[a] \in {"posted", "working"}

\* "never a free worker over unresolved remote work": a worker on which a prompt
\* may be running is held in the name of that prompt's attempt, whatever calls, adopters,
\* ticks and rebuilds do with stale tokens and copies of the row.  Two things break it, and
\* mark the worker torn: a pass that read the row before its owner bound or sent it, and
\* asked for the owner after that one had retired (reservation-reconciler.ts:338-346), and
\* the loss of the Redis data.
HeldWhileRemote ==
    \A a \in AttemptIds :
       Alive(a) /\ row[a].worker \notin torn => hold[row[a].worker].attempt = a

\* resolved_at "states a fact about the worker": the prompt of a resolved attempt
\* has ended, however many calls, passes and adopters looked at it and when.
ResolvedIsOver == \A a \in AttemptIds : row[a].resolved => ~Alive(a)

\* Reservation gives a worker to one prompt at a time, until it is torn.
Use == INSTANCE WorkerUse WITH
         Prompts <- AttemptIds,
         inUse <- [w \in Workers |-> {a \in AttemptIds : row[a].worker = w /\ Alive(a)}],
         freed <- torn
OnePromptPerWorker == Use!Spec

\* Time and the loops of the process go on: calls, reviews, ticks, rebuilds and
\* prompts come to an end.  Nothing is assumed of faults, resets, edits or cancels.
Fairness ==
    /\ \A c \in Calls : WF_vars(CallStep(c))
    /\ \A k \in Reviewers : WF_vars(ReviewStep(k))
    /\ \A w \in Workers : WF_vars(TickLists(w))
    /\ \A a \in AttemptIds : WF_vars(Lands(a) \/ Ends(a)) /\ WF_vars(DeadlinePasses(a))
    /\ \A j \in Jobs : WF_vars(~Renewed(j) /\ LeaseExpires(j))
    /\ WF_vars(RebuildReads) /\ WF_vars(RebuildRegisters)

FairSpec == Spec /\ Fairness

\* Whatever happens to calls, processes and to Redis, every worker can be claimed
\* again and again: no hold and no BUSY mark outlives the work it stands for, unless an
\* admin writes a registry entry, who may drain the worker or undo a release.
CapacityReturns == (\A w \in Workers : []<>Claimable(w)) \/ <>(edit # NoEdit)
=============================================================================
