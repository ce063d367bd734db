----------------------------- MODULE JobControl -----------------------------
(***************************************************************************)
(* The durable state of a paid try-on job: its row in `jobs`, its row in   *)
(* `dispatcher_job_control` (who owns it, under which generation and       *)
(* lease), its `execution_attempts`, and the refund rows of the credit     *)
(* ledger.  One action is one Postgres transaction of the dispatcher or of *)
(* the API; the row lock every one of them takes on `jobs` is what makes   *)
(* each of them a single step.                                             *)
(*                                                                         *)
(* The clients are left arbitrary.  A dispatcher process may present any   *)
(* owner token ever issued to it, at any time and in any order, so the     *)
(* steps of a process that slept through its lease, of one that was        *)
(* replaced, and of two handlers of the same job are all here.             *)
(* JobProcessor says in which order the real handlers take these steps.    *)
(***************************************************************************)
EXTENDS Naturals

CONSTANTS
    Jobs,          \* job ids
    Sessions,      \* process incarnations (processSession); never reused
    NoSession,     \* owner_session of a job that has no control row
    Charge,        \* Charge[j]: jobs.credits_charged
    Phases,        \* execution phases: main, mannequin, garment_extract
    NoPhase,       \* phase of an attempt row that does not exist
    MaxGeneration, \* bound: ownership generations per job
    MaxAttempts,   \* bound: execution_attempts rows per job
    MaxFailures    \* bound: counted failures (jobs.attempts) per job

ASSUME ControlAssumption ==
    /\ NoSession \notin Sessions
    /\ NoPhase \notin Phases
    /\ Charge \in [Jobs -> Nat]
    /\ MaxGeneration \in Nat /\ MaxAttempts \in Nat /\ MaxFailures \in Nat

VARIABLES
    status,    \* jobs.status; NEW is a job the API has not inserted yet
    failures,  \* jobs.attempts: counted failures
    control,   \* dispatcher_job_control: owner, generation, lease, retired
    active,    \* active_attempt_id: attempt_no of the attempt, 0 for none
    exec,      \* execution_attempts, by attempt_no
    sent,      \* sent[j][a]: POSTs of the prompt made for attempt a
    awaiting,  \* attempts whose POST has been sent and not been answered
    refunds,   \* reasons of the refund rows of the job in the ledger
    credited,  \* credits those rows gave back
    outputs,   \* jobs with a job_outputs row
    enqueuing, \* jobs whose create request has not finished its XADD
    tokens     \* every OwnerToken ever handed to a dispatcher process

ownerVars   == <<control, tokens>>
attemptVars == <<active, exec, sent, awaiting>>
moneyVars   == <<refunds, credited, outputs>>
vars == <<status, failures, ownerVars, attemptVars, moneyVars, enqueuing>>

-----------------------------------------------------------------------------
(* Values *)

InFlight == {"PREPROCESSING", "GENERATING", "UPLOADING"}
Terminal == {"COMPLETED", "FAILED", "CANCELLED"}
Status   == {"NEW", "QUEUED"} \cup InFlight \cup Terminal

\* A lease as Postgres time sees it: at least the 10 s a storage write needs,
\* less than that, or over.
Fresh   == 2
Short   == 1
Expired == 0

Control == [session: Sessions \cup {NoSession}, generation: 0 .. MaxGeneration,
            lease: {Fresh, Short, Expired}, retired: BOOLEAN]

\* No control row: generation 0, nobody's lease.
NoControl == [session |-> NoSession, generation |-> 0,
              lease |-> Expired, retired |-> FALSE]

Token == [job: Jobs, session: Sessions, generation: 1 .. MaxGeneration]

AttemptIds == 1 .. MaxAttempts

AttemptState == {"ABSENT", "PREPARING", "SUBMITTING", "ACCEPTED", "OUTPUT_READY",
                 "SUCCEEDED", "FAILED", "UNKNOWN_RETRIED"}

\* bound: the row names the worker it was reserved on.
Attempt == [state: AttemptState, phase: Phases \cup {NoPhase}, bound: BOOLEAN]
NoAttempt == [state |-> "ABSENT", phase |-> NoPhase, bound |-> FALSE]

\* JOB_REFUND_REASONS without REFUND_USER_REQUEST, which only ever pays for a
\* COMPLETED job that a human decided to refund.
Reason == {"JOB_FAIL_REFUND", "JOB_CANCEL_REFUND", "REFUND_ADMIN_CANCEL",
           "REFUND_CANCELLED", "REFUND_ENQUEUE_FAIL"}

TypeOK ==
    /\ status \in [Jobs -> Status]
    /\ failures \in [Jobs -> 0 .. MaxFailures]
    /\ control \in [Jobs -> Control]
    /\ active \in [Jobs -> 0 .. MaxAttempts]
    /\ exec \in [Jobs -> [AttemptIds -> Attempt]]
    /\ sent \in [Jobs -> [AttemptIds -> Nat]]
    /\ awaiting \subseteq Jobs \X AttemptIds
    /\ refunds \in [Jobs -> SUBSET Reason]
    /\ credited \in [Jobs -> Nat]
    /\ outputs \subseteq Jobs
    /\ enqueuing \subseteq Jobs
    /\ tokens \subseteq Token

Init ==
    /\ status = [j \in Jobs |-> "NEW"]
    /\ failures = [j \in Jobs |-> 0]
    /\ control = [j \in Jobs |-> NoControl]
    /\ active = [j \in Jobs |-> 0]
    /\ exec = [j \in Jobs |-> [a \in AttemptIds |-> NoAttempt]]
    /\ sent = [j \in Jobs |-> [a \in AttemptIds |-> 0]]
    /\ awaiting = {}
    /\ refunds = [j \in Jobs |-> {}]
    /\ credited = [j \in Jobs |-> 0]
    /\ outputs = {}
    /\ enqueuing = {}
    /\ tokens = {}

-----------------------------------------------------------------------------
(* The ownership fence *)

IsTerminal(j) == status[j] \in Terminal

\* lockControl: a row that is unretired and whose lease has not run out.
Live(j) == ~control[j].retired /\ control[j].lease # Expired

\* assertOwnerInTransaction.  A terminal job is not a loss of ownership.
Owns(t) ==
    /\ control[t.job].session = t.session
    /\ control[t.job].generation = t.generation
    /\ Live(t.job)

\* bumpGeneration: the row the upsert leaves, whoever wrote it before.
Bumped(j, s) == [session |-> s, generation |-> control[j].generation + 1,
                 lease |-> Fresh, retired |-> FALSE]

\* Faulty: the upsert changes the owner and forgets the generation.
GrantSameGeneration(j, s) ==
    LET row == [Bumped(j, s) EXCEPT !.generation = IF @ > 1 THEN @ - 1 ELSE @]
    IN  /\ control[j].generation < MaxGeneration
        /\ control' = [control EXCEPT ![j] = row]
        /\ tokens' = tokens \cup {[job |-> j, session |-> s,
                                   generation |-> row.generation]}

Grant(j, s) ==
    /\ control[j].generation < MaxGeneration
    /\ control' = [control EXCEPT ![j] = Bumped(j, s)]
    /\ tokens' = tokens \cup {[job |-> j, session |-> s,
                               generation |-> control[j].generation + 1]}

\* acquireComfyJob: a QUEUED job nobody holds.  The status stays QUEUED.
Acquire(j, s) ==
    /\ status[j] = "QUEUED"
    /\ ~Live(j)
    /\ Grant(j, s)
    /\ UNCHANGED <<status, failures, attemptVars, moneyVars, enqueuing>>

\* takeoverComfyJob: a job a dead owner left in flight.
Takeover(j, s) ==
    /\ status[j] \in InFlight
    /\ ~Live(j)
    /\ Grant(j, s)
    /\ UNCHANGED <<status, failures, attemptVars, moneyVars, enqueuing>>

\* Faulty: the renewal no longer asks for an unexpired lease.
RenewExpired(t) ==
    /\ t \in tokens
    /\ control[t.job].session = t.session
    /\ control[t.job].generation = t.generation
    /\ ~control[t.job].retired
    /\ control' = [control EXCEPT ![t.job].lease = Fresh]
    /\ UNCHANGED <<status, failures, tokens, attemptVars, moneyVars, enqueuing>>

\* renewLeases: only an unexpired, unretired lease of exactly this generation.
RenewLease(t) ==
    /\ t \in tokens
    /\ Owns(t)
    /\ control' = [control EXCEPT ![t.job].lease = Fresh]
    /\ UNCHANGED <<status, failures, tokens, attemptVars, moneyVars, enqueuing>>

\* Postgres time passes.
LeaseAges(j) ==
    /\ control[j].lease # Expired
    /\ control' = [control EXCEPT ![j].lease = @ - 1]
    /\ UNCHANGED <<status, failures, tokens, attemptVars, moneyVars, enqueuing>>

\* retireOwnership: matches job, session and generation, whatever the lease.
RetireOwnership(t) ==
    /\ t \in tokens
    /\ control[t.job].session = t.session
    /\ control[t.job].generation = t.generation
    /\ control' = [control EXCEPT ![t.job].retired = TRUE]
    /\ UNCHANGED <<status, failures, tokens, attemptVars, moneyVars, enqueuing>>

\* retireSessionOwnership: a process shutting down hands back what it holds.
RetireSession(s) ==
    /\ \E j \in Jobs : control[j].session = s /\ ~control[j].retired
    /\ control' = [j \in Jobs |-> IF control[j].session = s
                                    THEN [control[j] EXCEPT !.retired = TRUE]
                                    ELSE control[j]]
    /\ UNCHANGED <<status, failures, tokens, attemptVars, moneyVars, enqueuing>>

-----------------------------------------------------------------------------
(* Status writes of a running owner *)

SetStatus(j, st) == status' = [status EXCEPT ![j] = st]

\* beginProcessing, once a worker is reserved; nothing if already past QUEUED.
BeginProcessing(t) ==
    /\ t \in tokens
    /\ Owns(t)
    /\ status[t.job] = "QUEUED"
    /\ SetStatus(t.job, "PREPROCESSING")
    /\ UNCHANGED <<failures, ownerVars, attemptVars, moneyVars, enqueuing>>

\* requeueForNoWorker: show QUEUED and keep the lease.
ShowQueued(t) ==
    /\ t \in tokens
    /\ Owns(t)
    /\ ~IsTerminal(t.job)
    /\ SetStatus(t.job, "QUEUED")
    /\ UNCHANGED <<failures, ownerVars, attemptVars, moneyVars, enqueuing>>

\* transitionJob as paid-Comfy callers use it.
Transition(t, st) ==
    /\ t \in tokens
    /\ Owns(t)
    /\ st \in {"GENERATING", "UPLOADING"}
    /\ ~IsTerminal(t.job)
    /\ SetStatus(t.job, st)
    /\ UNCHANGED <<failures, ownerVars, attemptVars, moneyVars, enqueuing>>

\* The first transaction of handleFailure; a terminal job is counted too.
CountFailure(t) ==
    /\ t \in tokens
    /\ Owns(t)
    /\ failures[t.job] < MaxFailures
    /\ failures' = [failures EXCEPT ![t.job] = @ + 1]
    /\ UNCHANGED <<status, ownerVars, attemptVars, moneyVars, enqueuing>>

-----------------------------------------------------------------------------
(* Settlement *)

\* recordAttemptOutcome: only an active attempt whose prompt was accepted moves.
Outcome(j, result) ==
    LET a == active[j] IN
    IF a # 0 /\ exec[j][a].state \in {"ACCEPTED", "OUTPUT_READY"}
      THEN [exec EXCEPT ![j][a].state =
              IF result = "COMPLETED" THEN "SUCCEEDED" ELSE "FAILED"]
      ELSE exec

\* A refund row and the balance update that goes with it, unless the caller's
\* check found the job already paid.
PayBack(j, reason, alreadyPaid) ==
    IF alreadyPaid
      THEN UNCHANGED <<refunds, credited>>
      ELSE /\ refunds' = [refunds EXCEPT ![j] = @ \cup {reason}]
           /\ credited' = [credited EXCEPT ![j] = @ + Charge[j]]

\* "has ANY of these been paid for this job?", and nothing for a free job.
NothingDue(j) == refunds[j] # {} \/ Charge[j] = 0

RefundReason(result) ==
    IF result = "CANCELLED" THEN "JOB_CANCEL_REFUND" ELSE "JOB_FAIL_REFUND"

\* The writes of settleInTransaction for a job that is not terminal yet.
SettleRows(j, result) ==
    /\ SetStatus(j, result)
    /\ exec' = Outcome(j, result)
    /\ IF result = "COMPLETED"
         THEN outputs' = outputs \cup {j} /\ UNCHANGED <<refunds, credited>>
         ELSE PayBack(j, RefundReason(result), NothingDue(j)) /\ UNCHANGED outputs
    /\ UNCHANGED <<failures, active, sent, awaiting, enqueuing>>

\* settleComfyJob under an owner token.
SettleOwned(t, result) ==
    /\ t \in tokens
    /\ Owns(t)
    /\ ~IsTerminal(t.job)
    /\ SettleRows(t.job, result)
    /\ control' = [control EXCEPT ![t.job].retired = TRUE]
    /\ UNCHANGED tokens

\* The same call on a job somebody else finished: the lease is all it gives up.
SettleTooLate(t) ==
    /\ Owns(t)
    /\ IsTerminal(t.job)
    /\ RetireOwnership(t)

\* settleComfyJob under takeover authority: the sweeper fails a job that no one
\* holds; its generation is retired before anyone could use it.
SettleTakeover(j, s) ==
    /\ status[j] \in InFlight
    /\ ~Live(j)
    /\ control[j].generation < MaxGeneration
    /\ SettleRows(j, "FAILED")
    /\ control' = [control EXCEPT ![j] = [Bumped(j, s) EXCEPT !.retired = TRUE]]
    /\ UNCHANGED tokens

\* yieldComfyJob: QUEUED again and authority retired, in one transaction.
Yield(t) ==
    /\ t \in tokens
    /\ Owns(t)
    /\ ~IsTerminal(t.job)
    /\ SetStatus(t.job, "QUEUED")
    /\ exec' = Outcome(t.job, "FAILED")
    /\ control' = [control EXCEPT ![t.job].retired = TRUE]
    /\ UNCHANGED <<failures, tokens, active, sent, awaiting, moneyVars, enqueuing>>

-----------------------------------------------------------------------------
(* Execution attempts *)

\* A PREPARING row of this phase that never reached a worker is used again.
Idle(j, ph) == {a \in AttemptIds : exec[j][a].state = "PREPARING"
                                   /\ exec[j][a].phase = ph
                                   /\ ~exec[j][a].bound}

\* attempt_no is the maximum so far plus one.
NextAttempt(j) == {a \in AttemptIds :
                     /\ exec[j][a].state = "ABSENT"
                     /\ \A b \in AttemptIds : exec[j][b].state = "ABSENT" => a <= b}

\* Faulty: every retry inserts a row.
PrepareFresh(j, ph) == NextAttempt(j)

Preparable(j, ph) == IF Idle(j, ph) # {} THEN Idle(j, ph) ELSE NextAttempt(j)

\* prepareAttempt, before any worker is claimed.
PrepareAttempt(t, ph) ==
    /\ t \in tokens
    /\ Owns(t)
    /\ \E a \in Preparable(t.job, ph) :
          /\ exec' = [exec EXCEPT ![t.job][a] =
                        [state |-> "PREPARING", phase |-> ph, bound |-> FALSE]]
          /\ active' = [active EXCEPT ![t.job] = a]
    /\ UNCHANGED <<status, failures, ownerVars, sent, awaiting, moneyVars, enqueuing>>

\* bindAttemptWorker: any attempt of the job the caller still remembers.
BindAttempt(t, a) ==
    /\ t \in tokens
    /\ Owns(t)
    /\ exec[t.job][a].state = "PREPARING"
    /\ ~exec[t.job][a].bound
    /\ exec' = [exec EXCEPT ![t.job][a].bound = TRUE]
    /\ UNCHANGED <<status, failures, ownerVars, active, sent, awaiting,
                   moneyVars, enqueuing>>

\* Faulty: an attempt that is already SUBMITTING may be submitted again.
SubmitAgain(t, a) ==
    /\ t \in tokens
    /\ Owns(t)
    /\ exec[t.job][a].state \in {"PREPARING", "SUBMITTING"}
    /\ exec[t.job][a].bound
    /\ exec' = [exec EXCEPT ![t.job][a].state = "SUBMITTING"]
    /\ sent' = [sent EXCEPT ![t.job][a] = @ + 1]
    /\ awaiting' = awaiting \cup {<<t.job, a>>}
    /\ UNCHANGED <<status, failures, ownerVars, active, moneyVars, enqueuing>>

\* submitRecordedPhase: the intent commits, and the one POST follows it.
SubmitIntent(t, a) ==
    /\ t \in tokens
    /\ Owns(t)
    /\ exec[t.job][a].state = "PREPARING"
    /\ exec[t.job][a].bound
    /\ exec' = [exec EXCEPT ![t.job][a].state = "SUBMITTING"]
    /\ sent' = [sent EXCEPT ![t.job][a] = @ + 1]
    /\ awaiting' = awaiting \cup {<<t.job, a>>}
    /\ UNCHANGED <<status, failures, ownerVars, active, moneyVars, enqueuing>>

Answered(j, a) == <<j, a>> \in awaiting /\ awaiting' = awaiting \ {<<j, a>>}

\* The worker took the prompt.  The receipt is written by attempt id alone,
\* outside the fence and whatever the attempt has become meanwhile.
PromptAccepted(j, a) ==
    /\ Answered(j, a)
    /\ exec' = [exec EXCEPT ![j][a].state = "ACCEPTED"]
    /\ UNCHANGED <<status, failures, ownerVars, active, sent, moneyVars, enqueuing>>

\* The worker's own validation error: nothing was queued.
PromptRejected(j, a) ==
    /\ Answered(j, a)
    /\ exec' = IF exec[j][a].state = "SUBMITTING"
                 THEN [exec EXCEPT ![j][a].state = "FAILED"]
                 ELSE exec
    /\ UNCHANGED <<status, failures, ownerVars, active, sent, moneyVars, enqueuing>>

\* The reply, its receipt write or the waiting process is gone.
AnswerLost(j, a) ==
    /\ Answered(j, a)
    /\ UNCHANGED <<status, failures, ownerVars, active, exec, sent, moneyVars, enqueuing>>

\* searchForReceipt: an adopter's deadline passed and the worker does not know
\* the attempt.  Only an owner that took the job over adopts (generation > 1).
MarkUnknown(t, a) ==
    /\ t \in tokens
    /\ t.generation > 1
    /\ exec[t.job][a].state = "SUBMITTING"
    /\ exec' = [exec EXCEPT ![t.job][a].state = "UNKNOWN_RETRIED"]
    /\ UNCHANGED <<status, failures, ownerVars, active, sent, awaiting,
                   moneyVars, enqueuing>>

-----------------------------------------------------------------------------
(* Transactions of the API *)

\* The insert and the debit of a create request commit together.
CreateJob(j) ==
    /\ status[j] = "NEW"
    /\ SetStatus(j, "QUEUED")
    /\ enqueuing' = enqueuing \cup {j}
    /\ UNCHANGED <<failures, ownerVars, attemptVars, moneyVars>>

\* XADD answered, or the API process died before it could compensate.
EnqueueFinished(j) ==
    /\ j \in enqueuing
    /\ enqueuing' = enqueuing \ {j}
    /\ UNCHANGED <<status, failures, ownerVars, attemptVars, moneyVars>>

\* Faulty: the compensation forgets that the dispatcher may already run the job.
CompensateAnyway(j) ==
    /\ j \in enqueuing
    /\ enqueuing' = enqueuing \ {j}
    /\ SetStatus(j, "FAILED")
    /\ PayBack(j, "REFUND_ENQUEUE_FAIL", "REFUND_ENQUEUE_FAIL" \in refunds[j])
    /\ UNCHANGED <<failures, ownerVars, attemptVars, outputs>>

\* XADD reported an error (the message may have landed all the same):
\* refundAndMarkFailed / refundStoreAndMarkFailed, which look at QUEUED only
\* and at their own reason only.
EnqueueFailed(j) ==
    /\ j \in enqueuing
    /\ enqueuing' = enqueuing \ {j}
    /\ IF status[j] = "QUEUED"
         THEN /\ SetStatus(j, "FAILED")
              /\ PayBack(j, "REFUND_ENQUEUE_FAIL", "REFUND_ENQUEUE_FAIL" \in refunds[j])
         ELSE UNCHANGED <<status, refunds, credited>>
    /\ UNCHANGED <<failures, ownerVars, attemptVars, outputs>>

\* POST /v1/jobs/:id/cancel on a QUEUED job; it looks for its own reason only.
UserCancel(j) ==
    /\ status[j] = "QUEUED"
    /\ SetStatus(j, "CANCELLED")
    /\ PayBack(j, "JOB_CANCEL_REFUND",
               "JOB_CANCEL_REFUND" \in refunds[j] \/ Charge[j] = 0)
    /\ UNCHANGED <<failures, ownerVars, attemptVars, outputs, enqueuing>>

\* Faulty: the refund does not depend on the update that claims the status.
CancelPaysAnyway(j, reason) ==
    /\ status[j] # "NEW"
    /\ reason \in {"REFUND_ADMIN_CANCEL", "REFUND_CANCELLED"}
    /\ IF IsTerminal(j) THEN UNCHANGED status ELSE SetStatus(j, "CANCELLED")
    /\ PayBack(j, reason, NothingDue(j))
    /\ UNCHANGED <<failures, ownerVars, attemptVars, outputs, enqueuing>>

\* cancelJobAndRefund / refundStoreAndMarkCancelled: admin and merchant cancels
\* reach a job the dispatcher is running.
CancelJobAndRefund(j, reason) ==
    /\ status[j] \in {"QUEUED"} \cup InFlight
    /\ reason \in {"REFUND_ADMIN_CANCEL", "REFUND_CANCELLED"}
    /\ SetStatus(j, "CANCELLED")
    /\ PayBack(j, reason, NothingDue(j))
    /\ UNCHANGED <<failures, ownerVars, attemptVars, outputs, enqueuing>>

-----------------------------------------------------------------------------

OwnerStep ==
    \/ \E j \in Jobs, s \in Sessions :
          Acquire(j, s) \/ Takeover(j, s) \/ SettleTakeover(j, s)
    \/ \E t \in tokens : \/ RenewLease(t)
                         \/ RetireOwnership(t)
                         \/ BeginProcessing(t)
                         \/ ShowQueued(t)
                         \/ \E st \in {"GENERATING", "UPLOADING"} : Transition(t, st)
                         \/ CountFailure(t)
                         \/ \E result \in Terminal : SettleOwned(t, result)
                         \/ SettleTooLate(t)
                         \/ Yield(t)
    \/ \E s \in Sessions : RetireSession(s)

AttemptStep ==
    \/ \E t \in tokens : \/ \E ph \in Phases : PrepareAttempt(t, ph)
                         \/ \E a \in AttemptIds : \/ BindAttempt(t, a)
                                                  \/ SubmitIntent(t, a)
                                                  \/ MarkUnknown(t, a)
    \/ \E j \in Jobs, a \in AttemptIds :
          PromptAccepted(j, a) \/ PromptRejected(j, a) \/ AnswerLost(j, a)

ApiStep ==
    \E j \in Jobs : \/ CreateJob(j)
                    \/ EnqueueFinished(j)
                    \/ EnqueueFailed(j)
                    \/ UserCancel(j)
                    \/ \E reason \in {"REFUND_ADMIN_CANCEL", "REFUND_CANCELLED"} :
                          CancelJobAndRefund(j, reason)

Next == OwnerStep \/ AttemptStep \/ ApiStep \/ \E j \in Jobs : LeaseAges(j)

Spec == Init /\ [][Next]_vars

-----------------------------------------------------------------------------
(* Safety *)

\* A charge comes back exactly when, and only when, the job ended without an
\* image, and never twice, whichever of the API's cancels, the dispatcher's
\* settlements and the enqueue compensation got there, in whatever order.
MoneyFollowsOutcome ==
    \A j \in Jobs :
       credited[j] = IF status[j] \in {"FAILED", "CANCELLED"} THEN Charge[j] ELSE 0

\* The image is recorded with the completion and only with it: no cancelled or
\* refunded job keeps an output row, no completed job lacks one.
OutputFollowsOutcome ==
    \A j \in Jobs : j \in outputs <=> status[j] = "COMPLETED"

\* A generation belongs to one process: no two tokens for the same generation
\* are ever issued, and none is ahead of the control row.
OneOwnerPerGeneration ==
    /\ \A t \in tokens : t.generation <= control[t.job].generation
    /\ \A t, u \in tokens :
          t.job = u.job /\ t.generation = u.generation => t.session = u.session

\* A completed job leaves no live lease behind, so nothing (a renewal, a late
\* handler) can make it look owned again.
CompletedIsReleased ==
    \A j \in Jobs : status[j] = "COMPLETED" => control[j].retired

\* An intent is never repeated: the prompt of an attempt is POSTed at most once.
IntentSentOnce ==
    \A j \in Jobs, a \in AttemptIds : sent[j][a] <= 1

\* A job waiting for capacity does not mint an attempt per retry: one idle
\* attempt per phase, across every owner the job has had.
OneIdleAttempt ==
    \A j \in Jobs, ph \in Phases : \A a, b \in Idle(j, ph) : a = b

-----------------------------------------------------------------------------
(* Strengthenings that make the invariants above inductive *)

\* A refund row exists only for a job that has already ended without an image,
\* so the reason-by-reason checks of the API never find a stale one.
RefundsAreEarned ==
    \A j \in Jobs : status[j] \notin {"FAILED", "CANCELLED"} => refunds[j] = {}

SettledInv ==
    /\ MoneyFollowsOutcome
    /\ RefundsAreEarned
    /\ OutputFollowsOutcome
    /\ CompletedIsReleased

\* Ownership is only ever given of a job that exists.
TokensNameJobs == \A t \in tokens : status[t.job] # "NEW"

\* Nothing has been sent for an attempt before its intent is committed, and no
\* attempt goes back to where an intent could be committed again.
IntentHistory ==
    \A j \in Jobs, a \in AttemptIds :
       /\ sent[j][a] <= 1
       /\ exec[j][a].state \in {"ABSENT", "PREPARING"} =>
             sent[j][a] = 0 /\ <<j, a>> \notin awaiting

-----------------------------------------------------------------------------
(* Action properties *)

\* Finished is final: no step of any owner, stale or not, moves a job out of a
\* terminal status, or touches its refund or its output.
TerminalIsFinal ==
    [][\A j \in Jobs : IsTerminal(j) =>
          /\ status'[j] = status[j]
          /\ credited'[j] = credited[j]
          /\ j \in outputs' <=> j \in outputs]_vars

\* Ownership changes hands by the generation alone: while a lease is live nobody
\* else gets the job, and a lease that was retired or ran out never comes back
\* under the same generation, whatever renewals are still on their way.
LeaseDiscipline ==
    [][\A j \in Jobs :
          IF control'[j].generation = control[j].generation
            THEN Live(j)' => Live(j)
            ELSE /\ ~Live(j)
                 /\ control'[j].generation = control[j].generation + 1]_vars

-----------------------------------------------------------------------------
(* The promise this implements *)

PhaseOf(st) ==
    CASE st = "NEW"       -> "none"
      [] st = "COMPLETED" -> "completed"
      [] st = "FAILED"    -> "failed"
      [] st = "CANCELLED" -> "cancelled"
      [] OTHER            -> "open"

Contract == INSTANCE JobContract
              WITH phase <- [j \in Jobs |-> PhaseOf(status[j])],
                   returned <- credited

\* Every transaction is a step of the contract, or invisible to it.
KeepsContract == Contract!Spec

=============================================================================
