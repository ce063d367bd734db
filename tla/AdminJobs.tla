------------------------------ MODULE AdminJobs ------------------------------
(***************************************************************************)
(* The admin's queue tools beside the running system: retry of a FAILED    *)
(* job, and the flush of the whole queue.  Neither is one transaction: a   *)
(* retry reads the job and writes it later without a condition, and a      *)
(* flush works on the list of queued jobs it read first.  Everything of    *)
(* JobControl may happen between their statements.                         *)
(***************************************************************************)
EXTENDS JobControl

CONSTANTS
    MaxRetries, \* bound: retry requests in progress per job
    MayStop     \* whether the API process may stop in the middle of a flush

ASSUME AdminAssumption == MaxRetries \in Nat /\ MayStop \in BOOLEAN

VARIABLES
    stores,   \* jobs billed to a Shopify store; the others have a userId
    retrying, \* retrying[j]: retry requests that have read FAILED
    flush     \* the flush in progress: where it is, and the jobs on its list

adminVars  == <<stores, retrying, flush>>
allAdmin   == <<vars, adminVars>>

NoFlush == [step |-> "idle", jobs |-> {}]

AdminTypeOK ==
    /\ TypeOK
    /\ stores \subseteq Jobs
    /\ retrying \in [Jobs -> 0 .. MaxRetries]
    /\ flush \in [step: {"idle", "selected", "swept"}, jobs: SUBSET Jobs]

AdminInit ==
    /\ Init
    /\ stores \in SUBSET Jobs
    /\ retrying = [j \in Jobs |-> 0]
    /\ flush = NoFlush

-----------------------------------------------------------------------------
(* POST /admin/jobs/:id/retry *)

RetryReads(j) ==
    /\ status[j] = "FAILED"
    /\ retrying[j] < MaxRetries
    /\ retrying' = [retrying EXCEPT ![j] = @ + 1]
    /\ UNCHANGED <<vars, stores, flush>>

\* The UPDATE names the job and nothing else; the XADD follows it.
RetryWrites(j) ==
    /\ retrying[j] > 0
    /\ retrying' = [retrying EXCEPT ![j] = @ - 1]
    /\ SetStatus(j, "QUEUED")
    /\ failures' = [failures EXCEPT ![j] = 0]
    /\ UNCHANGED <<ownerVars, attemptVars, moneyVars, enqueuing, stores, flush>>

-----------------------------------------------------------------------------
(* POST /admin/jobs/flush-queue *)

FlushSelects ==
    LET queued == {j \in Jobs : status[j] = "QUEUED"} IN
    /\ flush = NoFlush
    /\ queued # {}
    /\ flush' = [step |-> "selected", jobs |-> queued]
    /\ UNCHANGED <<vars, stores, retrying>>

\* Store jobs first, a transaction each: cancelled and paid back unless finished.
FlushStoreJob(j) ==
    /\ flush.step = "selected"
    /\ j \in flush.jobs \cap stores
    /\ \/ CancelJobAndRefund(j, "REFUND_ADMIN_CANCEL")
       \/ IsTerminal(j) /\ UNCHANGED vars
    /\ flush' = [flush EXCEPT !.jobs = @ \ {j}]
    /\ UNCHANGED <<stores, retrying>>

\* Faulty: the bulk UPDATE names the jobs of the list instead of those QUEUED now.
FlushSweepsList ==
    /\ flush.step = "selected"
    /\ flush.jobs \cap stores = {}
    /\ status' = [j \in Jobs |-> IF j \in flush.jobs THEN "CANCELLED" ELSE status[j]]
    /\ flush' = [flush EXCEPT !.step = "swept"]
    /\ UNCHANGED <<failures, ownerVars, attemptVars, moneyVars, enqueuing, stores, retrying>>

\* The bulk UPDATE: whatever is QUEUED now, on the list or not.
FlushSweeps ==
    /\ flush.step = "selected"
    /\ flush.jobs \cap stores = {}
    /\ status' = [j \in Jobs |-> IF status[j] = "QUEUED" THEN "CANCELLED" ELSE status[j]]
    /\ flush' = [flush EXCEPT !.step = "swept"]
    /\ UNCHANGED <<failures, ownerVars, attemptVars, moneyVars, enqueuing, stores, retrying>>

\* Faulty: refund() without the look at the refunds of other reasons.
FlushRefundsBlindly(j) ==
    /\ flush.step = "swept"
    /\ j \in flush.jobs
    /\ PayBack(j, "REFUND_ADMIN_CANCEL", "REFUND_ADMIN_CANCEL" \in refunds[j] \/ Charge[j] = 0)
    /\ flush' = [flush EXCEPT !.jobs = @ \ {j}]
    /\ UNCHANGED <<status, failures, ownerVars, attemptVars, outputs, enqueuing, stores, retrying>>

\* refund() for every job of the list, in any order: it locks the row and asks
\* for an earlier refund, not for the status.
FlushRefunds(j) ==
    /\ flush.step = "swept"
    /\ j \in flush.jobs
    /\ PayBack(j, "REFUND_ADMIN_CANCEL", NothingDue(j))
    /\ flush' = [flush EXCEPT !.jobs = @ \ {j}]
    /\ UNCHANGED <<status, failures, ownerVars, attemptVars, outputs, enqueuing, stores, retrying>>

FlushEnds ==
    /\ \/ flush.step = "swept" /\ flush.jobs = {}
       \/ flush.step # "idle" /\ MayStop
    /\ flush' = NoFlush
    /\ UNCHANGED <<vars, stores, retrying>>

-----------------------------------------------------------------------------

\* The API routes of JobControl; a store's job has no user who could cancel it.
ApiRoute(j) ==
    \/ CreateJob(j)
    \/ EnqueueFinished(j)
    \/ EnqueueFailed(j)
    \/ j \notin stores /\ UserCancel(j)
    \/ \E reason \in {"REFUND_ADMIN_CANCEL", "REFUND_CANCELLED"} : CancelJobAndRefund(j, reason)

AdminNext ==
    \/ (OwnerStep \/ AttemptStep \/ \E j \in Jobs : ApiRoute(j) \/ LeaseAges(j))
         /\ UNCHANGED adminVars
    \/ \E j \in Jobs : RetryReads(j) \/ RetryWrites(j) \/ FlushStoreJob(j) \/ FlushRefunds(j)
    \/ FlushSelects \/ FlushSweeps \/ FlushEnds

AdminSpec == AdminInit /\ [][AdminNext]_allAdmin

-----------------------------------------------------------------------------
(* Properties *)

\* The settlements after a failure, the admin and merchant cancels and the flush
\* exclude each other's refunds, over every retry of the job: of their reasons at
\* most one is ever paid for a job.
Guarded == {"JOB_FAIL_REFUND", "REFUND_ADMIN_CANCEL", "REFUND_CANCELLED"}

GuardedRefundsExclude ==
    \A j \in Jobs : \A a, b \in refunds[j] \cap Guarded : a = b

\* A finished job stays as it finished: the flush, whose list may be old, a settlement, a
\* cancel and a compensation, however late, leave it alone, and only a retry that has read
\* FAILED opens it again.  The retry does so whatever the job has finished as since: the
\* route asks for FAILED ('only FAILED can retry') and then writes without a condition.
FinishedUntilRetried ==
    [][\A j \in Jobs : IsTerminal(j) /\ status'[j] # status[j]
          => status'[j] = "QUEUED" /\ retrying'[j] < retrying[j]]_allAdmin

=============================================================================
