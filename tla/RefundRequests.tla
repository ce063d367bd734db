--------------------------- MODULE RefundRequests ---------------------------
(***************************************************************************)
(* Refund on request: a customer asks for the credits of a finished image  *)
(* back, and gets them only while the image has neither been downloaded    *)
(* nor been regenerated.  The routes that hand out the image or a free     *)
(* regeneration ask for an open request first and act later; the request   *)
(* is a transaction under the row lock of the job; its approval looks at   *)
(* the download before it takes that lock, and at all the rest under it.   *)
(*                                                                         *)
(* The jobs are those of one customer, billed to the customer's own        *)
(* balance, so the daily cap of the automatic approval is one counter.     *)
(***************************************************************************)
EXTENDS Integers, FiniteSets

CONSTANTS
    Jobs,
    Price,    \* Price[j]: jobs.creditsCharged
    DailyCap  \* automatic approvals per customer in 24 hours

ASSUME RefundAssumption ==
    /\ Price \in [Jobs -> Nat]
    /\ DailyCap \in 1 .. 100

VARIABLES
    status,       \* jobs.status
    owed,         \* minus the net of the job's ledger rows: credits still out
    refunded,     \* jobs with a ledger row of any refund reason
    request,      \* refund_requests.status of the job's row, "NONE" for no row
    filing,       \* createRefundRequest transactions not committed yet
    reviewing,    \* admin approvals that have read no download and not decided
    downloaded,   \* jobs whose job_outputs.downloaded_at is set
    children,     \* jobs that were regenerated
    downloading,  \* download calls past their checks
    exporting,    \* Drive exports past their check
    uploaded,     \* Drive exports that have uploaded and not stamped
    regenerating, \* regenerate calls past their checks
    held,         \* jobs whose full image the customer took away
    recent,       \* jobs auto-approved in the last 24 hours
    enabled,      \* the admin's switch for automatic approval
    waived,       \* jobs of an unlimited plan: the ledger took nothing for them
    overtaken     \* history: downloads first stamped after an approval looked for one

lockVars  == <<filing, reviewing>>
settings  == <<enabled, waived>>
stampVars == <<downloaded, overtaken>>
takeVars  == <<stampVars, children, downloading, exporting, uploaded, regenerating, held>>
refundVars == <<status, owed, refunded, request, lockVars, takeVars, recent, settings>>

NotFiling == "no"

\* What the ledger took for the job when it was created.
Debit(j) == IF j \in waived THEN 0 ELSE Price[j]

RefundTypeOK ==
    /\ status \in [Jobs -> {"OPEN", "COMPLETED", "FAILED"}]
    /\ owed \in [Jobs -> Int]
    /\ refunded \subseteq Jobs
    /\ request \in [Jobs -> {"NONE", "PENDING", "APPROVED", "REJECTED"}]
    /\ filing \in [Jobs -> {NotFiling, "manual", "auto", "looked"}]
    /\ reviewing \subseteq Jobs
    /\ downloaded \subseteq Jobs /\ children \subseteq Jobs
    /\ downloading \subseteq Jobs /\ regenerating \subseteq Jobs
    /\ exporting \subseteq Jobs /\ uploaded \subseteq Jobs
    /\ held \subseteq Jobs /\ recent \subseteq Jobs
    /\ enabled \in BOOLEAN /\ waived \subseteq Jobs /\ overtaken \subseteq Jobs

RefundInit ==
    /\ status = [j \in Jobs |-> "OPEN"]
    /\ waived \in SUBSET Jobs
    /\ owed = [j \in Jobs |-> Debit(j)]
    /\ refunded = {}
    /\ request = [j \in Jobs |-> "NONE"]
    /\ filing = [j \in Jobs |-> NotFiling]
    /\ reviewing = {} /\ overtaken = {}
    /\ downloaded = {} /\ children = {}
    /\ downloading = {} /\ exporting = {} /\ uploaded = {} /\ regenerating = {}
    /\ held = {} /\ recent = {}
    /\ enabled \in BOOLEAN

-----------------------------------------------------------------------------
(* Values and guards *)

\* hasActiveRefundRequest; a transaction that has not committed is not seen.
HasActive(j) == request[j] \in {"PENDING", "APPROVED"}

\* The row lock on the job is free.
Unlocked(j) == filing[j] = NotFiling

\* refundIneligibility answers null.
Eligible(j) ==
    /\ status[j] = "COMPLETED"
    /\ Price[j] > 0 /\ owed[j] > 0
    /\ j \notin downloaded
    /\ j \notin children
    /\ request[j] = "NONE"

\* An approval of the job has looked for a download and has not decided yet.
Looked(j) == j \in reviewing \/ filing[j] = "looked"

\* Faulty: the unique index of the ledger is trusted to stop a second refund.
PayableUnderIndex(j) == status[j] = "COMPLETED" /\ j \notin children

\* Faulty: the approval trusts the look for a regeneration made when it was filed.
PayableIfOwed(j) == status[j] = "COMPLETED" /\ owed[j] >= Debit(j) /\ owed[j] > 0

\* The checks of approveRefundRequestTx that it makes once it has locked the job.  The
\* request holds what was out when it was filed, which is the whole debit, so the ledger
\* check asks whether all of that is still out.
Payable(j) ==
    /\ status[j] = "COMPLETED"
    /\ j \notin children
    /\ owed[j] >= Debit(j) /\ owed[j] > 0

\* applyRefundTx under a reason of its own.
PaidBack(j, amount) ==
    /\ owed' = [owed EXCEPT ![j] = @ - amount]
    /\ refunded' = refunded \cup {j}

-----------------------------------------------------------------------------
(* The job *)

Completes(j) ==
    /\ status[j] = "OPEN"
    /\ status' = [status EXCEPT ![j] = "COMPLETED"]
    /\ UNCHANGED <<owed, refunded, request, lockVars, takeVars, recent, settings>>

\* refundInTransaction of the settlement gives jobs.creditsCharged back.
Fails(j) ==
    /\ status[j] = "OPEN"
    /\ status' = [status EXCEPT ![j] = "FAILED"]
    /\ IF Price[j] > 0 /\ j \notin refunded
         THEN PaidBack(j, Price[j])
         ELSE UNCHANGED <<owed, refunded>>
    /\ UNCHANGED <<request, lockVars, takeVars, recent, settings>>

\* refund() of an admin's flush, which may come when the job is finished already.
AdminRefunds(j) ==
    /\ Unlocked(j)
    /\ Price[j] > 0
    /\ j \notin refunded
    /\ PaidBack(j, Price[j])
    /\ UNCHANGED <<status, request, lockVars, takeVars, recent, settings>>

-----------------------------------------------------------------------------
(* The request *)

\* createRefundRequest up to the count of the customer's automatic approvals,
\* which sees committed rows only.
RequestFiled(j) ==
    /\ Unlocked(j)
    /\ Eligible(j)
    /\ filing' = [filing EXCEPT ![j] =
          IF enabled /\ Cardinality(recent) < DailyCap THEN "auto" ELSE "manual"]
    /\ UNCHANGED <<status, owed, refunded, request, reviewing, takeVars, recent, settings>>

\* The automatic approval begins with the look for a download, under no lock on it.
AutoLooks(j) ==
    /\ filing[j] = "auto"
    /\ j \notin downloaded
    /\ filing' = [filing EXCEPT ![j] = "looked"]
    /\ UNCHANGED <<status, owed, refunded, request, reviewing, takeVars, recent, settings>>

\* The rest of it and the commit, or the rollback.  The savepoint of the automatic
\* approval may fail for any reason; the request is PENDING then.
RequestCommitted(j) ==
    /\ filing[j] # NotFiling
    /\ filing' = [filing EXCEPT ![j] = NotFiling]
    /\ \/ /\ filing[j] = "looked" /\ Payable(j)
          /\ PaidBack(j, Debit(j))
          /\ request' = [request EXCEPT ![j] = "APPROVED"]
          /\ recent' = recent \cup {j}
       \/ /\ request' \in {request, [request EXCEPT ![j] = "PENDING"]}
          /\ UNCHANGED <<owed, refunded, recent>>
    /\ UNCHANGED <<status, reviewing, takeVars, settings>>

\* Faulty: a rejected request can still be approved.
AdminLooksAtDecided(j) ==
    /\ request[j] \in {"PENDING", "REJECTED"}
    /\ j \notin downloaded
    /\ reviewing' = reviewing \cup {j}
    /\ UNCHANGED <<status, owed, refunded, request, filing, takeVars, recent, settings>>

\* An approval by an admin locks the PENDING request and looks for a download ...
AdminLooks(j) ==
    /\ request[j] = "PENDING"
    /\ j \notin reviewing
    /\ j \notin downloaded
    /\ reviewing' = reviewing \cup {j}
    /\ UNCHANGED <<status, owed, refunded, request, filing, takeVars, recent, settings>>

\* ... and then locks the job, checks the rest, pays and commits, or rolls back.
AdminApproves(j) ==
    /\ j \in reviewing
    /\ reviewing' = reviewing \ {j}
    /\ \/ /\ Payable(j)
          /\ PaidBack(j, Debit(j))
          /\ request' = [request EXCEPT ![j] = "APPROVED"]
       \/ UNCHANGED <<owed, refunded, request>>
    /\ UNCHANGED <<status, filing, takeVars, recent, settings>>

\* The rejection waits for the same lock on the request.
AdminRejects(j) ==
    /\ request[j] = "PENDING"
    /\ j \notin reviewing
    /\ request' = [request EXCEPT ![j] = "REJECTED"]
    /\ UNCHANGED <<status, owed, refunded, lockVars, takeVars, recent, settings>>

\* An automatic approval is 24 hours old.
DayPasses(j) ==
    /\ recent' = recent \ {j}
    /\ recent' # recent
    /\ UNCHANGED <<status, owed, refunded, request, lockVars, takeVars, settings>>

SwitchFlipped ==
    /\ enabled' = ~enabled
    /\ UNCHANGED <<status, owed, refunded, request, lockVars, takeVars, recent, waived>>

-----------------------------------------------------------------------------
(* Taking the image away, or a free new one *)

\* downloaded_at is set once; an approval past its look does not see it any more.
Stamped(j) ==
    /\ downloaded' = downloaded \cup {j}
    /\ overtaken' = IF Looked(j) THEN overtaken \cup ({j} \ downloaded) ELSE overtaken

\* POST /v1/jobs/:id/download up to the presigned URL ...
DownloadChecked(j) ==
    /\ status[j] = "COMPLETED"
    /\ ~HasActive(j)
    /\ downloading' = downloading \cup {j}
    /\ UNCHANGED <<status, owed, refunded, request, lockVars, stampVars, children,
                   exporting, uploaded, regenerating, held, recent, settings>>

\* ... and the stamp, after which the URL is answered.
DownloadStamped(j) ==
    /\ j \in downloading
    /\ downloading' = downloading \ {j}
    /\ Stamped(j)
    /\ held' = held \cup {j}
    /\ UNCHANGED <<status, owed, refunded, request, lockVars, children, exporting, uploaded,
                   regenerating, recent, settings>>

\* exportResultToDrive: check, upload, stamp; the job must have an output row.
ExportChecked(j) ==
    /\ status[j] = "COMPLETED"
    /\ ~HasActive(j)
    /\ exporting' = exporting \cup {j}
    /\ UNCHANGED <<status, owed, refunded, request, lockVars, stampVars, children,
                   downloading, uploaded, regenerating, held, recent, settings>>

ExportUploaded(j) ==
    /\ j \in exporting
    /\ exporting' = exporting \ {j}
    /\ uploaded' = uploaded \cup {j}
    /\ held' = held \cup {j}
    /\ UNCHANGED <<status, owed, refunded, request, lockVars, stampVars, children,
                   downloading, regenerating, recent, settings>>

\* The stamp, or the end of the process before it.
ExportStamped(j) ==
    /\ j \in uploaded
    /\ uploaded' = uploaded \ {j}
    /\ Stamped(j) \/ UNCHANGED stampVars
    /\ UNCHANGED <<status, owed, refunded, request, lockVars, children, downloading,
                   exporting, regenerating, held, recent, settings>>

RegenerateChecked(j) ==
    /\ status[j] = "COMPLETED"
    /\ j \notin downloaded
    /\ ~HasActive(j)
    /\ regenerating' = regenerating \cup {j}
    /\ UNCHANGED <<status, owed, refunded, request, lockVars, stampVars, children,
                   downloading, exporting, uploaded, held, recent, settings>>

\* The insert of the child waits for the lock on its parent and for nothing else.
RegenerateInserted(j) ==
    /\ j \in regenerating
    /\ Unlocked(j)
    /\ regenerating' = regenerating \ {j}
    /\ children' = children \cup {j}
    /\ UNCHANGED <<status, owed, refunded, request, lockVars, stampVars, downloading,
                   exporting, uploaded, held, recent, settings>>

-----------------------------------------------------------------------------

RefundNext ==
    \/ \E j \in Jobs :
          \/ Completes(j) \/ Fails(j) \/ AdminRefunds(j)
          \/ RequestFiled(j) \/ AutoLooks(j) \/ RequestCommitted(j)
          \/ AdminLooks(j) \/ AdminApproves(j) \/ AdminRejects(j) \/ DayPasses(j)
          \/ DownloadChecked(j) \/ DownloadStamped(j)
          \/ ExportChecked(j) \/ ExportUploaded(j) \/ ExportStamped(j)
          \/ RegenerateChecked(j) \/ RegenerateInserted(j)
    \/ SwitchFlipped

RefundSpec == RefundInit /\ [][RefundNext]_refundVars

-----------------------------------------------------------------------------
(* Properties *)

\* Settlement, admin refund, automatic and manual approval together give a job's credits
\* back once at most: what was debited is never exceeded by more than the waived price,
\* which settlement.ts:275 returns for a failed job of an unlimited plan, although nothing
\* was taken for it.  An approved request leaves the ledger of its job at nothing owed,
\* neither more nor less.
RefundedOnce ==
    \A j \in Jobs :
       /\ owed[j] >= Debit(j) - Price[j]
       /\ request[j] = "APPROVED" => owed[j] = 0

\* Credits are never given back for an image that is known to be regenerated at that
\* moment, however long ago the request was filed, nor for one that is known to be
\* downloaded, unless the download was stamped while the approval was past its look:
\* approveRefundRequestTx reads downloaded_at first and without a lock.
RefundsUntakenOnly ==
    [][\A j \in Jobs : request'[j] = "APPROVED" /\ request[j] # "APPROVED"
          => /\ j \notin children'
             /\ j \in downloaded' => j \in overtaken']_refundVars

\* A decision stands: an approved request stays approved, a rejected one rejected,
\* and no job gets a second request.
DecisionIsFinal ==
    [][\A j \in Jobs : request[j] \in {"APPROVED", "REJECTED"}
          => request'[j] = request[j] /\ Unlocked(j)']_refundVars

=============================================================================
