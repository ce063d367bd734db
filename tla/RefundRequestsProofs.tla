------------------------ MODULE RefundRequestsProofs ------------------------
(***************************************************************************)
(* Proofs about RefundRequests: for every set of jobs, every price list    *)
(* and every daily cap.                                                    *)
(***************************************************************************)
EXTENDS RefundRequests, TLAPS

-----------------------------------------------------------------------------
(* Types *)

\* The ledger never takes less than nothing.
LEMMA DebitType == ASSUME NEW j \in Jobs PROVE Debit(j) \in Nat
BY RefundAssumption DEF Debit

\* A ledger row of any refund keeps the net an integer.
LEMMA PaidBackType ==
  ASSUME RefundTypeOK, NEW j \in Jobs, NEW amount \in Nat, PaidBack(j, amount)
  PROVE  owed' \in [Jobs -> Int] /\ refunded' \subseteq Jobs
BY DEF RefundTypeOK, PaidBack

\* Every step of the request and of the job keeps the types.
LEMMA RequestStepType ==
  ASSUME RefundTypeOK, NEW j \in Jobs,
         \/ Completes(j) \/ Fails(j) \/ AdminRefunds(j)
         \/ RequestFiled(j) \/ AutoLooks(j) \/ RequestCommitted(j)
         \/ AdminLooks(j) \/ AdminApproves(j) \/ AdminRejects(j) \/ DayPasses(j)
  PROVE  RefundTypeOK'
<1>1. CASE Completes(j)
  BY <1>1 DEF RefundTypeOK, Completes, takeVars, stampVars, lockVars, settings
<1>2. CASE Fails(j)
  <2>1. owed' \in [Jobs -> Int] /\ refunded' \subseteq Jobs
    BY <1>2, PaidBackType, RefundAssumption DEF Fails, RefundTypeOK
  <2> QED
    BY <1>2, <2>1 DEF RefundTypeOK, Fails, takeVars, stampVars, lockVars, settings
<1>3. CASE AdminRefunds(j)
  <2>1. owed' \in [Jobs -> Int] /\ refunded' \subseteq Jobs
    BY <1>3, PaidBackType, RefundAssumption DEF AdminRefunds
  <2> QED
    BY <1>3, <2>1 DEF RefundTypeOK, AdminRefunds, takeVars, stampVars, lockVars, settings
<1>4. CASE RequestFiled(j)
  BY <1>4 DEF RefundTypeOK, RequestFiled, takeVars, stampVars, lockVars, settings
<1>5. CASE RequestCommitted(j)
  <2>1. owed' \in [Jobs -> Int] /\ refunded' \subseteq Jobs
    BY <1>5, PaidBackType, DebitType DEF RequestCommitted, RefundTypeOK
  <2>2. /\ request' \in [Jobs -> {"NONE", "PENDING", "APPROVED", "REJECTED"}]
        /\ recent' \subseteq Jobs
        /\ filing' \in [Jobs -> {NotFiling, "manual", "auto", "looked"}]
    BY <1>5 DEF RequestCommitted, RefundTypeOK
  <2> QED
    BY <1>5, <2>1, <2>2 DEF RefundTypeOK, RequestCommitted, takeVars, stampVars, lockVars, settings
<1>6. CASE AdminApproves(j)
  <2>1. owed' \in [Jobs -> Int] /\ refunded' \subseteq Jobs
    BY <1>6, PaidBackType, DebitType DEF AdminApproves, RefundTypeOK
  <2> QED
    BY <1>6, <2>1 DEF RefundTypeOK, AdminApproves, takeVars, stampVars, lockVars, settings
<1>7. CASE AdminRejects(j)
  BY <1>7 DEF RefundTypeOK, AdminRejects, takeVars, stampVars, lockVars, settings
<1>8. CASE DayPasses(j)
  BY <1>8 DEF RefundTypeOK, DayPasses, takeVars, stampVars, lockVars, settings
<1>9. CASE AutoLooks(j) \/ AdminLooks(j)
  BY <1>9 DEF RefundTypeOK, AutoLooks, AdminLooks, takeVars, stampVars, lockVars, settings
<1> QED
  BY <1>1, <1>2, <1>3, <1>4, <1>5, <1>6, <1>7, <1>8, <1>9

\* The routes that hand out the image touch neither the money nor the request.
LEMMA TakeStep ==
  ASSUME RefundTypeOK, NEW j \in Jobs,
         \/ DownloadChecked(j) \/ DownloadStamped(j)
         \/ ExportChecked(j) \/ ExportUploaded(j) \/ ExportStamped(j)
         \/ RegenerateChecked(j) \/ RegenerateInserted(j)
  PROVE  RefundTypeOK' /\ UNCHANGED <<status, owed, refunded, request, filing, reviewing, waived>>
<1>1. CASE DownloadChecked(j)
  BY <1>1 DEF RefundTypeOK, DownloadChecked, stampVars, lockVars, settings
<1>2. CASE DownloadStamped(j)
  BY <1>2 DEF RefundTypeOK, DownloadStamped, Stamped, stampVars, lockVars, settings
<1>3. CASE ExportChecked(j)
  BY <1>3 DEF RefundTypeOK, ExportChecked, stampVars, lockVars, settings
<1>4. CASE ExportUploaded(j)
  BY <1>4 DEF RefundTypeOK, ExportUploaded, stampVars, lockVars, settings
<1>5. CASE ExportStamped(j)
  BY <1>5 DEF RefundTypeOK, ExportStamped, Stamped, stampVars, lockVars, settings
<1>6. CASE RegenerateChecked(j)
  BY <1>6 DEF RefundTypeOK, RegenerateChecked, stampVars, lockVars, settings
<1>7. CASE RegenerateInserted(j)
  BY <1>7 DEF RefundTypeOK, RegenerateInserted, stampVars, lockVars, settings
<1> QED
  BY <1>1, <1>2, <1>3, <1>4, <1>5, <1>6, <1>7

\* The switch of the automatic approval touches nothing else.
LEMMA SwitchStep ==
  RefundTypeOK /\ SwitchFlipped
    => RefundTypeOK'
       /\ UNCHANGED <<status, owed, refunded, request, filing, reviewing, waived, stampVars>>
BY DEF RefundTypeOK, SwitchFlipped, takeVars, stampVars, lockVars, settings

\* Every reachable state is well formed.
THEOREM RefundTypeCorrect == RefundSpec => []RefundTypeOK
<1>1. RefundInit => RefundTypeOK
  BY RefundAssumption, DebitType DEF RefundInit, RefundTypeOK
<1>2. RefundTypeOK /\ [RefundNext]_refundVars => RefundTypeOK'
  <2> SUFFICES ASSUME RefundTypeOK, [RefundNext]_refundVars PROVE RefundTypeOK'
    OBVIOUS
  <2>1. CASE UNCHANGED refundVars
    BY <2>1 DEF RefundTypeOK, refundVars, takeVars, stampVars, lockVars, settings
  <2>2. CASE RefundNext
    BY <2>2, RequestStepType, TakeStep, SwitchStep DEF RefundNext
  <2> QED
    BY <2>1, <2>2
<1> QED
  BY <1>1, <1>2, PTL DEF RefundSpec

-----------------------------------------------------------------------------
(* A decision stands *)

\* While a request is being filed, its job has no committed one: the transaction holds
\* the row lock under which it looked.  While an approval is being decided, the request
\* is PENDING: the approval holds the lock on it.
LocksHold ==
    /\ \A j \in Jobs : filing[j] # NotFiling => request[j] = "NONE"
    /\ \A j \in reviewing : request[j] = "PENDING"

\* What a step of the request does to the row and to the locks.
LEMMA RequestStep ==
  ASSUME RefundTypeOK, LocksHold, NEW j \in Jobs,
         \/ Completes(j) \/ Fails(j) \/ AdminRefunds(j)
         \/ RequestFiled(j) \/ AutoLooks(j) \/ RequestCommitted(j)
         \/ AdminLooks(j) \/ AdminApproves(j) \/ AdminRejects(j) \/ DayPasses(j)
  PROVE  /\ LocksHold'
         /\ \A i \in Jobs : request[i] \in {"APPROVED", "REJECTED"}
               => request'[i] = request[i] /\ filing'[i] = NotFiling
<1>1. CASE UNCHANGED <<request, filing, reviewing>>
  BY <1>1 DEF LocksHold
<1>2. CASE RequestFiled(j)
  BY <1>2 DEF RefundTypeOK, LocksHold, RequestFiled, Eligible, NotFiling
<1>3. CASE RequestCommitted(j)
  BY <1>3 DEF RefundTypeOK, LocksHold, RequestCommitted, NotFiling
<1>4. CASE AutoLooks(j)
  BY <1>4 DEF RefundTypeOK, LocksHold, AutoLooks, NotFiling
<1>5. CASE AdminLooks(j)
  BY <1>5 DEF RefundTypeOK, LocksHold, AdminLooks, NotFiling
<1>6. CASE AdminApproves(j)
  BY <1>6 DEF RefundTypeOK, LocksHold, AdminApproves, NotFiling
<1>7. CASE AdminRejects(j)
  BY <1>7 DEF RefundTypeOK, LocksHold, AdminRejects, lockVars, NotFiling
<1> QED
  BY <1>1, <1>2, <1>3, <1>4, <1>5, <1>6, <1>7
     DEF Completes, Fails, AdminRefunds, DayPasses, lockVars

\* No step of the system revises a decision or opens a second request.
LEMMA DecisionStep ==
  ASSUME RefundTypeOK, LocksHold, [RefundNext]_refundVars
  PROVE  /\ LocksHold'
         /\ \A i \in Jobs : request[i] \in {"APPROVED", "REJECTED"}
               => request'[i] = request[i] /\ filing'[i] = NotFiling
<1>1. CASE UNCHANGED <<request, filing, reviewing>>
  BY <1>1 DEF LocksHold
<1>2. CASE RefundNext
  BY <1>1, <1>2, RequestStep, TakeStep, SwitchStep DEF RefundNext
<1> QED
  BY <1>1, <1>2 DEF refundVars, lockVars

\* The locks are kept in every reachable state.
LEMMA LocksKept == RefundSpec => []LocksHold
<1>1. RefundInit => LocksHold
  BY DEF RefundInit, LocksHold
<1>2. RefundTypeOK /\ LocksHold /\ [RefundNext]_refundVars => LocksHold'
  BY DecisionStep
<1> QED
  BY <1>1, <1>2, RefundTypeCorrect, PTL DEF RefundSpec

\* A decision on a refund request stands, and a job gets one request at most.
THEOREM DecisionStands == RefundSpec => DecisionIsFinal
<1>1. RefundTypeOK /\ LocksHold /\ [RefundNext]_refundVars
        => [\A j \in Jobs : request[j] \in {"APPROVED", "REJECTED"}
              => request'[j] = request[j] /\ Unlocked(j)']_refundVars
  BY DecisionStep DEF Unlocked
<1> QED
  BY <1>1, LocksKept, RefundTypeCorrect, PTL DEF RefundSpec, DecisionIsFinal

-----------------------------------------------------------------------------
(* Only untaken images are refunded *)

\* A download that an approval past its look does not know of was stamped since.
StampsKnown == \A j \in Jobs : Looked(j) /\ j \in downloaded => j \in overtaken

\* A stamp during an approval is recorded; a look finds no stamp.
LEMMA StampStep ==
  ASSUME RefundTypeOK, StampsKnown, [RefundNext]_refundVars
  PROVE  StampsKnown'
<1>1. ASSUME UNCHANGED stampVars, \A i \in Jobs : Looked(i)' => Looked(i) \/ i \notin downloaded
      PROVE  StampsKnown'
  BY <1>1 DEF StampsKnown, stampVars
<1>2. ASSUME NEW j \in Jobs, Stamped(j), UNCHANGED lockVars PROVE StampsKnown'
  BY <1>2 DEF StampsKnown, Stamped, Looked, lockVars
<1>3. CASE UNCHANGED <<lockVars, stampVars>>
  BY <1>1, <1>3 DEF Looked, lockVars
<1>4. ASSUME NEW j \in Jobs, DownloadStamped(j) \/ ExportStamped(j) PROVE StampsKnown'
  BY <1>2, <1>3, <1>4 DEF DownloadStamped, ExportStamped
<1>5. ASSUME NEW j \in Jobs, RequestFiled(j) \/ RequestCommitted(j) PROVE StampsKnown'
  BY <1>1, <1>5 DEF RequestFiled, RequestCommitted, Looked, RefundTypeOK, NotFiling, takeVars
<1>6. ASSUME NEW j \in Jobs, AutoLooks(j) PROVE StampsKnown'
  BY <1>1, <1>6 DEF AutoLooks, Looked, RefundTypeOK, takeVars
<1>7. ASSUME NEW j \in Jobs, AdminLooks(j) \/ AdminApproves(j) PROVE StampsKnown'
  BY <1>1, <1>7 DEF AdminLooks, AdminApproves, Looked, takeVars
<1>8. CASE RefundNext
  BY <1>3, <1>4, <1>5, <1>6, <1>7, <1>8
     DEF RefundNext, Completes, Fails, AdminRefunds, AdminRejects, DayPasses, SwitchFlipped,
         DownloadChecked, ExportChecked, ExportUploaded, RegenerateChecked,
         RegenerateInserted, takeVars
<1> QED
  BY <1>3, <1>8 DEF refundVars, takeVars

\* Both ways to an approval look for the download first and for the children last.
LEMMA ApprovalStep ==
  ASSUME RefundTypeOK, StampsKnown, [RefundNext]_refundVars,
         NEW i \in Jobs, request'[i] = "APPROVED", request[i] # "APPROVED"
  PROVE  i \notin children' /\ (i \in downloaded' => i \in overtaken')
<1>1. request' # request
  OBVIOUS
<1>2. RefundNext /\ ~SwitchFlipped
  BY <1>1, SwitchStep DEF refundVars
<1>3. PICK j \in Jobs : RequestCommitted(j) \/ AdminApproves(j) \/ AdminRejects(j)
  BY <1>1, <1>2, TakeStep
     DEF RefundNext, Completes, Fails, AdminRefunds, RequestFiled, AutoLooks, AdminLooks,
         DayPasses
<1>4. CASE RequestCommitted(j)
  BY <1>4 DEF RefundTypeOK, RequestCommitted, Payable, StampsKnown, Looked, takeVars, stampVars
<1>5. CASE AdminApproves(j)
  BY <1>5 DEF RefundTypeOK, AdminApproves, Payable, StampsKnown, Looked, takeVars, stampVars
<1>6. CASE AdminRejects(j)
  BY <1>6 DEF RefundTypeOK, AdminRejects
<1> QED
  BY <1>3, <1>4, <1>5, <1>6

\* Credits are given back only for an image that has not been regenerated when they are,
\* and that has not been downloaded either, or only since the approval looked.
THEOREM UntakenOnly == RefundSpec => RefundsUntakenOnly
<1>1. RefundInit => StampsKnown
  BY DEF RefundInit, StampsKnown
<1>2. RefundTypeOK /\ StampsKnown /\ [RefundNext]_refundVars => StampsKnown'
  BY StampStep
<1>3. RefundTypeOK /\ StampsKnown /\ [RefundNext]_refundVars
        => [\A j \in Jobs : request'[j] = "APPROVED" /\ request[j] # "APPROVED"
              => /\ j \notin children'
                 /\ j \in downloaded' => j \in overtaken']_refundVars
  BY ApprovalStep
<1> QED
  BY <1>1, <1>2, <1>3, RefundTypeCorrect, PTL DEF RefundSpec, RefundsUntakenOnly

-----------------------------------------------------------------------------
(* Money *)

\* The ledger knows two nets for a job: the debit, or the debit less the whole price
\* under some refund reason.  An approval has paid back a debit that was the price.
WholeOrBack ==
    \A j \in Jobs :
       /\ \/ owed[j] = Debit(j)
          \/ owed[j] = Debit(j) - Price[j] /\ j \in refunded
       /\ request[j] = "APPROVED" => owed[j] = 0 /\ (j \in refunded \/ Price[j] = 0)

\* Each refund asks for one of the two witnesses, so the second finds nothing due.
LEMMA MoneyStep ==
  ASSUME RefundTypeOK, LocksHold, WholeOrBack, [RefundNext]_refundVars
  PROVE  WholeOrBack'
<1>t. /\ owed \in [Jobs -> Int] /\ refunded \subseteq Jobs
      /\ request \in [Jobs -> {"NONE", "PENDING", "APPROVED", "REJECTED"}]
      /\ \A j \in Jobs : Price[j] \in Nat /\ Debit(j) \in {0, Price[j]}
  BY RefundAssumption DEF RefundTypeOK, Debit
<1>w. UNCHANGED waived /\ \A j \in Jobs : Debit(j)' = Debit(j)
  BY SwitchStep, TakeStep
     DEF RefundNext, refundVars, Debit, settings, Completes, Fails, AdminRefunds, RequestFiled,
         AutoLooks, RequestCommitted, AdminLooks, AdminApproves, AdminRejects, DayPasses
<1>1. ASSUME UNCHANGED <<owed, refunded>>,
             \A i \in Jobs : request'[i] = "APPROVED" => request[i] = "APPROVED"
      PROVE  WholeOrBack'
  BY <1>1, <1>w DEF WholeOrBack
<1>2. ASSUME NEW j \in Jobs, PaidBack(j, Price[j]), owed[j] = Debit(j),
             request[j] # "APPROVED",
             \A i \in Jobs : i # j => request'[i] = request[i],
             request'[j] = "APPROVED" => Debit(j) = Price[j]
      PROVE  WholeOrBack'
  BY <1>2, <1>t, <1>w DEF WholeOrBack, PaidBack
<1>3. ASSUME NEW j \in Jobs, Fails(j) \/ AdminRefunds(j) PROVE WholeOrBack'
  <2>1. CASE UNCHANGED <<owed, refunded>>
    BY <1>1, <1>3, <2>1 DEF Fails, AdminRefunds
  <2>2. CASE Price[j] > 0 /\ j \notin refunded /\ PaidBack(j, Price[j])
    BY <1>2, <1>3, <1>t, <2>2 DEF Fails, AdminRefunds, WholeOrBack
  <2> QED
    BY <1>3, <2>1, <2>2 DEF Fails, AdminRefunds
<1>4. ASSUME NEW j \in Jobs, Payable(j)
      PROVE  owed[j] = Debit(j) /\ Debit(j) = Price[j] /\ request[j] # "APPROVED"
  BY <1>4, <1>t DEF Payable, WholeOrBack
<1>5. ASSUME NEW j \in Jobs, RequestCommitted(j) PROVE WholeOrBack'
  <2>1. CASE UNCHANGED <<owed, refunded>>
             /\ request' \in {request, [request EXCEPT ![j] = "PENDING"]}
    BY <1>1, <1>t, <2>1
  <2>2. CASE Payable(j) /\ PaidBack(j, Debit(j)) /\ request' = [request EXCEPT ![j] = "APPROVED"]
    BY <1>2, <1>4, <1>t, <2>2
  <2> QED
    BY <1>5, <2>1, <2>2 DEF RequestCommitted
<1>6. ASSUME NEW j \in Jobs, AdminApproves(j) PROVE WholeOrBack'
  <2>1. CASE UNCHANGED <<owed, refunded, request>>
    BY <1>1, <2>1
  <2>2. CASE Payable(j) /\ PaidBack(j, Debit(j)) /\ request' = [request EXCEPT ![j] = "APPROVED"]
    BY <1>2, <1>4, <1>t, <2>2
  <2> QED
    BY <1>6, <2>1, <2>2 DEF AdminApproves
<1>7. ASSUME NEW j \in Jobs, AdminRejects(j) PROVE WholeOrBack'
  BY <1>1, <1>7, <1>t DEF AdminRejects
<1>8. CASE RefundNext
  BY <1>1, <1>3, <1>5, <1>6, <1>7, <1>8, TakeStep, SwitchStep
     DEF RefundNext, Completes, RequestFiled, AutoLooks, AdminLooks, DayPasses
<1> QED
  BY <1>1, <1>8 DEF refundVars

\* For every price and every set of waived jobs, no combination of settlement, admin
\* refund and approvals pays a job back twice, and an approval settles its ledger exactly.
THEOREM PaidBackOnce == RefundSpec => []RefundedOnce
<1>1. RefundInit => WholeOrBack
  BY DEF RefundInit, WholeOrBack
<1>2. RefundTypeOK /\ LocksHold /\ WholeOrBack /\ [RefundNext]_refundVars => WholeOrBack'
  BY MoneyStep
<1>3. WholeOrBack => RefundedOnce
  BY RefundAssumption DEF WholeOrBack, RefundedOnce, Debit
<1> QED
  BY <1>1, <1>2, <1>3, LocksKept, RefundTypeCorrect, PTL DEF RefundSpec

=============================================================================
