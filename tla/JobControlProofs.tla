-------------------------- MODULE JobControlProofs --------------------------
(***************************************************************************)
(* Proofs about JobControl: for every set of jobs and processes, every     *)
(* price list and every bound; and, at the end, about AdminJobs, whose     *)
(* queue tools work on the same rows, for any number of retries and        *)
(* flushes.                                                                *)
(***************************************************************************)
EXTENDS AdminJobs, TLAPS

-----------------------------------------------------------------------------
(* Type correctness *)

\* A refund row is one of the known reasons and pays a natural number, so the
\* conditional refund keeps the types of the ledger.
LEMMA PayBackType ==
  ASSUME TypeOK,
         NEW j \in Jobs, NEW reason \in Reason, NEW paid \in BOOLEAN,
         PayBack(j, reason, paid)
  PROVE  /\ refunds' \in [Jobs -> SUBSET Reason]
         /\ credited' \in [Jobs -> Nat]
<1>1. CASE paid
  BY <1>1 DEF TypeOK, PayBack
<1>2. CASE ~paid
  <2>1. /\ refunds' = [refunds EXCEPT ![j] = @ \cup {reason}]
        /\ credited' = [credited EXCEPT ![j] = @ + Charge[j]]
    BY <1>2 DEF PayBack
  <2>2. refunds[j] \cup {reason} \in SUBSET Reason
    BY DEF TypeOK
  <2>3. credited[j] + Charge[j] \in Nat
    BY ControlAssumption DEF TypeOK
  <2> QED
    BY <2>1, <2>2, <2>3 DEF TypeOK
<1> QED
  BY <1>1, <1>2

\* An attempt row may change its state ...
LEMMA AttemptStateType ==
  ASSUME TypeOK, NEW j \in Jobs, NEW a \in AttemptIds, NEW st \in AttemptState
  PROVE  [exec EXCEPT ![j][a].state = st] \in [Jobs -> [AttemptIds -> Attempt]]
<1>1. exec \in [Jobs -> [AttemptIds -> Attempt]]
  BY DEF TypeOK
<1>2. [exec[j][a] EXCEPT !.state = st] \in Attempt
  BY <1>1 DEF Attempt
<1>3. [exec EXCEPT ![j][a].state = st]
        = [exec EXCEPT ![j][a] = [exec[j][a] EXCEPT !.state = st]]
  BY <1>1
<1> QED
  BY <1>1, <1>2, <1>3

\* ... and its worker.
LEMMA AttemptBoundType ==
  ASSUME TypeOK, NEW j \in Jobs, NEW a \in AttemptIds
  PROVE  [exec EXCEPT ![j][a].bound = TRUE] \in [Jobs -> [AttemptIds -> Attempt]]
<1>1. exec \in [Jobs -> [AttemptIds -> Attempt]]
  BY DEF TypeOK
<1>2. [exec[j][a] EXCEPT !.bound = TRUE] \in Attempt
  <2>1. exec[j][a] \in Attempt
    BY <1>1
  <2> QED
    BY <2>1, Zenon DEF Attempt
<1>3. [exec EXCEPT ![j][a].bound = TRUE]
        = [exec EXCEPT ![j][a] = [exec[j][a] EXCEPT !.bound = TRUE]]
  BY <1>1
<1> QED
  BY <1>1, <1>2, <1>3

\* Recording how the active attempt ended yields attempt rows.
LEMMA OutcomeType ==
  ASSUME TypeOK, NEW j \in Jobs, NEW result \in Terminal
  PROVE  Outcome(j, result) \in [Jobs -> [AttemptIds -> Attempt]]
<1>1. CASE active[j] # 0
  <2>1. active[j] \in AttemptIds
    BY <1>1, ControlAssumption DEF TypeOK, AttemptIds
  <2>2. \A st \in AttemptState :
           [exec EXCEPT ![j][active[j]].state = st] \in [Jobs -> [AttemptIds -> Attempt]]
    BY <2>1, AttemptStateType
  <2>3. "SUCCEEDED" \in AttemptState /\ "FAILED" \in AttemptState
    BY DEF AttemptState
  <2>4. \/ Outcome(j, result) = exec
        \/ Outcome(j, result) = [exec EXCEPT ![j][active[j]].state = "SUCCEEDED"]
        \/ Outcome(j, result) = [exec EXCEPT ![j][active[j]].state = "FAILED"]
    BY DEF Outcome
  <2> QED
    BY <2>2, <2>3, <2>4 DEF TypeOK
<1>2. CASE active[j] = 0
  BY <1>2 DEF TypeOK, Outcome
<1> QED
  BY <1>1, <1>2

\* The generation an acquisition writes, and the token it hands out.
LEMMA GrantType ==
  ASSUME TypeOK, NEW j \in Jobs, NEW s \in Sessions, Grant(j, s)
  PROVE  control' \in [Jobs -> Control] /\ tokens' \subseteq Token
<1>1. control[j].generation \in 0 .. MaxGeneration
  BY DEF TypeOK, Control
<1>2. control[j].generation + 1 \in 1 .. MaxGeneration
  BY <1>1, ControlAssumption DEF Grant
<1>3. Bumped(j, s) \in Control
  BY <1>2, ControlAssumption DEF Bumped, Control, Fresh
<1> QED
  BY <1>2, <1>3 DEF TypeOK, Grant, Token

\* Retiring a control row keeps it a control row.
LEMMA RetireType ==
  ASSUME TypeOK, NEW j \in Jobs
  PROVE  [control EXCEPT ![j].retired = TRUE] \in [Jobs -> Control]
BY DEF TypeOK, Control

\* The rows a settlement writes have their types.
LEMMA SettleRowsType ==
  ASSUME TypeOK, NEW j \in Jobs, NEW result \in Terminal, SettleRows(j, result)
  PROVE  /\ status' \in [Jobs -> Status]
         /\ exec' \in [Jobs -> [AttemptIds -> Attempt]]
         /\ refunds' \in [Jobs -> SUBSET Reason]
         /\ credited' \in [Jobs -> Nat]
         /\ outputs' \subseteq Jobs
<1>1. status' \in [Jobs -> Status]
  BY DEF TypeOK, SettleRows, SetStatus, Status
<1>2. exec' \in [Jobs -> [AttemptIds -> Attempt]]
  BY OutcomeType DEF SettleRows
<1>3. CASE result = "COMPLETED"
  BY <1>1, <1>2, <1>3 DEF TypeOK, SettleRows
<1>4. CASE result # "COMPLETED"
  <2>1. PayBack(j, RefundReason(result), NothingDue(j))
    BY <1>4 DEF SettleRows
  <2>2. RefundReason(result) \in Reason /\ NothingDue(j) \in BOOLEAN
    BY DEF RefundReason, Reason, NothingDue
  <2> QED
    BY <1>1, <1>2, <1>4, <2>1, <2>2, PayBackType DEF TypeOK, SettleRows
<1> QED
  BY <1>3, <1>4

\* Every step of an owner of the job row keeps the types.
LEMMA OwnerStepType == TypeOK /\ OwnerStep => TypeOK'
<1> SUFFICES ASSUME TypeOK, OwnerStep PROVE TypeOK'
  OBVIOUS
<1>1. ASSUME NEW j \in Jobs, NEW s \in Sessions, Acquire(j, s) PROVE TypeOK'
  BY <1>1, GrantType DEF TypeOK, Acquire, attemptVars, moneyVars
<1>2. ASSUME NEW j \in Jobs, NEW s \in Sessions, Takeover(j, s) PROVE TypeOK'
  BY <1>2, GrantType DEF TypeOK, Takeover, attemptVars, moneyVars
<1>3. ASSUME NEW j \in Jobs, NEW s \in Sessions, SettleTakeover(j, s) PROVE TypeOK'
  <2>1. control' \in [Jobs -> Control]
    <3>1. control[j].generation + 1 \in 0 .. MaxGeneration
      BY <1>3, ControlAssumption DEF SettleTakeover, TypeOK, Control
    <3>2. [Bumped(j, s) EXCEPT !.retired = TRUE] \in Control
      BY <3>1 DEF Bumped, Control, Fresh
    <3> QED
      BY <1>3, <3>2 DEF SettleTakeover, TypeOK
  <2> QED
    BY <1>3, <2>1, SettleRowsType DEF TypeOK, SettleTakeover, SettleRows, Terminal
<1>4. ASSUME NEW t \in tokens, RenewLease(t) PROVE TypeOK'
  BY <1>4 DEF TypeOK, RenewLease, Control, Token, Fresh, attemptVars, moneyVars
<1>5. ASSUME NEW t \in tokens, RetireOwnership(t) PROVE TypeOK'
  BY <1>5 DEF TypeOK, RetireOwnership, Control, Token, attemptVars, moneyVars
<1>6. ASSUME NEW t \in tokens, BeginProcessing(t) PROVE TypeOK'
  BY <1>6 DEF TypeOK, BeginProcessing, SetStatus, Status, InFlight, Token,
              ownerVars, attemptVars, moneyVars
<1>7. ASSUME NEW t \in tokens, ShowQueued(t) PROVE TypeOK'
  BY <1>7 DEF TypeOK, ShowQueued, SetStatus, Status, Token,
              ownerVars, attemptVars, moneyVars
<1>8. ASSUME NEW t \in tokens, NEW st \in {"GENERATING", "UPLOADING"},
             Transition(t, st) PROVE TypeOK'
  BY <1>8 DEF TypeOK, Transition, SetStatus, Status, InFlight, Token,
              ownerVars, attemptVars, moneyVars
<1>9. ASSUME NEW t \in tokens, CountFailure(t) PROVE TypeOK'
  BY <1>9, ControlAssumption DEF TypeOK, CountFailure, Token,
              ownerVars, attemptVars, moneyVars
<1>10. ASSUME NEW t \in tokens, NEW result \in Terminal, SettleOwned(t, result)
       PROVE TypeOK'
  <2>1. t.job \in Jobs
    BY DEF TypeOK, Token
  <2> QED
    BY <1>10, <2>1, SettleRowsType, RetireType DEF TypeOK, SettleOwned, SettleRows
<1>11. ASSUME NEW t \in tokens, SettleTooLate(t) PROVE TypeOK'
  BY <1>5, <1>11 DEF SettleTooLate
<1>12. ASSUME NEW t \in tokens, Yield(t) PROVE TypeOK'
  <2>1. t.job \in Jobs
    BY DEF TypeOK, Token
  <2>2. exec' \in [Jobs -> [AttemptIds -> Attempt]]
    BY <1>12, <2>1, OutcomeType DEF Yield, Terminal
  <2> QED
    BY <1>12, <2>1, <2>2, RetireType DEF TypeOK, Yield, SetStatus, Status, moneyVars
<1>13. ASSUME NEW s \in Sessions, RetireSession(s) PROVE TypeOK'
  BY <1>13 DEF TypeOK, RetireSession, Control, attemptVars, moneyVars
<1> QED
  BY <1>1, <1>2, <1>3, <1>4, <1>5, <1>6, <1>7, <1>8, <1>9, <1>10, <1>11, <1>12,
     <1>13 DEF OwnerStep

\* Every step on the execution attempts keeps the types.
LEMMA AttemptStepType == TypeOK /\ AttemptStep => TypeOK'
<1> SUFFICES ASSUME TypeOK, AttemptStep PROVE TypeOK'
  OBVIOUS
<1>1. ASSUME NEW t \in tokens, NEW ph \in Phases, PrepareAttempt(t, ph) PROVE TypeOK'
  <2>1. PICK a \in Preparable(t.job, ph) :
           /\ exec' = [exec EXCEPT ![t.job][a] =
                         [state |-> "PREPARING", phase |-> ph, bound |-> FALSE]]
           /\ active' = [active EXCEPT ![t.job] = a]
    BY <1>1 DEF PrepareAttempt
  <2>2. a \in AttemptIds /\ t.job \in Jobs
    BY DEF Preparable, Idle, NextAttempt, TypeOK, Token
  <2>3. [state |-> "PREPARING", phase |-> ph, bound |-> FALSE] \in Attempt
    BY DEF Attempt, AttemptState
  <2>4. exec' \in [Jobs -> [AttemptIds -> Attempt]]
    BY <2>1, <2>2, <2>3 DEF TypeOK
  <2>5. active' \in [Jobs -> 0 .. MaxAttempts]
    BY <2>1, <2>2, ControlAssumption DEF TypeOK, AttemptIds
  <2> QED
    BY <1>1, <2>4, <2>5 DEF TypeOK, PrepareAttempt, ownerVars, moneyVars
<1>2. ASSUME NEW t \in tokens, NEW a \in AttemptIds, BindAttempt(t, a) PROVE TypeOK'
  <2>1. t.job \in Jobs
    BY DEF TypeOK, Token
  <2>2. exec' \in [Jobs -> [AttemptIds -> Attempt]]
    BY <1>2, <2>1, AttemptBoundType DEF BindAttempt
  <2> QED
    BY <1>2, <2>2 DEF TypeOK, BindAttempt, ownerVars, moneyVars
<1>3. ASSUME NEW t \in tokens, NEW a \in AttemptIds, SubmitIntent(t, a) PROVE TypeOK'
  <2>1. t.job \in Jobs
    BY DEF TypeOK, Token
  <2>2. exec' \in [Jobs -> [AttemptIds -> Attempt]]
    <3>1. "SUBMITTING" \in AttemptState
      BY DEF AttemptState
    <3> QED
      BY <1>3, <2>1, <3>1, AttemptStateType DEF SubmitIntent
  <2>3. sent' \in [Jobs -> [AttemptIds -> Nat]]
    BY <1>3, <2>1 DEF TypeOK, SubmitIntent
  <2> QED
    BY <1>3, <2>1, <2>2, <2>3 DEF TypeOK, SubmitIntent, ownerVars, moneyVars
<1>4. ASSUME NEW t \in tokens, NEW a \in AttemptIds, MarkUnknown(t, a) PROVE TypeOK'
  <2>1. t.job \in Jobs /\ "UNKNOWN_RETRIED" \in AttemptState
    BY DEF TypeOK, Token, AttemptState
  <2>2. exec' \in [Jobs -> [AttemptIds -> Attempt]]
    BY <1>4, <2>1, AttemptStateType DEF MarkUnknown
  <2> QED
    BY <1>4, <2>2 DEF TypeOK, MarkUnknown, ownerVars, moneyVars
<1>5. ASSUME NEW j \in Jobs, NEW a \in AttemptIds, PromptAccepted(j, a) PROVE TypeOK'
  <2>1. "ACCEPTED" \in AttemptState
    BY DEF AttemptState
  <2>2. exec' \in [Jobs -> [AttemptIds -> Attempt]]
    BY <1>5, <2>1, AttemptStateType DEF PromptAccepted
  <2> QED
    BY <1>5, <2>2 DEF TypeOK, PromptAccepted, Answered, ownerVars, moneyVars
<1>6. ASSUME NEW j \in Jobs, NEW a \in AttemptIds, PromptRejected(j, a) PROVE TypeOK'
  <2>1. "FAILED" \in AttemptState
    BY DEF AttemptState
  <2>2. exec' \in [Jobs -> [AttemptIds -> Attempt]]
    BY <1>6, <2>1, AttemptStateType DEF PromptRejected, TypeOK
  <2> QED
    BY <1>6, <2>2 DEF TypeOK, PromptRejected, Answered, ownerVars, moneyVars
<1>7. ASSUME NEW j \in Jobs, NEW a \in AttemptIds, AnswerLost(j, a) PROVE TypeOK'
  BY <1>7 DEF TypeOK, AnswerLost, Answered, ownerVars, moneyVars
<1> QED
  BY <1>1, <1>2, <1>3, <1>4, <1>5, <1>6, <1>7 DEF AttemptStep

\* Every transaction of the API keeps the types.
LEMMA ApiStepType == TypeOK /\ ApiStep => TypeOK'
<1> SUFFICES ASSUME TypeOK, ApiStep PROVE TypeOK'
  OBVIOUS
<1> USE DEF ownerVars, attemptVars, SetStatus
<1>1. ASSUME NEW j \in Jobs, CreateJob(j) PROVE TypeOK'
  BY <1>1 DEF TypeOK, CreateJob, Status, moneyVars
<1>2. ASSUME NEW j \in Jobs, EnqueueFinished(j) PROVE TypeOK'
  BY <1>2 DEF TypeOK, EnqueueFinished, moneyVars
<1>3. ASSUME NEW j \in Jobs, EnqueueFailed(j) PROVE TypeOK'
  <2>1. CASE status[j] = "QUEUED"
    <3>1. /\ PayBack(j, "REFUND_ENQUEUE_FAIL", "REFUND_ENQUEUE_FAIL" \in refunds[j])
          /\ ("REFUND_ENQUEUE_FAIL" \in refunds[j]) \in BOOLEAN
      BY <1>3, <2>1 DEF EnqueueFailed
    <3>2. refunds' \in [Jobs -> SUBSET Reason] /\ credited' \in [Jobs -> Nat]
      BY <3>1, PayBackType DEF Reason
    <3> QED
      BY <1>3, <2>1, <3>2 DEF TypeOK, EnqueueFailed, Status, Terminal
  <2>2. CASE status[j] # "QUEUED"
    BY <1>3, <2>2 DEF TypeOK, EnqueueFailed
  <2> QED
    BY <2>1, <2>2
<1>4. ASSUME NEW j \in Jobs, UserCancel(j) PROVE TypeOK'
  <2>1. PayBack(j, "JOB_CANCEL_REFUND",
                "JOB_CANCEL_REFUND" \in refunds[j] \/ Charge[j] = 0)
    BY <1>4 DEF UserCancel
  <2>2. refunds' \in [Jobs -> SUBSET Reason] /\ credited' \in [Jobs -> Nat]
    BY <2>1, PayBackType DEF Reason
  <2> QED
    BY <1>4, <2>2 DEF TypeOK, UserCancel, Status, Terminal
<1>5. ASSUME NEW j \in Jobs, NEW reason \in {"REFUND_ADMIN_CANCEL", "REFUND_CANCELLED"},
             CancelJobAndRefund(j, reason) PROVE TypeOK'
  <2>1. PayBack(j, reason, NothingDue(j)) /\ NothingDue(j) \in BOOLEAN
    BY <1>5 DEF CancelJobAndRefund, NothingDue
  <2>2. refunds' \in [Jobs -> SUBSET Reason] /\ credited' \in [Jobs -> Nat]
    BY <2>1, PayBackType DEF Reason
  <2> QED
    BY <1>5, <2>2 DEF TypeOK, CancelJobAndRefund, Status, Terminal
<1> QED
  BY <1>1, <1>2, <1>3, <1>4, <1>5 DEF ApiStep

\* The clock keeps the types.
LEMMA LeaseAgesType == ASSUME TypeOK, NEW j \in Jobs, LeaseAges(j) PROVE TypeOK'
<1>1. control[j].lease - 1 \in {Fresh, Short, Expired}
  BY DEF TypeOK, LeaseAges, Control, Fresh, Short, Expired
<1>2. [control[j] EXCEPT !.lease = @ - 1] \in Control
  BY <1>1 DEF TypeOK, Control
<1>3. control' = [control EXCEPT ![j] = [control[j] EXCEPT !.lease = @ - 1]]
  BY DEF TypeOK, LeaseAges
<1> QED
  BY <1>2, <1>3 DEF TypeOK, LeaseAges, attemptVars, moneyVars

\* Every step, and every step that leaves the rows alone, keeps the types.
LEMMA TypeKept == TypeOK /\ [Next]_vars => TypeOK'
<1> SUFFICES ASSUME TypeOK, [Next]_vars PROVE TypeOK'
  OBVIOUS
<1>1. CASE Next
  BY <1>1, OwnerStepType, AttemptStepType, ApiStepType, LeaseAgesType DEF Next
<1>2. CASE UNCHANGED vars
  BY <1>2 DEF vars, ownerVars, attemptVars, moneyVars, TypeOK
<1> QED
  BY <1>1, <1>2

\* Every reachable state is well formed: the control row, the attempts, the
\* ledger and the tokens of JobControl never leave their value sets.
THEOREM TypeCorrect == Spec => []TypeOK
<1>1. Init => TypeOK
  BY ControlAssumption
  DEF Init, TypeOK, NoControl, Control, NoAttempt, Attempt, AttemptState, Status,
      Expired, AttemptIds
<1>2. TypeOK /\ [Next]_vars => TypeOK'
  BY TypeKept
<1> QED
  BY <1>1, <1>2, PTL DEF Spec

-----------------------------------------------------------------------------
(* Settlement: what the money, the output and the lease of a job say about how *)
(* it ended                                                                    *)

\* Steps that touch neither money nor outputs and move no job into or out of a
\* terminal status preserve the settlement invariant, as long as they leave the
\* control rows of completed jobs retired.
LEMMA QuietStep ==
  ASSUME SettledInv,
         UNCHANGED moneyVars,
         \A k \in Jobs : status'[k] = status[k]
                         \/ (status[k] \notin Terminal /\ status'[k] \notin Terminal),
         \A k \in Jobs : status[k] = "COMPLETED" => control'[k].retired
  PROVE  SettledInv'
BY DEF SettledInv, MoneyFollowsOutcome, RefundsAreEarned, OutputFollowsOutcome,
       CompletedIsReleased, moneyVars, Terminal

\* Ending a job without an image under a refund that is skipped only when
\* nothing is due preserves it.
LEMMA RefundStep ==
  ASSUME TypeOK, SettledInv,
         NEW j \in Jobs, ~IsTerminal(j),
         NEW st \in {"FAILED", "CANCELLED"}, SetStatus(j, st),
         NEW reason \in Reason, NEW paid \in BOOLEAN, PayBack(j, reason, paid),
         paid => refunds[j] # {} \/ Charge[j] = 0,
         outputs' = outputs,
         \A k \in Jobs \ {j} : control'[k] = control[k]
  PROVE  SettledInv'
<1>1. status \in [Jobs -> Status] /\ credited \in [Jobs -> Nat]
      /\ refunds \in [Jobs -> SUBSET Reason]
  BY DEF TypeOK
<1>2. status' = [status EXCEPT ![j] = st]
  BY DEF SetStatus
<1>3. refunds[j] = {} /\ credited[j] = 0 /\ j \notin outputs
  BY DEF SettledInv, RefundsAreEarned, MoneyFollowsOutcome, OutputFollowsOutcome,
         IsTerminal, Terminal
<1>4. credited'[j] = Charge[j]
  <2>1. CASE paid
    BY <1>3, <2>1 DEF PayBack
  <2>2. CASE ~paid
    <3>1. credited' = [credited EXCEPT ![j] = @ + Charge[j]]
      BY <2>2 DEF PayBack
    <3>2. Charge[j] \in Nat
      BY ControlAssumption
    <3>3. credited'[j] = credited[j] + Charge[j]
      BY <1>1, <3>1
    <3> QED
      BY <1>3, <3>2, <3>3
  <2> QED
    BY <2>1, <2>2
<1>5. \A k \in Jobs \ {j} : credited'[k] = credited[k] /\ refunds'[k] = refunds[k]
  BY <1>1 DEF PayBack
<1>6. MoneyFollowsOutcome'
  BY <1>1, <1>2, <1>4, <1>5 DEF SettledInv, MoneyFollowsOutcome
<1>7. RefundsAreEarned'
  BY <1>1, <1>2, <1>5 DEF SettledInv, RefundsAreEarned
<1>8. OutputFollowsOutcome'
  BY <1>1, <1>2, <1>3 DEF SettledInv, OutputFollowsOutcome
<1>9. CompletedIsReleased'
  BY <1>1, <1>2 DEF SettledInv, CompletedIsReleased
<1> QED
  BY <1>6, <1>7, <1>8, <1>9 DEF SettledInv

\* A settlement preserves it if it retires the lease in the same transaction.
LEMMA SettleStep ==
  ASSUME TypeOK, SettledInv,
         NEW j \in Jobs, ~IsTerminal(j),
         NEW result \in Terminal, SettleRows(j, result),
         control'[j].retired,
         \A k \in Jobs \ {j} : control'[k] = control[k]
  PROVE  SettledInv'
<1>1. CASE result = "COMPLETED"
  <2>1. /\ status \in [Jobs -> Status]
        /\ status' = [status EXCEPT ![j] = "COMPLETED"]
        /\ outputs' = outputs \cup {j}
        /\ UNCHANGED <<refunds, credited>>
    BY <1>1 DEF SettleRows, SetStatus, TypeOK
  <2>2. refunds[j] = {} /\ credited[j] = 0
    BY DEF SettledInv, RefundsAreEarned, MoneyFollowsOutcome, IsTerminal, Terminal
  <2>3. MoneyFollowsOutcome'
    BY <2>1, <2>2 DEF SettledInv, MoneyFollowsOutcome
  <2>4. RefundsAreEarned'
    BY <2>1, <2>2 DEF SettledInv, RefundsAreEarned
  <2>5. OutputFollowsOutcome'
    BY <2>1 DEF SettledInv, OutputFollowsOutcome
  <2>6. CompletedIsReleased'
    BY <2>1 DEF SettledInv, CompletedIsReleased
  <2> QED
    BY <2>3, <2>4, <2>5, <2>6 DEF SettledInv
<1>2. CASE result # "COMPLETED"
  <2>1. /\ SetStatus(j, result)
        /\ PayBack(j, RefundReason(result), NothingDue(j))
        /\ outputs' = outputs
    BY <1>2 DEF SettleRows
  <2>2. /\ result \in {"FAILED", "CANCELLED"}
        /\ RefundReason(result) \in Reason
        /\ NothingDue(j) \in BOOLEAN
        /\ NothingDue(j) => refunds[j] # {} \/ Charge[j] = 0
    BY <1>2 DEF Terminal, RefundReason, Reason, NothingDue
  <2> QED
    BY <2>1, <2>2, RefundStep
<1> QED
  BY <1>1, <1>2

\* A step of an owner preserves the settlement invariant.
LEMMA OwnerStepSettled == TypeOK /\ SettledInv /\ OwnerStep => SettledInv'
<1> SUFFICES ASSUME TypeOK, SettledInv, OwnerStep PROVE SettledInv'
  OBVIOUS
<1>a. /\ status \in [Jobs -> Status] /\ control \in [Jobs -> Control]
      /\ \A t \in tokens : t.job \in Jobs
  BY DEF TypeOK, Token
<1>b. \A k \in Jobs : status[k] = "COMPLETED" => control[k].retired
  BY DEF SettledInv, CompletedIsReleased
<1>1. ASSUME NEW j \in Jobs, NEW s \in Sessions, Acquire(j, s) PROVE SettledInv'
  BY <1>a, <1>b, <1>1, QuietStep DEF Acquire, Grant
<1>2. ASSUME NEW j \in Jobs, NEW s \in Sessions, Takeover(j, s) PROVE SettledInv'
  BY <1>a, <1>b, <1>2, QuietStep DEF Takeover, Grant, InFlight
<1>3. ASSUME NEW j \in Jobs, NEW s \in Sessions, SettleTakeover(j, s) PROVE SettledInv'
  <2>1. ~IsTerminal(j) /\ SettleRows(j, "FAILED") /\ "FAILED" \in Terminal
    BY <1>3 DEF SettleTakeover, IsTerminal, InFlight, Terminal
  <2>2. control'[j].retired /\ \A k \in Jobs \ {j} : control'[k] = control[k]
    BY <1>a, <1>3 DEF SettleTakeover, Bumped
  <2> QED
    BY <2>1, <2>2, SettleStep
<1>4. ASSUME NEW t \in tokens, RenewLease(t) PROVE SettledInv'
  BY <1>a, <1>b, <1>4, QuietStep DEF RenewLease, Control
<1>5. ASSUME NEW t \in tokens, RetireOwnership(t) PROVE SettledInv'
  BY <1>a, <1>b, <1>5, QuietStep DEF RetireOwnership, Control
<1>6. ASSUME NEW t \in tokens, BeginProcessing(t) PROVE SettledInv'
  BY <1>a, <1>b, <1>6, QuietStep DEF BeginProcessing, SetStatus, Terminal, ownerVars
<1>7. ASSUME NEW t \in tokens, ShowQueued(t) PROVE SettledInv'
  BY <1>a, <1>b, <1>7, QuietStep
  DEF ShowQueued, SetStatus, IsTerminal, Terminal, ownerVars
<1>8. ASSUME NEW t \in tokens, NEW st \in {"GENERATING", "UPLOADING"},
             Transition(t, st) PROVE SettledInv'
  BY <1>a, <1>b, <1>8, QuietStep
  DEF Transition, SetStatus, IsTerminal, Terminal, ownerVars
<1>9. ASSUME NEW t \in tokens, CountFailure(t) PROVE SettledInv'
  BY <1>a, <1>b, <1>9, QuietStep DEF CountFailure, ownerVars
<1>10. ASSUME NEW t \in tokens, NEW result \in Terminal, SettleOwned(t, result)
       PROVE SettledInv'
  <2>1. control'[t.job].retired /\ \A k \in Jobs \ {t.job} : control'[k] = control[k]
    BY <1>a, <1>10 DEF SettleOwned, Control
  <2> QED
    BY <1>a, <1>10, <2>1, SettleStep DEF SettleOwned
<1>11. ASSUME NEW t \in tokens, SettleTooLate(t) PROVE SettledInv'
  BY <1>5, <1>11 DEF SettleTooLate
<1>12. ASSUME NEW t \in tokens, Yield(t) PROVE SettledInv'
  BY <1>a, <1>b, <1>12, QuietStep DEF Yield, SetStatus, IsTerminal, Terminal, Control
<1>13. ASSUME NEW s \in Sessions, RetireSession(s) PROVE SettledInv'
  BY <1>a, <1>b, <1>13, QuietStep DEF RetireSession, Control
<1> QED
  BY <1>1, <1>2, <1>3, <1>4, <1>5, <1>6, <1>7, <1>8, <1>9, <1>10, <1>11, <1>12,
     <1>13 DEF OwnerStep

\* A transaction of the API preserves the settlement invariant.
LEMMA ApiStepSettled == TypeOK /\ SettledInv /\ ApiStep => SettledInv'
<1> SUFFICES ASSUME TypeOK, SettledInv, ApiStep PROVE SettledInv'
  OBVIOUS
<1>a. status \in [Jobs -> Status]
  BY DEF TypeOK
<1>b. \A k \in Jobs : status[k] = "COMPLETED" => control[k].retired
  BY DEF SettledInv, CompletedIsReleased
<1>c. \A k \in Jobs : ~IsTerminal(k) => refunds[k] = {}
  BY DEF SettledInv, RefundsAreEarned, IsTerminal, Terminal
<1>1. ASSUME NEW j \in Jobs, CreateJob(j) PROVE SettledInv'
  BY <1>a, <1>b, <1>1, QuietStep DEF CreateJob, SetStatus, Terminal, ownerVars
<1>2. ASSUME NEW j \in Jobs, EnqueueFinished(j) PROVE SettledInv'
  BY <1>a, <1>b, <1>2, QuietStep DEF EnqueueFinished, ownerVars
<1>3. ASSUME NEW j \in Jobs, EnqueueFailed(j) PROVE SettledInv'
  <2>1. CASE status[j] = "QUEUED"
    <3>1. /\ SetStatus(j, "FAILED")
          /\ PayBack(j, "REFUND_ENQUEUE_FAIL", "REFUND_ENQUEUE_FAIL" \in refunds[j])
          /\ control' = control /\ outputs' = outputs
      BY <1>3, <2>1 DEF EnqueueFailed, ownerVars
    <3>2. ~IsTerminal(j) /\ "REFUND_ENQUEUE_FAIL" \notin refunds[j]
      BY <1>c, <2>1 DEF IsTerminal, Terminal
    <3>3. PayBack(j, "REFUND_ENQUEUE_FAIL", FALSE) /\ "REFUND_ENQUEUE_FAIL" \in Reason
      BY <3>1, <3>2 DEF PayBack, Reason
    <3> QED
      BY <3>1, <3>2, <3>3, RefundStep
  <2>2. CASE status[j] # "QUEUED"
    BY <1>a, <1>b, <1>3, <2>2, QuietStep DEF EnqueueFailed, ownerVars, moneyVars
  <2> QED
    BY <2>1, <2>2
<1>4. ASSUME NEW j \in Jobs, UserCancel(j) PROVE SettledInv'
  <2> DEFINE paid == "JOB_CANCEL_REFUND" \in refunds[j] \/ Charge[j] = 0
  <2>1. /\ SetStatus(j, "CANCELLED")
        /\ PayBack(j, "JOB_CANCEL_REFUND", paid)
        /\ control' = control /\ outputs' = outputs
    BY <1>4 DEF UserCancel, ownerVars
  <2>2. ~IsTerminal(j) /\ "JOB_CANCEL_REFUND" \in Reason /\ paid \in BOOLEAN
    BY <1>4 DEF UserCancel, IsTerminal, Terminal, Reason
  <2>3. paid => refunds[j] # {} \/ Charge[j] = 0
    OBVIOUS
  <2> HIDE DEF paid
  <2> QED
    BY <2>1, <2>2, <2>3, RefundStep
<1>5. ASSUME NEW j \in Jobs, NEW reason \in {"REFUND_ADMIN_CANCEL", "REFUND_CANCELLED"},
             CancelJobAndRefund(j, reason) PROVE SettledInv'
  <2>1. /\ SetStatus(j, "CANCELLED")
        /\ PayBack(j, reason, NothingDue(j))
        /\ control' = control /\ outputs' = outputs
    BY <1>5 DEF CancelJobAndRefund, ownerVars
  <2>2. ~IsTerminal(j) /\ reason \in Reason /\ NothingDue(j) \in BOOLEAN
    BY <1>5 DEF CancelJobAndRefund, IsTerminal, Terminal, InFlight, Reason, NothingDue
  <2> QED
    BY <2>1, <2>2, RefundStep DEF NothingDue
<1> QED
  BY <1>1, <1>2, <1>3, <1>4, <1>5 DEF ApiStep

\* No step on an attempt, and no passing of time, touches how jobs ended.
LEMMA OtherStepSettled ==
  ASSUME TypeOK, SettledInv, AttemptStep \/ \E j \in Jobs : LeaseAges(j)
  PROVE  SettledInv'
<1>1. UNCHANGED <<status, moneyVars>>
  BY DEF AttemptStep, PrepareAttempt, BindAttempt, SubmitIntent, MarkUnknown,
         PromptAccepted, PromptRejected, AnswerLost, LeaseAges
<1>2. \A k \in Jobs : control[k].retired => control'[k].retired
  <2>1. CASE AttemptStep
    <3>1. control' = control
      BY <2>1 DEF AttemptStep, PrepareAttempt, BindAttempt, SubmitIntent, MarkUnknown,
                  PromptAccepted, PromptRejected, AnswerLost, ownerVars
    <3> QED
      BY <3>1
  <2>2. ASSUME NEW j \in Jobs, LeaseAges(j)
        PROVE  \A k \in Jobs : control[k].retired => control'[k].retired
    BY <2>2 DEF LeaseAges, TypeOK, Control
  <2> QED
    BY <2>1, <2>2
<1> QED
  BY <1>1, <1>2, QuietStep DEF SettledInv, CompletedIsReleased

\* A job's charge comes back exactly when it ended without an image and never
\* twice; its output exists exactly when it completed, and then nobody owns it.
THEOREM SettlementCorrect == Spec => []SettledInv
<1>1. Init => SettledInv
  BY DEF Init, SettledInv, MoneyFollowsOutcome, RefundsAreEarned,
         OutputFollowsOutcome, CompletedIsReleased
<1>2. TypeOK /\ SettledInv /\ [Next]_vars => SettledInv'
  <2> SUFFICES ASSUME TypeOK, SettledInv, [Next]_vars PROVE SettledInv'
    OBVIOUS
  <2>1. CASE Next
    BY <2>1, OwnerStepSettled, ApiStepSettled, OtherStepSettled DEF Next
  <2>2. CASE UNCHANGED vars
    BY <2>2, QuietStep DEF vars, ownerVars, SettledInv, CompletedIsReleased
  <2> QED
    BY <2>1, <2>2
<1> QED
  BY <1>1, <1>2, TypeCorrect, PTL DEF Spec

\* MoneyFollowsOutcome, the invariant TLC checks, for every price list and any
\* number of jobs, processes, generations and attempts.
THEOREM MoneyIsRight == Spec => []MoneyFollowsOutcome
<1>1. SettledInv => MoneyFollowsOutcome
  BY DEF SettledInv
<1> QED
  BY <1>1, SettlementCorrect, PTL

-----------------------------------------------------------------------------
(* Finality and the lease *)

\* Whatever ends up in status, credited or outputs of a job is written only
\* while the job is not terminal.
LEMMA FinalStep ==
  ASSUME TypeOK, NEW j \in Jobs, IsTerminal(j), Next
  PROVE  status'[j] = status[j] /\ credited'[j] = credited[j]
         /\ (j \in outputs' <=> j \in outputs)
<1>a. /\ status \in [Jobs -> Status] /\ credited \in [Jobs -> Nat]
      /\ \A t \in tokens : t.job \in Jobs
      /\ status[j] \in Terminal
  BY DEF TypeOK, Token, IsTerminal
<1> USE DEF SetStatus
<1>1. CASE OwnerStep
  <2>1. ASSUME NEW k \in Jobs, NEW s \in Sessions,
               Acquire(k, s) \/ Takeover(k, s)
        PROVE  UNCHANGED <<status, moneyVars>>
    BY <2>1 DEF Acquire, Takeover
  <2>2. ASSUME NEW k \in Jobs, NEW result \in Terminal, ~IsTerminal(k),
               SettleRows(k, result)
        PROVE  status'[j] = status[j] /\ credited'[j] = credited[j]
               /\ (j \in outputs' <=> j \in outputs)
    <3>1. k # j
      BY <1>a, <2>2
    <3> QED
      BY <1>a, <2>2, <3>1 DEF SettleRows, PayBack
  <2>3. ASSUME NEW k \in Jobs, NEW s \in Sessions, SettleTakeover(k, s)
        PROVE  status'[j] = status[j] /\ credited'[j] = credited[j]
               /\ (j \in outputs' <=> j \in outputs)
    BY <2>2, <2>3 DEF SettleTakeover, IsTerminal, InFlight, Terminal
  <2>4. ASSUME NEW t \in tokens,
               \/ RenewLease(t) \/ RetireOwnership(t) \/ CountFailure(t)
               \/ SettleTooLate(t)
        PROVE  UNCHANGED <<status, moneyVars>>
    BY <2>4 DEF RenewLease, RetireOwnership, CountFailure, SettleTooLate
  <2>5. ASSUME NEW t \in tokens, NEW st \in {"GENERATING", "UPLOADING"},
               \/ BeginProcessing(t) \/ ShowQueued(t) \/ Yield(t) \/ Transition(t, st)
        PROVE  status'[j] = status[j] /\ UNCHANGED moneyVars
    <3>1. t.job # j
      BY <1>a, <2>5 DEF BeginProcessing, ShowQueued, Yield, Transition, IsTerminal,
                        Terminal
    <3> QED
      BY <1>a, <2>5, <3>1 DEF BeginProcessing, ShowQueued, Yield, Transition
  <2>6. ASSUME NEW t \in tokens, NEW result \in Terminal, SettleOwned(t, result)
        PROVE  status'[j] = status[j] /\ credited'[j] = credited[j]
               /\ (j \in outputs' <=> j \in outputs)
    BY <1>a, <2>2, <2>6 DEF SettleOwned
  <2>7. ASSUME NEW s \in Sessions, RetireSession(s) PROVE UNCHANGED <<status, moneyVars>>
    BY <2>7 DEF RetireSession
  <2> QED
    BY <1>1, <2>1, <2>3, <2>4, <2>5, <2>6, <2>7 DEF OwnerStep, moneyVars
<1>2. CASE AttemptStep \/ \E k \in Jobs : LeaseAges(k)
  <2>1. UNCHANGED <<status, moneyVars>>
    BY <1>2 DEF AttemptStep, PrepareAttempt, BindAttempt, SubmitIntent, MarkUnknown,
                PromptAccepted, PromptRejected, AnswerLost, LeaseAges
  <2> QED
    BY <2>1 DEF moneyVars
<1>3. CASE ApiStep
  <2>1. ASSUME NEW k \in Jobs, CreateJob(k) \/ EnqueueFinished(k)
        PROVE  status'[j] = status[j] /\ UNCHANGED moneyVars
    BY <1>a, <2>1 DEF CreateJob, EnqueueFinished, Terminal
  <2>2. ASSUME NEW k \in Jobs,
               \/ EnqueueFailed(k) \/ UserCancel(k)
               \/ \E reason \in {"REFUND_ADMIN_CANCEL", "REFUND_CANCELLED"} :
                     CancelJobAndRefund(k, reason)
        PROVE  status'[j] = status[j] /\ credited'[j] = credited[j]
               /\ outputs' = outputs
    <3>1. CASE k = j
      BY <1>a, <2>2, <3>1 DEF EnqueueFailed, UserCancel, CancelJobAndRefund, InFlight,
                              Terminal
    <3>2. CASE k # j
      BY <1>a, <2>2, <3>2 DEF EnqueueFailed, UserCancel, CancelJobAndRefund, PayBack
    <3> QED
      BY <3>1, <3>2
  <2> QED
    BY <1>3, <2>1, <2>2 DEF ApiStep, moneyVars
<1> QED
  BY <1>1, <1>2, <1>3 DEF Next

\* No transaction of any dispatcher process, current or superseded, and none of
\* the API moves a finished job, pays for it again or changes its output.
THEOREM FinishedIsFinal == Spec => TerminalIsFinal
<1>1. TypeOK /\ [Next]_vars =>
        [\A j \in Jobs : IsTerminal(j) =>
            /\ status'[j] = status[j]
            /\ credited'[j] = credited[j]
            /\ j \in outputs' <=> j \in outputs]_vars
  BY FinalStep
<1> QED
  BY <1>1, TypeCorrect, PTL DEF Spec, TerminalIsFinal

\* One step, seen from one job: either the generation stays and the lease does
\* not come back, or a dead lease is replaced by the next generation.
Disciplined(j) ==
  IF control'[j].generation = control[j].generation
    THEN Live(j)' => Live(j)
    ELSE ~Live(j) /\ control'[j].generation = control[j].generation + 1

LEMMA LeaseStep ==
  ASSUME TypeOK, Next, NEW j \in Jobs
  PROVE  Disciplined(j)
<1> USE DEF Disciplined
<1>a. /\ control \in [Jobs -> Control]
      /\ \A t \in tokens : t.job \in Jobs
  BY DEF TypeOK, Token
<1>1. ASSUME control' = control PROVE Disciplined(j)
  BY <1>1 DEF Live
<1>2. ASSUME NEW k \in Jobs, NEW row \in Control, ~Live(k),
             control' = [control EXCEPT ![k] = row],
             row.generation = control[k].generation + 1
      PROVE  Disciplined(j)
  BY <1>a, <1>2 DEF Live, Control
<1>3. ASSUME NEW k \in Jobs, control' = [control EXCEPT ![k].retired = TRUE]
      PROVE  Disciplined(j)
  BY <1>a, <1>3 DEF Live, Control
<1>4. CASE OwnerStep
  <2>1. ASSUME NEW k \in Jobs, NEW s \in Sessions,
               Acquire(k, s) \/ Takeover(k, s)
        PROVE  Disciplined(j)
    <3>1. ~Live(k) /\ Grant(k, s)
      BY <2>1 DEF Acquire, Takeover
    <3>2. control[k].generation + 1 \in 0 .. MaxGeneration
      BY <1>a, <3>1, ControlAssumption DEF Grant, Control
    <3>3. Bumped(k, s) \in Control
          /\ Bumped(k, s).generation = control[k].generation + 1
      BY <3>2 DEF Bumped, Control, Fresh
    <3> QED
      BY <1>2, <3>1, <3>3 DEF Grant
  <2>2. ASSUME NEW k \in Jobs, NEW s \in Sessions, SettleTakeover(k, s)
        PROVE  Disciplined(j)
    <3> DEFINE row == [Bumped(k, s) EXCEPT !.retired = TRUE]
    <3>1. control[k].generation + 1 \in 0 .. MaxGeneration
      BY <1>a, <2>2, ControlAssumption DEF SettleTakeover, Control
    <3>2. row \in Control /\ row.generation = control[k].generation + 1
      BY <3>1 DEF Bumped, Control, Fresh
    <3>3. ~Live(k) /\ control' = [control EXCEPT ![k] = row]
      BY <2>2 DEF SettleTakeover
    <3> HIDE DEF row
    <3> QED
      BY <1>2, <3>2, <3>3
  <2>3. ASSUME NEW t \in tokens, RenewLease(t) PROVE Disciplined(j)
    BY <1>a, <2>3 DEF RenewLease, Owns, Live, Control, Fresh, Expired
  <2>4. ASSUME NEW t \in tokens,
               RetireOwnership(t) \/ SettleTooLate(t) \/ Yield(t)
        PROVE  Disciplined(j)
    BY <1>a, <1>3, <2>4 DEF RetireOwnership, SettleTooLate, Yield
  <2>5. ASSUME NEW t \in tokens, NEW result \in Terminal, SettleOwned(t, result)
        PROVE  Disciplined(j)
    BY <1>a, <1>3, <2>5 DEF SettleOwned
  <2>6. ASSUME NEW t \in tokens, NEW st \in {"GENERATING", "UPLOADING"},
               \/ BeginProcessing(t) \/ ShowQueued(t) \/ Transition(t, st)
               \/ CountFailure(t)
        PROVE  Disciplined(j)
    BY <1>1, <2>6 DEF BeginProcessing, ShowQueued, Transition, CountFailure, ownerVars
  <2>7. ASSUME NEW s \in Sessions, RetireSession(s) PROVE Disciplined(j)
    BY <1>a, <2>7 DEF RetireSession, Live, Control
  <2> QED
    BY <1>4, <2>1, <2>2, <2>3, <2>4, <2>5, <2>6, <2>7 DEF OwnerStep
<1>5. CASE AttemptStep
  BY <1>1, <1>5 DEF AttemptStep, PrepareAttempt, BindAttempt, SubmitIntent,
                    MarkUnknown, PromptAccepted, PromptRejected, AnswerLost, ownerVars
<1>6. CASE ApiStep
  BY <1>1, <1>6 DEF ApiStep, CreateJob, EnqueueFinished, EnqueueFailed, UserCancel,
                    CancelJobAndRefund, ownerVars
<1>7. ASSUME NEW k \in Jobs, LeaseAges(k) PROVE Disciplined(j)
  BY <1>a, <1>7 DEF LeaseAges, Live, Control, Fresh, Short, Expired
<1> HIDE DEF Disciplined
<1> QED
  BY <1>4, <1>5, <1>6, <1>7 DEF Next

\* Ownership changes hands by the generation alone: no step gives a live job
\* away, and none brings a dead lease back under the same generation.
THEOREM LeaseIsFenced == Spec => LeaseDiscipline
<1>1. TypeOK /\ [Next]_vars =>
        [\A j \in Jobs :
            IF control'[j].generation = control[j].generation
              THEN Live(j)' => Live(j)
              ELSE /\ ~Live(j)
                   /\ control'[j].generation = control[j].generation + 1]_vars
  BY LeaseStep DEF Disciplined
<1> QED
  BY <1>1, TypeCorrect, PTL DEF Spec, LeaseDiscipline

-----------------------------------------------------------------------------
(* One process per generation *)

\* Only a step that grants ownership issues a token.
LEMMA TokensComeFromGrants ==
  ASSUME Next, ~UNCHANGED tokens
  PROVE  \E j \in Jobs, s \in Sessions : Acquire(j, s) \/ Takeover(j, s)
BY DEF Next, OwnerStep, AttemptStep, ApiStep,
   SettleTakeover, RenewLease, RetireOwnership,
   BeginProcessing, ShowQueued, Transition, CountFailure, SettleOwned,
   SettleTooLate, Yield, RetireSession, PrepareAttempt, BindAttempt,
   SubmitIntent, MarkUnknown, PromptAccepted, PromptRejected, AnswerLost,
   CreateJob, EnqueueFinished, EnqueueFailed, UserCancel,
   CancelJobAndRefund, LeaseAges, ownerVars

\* Two tokens of one job and one generation belong to the same process, and no
\* token is ahead of the control row that fences it.
THEOREM OwnerIsUnique == Spec => []OneOwnerPerGeneration
<1>1. Init => OneOwnerPerGeneration
  BY DEF Init, OneOwnerPerGeneration
<1>2. TypeOK /\ OneOwnerPerGeneration /\ [Next]_vars => OneOwnerPerGeneration'
  <2> SUFFICES ASSUME TypeOK, OneOwnerPerGeneration, [Next]_vars
               PROVE  OneOwnerPerGeneration'
    OBVIOUS
  <2>a. control \in [Jobs -> Control] /\ tokens \subseteq Token
    BY DEF TypeOK
  <2>1. ASSUME UNCHANGED tokens,
               \A k \in Jobs : control'[k].generation \in Nat
                               /\ control'[k].generation >= control[k].generation
        PROVE  OneOwnerPerGeneration'
    BY <2>a, <2>1, ControlAssumption DEF OneOwnerPerGeneration, Token, Control
  <2>2. ASSUME NEW j \in Jobs, NEW s \in Sessions, Grant(j, s)
        PROVE  OneOwnerPerGeneration'
    <3> DEFINE new == [job |-> j, session |-> s,
                       generation |-> control[j].generation + 1]
    <3>1. /\ control'[j].generation = control[j].generation + 1
          /\ \A k \in Jobs \ {j} : control'[k] = control[k]
          /\ tokens' = tokens \cup {new}
          /\ control[j].generation \in Nat
      BY <2>a, <2>2, ControlAssumption DEF Grant, Bumped, Control
    <3>2. \A t \in tokens : t.job = j => t.generation < new.generation
      BY <2>a, <3>1, ControlAssumption DEF OneOwnerPerGeneration, Token
    <3>3. \A t \in tokens' : t.generation <= control'[t.job].generation
      BY <2>a, <3>1, <3>2, ControlAssumption DEF OneOwnerPerGeneration, Token
    <3>4. \A t, u \in tokens' :
             t.job = u.job /\ t.generation = u.generation => t.session = u.session
      BY <2>a, <3>1, <3>2, ControlAssumption DEF OneOwnerPerGeneration, Token
    <3> QED
      BY <3>3, <3>4 DEF OneOwnerPerGeneration
  <2>3. CASE Next /\ UNCHANGED tokens
    <3>1. \A k \in Jobs : \/ control'[k].generation = control[k].generation
                          \/ control'[k].generation = control[k].generation + 1
      BY <2>3, LeaseStep DEF Disciplined
    <3> QED
      BY <2>1, <2>3, <2>a, <3>1, ControlAssumption DEF Control
  <2>4. CASE Next /\ ~UNCHANGED tokens
    <3>1. \E j \in Jobs, s \in Sessions : Grant(j, s)
      BY <2>4, TokensComeFromGrants DEF Acquire, Takeover
    <3> QED
      BY <2>2, <3>1
  <2>5. CASE UNCHANGED vars
    BY <2>5 DEF vars, ownerVars, OneOwnerPerGeneration
  <2> QED
    BY <2>3, <2>4, <2>5
<1> QED
  BY <1>1, <1>2, TypeCorrect, PTL DEF Spec

-----------------------------------------------------------------------------
(* One POST per intent *)

\* A step that sends nothing new and takes no attempt back to PREPARING
\* preserves the history of the intents.
LEMMA HistoryStep ==
  ASSUME TypeOK, IntentHistory,
         UNCHANGED sent, awaiting' \subseteq awaiting,
         \A j \in Jobs, a \in AttemptIds :
            exec'[j][a].state \in {"ABSENT", "PREPARING"} =>
               exec[j][a].state \in {"ABSENT", "PREPARING"}
  PROVE  IntentHistory'
BY DEF IntentHistory

\* Every step, and every step that leaves the rows alone, keeps that history.
LEMMA HistoryKept == TypeOK /\ IntentHistory /\ [Next]_vars => IntentHistory'
<1> SUFFICES ASSUME TypeOK, IntentHistory, [Next]_vars PROVE IntentHistory'
  OBVIOUS
<1>a. /\ exec \in [Jobs -> [AttemptIds -> Attempt]]
      /\ sent \in [Jobs -> [AttemptIds -> Nat]]
      /\ \A t \in tokens : t.job \in Jobs
  BY DEF TypeOK, Token
<1>b. ASSUME NEW j \in Jobs, NEW a \in AttemptIds,
             NEW st \in AttemptState \ {"ABSENT", "PREPARING"},
             exec' = [exec EXCEPT ![j][a].state = st] \/ exec' = exec
      PROVE  \A k \in Jobs, b \in AttemptIds :
                exec'[k][b].state \in {"ABSENT", "PREPARING"} =>
                   exec[k][b].state \in {"ABSENT", "PREPARING"}
  <2>1. CASE exec' = exec
    BY <2>1
  <2>2. CASE exec' = [exec EXCEPT ![j][a].state = st]
    <3>1. exec'[j][a].state = st
      BY <1>a, <2>2 DEF Attempt
    <3>2. \A k \in Jobs, b \in AttemptIds : k # j \/ b # a => exec'[k][b] = exec[k][b]
      BY <1>a, <2>2
    <3> QED
      BY <3>1, <3>2
  <2> QED
    BY <1>b, <2>1, <2>2
<1>c. ASSUME NEW j \in Jobs, NEW result \in Terminal, exec' = Outcome(j, result)
      PROVE  \A k \in Jobs, b \in AttemptIds :
                exec'[k][b].state \in {"ABSENT", "PREPARING"} =>
                   exec[k][b].state \in {"ABSENT", "PREPARING"}
  <2>1. CASE active[j] \in AttemptIds
    BY <1>b, <1>c, <2>1 DEF Outcome, AttemptState
  <2>2. CASE active[j] = 0
    BY <1>c, <2>2 DEF Outcome
  <2> QED
    BY <2>1, <2>2, ControlAssumption DEF TypeOK, AttemptIds
<1>1. CASE OwnerStep
  <2>1. UNCHANGED <<sent, awaiting>>
    BY <1>1 DEF OwnerStep, Acquire, Takeover, SettleTakeover, RenewLease,
       RetireOwnership, BeginProcessing, ShowQueued, Transition, CountFailure,
       SettleOwned, SettleTooLate, Yield, RetireSession, SettleRows, attemptVars
  <2>2. exec' = exec \/ \E j \in Jobs, result \in Terminal : exec' = Outcome(j, result)
    BY <1>a, <1>1 DEF OwnerStep, Acquire, Takeover, SettleTakeover, RenewLease,
       RetireOwnership, BeginProcessing, ShowQueued, Transition, CountFailure,
       SettleOwned, SettleTooLate, Yield, RetireSession, SettleRows, attemptVars,
       Terminal
  <2> QED
    BY <1>c, <2>1, <2>2, HistoryStep
<1>2. ASSUME NEW t \in tokens, NEW ph \in Phases, PrepareAttempt(t, ph)
      PROVE  IntentHistory'
  <2>1. PICK a \in Preparable(t.job, ph) :
           exec' = [exec EXCEPT ![t.job][a] =
                      [state |-> "PREPARING", phase |-> ph, bound |-> FALSE]]
    BY <1>2 DEF PrepareAttempt
  <2>2. a \in AttemptIds /\ exec[t.job][a].state \in {"ABSENT", "PREPARING"}
    BY DEF Preparable, Idle, NextAttempt
  <2>3. \A k \in Jobs, b \in AttemptIds :
           exec'[k][b].state \in {"ABSENT", "PREPARING"} =>
              exec[k][b].state \in {"ABSENT", "PREPARING"}
    BY <1>a, <2>1, <2>2 DEF Attempt
  <2> QED
    BY <1>2, <2>3, HistoryStep DEF PrepareAttempt
<1>3. ASSUME NEW t \in tokens, NEW a \in AttemptIds, BindAttempt(t, a)
      PROVE  IntentHistory'
  <2>1. \A k \in Jobs, b \in AttemptIds : exec'[k][b].state = exec[k][b].state
    BY <1>a, <1>3 DEF BindAttempt, Attempt
  <2> QED
    BY <1>3, <2>1, HistoryStep DEF BindAttempt
<1>4. ASSUME NEW t \in tokens, NEW a \in AttemptIds, SubmitIntent(t, a)
      PROVE  IntentHistory'
  <2>1. /\ exec' = [exec EXCEPT ![t.job][a].state = "SUBMITTING"]
        /\ sent' = [sent EXCEPT ![t.job][a] = @ + 1]
        /\ awaiting' = awaiting \cup {<<t.job, a>>}
        /\ sent[t.job][a] = 0
    BY <1>a, <1>4 DEF SubmitIntent, IntentHistory
  <2>2. exec'[t.job][a].state = "SUBMITTING" /\ sent'[t.job][a] = 1
    BY <1>a, <2>1 DEF Attempt
  <2>3. \A k \in Jobs, b \in AttemptIds :
           k # t.job \/ b # a =>
              /\ exec'[k][b] = exec[k][b]
              /\ sent'[k][b] = sent[k][b]
              /\ <<k, b>> \in awaiting' => <<k, b>> \in awaiting
    BY <1>a, <2>1
  <2>4. \A k \in Jobs, b \in AttemptIds :
           /\ sent'[k][b] <= 1
           /\ exec'[k][b].state \in {"ABSENT", "PREPARING"} =>
                 sent'[k][b] = 0 /\ <<k, b>> \notin awaiting'
    <3> SUFFICES ASSUME NEW k \in Jobs, NEW b \in AttemptIds
                 PROVE  /\ sent'[k][b] <= 1
                        /\ exec'[k][b].state \in {"ABSENT", "PREPARING"} =>
                              sent'[k][b] = 0 /\ <<k, b>> \notin awaiting'
      OBVIOUS
    <3>1. CASE k = t.job /\ b = a
      BY <2>2, <3>1
    <3>2. CASE k # t.job \/ b # a
      BY <2>3, <3>2 DEF IntentHistory
    <3> QED
      BY <3>1, <3>2
  <2> QED
    BY <2>4 DEF IntentHistory
<1>5. ASSUME NEW t \in tokens, NEW a \in AttemptIds, MarkUnknown(t, a)
      PROVE  IntentHistory'
  BY <1>a, <1>b, <1>5, HistoryStep DEF MarkUnknown, AttemptState
<1>6. ASSUME NEW j \in Jobs, NEW a \in AttemptIds,
             PromptAccepted(j, a) \/ PromptRejected(j, a) \/ AnswerLost(j, a)
      PROVE  IntentHistory'
  <2>1. UNCHANGED sent /\ awaiting' \subseteq awaiting
    BY <1>6 DEF PromptAccepted, PromptRejected, AnswerLost, Answered
  <2>2. \E st \in {"ACCEPTED", "FAILED"} :
           exec' = [exec EXCEPT ![j][a].state = st] \/ exec' = exec
    BY <1>6 DEF PromptAccepted, PromptRejected, AnswerLost
  <2> QED
    BY <1>b, <2>1, <2>2, HistoryStep DEF AttemptState
<1>7. CASE ApiStep
  BY <1>7, HistoryStep DEF ApiStep, CreateJob, EnqueueFinished, EnqueueFailed,
     UserCancel, CancelJobAndRefund, attemptVars
<1>8. ASSUME NEW j \in Jobs, LeaseAges(j) PROVE IntentHistory'
  BY <1>8, HistoryStep DEF LeaseAges, attemptVars
<1>9. CASE UNCHANGED vars
  BY <1>9, HistoryStep DEF vars, attemptVars
<1> QED
  BY <1>1, <1>2, <1>3, <1>4, <1>5, <1>6, <1>7, <1>8, <1>9 DEF Next, AttemptStep

\* The prompt of an attempt is sent at most once, by whichever owner and however
\* late the receipt, the rejection or the adopter's verdict arrive.
THEOREM IntentIsSentOnce == Spec => []IntentSentOnce
<1>1. Init => IntentHistory
  BY DEF Init, IntentHistory, NoAttempt
<1>2. TypeOK /\ IntentHistory /\ [Next]_vars => IntentHistory'
  BY HistoryKept
<1>3. IntentHistory => IntentSentOnce
  BY DEF IntentHistory, IntentSentOnce
<1> QED
  BY <1>1, <1>2, <1>3, TypeCorrect, PTL DEF Spec

-----------------------------------------------------------------------------
(* One idle attempt per phase *)

\* A step that adds no idle attempt keeps it to one.
LEMMA NoIdleAdded ==
  ASSUME OneIdleAttempt,
         \A k \in Jobs, p \in Phases : Idle(k, p)' \subseteq Idle(k, p)
  PROVE  OneIdleAttempt'
BY DEF OneIdleAttempt

\* An owner is given back the idle attempt its phase has, or the phase had none;
\* every other step only takes attempts out of the idle set.
LEMMA OneIdleKept == TypeOK /\ OneIdleAttempt /\ [Next]_vars => OneIdleAttempt'
<1> SUFFICES ASSUME TypeOK, OneIdleAttempt, [Next]_vars PROVE OneIdleAttempt'
  OBVIOUS
<1>a. /\ exec \in [Jobs -> [AttemptIds -> Attempt]]
      /\ \A t \in tokens : t.job \in Jobs
  BY DEF TypeOK, Token
<1>b. ASSUME UNCHANGED exec PROVE OneIdleAttempt'
  BY <1>b, NoIdleAdded DEF Idle
<1>c. ASSUME NEW j \in Jobs, NEW a \in AttemptIds,
             NEW st \in AttemptState \ {"PREPARING"},
             exec' = [exec EXCEPT ![j][a].state = st]
      PROVE  OneIdleAttempt'
  <2>1. exec'[j][a].state = st
    BY <1>a, <1>c DEF Attempt
  <2>2. \A k \in Jobs, b \in AttemptIds : k # j \/ b # a => exec'[k][b] = exec[k][b]
    BY <1>a, <1>c
  <2>3. \A k \in Jobs, b \in AttemptIds :
           exec'[k][b].state = "PREPARING" => exec'[k][b] = exec[k][b]
    BY <2>1, <2>2
  <2>4. \A k \in Jobs, p \in Phases : Idle(k, p)' \subseteq Idle(k, p)
    BY <2>3 DEF Idle
  <2> QED
    BY <2>4, NoIdleAdded
<1>d. ASSUME NEW j \in Jobs, NEW result \in Terminal, exec' = Outcome(j, result)
      PROVE  OneIdleAttempt'
  <2> DEFINE st == IF result = "COMPLETED" THEN "SUCCEEDED" ELSE "FAILED"
  <2>1. CASE exec' = exec
    BY <1>b, <2>1
  <2>2. CASE exec' # exec
    <3>1. active[j] # 0 /\ exec' = [exec EXCEPT ![j][active[j]].state = st]
      BY <1>d, <2>2 DEF Outcome
    <3>2. active[j] \in AttemptIds
      BY <3>1, ControlAssumption DEF TypeOK, AttemptIds
    <3>3. st \in AttemptState \ {"PREPARING"}
      BY DEF AttemptState
    <3> HIDE DEF st
    <3> QED
      BY <1>c, <3>1, <3>2, <3>3
  <2> QED
    BY <2>1, <2>2
<1>1. CASE OwnerStep
  <2>1. exec' = exec \/ \E j \in Jobs, result \in Terminal : exec' = Outcome(j, result)
    BY <1>a, <1>1 DEF OwnerStep, Acquire, Takeover, SettleTakeover, RenewLease,
       RetireOwnership, BeginProcessing, ShowQueued, Transition, CountFailure,
       SettleOwned, SettleTooLate, Yield, RetireSession, SettleRows, attemptVars,
       Terminal
  <2> QED
    BY <1>b, <1>d, <2>1
<1>2. ASSUME NEW t \in tokens, NEW ph \in Phases, PrepareAttempt(t, ph)
      PROVE  OneIdleAttempt'
  <2> DEFINE j == t.job
             row == [state |-> "PREPARING", phase |-> ph, bound |-> FALSE]
  <2>1. PICK a \in Preparable(j, ph) : exec' = [exec EXCEPT ![j][a] = row]
    BY <1>2 DEF PrepareAttempt
  <2>2. j \in Jobs /\ a \in AttemptIds
    BY <1>a DEF Preparable, Idle, NextAttempt
  <2>3. /\ exec'[j][a] = row
        /\ \A k \in Jobs, b \in AttemptIds :
              k # j \/ b # a => exec'[k][b] = exec[k][b]
    BY <1>a, <2>1, <2>2
  <2>4. \A k \in Jobs, p \in Phases :
           k # j \/ p # ph => Idle(k, p)' \subseteq Idle(k, p)
    <3> SUFFICES ASSUME NEW k \in Jobs, NEW p \in Phases, k # j \/ p # ph,
                        NEW b \in Idle(k, p)'
                 PROVE  b \in Idle(k, p)
      OBVIOUS
    <3>1. b \in AttemptIds /\ exec'[k][b].phase = p
      BY DEF Idle
    <3>2. k # j \/ b # a
      BY <2>3, <3>1
    <3> QED
      BY <2>3, <3>1, <3>2 DEF Idle
  <2>5. \A b \in Idle(j, ph)' : b = a
    <3> SUFFICES ASSUME NEW b \in Idle(j, ph)', b # a PROVE FALSE
      OBVIOUS
    <3>1. b \in AttemptIds /\ exec'[j][b] = exec[j][b]
      BY <2>2, <2>3 DEF Idle
    <3>2. b \in Idle(j, ph)
      BY <3>1 DEF Idle
    <3>3. a \in Idle(j, ph)
      BY <2>1, <3>2 DEF Preparable
    <3> QED
      BY <2>2, <3>2, <3>3 DEF OneIdleAttempt
  <2>6. \A k \in Jobs, p \in Phases : \A b, c \in Idle(k, p)' : b = c
    <3> SUFFICES ASSUME NEW k \in Jobs, NEW p \in Phases,
                        NEW b \in Idle(k, p)', NEW c \in Idle(k, p)'
                 PROVE  b = c
      OBVIOUS
    <3>1. CASE k = j /\ p = ph
      BY <2>5, <3>1
    <3>2. CASE k # j \/ p # ph
      BY <2>4, <3>2 DEF OneIdleAttempt
    <3> QED
      BY <3>1, <3>2
  <2> QED
    BY <2>6 DEF OneIdleAttempt
<1>3. ASSUME NEW t \in tokens, NEW a \in AttemptIds, BindAttempt(t, a)
      PROVE  OneIdleAttempt'
  <2>1. /\ t.job \in Jobs
        /\ exec' = [exec EXCEPT ![t.job][a].bound = TRUE]
    BY <1>a, <1>3 DEF BindAttempt
  <2>2. /\ exec'[t.job][a].bound
        /\ \A k \in Jobs, b \in AttemptIds :
              k # t.job \/ b # a => exec'[k][b] = exec[k][b]
    BY <1>a, <2>1 DEF Attempt
  <2>3. \A k \in Jobs, p \in Phases : Idle(k, p)' \subseteq Idle(k, p)
    BY <2>2 DEF Idle
  <2> QED
    BY <2>3, NoIdleAdded
<1>4. ASSUME NEW t \in tokens, NEW a \in AttemptIds,
             SubmitIntent(t, a) \/ MarkUnknown(t, a)
      PROVE  OneIdleAttempt'
  <2>1. PICK st \in {"SUBMITTING", "UNKNOWN_RETRIED"} :
           exec' = [exec EXCEPT ![t.job][a].state = st]
    BY <1>4 DEF SubmitIntent, MarkUnknown
  <2>2. t.job \in Jobs /\ st \in AttemptState \ {"PREPARING"}
    BY <1>a DEF AttemptState
  <2> QED
    BY <1>c, <2>1, <2>2
<1>5. ASSUME NEW j \in Jobs, NEW a \in AttemptIds,
             PromptAccepted(j, a) \/ PromptRejected(j, a) \/ AnswerLost(j, a)
      PROVE  OneIdleAttempt'
  BY <1>b, <1>c, <1>5 DEF PromptAccepted, PromptRejected, AnswerLost, AttemptState
<1>6. CASE ApiStep
  BY <1>b, <1>6 DEF ApiStep, CreateJob, EnqueueFinished, EnqueueFailed,
     UserCancel, CancelJobAndRefund, attemptVars
<1>7. ASSUME NEW j \in Jobs, LeaseAges(j) PROVE OneIdleAttempt'
  BY <1>b, <1>7 DEF LeaseAges, attemptVars
<1>8. CASE UNCHANGED vars
  BY <1>b, <1>8 DEF vars, attemptVars
<1> QED
  BY <1>1, <1>2, <1>3, <1>4, <1>5, <1>6, <1>7, <1>8 DEF Next, AttemptStep

\* However often a job is retried for want of a worker, and by however many
\* owners, each of its phases has at most one attempt that reached no worker.
THEOREM IdleAttemptIsOne == Spec => []OneIdleAttempt
<1>1. Init => OneIdleAttempt
  BY DEF Init, OneIdleAttempt, Idle, NoAttempt
<1>2. TypeOK /\ OneIdleAttempt /\ [Next]_vars => OneIdleAttempt'
  BY OneIdleKept
<1> QED
  BY <1>1, <1>2, TypeCorrect, PTL DEF Spec

-----------------------------------------------------------------------------
(* The contract *)

\* What a transaction that settles or cancels a job does to the contract.
Settles(j) ==
  /\ ~IsTerminal(j) /\ status[j] # "NEW"
  /\ \/ /\ SetStatus(j, "COMPLETED")
        /\ credited' = credited
     \/ /\ \E st \in {"FAILED", "CANCELLED"} : SetStatus(j, st)
        /\ credited' = [credited EXCEPT ![j] = @ + Charge[j]]

\* The refund of a job that has not ended pays its whole charge: no earlier
\* refund row stands in the way, and a skipped refund is one of nothing.
LEMMA RefundIsWhole ==
  ASSUME TypeOK, SettledInv, NEW j \in Jobs, ~IsTerminal(j),
         NEW reason \in Reason, NEW paid \in BOOLEAN, PayBack(j, reason, paid),
         paid => refunds[j] # {} \/ Charge[j] = 0
  PROVE  credited' = [credited EXCEPT ![j] = @ + Charge[j]]
<1>1. refunds[j] = {}
  BY DEF SettledInv, RefundsAreEarned, IsTerminal, Terminal
<1>2. CASE paid
  <2>1. Charge[j] = 0 /\ credited' = credited
    BY <1>1, <1>2 DEF PayBack
  <2>2. credited \in [Jobs -> Nat]
    BY DEF TypeOK
  <2> QED
    BY <2>1, <2>2
<1>3. CASE ~paid
  BY <1>3 DEF PayBack
<1> QED
  BY <1>2, <1>3

\* A job that has been inserted stays inserted.
LEMMA NeverNewAgain ==
  ASSUME TypeOK, Next, NEW j \in Jobs, status[j] # "NEW"
  PROVE  status'[j] # "NEW"
<1> USE DEF SetStatus
<1>a. status \in [Jobs -> Status]
  BY DEF TypeOK
<1>1. CASE OwnerStep
  BY <1>a, <1>1 DEF OwnerStep, Acquire, Takeover, SettleTakeover, RenewLease,
     RetireOwnership, BeginProcessing, ShowQueued, Transition, CountFailure,
     SettleOwned, SettleTooLate, Yield, RetireSession, SettleRows, Terminal
<1>2. CASE AttemptStep \/ \E k \in Jobs : LeaseAges(k)
  BY <1>2 DEF AttemptStep, PrepareAttempt, BindAttempt, SubmitIntent, MarkUnknown,
              PromptAccepted, PromptRejected, AnswerLost, LeaseAges
<1>3. CASE ApiStep
  BY <1>a, <1>3 DEF ApiStep, CreateJob, EnqueueFinished, EnqueueFailed, UserCancel,
                    CancelJobAndRefund
<1> QED
  BY <1>1, <1>2, <1>3 DEF Next

\* No dispatcher process ever owns a job the API has not inserted.
LEMMA OwnedJobsExist == Spec => []TokensNameJobs
<1>1. Init => TokensNameJobs
  BY DEF Init, TokensNameJobs
<1>2. TypeOK /\ TokensNameJobs /\ [Next]_vars => TokensNameJobs'
  <2> SUFFICES ASSUME TypeOK, TokensNameJobs, [Next]_vars PROVE TokensNameJobs'
    OBVIOUS
  <2>a. \A t \in tokens : t.job \in Jobs
    BY DEF TypeOK, Token
  <2>1. CASE Next /\ UNCHANGED tokens
    BY <2>a, <2>1, NeverNewAgain DEF TokensNameJobs
  <2>2. CASE Next /\ ~UNCHANGED tokens
    <3>1. PICK j \in Jobs, s \in Sessions : Acquire(j, s) \/ Takeover(j, s)
      BY <2>2, TokensComeFromGrants
    <3>2. status[j] # "NEW" /\ Grant(j, s)
      BY <3>1 DEF Acquire, Takeover, InFlight
    <3>3. \A t \in tokens' : t.job \in Jobs /\ status[t.job] # "NEW"
      BY <2>a, <3>2 DEF Grant, TokensNameJobs
    <3> QED
      BY <2>2, <3>3, NeverNewAgain DEF TokensNameJobs
  <2>3. CASE UNCHANGED vars
    BY <2>3 DEF vars, ownerVars, TokensNameJobs
  <2> QED
    BY <2>1, <2>2, <2>3
<1> QED
  BY <1>1, <1>2, TypeCorrect, PTL DEF Spec

\* Every transaction opens a job, settles one, or is invisible to the payer.
LEMMA ContractSteps ==
  ASSUME TypeOK, SettledInv, TokensNameJobs, Next
  PROVE  \/ \E j \in Jobs : CreateJob(j)
         \/ \E j \in Jobs : Settles(j)
         \/ /\ credited' = credited
            /\ \A j \in Jobs : PhaseOf(status'[j]) = PhaseOf(status[j])
<1> USE DEF SetStatus
<1> DEFINE Invisible == /\ credited' = credited
                        /\ \A j \in Jobs : PhaseOf(status'[j]) = PhaseOf(status[j])
<1>a. status \in [Jobs -> Status] /\ \A t \in tokens : t.job \in Jobs
  BY DEF TypeOK, Token
<1>b. ASSUME NEW j \in Jobs, NEW result \in Terminal, ~IsTerminal(j),
             status[j] # "NEW", SettleRows(j, result)
      PROVE  Settles(j)
  <2>1. CASE result = "COMPLETED"
    BY <1>b, <2>1 DEF SettleRows, Settles
  <2>2. CASE result # "COMPLETED"
    <3>1. PayBack(j, RefundReason(result), NothingDue(j)) /\ SetStatus(j, result)
      BY <1>b, <2>2 DEF SettleRows
    <3>2. /\ RefundReason(result) \in Reason /\ NothingDue(j) \in BOOLEAN
          /\ NothingDue(j) => refunds[j] # {} \/ Charge[j] = 0
          /\ result \in {"FAILED", "CANCELLED"}
      BY <2>2 DEF RefundReason, Reason, NothingDue, Terminal
    <3>3. credited' = [credited EXCEPT ![j] = @ + Charge[j]]
      BY <1>b, <3>1, <3>2, RefundIsWhole
    <3> QED
      BY <1>b, <3>1, <3>2, <3>3 DEF Settles
  <2> QED
    BY <2>1, <2>2
<1>1. CASE OwnerStep
  <2>1. ASSUME NEW j \in Jobs, NEW s \in Sessions, Acquire(j, s) \/ Takeover(j, s)
        PROVE  Invisible
    BY <2>1 DEF Acquire, Takeover, moneyVars
  <2>2. ASSUME NEW j \in Jobs, NEW s \in Sessions, SettleTakeover(j, s)
        PROVE  Settles(j)
    BY <1>b, <2>2 DEF SettleTakeover, IsTerminal, InFlight, Terminal
  <2>3. ASSUME NEW t \in tokens, \/ RenewLease(t) \/ RetireOwnership(t)
                                 \/ CountFailure(t) \/ SettleTooLate(t)
        PROVE  Invisible
    BY <2>3 DEF RenewLease, RetireOwnership, CountFailure, SettleTooLate, moneyVars
  <2>4. ASSUME NEW t \in tokens, NEW st \in {"GENERATING", "UPLOADING"},
               \/ BeginProcessing(t) \/ ShowQueued(t) \/ Transition(t, st) \/ Yield(t)
        PROVE  Invisible
    BY <1>a, <2>4 DEF TokensNameJobs, BeginProcessing, ShowQueued, Transition, Yield, moneyVars,
                      IsTerminal, Terminal, PhaseOf
  <2>5. ASSUME NEW t \in tokens, NEW result \in Terminal, SettleOwned(t, result)
        PROVE  Settles(t.job)
    BY <1>a, <1>b, <2>5 DEF SettleOwned, TokensNameJobs
  <2>6. ASSUME NEW s \in Sessions, RetireSession(s) PROVE Invisible
    BY <2>6 DEF RetireSession, moneyVars
  <2> QED
    BY <1>1, <1>a, <2>1, <2>2, <2>3, <2>4, <2>5, <2>6 DEF OwnerStep
<1>2. CASE AttemptStep \/ \E j \in Jobs : LeaseAges(j)
  <2>1. UNCHANGED <<status, moneyVars>>
    BY <1>2 DEF AttemptStep, PrepareAttempt, BindAttempt, SubmitIntent, MarkUnknown,
                PromptAccepted, PromptRejected, AnswerLost, LeaseAges
  <2> QED
    BY <2>1 DEF moneyVars
<1>3. CASE ApiStep
  <2>1. ASSUME NEW j \in Jobs, EnqueueFinished(j) PROVE Invisible
    BY <2>1 DEF EnqueueFinished, moneyVars
  <2>2. ASSUME NEW j \in Jobs, EnqueueFailed(j) PROVE Settles(j) \/ Invisible
    <3>1. CASE status[j] = "QUEUED"
      <4> DEFINE paid == "REFUND_ENQUEUE_FAIL" \in refunds[j]
      <4>1. /\ ~IsTerminal(j) /\ SetStatus(j, "FAILED")
            /\ PayBack(j, "REFUND_ENQUEUE_FAIL", paid)
        BY <2>2, <3>1 DEF EnqueueFailed, IsTerminal, Terminal
      <4>2. "REFUND_ENQUEUE_FAIL" \in Reason /\ (paid \in BOOLEAN)
            /\ (paid => refunds[j] # {} \/ Charge[j] = 0)
        BY DEF Reason
      <4> HIDE DEF paid
      <4>3. credited' = [credited EXCEPT ![j] = @ + Charge[j]]
        BY <4>1, <4>2, RefundIsWhole
      <4> QED
        BY <3>1, <4>1, <4>3 DEF Settles
    <3>2. CASE status[j] # "QUEUED"
      BY <2>2, <3>2 DEF EnqueueFailed
    <3> QED
      BY <3>1, <3>2
  <2>3. ASSUME NEW j \in Jobs, UserCancel(j) PROVE Settles(j)
    <3> DEFINE paid == "JOB_CANCEL_REFUND" \in refunds[j] \/ Charge[j] = 0
    <3>1. /\ ~IsTerminal(j) /\ status[j] # "NEW" /\ SetStatus(j, "CANCELLED")
          /\ PayBack(j, "JOB_CANCEL_REFUND", paid)
      BY <2>3 DEF UserCancel, IsTerminal, Terminal
    <3>2. "JOB_CANCEL_REFUND" \in Reason /\ (paid \in BOOLEAN)
          /\ (paid => refunds[j] # {} \/ Charge[j] = 0)
      BY DEF Reason
    <3> HIDE DEF paid
    <3>3. credited' = [credited EXCEPT ![j] = @ + Charge[j]]
      BY <3>1, <3>2, RefundIsWhole
    <3> QED
      BY <3>1, <3>3 DEF Settles
  <2>4. ASSUME NEW j \in Jobs, NEW reason \in {"REFUND_ADMIN_CANCEL", "REFUND_CANCELLED"},
               CancelJobAndRefund(j, reason) PROVE Settles(j)
    <3>1. /\ ~IsTerminal(j) /\ status[j] # "NEW" /\ SetStatus(j, "CANCELLED")
          /\ PayBack(j, reason, NothingDue(j))
      BY <2>4 DEF CancelJobAndRefund, IsTerminal, Terminal, InFlight
    <3>2. reason \in Reason /\ NothingDue(j) \in BOOLEAN
          /\ (NothingDue(j) => refunds[j] # {} \/ Charge[j] = 0)
      BY <2>4 DEF Reason, NothingDue
    <3>3. credited' = [credited EXCEPT ![j] = @ + Charge[j]]
      BY <3>1, <3>2, RefundIsWhole
    <3> QED
      BY <3>1, <3>3 DEF Settles
  <2> QED
    BY <1>3, <2>1, <2>2, <2>3, <2>4 DEF ApiStep
<1> QED
  BY <1>1, <1>2, <1>3 DEF Next

\* A job is opened once in the contract's eyes, and settled once, with the money
\* that goes with it: the transactions of JobControl implement JobContract.
THEOREM ContractIsKept == Spec => KeepsContract
<1> DEFINE phaseMap == [j \in Jobs |-> PhaseOf(status[j])]
<1>1. Init => Contract!Init
  BY DEF Init, Contract!Init, PhaseOf
<1>2. TypeOK /\ SettledInv /\ TokensNameJobs /\ [Next]_vars
        => [Contract!Next]_(Contract!vars)
  <2> SUFFICES ASSUME TypeOK, SettledInv, TokensNameJobs, [Next]_vars
               PROVE  Contract!Next \/ UNCHANGED Contract!vars
    OBVIOUS
  <2>a. status \in [Jobs -> Status]
    BY DEF TypeOK
  <2>1. ASSUME NEW j \in Jobs, CreateJob(j) PROVE Contract!Open(j)
    <3>1. phaseMap[j] = "none" /\ phaseMap' = [phaseMap EXCEPT ![j] = "open"]
      BY <2>a, <2>1 DEF CreateJob, SetStatus, PhaseOf
    <3> QED
      BY <2>1, <3>1 DEF CreateJob, moneyVars, Contract!Open
  <2>2. ASSUME NEW j \in Jobs, Settles(j)
        PROVE  Contract!Deliver(j) \/ Contract!GiveUp(j)
    <3>1. phaseMap[j] = "open"
      BY <2>a, <2>2 DEF Settles, IsTerminal, Terminal, PhaseOf
    <3>2. CASE SetStatus(j, "COMPLETED") /\ credited' = credited
      <4>1. phaseMap' = [phaseMap EXCEPT ![j] = "completed"]
        BY <2>a, <3>2 DEF SetStatus, PhaseOf
      <4> QED
        BY <3>1, <3>2, <4>1 DEF Contract!Deliver
    <3>3. CASE /\ \E st \in {"FAILED", "CANCELLED"} : SetStatus(j, st)
               /\ credited' = [credited EXCEPT ![j] = @ + Charge[j]]
      <4>1. \E outcome \in {"failed", "cancelled"} :
               phaseMap' = [phaseMap EXCEPT ![j] = outcome]
        BY <2>a, <3>3 DEF SetStatus, PhaseOf
      <4> QED
        BY <3>1, <3>3, <4>1 DEF Contract!GiveUp
    <3> QED
      BY <2>2, <3>2, <3>3 DEF Settles
  <2>3. ASSUME credited' = credited,
               \A j \in Jobs : PhaseOf(status'[j]) = PhaseOf(status[j])
        PROVE  UNCHANGED Contract!vars
    BY <2>3 DEF Contract!vars
  <2>4. CASE Next
    BY <2>1, <2>2, <2>3, <2>4, ContractSteps DEF Contract!Next
  <2>5. CASE UNCHANGED vars
    BY <2>3, <2>5 DEF vars, moneyVars
  <2> QED
    BY <2>4, <2>5
<1> QED
  BY <1>1, <1>2, TypeCorrect, SettlementCorrect, OwnedJobsExist, PTL
  DEF Spec, KeepsContract, Contract!Spec

-----------------------------------------------------------------------------
(* AdminJobs: what the admin's queue tools leave intact *)

\* A step of the running system in AdminNext is one that JobControl allows.
LEMMA ControlStepIsNext ==
  ASSUME OwnerStep \/ AttemptStep \/ \E j \in Jobs : ApiRoute(j) \/ LeaseAges(j)
  PROVE  Next
BY DEF Next, ApiStep, ApiRoute

\* The statements of retry and flush that JobControl does not know, besides those
\* that leave its rows alone.
LEMMA AdminSteps ==
  ASSUME [AdminNext]_allAdmin
  PROVE  \/ [Next]_vars
         \/ \E j \in Jobs : RetryWrites(j) \/ FlushRefunds(j)
         \/ FlushSweeps
<1>1. CASE UNCHANGED allAdmin
  BY <1>1 DEF allAdmin
<1>2. ASSUME NEW j \in Jobs, RetryReads(j) PROVE [Next]_vars
  BY <1>2 DEF RetryReads
<1>3. ASSUME NEW j \in Jobs, FlushStoreJob(j) PROVE [Next]_vars
  BY <1>3 DEF FlushStoreJob, Next, ApiStep
<1>4. ASSUME FlushSelects \/ FlushEnds PROVE [Next]_vars
  BY <1>4 DEF FlushSelects, FlushEnds
<1> QED
  BY <1>1, <1>2, <1>3, <1>4, ControlStepIsNext DEF AdminNext

-----------------------------------------------------------------------------
(* Types *)

\* The three statements keep the types of the rows.
LEMMA AdminRowTypes ==
  ASSUME TypeOK, [AdminNext]_allAdmin
  PROVE  TypeOK'
<1>1. ASSUME NEW j \in Jobs, RetryWrites(j) PROVE TypeOK'
  BY <1>1, ControlAssumption
     DEF RetryWrites, SetStatus, TypeOK, Status, ownerVars, attemptVars, moneyVars
<1>2. ASSUME NEW j \in Jobs, FlushRefunds(j) PROVE TypeOK'
  <2>1. PayBack(j, "REFUND_ADMIN_CANCEL", NothingDue(j))
        /\ "REFUND_ADMIN_CANCEL" \in Reason /\ NothingDue(j) \in BOOLEAN
    BY <1>2 DEF FlushRefunds, Reason, NothingDue
  <2>2. refunds' \in [Jobs -> SUBSET Reason] /\ credited' \in [Jobs -> Nat]
    BY <2>1, PayBackType
  <2> QED
    BY <1>2, <2>2 DEF FlushRefunds, TypeOK, ownerVars, attemptVars
<1>3. CASE FlushSweeps
  BY <1>3 DEF FlushSweeps, TypeOK, Status, Terminal, ownerVars, attemptVars, moneyVars
<1> QED
  BY <1>1, <1>2, <1>3, AdminSteps, TypeKept

\* The admin's own variables keep theirs.
LEMMA AdminVarTypes ==
  ASSUME AdminTypeOK, [AdminNext]_allAdmin
  PROVE  /\ stores' \subseteq Jobs
         /\ retrying' \in [Jobs -> 0 .. MaxRetries]
         /\ flush' \in [step: {"idle", "selected", "swept"}, jobs: SUBSET Jobs]
<1>1. CASE UNCHANGED adminVars
  BY <1>1 DEF AdminTypeOK, adminVars
<1>2. ASSUME NEW j \in Jobs, RetryReads(j) \/ RetryWrites(j)
      PROVE  /\ stores' = stores /\ flush' = flush
             /\ retrying' \in [Jobs -> 0 .. MaxRetries]
  BY <1>2, AdminAssumption DEF AdminTypeOK, RetryReads, RetryWrites
<1>3. ASSUME NEW j \in Jobs, FlushStoreJob(j) \/ FlushRefunds(j)
      PROVE  /\ stores' = stores /\ retrying' = retrying
             /\ flush' \in [step: {"idle", "selected", "swept"}, jobs: SUBSET Jobs]
  BY <1>3 DEF AdminTypeOK, FlushStoreJob, FlushRefunds
<1>4. ASSUME FlushSelects \/ FlushSweeps \/ FlushEnds
      PROVE  /\ stores' = stores /\ retrying' = retrying
             /\ flush' \in [step: {"idle", "selected", "swept"}, jobs: SUBSET Jobs]
  BY <1>4 DEF AdminTypeOK, FlushSelects, FlushSweeps, FlushEnds, NoFlush
<1> QED
  BY <1>1, <1>2, <1>3, <1>4 DEF AdminNext, AdminTypeOK, allAdmin, adminVars

\* Every reachable state is well formed, the admin's tools included.
THEOREM AdminTypeCorrect == AdminSpec => []AdminTypeOK
<1>1. AdminInit => AdminTypeOK
  <2>1. Init => TypeOK
    BY ControlAssumption
    DEF Init, TypeOK, NoControl, Control, NoAttempt, Attempt, AttemptState, Status,
        Expired, AttemptIds
  <2> QED
    BY <2>1, AdminAssumption DEF AdminInit, AdminTypeOK, NoFlush
<1>2. AdminTypeOK /\ [AdminNext]_allAdmin => AdminTypeOK'
  BY AdminRowTypes, AdminVarTypes DEF AdminTypeOK
<1> QED
  BY <1>1, <1>2, PTL DEF AdminSpec

-----------------------------------------------------------------------------
(* Refunds *)

\* A refund that is skipped when any was paid, or that is not of the guarded
\* reasons, keeps the guarded ones exclusive.
LEMMA PayBackExcludes ==
  ASSUME TypeOK, GuardedRefundsExclude,
         NEW j \in Jobs, NEW reason, NEW paid \in BOOLEAN,
         PayBack(j, reason, paid),
         reason \in Guarded => paid \/ refunds[j] = {}
  PROVE  GuardedRefundsExclude'
<1>1. CASE paid
  BY <1>1 DEF PayBack, GuardedRefundsExclude
<1>2. CASE ~paid
  <2>1. refunds' = [refunds EXCEPT ![j] = @ \cup {reason}]
    BY <1>2 DEF PayBack
  <2>2. \A k \in Jobs : k # j => refunds'[k] = refunds[k]
    BY <2>1 DEF TypeOK
  <2>3. refunds'[j] = refunds[j] \cup {reason}
    BY <2>1 DEF TypeOK
  <2> QED
    BY <1>2, <2>2, <2>3 DEF GuardedRefundsExclude
<1> QED
  BY <1>1, <1>2

\* A settlement pays the failure reason only for a job that nothing was paid for.
LEMMA SettleExcludes ==
  ASSUME TypeOK, GuardedRefundsExclude,
         NEW j \in Jobs, NEW result \in Terminal, SettleRows(j, result)
  PROVE  GuardedRefundsExclude'
<1>1. CASE result = "COMPLETED"
  BY <1>1 DEF SettleRows, GuardedRefundsExclude
<1>2. CASE result # "COMPLETED"
  <2>1. PayBack(j, RefundReason(result), NothingDue(j))
    BY <1>2 DEF SettleRows
  <2>2. NothingDue(j) \in BOOLEAN /\ (~NothingDue(j) => refunds[j] = {})
    BY DEF NothingDue
  <2> QED
    BY <2>1, <2>2, PayBackExcludes
<1> QED
  BY <1>1, <1>2

\* The routes: an enqueue failure and a user's cancel pay reasons of their own,
\* the other cancels look at all reasons first.
LEMMA ApiExcludes ==
  ASSUME TypeOK, GuardedRefundsExclude, ApiStep
  PROVE  GuardedRefundsExclude'
<1>1. CASE UNCHANGED refunds
  BY <1>1 DEF GuardedRefundsExclude
<1>2. ASSUME NEW j \in Jobs, EnqueueFailed(j) PROVE GuardedRefundsExclude'
  <2>1. CASE status[j] = "QUEUED"
    <3>1. PayBack(j, "REFUND_ENQUEUE_FAIL", "REFUND_ENQUEUE_FAIL" \in refunds[j])
      BY <1>2, <2>1 DEF EnqueueFailed
    <3>2. "REFUND_ENQUEUE_FAIL" \notin Guarded
      BY DEF Guarded
    <3>3. ("REFUND_ENQUEUE_FAIL" \in refunds[j]) \in BOOLEAN
      OBVIOUS
    <3> QED
      BY <3>1, <3>2, <3>3, PayBackExcludes
  <2>2. CASE status[j] # "QUEUED"
    BY <1>1, <1>2, <2>2 DEF EnqueueFailed
  <2> QED
    BY <2>1, <2>2
<1>3. ASSUME NEW j \in Jobs, UserCancel(j) PROVE GuardedRefundsExclude'
  <2>1. PayBack(j, "JOB_CANCEL_REFUND", "JOB_CANCEL_REFUND" \in refunds[j] \/ Charge[j] = 0)
    BY <1>3 DEF UserCancel
  <2>2. "JOB_CANCEL_REFUND" \notin Guarded
    BY DEF Guarded
  <2>3. ("JOB_CANCEL_REFUND" \in refunds[j] \/ Charge[j] = 0) \in BOOLEAN
    OBVIOUS
  <2> QED
    BY <2>1, <2>2, <2>3, PayBackExcludes
<1>4. ASSUME NEW j \in Jobs, NEW reason, CancelJobAndRefund(j, reason)
      PROVE  GuardedRefundsExclude'
  <2>1. PayBack(j, reason, NothingDue(j))
    BY <1>4 DEF CancelJobAndRefund
  <2>2. NothingDue(j) \in BOOLEAN /\ (~NothingDue(j) => refunds[j] = {})
    BY DEF NothingDue
  <2> QED
    BY <2>1, <2>2, PayBackExcludes
<1> QED
  BY <1>1, <1>2, <1>3, <1>4 DEF ApiStep, CreateJob, EnqueueFinished, moneyVars

\* Every step of the running system.
LEMMA NextExcludes ==
  ASSUME TypeOK, GuardedRefundsExclude, [Next]_vars
  PROVE  GuardedRefundsExclude'
<1>1. CASE UNCHANGED refunds
  BY <1>1 DEF GuardedRefundsExclude
<1>2. CASE OwnerStep
  <2>1. ASSUME NEW t \in tokens, NEW result \in Terminal, SettleOwned(t, result)
        PROVE  GuardedRefundsExclude'
    <3>1. t.job \in Jobs
      BY DEF TypeOK, Token
    <3> QED
      BY <2>1, <3>1, SettleExcludes DEF SettleOwned
  <2>2. ASSUME NEW j \in Jobs, NEW s \in Sessions, SettleTakeover(j, s)
        PROVE  GuardedRefundsExclude'
    BY <2>2, SettleExcludes DEF SettleTakeover, Terminal
  <2>3. ASSUME NEW j \in Jobs, NEW s \in Sessions, Acquire(j, s) \/ Takeover(j, s)
        PROVE  UNCHANGED refunds
    BY <2>3 DEF Acquire, Takeover, moneyVars
  <2>4. ASSUME NEW t \in tokens,
               \/ RenewLease(t) \/ RetireOwnership(t) \/ BeginProcessing(t) \/ ShowQueued(t)
               \/ \E st \in {"GENERATING", "UPLOADING"} : Transition(t, st)
               \/ CountFailure(t) \/ SettleTooLate(t) \/ Yield(t)
        PROVE  UNCHANGED refunds
    BY <2>4 DEF RenewLease, RetireOwnership, BeginProcessing, ShowQueued, Transition,
       CountFailure, SettleTooLate, Yield, moneyVars
  <2>5. ASSUME NEW s \in Sessions, RetireSession(s) PROVE UNCHANGED refunds
    BY <2>5 DEF RetireSession, moneyVars
  <2> QED
    BY <1>1, <1>2, <2>1, <2>2, <2>3, <2>4, <2>5 DEF OwnerStep
<1>3. CASE AttemptStep
  BY <1>1, <1>3 DEF AttemptStep, PrepareAttempt, BindAttempt, SubmitIntent, MarkUnknown,
     PromptAccepted, PromptRejected, AnswerLost, moneyVars
<1>4. ASSUME NEW j \in Jobs, LeaseAges(j) PROVE GuardedRefundsExclude'
  BY <1>1, <1>4 DEF LeaseAges, moneyVars
<1>5. CASE UNCHANGED vars
  BY <1>1, <1>5 DEF vars, moneyVars
<1> QED
  BY <1>2, <1>3, <1>4, <1>5, ApiExcludes DEF Next

\* However often a job is retried, cancelled, failed and flushed, at most one of
\* the guarded refunds is paid for it.
THEOREM GuardedExclusive == AdminSpec => []GuardedRefundsExclude
<1>1. AdminInit => GuardedRefundsExclude
  BY DEF AdminInit, Init, GuardedRefundsExclude
<1>2. AdminTypeOK /\ GuardedRefundsExclude /\ [AdminNext]_allAdmin => GuardedRefundsExclude'
  <2> SUFFICES ASSUME AdminTypeOK, GuardedRefundsExclude, [AdminNext]_allAdmin
               PROVE  GuardedRefundsExclude'
    OBVIOUS
  <2>t. TypeOK
    BY DEF AdminTypeOK
  <2>1. CASE UNCHANGED refunds
    BY <2>1 DEF GuardedRefundsExclude
  <2>2. ASSUME NEW j \in Jobs, FlushRefunds(j) PROVE GuardedRefundsExclude'
    <3>1. PayBack(j, "REFUND_ADMIN_CANCEL", NothingDue(j))
      BY <2>2 DEF FlushRefunds
    <3>2. NothingDue(j) \in BOOLEAN /\ (~NothingDue(j) => refunds[j] = {})
      BY DEF NothingDue
    <3> QED
      BY <2>t, <3>1, <3>2, PayBackExcludes
  <2> QED
    BY <2>t, <2>1, <2>2, AdminSteps, NextExcludes DEF RetryWrites, FlushSweeps, moneyVars
<1> QED
  BY <1>1, <1>2, AdminTypeCorrect, PTL DEF AdminSpec

-----------------------------------------------------------------------------
(* Finality beside the admin's tools *)

\* Of all the statements of the admin's tools only the write of a retry changes the
\* status of a finished job.
LEMMA FinishedStep ==
  ASSUME AdminTypeOK, NEW j \in Jobs, IsTerminal(j), status'[j] # status[j],
         [AdminNext]_allAdmin
  PROVE  status'[j] = "QUEUED" /\ retrying'[j] < retrying[j]
<1>t. /\ TypeOK /\ status \in [Jobs -> Status] /\ retrying \in [Jobs -> 0 .. MaxRetries]
      /\ status[j] \in Terminal
  BY DEF AdminTypeOK, TypeOK, IsTerminal
<1>1. CASE [Next]_vars
  BY <1>t, <1>1, FinalStep DEF vars
<1>2. ASSUME NEW k \in Jobs, RetryWrites(k)
      PROVE  status'[j] = "QUEUED" /\ retrying'[j] < retrying[j]
  BY <1>t, <1>2, AdminAssumption DEF RetryWrites, SetStatus
<1>3. ASSUME NEW k \in Jobs, FlushRefunds(k) PROVE FALSE
  BY <1>3 DEF FlushRefunds
<1>4. CASE FlushSweeps
  BY <1>t, <1>4 DEF FlushSweeps, Terminal
<1> QED
  BY <1>1, <1>2, <1>3, <1>4, AdminSteps

\* A finished job is opened again only by a retry that has read FAILED: no flush,
\* settlement, cancel or compensation, however late or often, changes how it finished.
THEOREM RetryAloneReopens == AdminSpec => FinishedUntilRetried
<1>1. AdminTypeOK /\ [AdminNext]_allAdmin =>
        [\A j \in Jobs : IsTerminal(j) /\ status'[j] # status[j]
            => status'[j] = "QUEUED" /\ retrying'[j] < retrying[j]]_allAdmin
  BY FinishedStep
<1> QED
  BY <1>1, AdminTypeCorrect, PTL DEF AdminSpec, FinishedUntilRetried
=============================================================================
