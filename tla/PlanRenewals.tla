---------------------------- MODULE PlanRenewals ----------------------------
(***************************************************************************)
(* The unlimited plans of one user.  An admin grants, offers, cancels and  *)
(* revokes them; the user pays for the next cycle of the plan that counts  *)
(* as the latest; the payment is reported by /renew/verify and by the      *)
(* webhook, whichever comes first and as often as it likes; and an hourly  *)
(* tick closes the plans whose window is over.                             *)
(*                                                                         *)
(* One action is one transaction, or what a payment does between two waits *)
(* for row locks.  Reminder mails, prices and the admin's own record of    *)
(* charges are left out: they decide nothing here.                         *)
(***************************************************************************)
EXTENDS Naturals, FiniteSets

CONSTANTS
    Plans,       \* rows of unlimited_plans
    NoPlan,
    Charges,     \* rows of unlimited_plan_charges with an order
    NoCharge,
    Calls,       \* requests that are served at one time
    MaxTroubles  \* bound: statements that fail

ASSUME RenewalsAssumption ==
    NoPlan \notin Plans /\ NoCharge \notin Charges /\ MaxTroubles \in Nat

VARIABLES
    status,    \* status of a plan, "none" before the row
    window,    \* of a plan: "open" until end_at, then "over"
    newer,     \* pairs of rows, the one with the later updated_at first
    charge,    \* status of a charge, and the plan it was ordered for
    extended,  \* how often a charge has bought a cycle
    events,    \* what the payment service has sent to the webhook
    call,      \* applyUnlimitedPlanRenewalPayment in progress
    late,      \* plans the running tick has read as over
    troubles   \* statements that have failed

planVars   == <<status, window, newer>>
chargeVars == <<charge, extended>>
vars == <<planVars, chargeVars, events, call, late, troubles>>

-----------------------------------------------------------------------------
PlanStatuses   == {"none", "offered", "active", "expired", "revoked"}
ChargeStatuses == {"none", "pending", "paid", "failed"}

\* "loaded": the charge was read, "claimed": its row is locked, "locked":
\* the plan rows are too.
CallStates == {"idle", "loaded", "claimed", "locked"}

NoCall == [at |-> "idle", charge |-> NoCharge, target |-> NoPlan]

Captured(k) == <<"captured", k>> \in events

ChargeLocked(k) == \E c \in Calls :
                       call[c].charge = k /\ call[c].at \in {"claimed", "locked"}
PlanLocked(p)   == \E c \in Calls :
                       call[c].at = "locked" /\ p \in {call[c].target, charge[call[c].charge].plan}

ActivePlans  == {p \in Plans : status[p] = "active"}
OfferedPlans == {p \in Plans : status[p] = "offered"}

\* getActiveUnlimitedPlan: what lets a job be created without credits.
Serves(p) == status[p] = "active" /\ window[p] = "open"

PlanRows == {p \in Plans : status[p] # "none"}

\* Rows were written with a new updated_at, at one time.
Touched(written, order) ==
    (written \X (PlanRows \ written)) \cup {e \in order : e[1] \in written <=> e[2] \in written}

\* getLatestUnlimitedPlan: an active plan, an offer, any; the last one written.
Ranked == IF ActivePlans # {} THEN ActivePlans
          ELSE IF OfferedPlans # {} THEN OfferedPlans ELSE PlanRows

Latest(p) == p \in Ranked /\ \A q \in Ranked \ {p} : <<p, q>> \in newer

Init ==
    /\ status = [p \in Plans |-> "none"]
    /\ window = [p \in Plans |-> "over"]
    /\ newer = {}
    /\ charge = [k \in Charges |-> [status |-> "none", plan |-> NoPlan]]
    /\ extended = [k \in Charges |-> 0]
    /\ events = {}
    /\ call = [c \in Calls |-> NoCall]
    /\ late = {}
    /\ troubles = 0

-----------------------------------------------------------------------------
(* The admin *)

Elsewhere == UNCHANGED <<chargeVars, events, call, late, troubles>>

\* POST /admin/users/:id/unlimited-plan: edits the active plan or inserts
\* one, and closes the open offers without a new updated_at.
Grant(p) ==
    /\ IF ActivePlans = {} THEN status[p] = "none" ELSE p \in ActivePlans
    /\ \A q \in OfferedPlans \cup {p} : ~PlanLocked(q)
    /\ status' = [q \in Plans |-> IF q = p THEN "active"
                                  ELSE IF q \in OfferedPlans THEN "revoked"
                                  ELSE status[q]]
    /\ window' = [window EXCEPT ![p] = "open"]
    /\ newer' = Touched({p}, newer)
    /\ Elsewhere

\* Mutant: the offer is not refused while a plan serves.
OfferableAnyway == TRUE
Offerable == \A q \in Plans : ~Serves(q)

\* POST .../offer: refused while a plan serves; a plan that is over and was
\* not flipped yet is closed; an open offer is edited.
Offer(p) ==
    /\ Offerable
    /\ IF OfferedPlans = {} THEN status[p] = "none" ELSE p \in OfferedPlans
    /\ \A q \in ActivePlans \cup OfferedPlans : ~PlanLocked(q)
    /\ status' = [q \in Plans |-> IF q = p THEN "offered"
                                  ELSE IF q \in ActivePlans THEN "expired"
                                  ELSE status[q]]
    /\ newer' = Touched({p}, Touched(ActivePlans, newer))
    /\ UNCHANGED window
    /\ Elsewhere

\* POST .../offer/cancel and .../revoke.
Revoke(p) ==
    /\ p \in ActivePlans \cup OfferedPlans /\ ~PlanLocked(p)
    /\ status' = [status EXCEPT ![p] = "revoked"]
    /\ newer' = Touched({p}, newer)
    /\ UNCHANGED window
    /\ Elsewhere

-----------------------------------------------------------------------------
(* The user and the payment service *)

Orderable(p) == Latest(p) /\ status[p] # "revoked"

\* POST /v1/unlimited-plan/renew/order.
Order(k) ==
    /\ charge[k].status = "none"
    /\ \E p \in Plans :
          /\ Orderable(p)
          /\ charge' = [charge EXCEPT ![k] = [status |-> "pending", plan |-> p]]
    /\ UNCHANGED <<planVars, extended, events, call, late, troubles>>

Refused(k) ==
    /\ charge[k].status # "none" /\ ~Captured(k)
    /\ events' = events \cup {<<"failed", k>>}
    /\ UNCHANGED <<planVars, chargeVars, call, late, troubles>>

Capture(k) ==
    /\ charge[k].status # "none"
    /\ events' = events \cup {<<"captured", k>>}
    /\ UNCHANGED <<planVars, chargeVars, call, late, troubles>>

\* payment.failed: markUnlimitedPlanChargeFailed.
Fail(k) ==
    /\ <<"failed", k>> \in events /\ charge[k].status = "pending" /\ ~ChargeLocked(k)
    /\ charge' = [charge EXCEPT ![k].status = "failed"]
    /\ UNCHANGED <<planVars, extended, events, call, late, troubles>>

\* The window ends by itself.
Elapse(p) ==
    /\ Serves(p)
    /\ window' = [window EXCEPT ![p] = "over"]
    /\ UNCHANGED <<status, newer, chargeVars, events, call, late, troubles>>

-----------------------------------------------------------------------------
(* applyUnlimitedPlanRenewalPayment *)

\* The charge is read; one that is paid already is answered at once.
Load(c, k) ==
    /\ call[c].at = "idle" /\ Captured(k) /\ charge[k].status # "paid"
    /\ call' = [call EXCEPT ![c] = [at |-> "loaded", charge |-> k, target |-> NoPlan]]
    /\ UNCHANGED <<planVars, chargeVars, events, late, troubles>>

\* Mutant: the UPDATE has no condition on the status.
ClaimsAny(k) == TRUE
\* UPDATE ... WHERE status = 'pending'.
Claims(k) == charge[k].status = "pending"

Claim(c) ==
    LET k == call[c].charge IN
    /\ call[c].at = "loaded" /\ ~ChargeLocked(k)
    /\ IF Claims(k)
       THEN call' = [call EXCEPT ![c].at = "claimed"]
       ELSE call' = [call EXCEPT ![c] = NoCall]
    /\ UNCHANGED <<planVars, chargeVars, events, late, troubles>>

\* Mutant: another plan of the user is not looked for.
ChargedOnly(p) == p
\* The plan to extend: another active one, else the one the order was for.
Target(p) ==
    IF \E q \in Plans \ {p} : status[q] = "active"
    THEN CHOOSE q \in Plans \ {p} : status[q] = "active"
    ELSE p

\* SELECT ... FOR UPDATE of the charged plan, then of the other one.
LockPlans(c) ==
    LET p == charge[call[c].charge].plan IN
    /\ call[c].at = "claimed" /\ ~PlanLocked(p) /\ ~PlanLocked(Target(p))
    /\ call' = [call EXCEPT ![c].at = "locked", ![c].target = Target(p)]
    /\ UNCHANGED <<planVars, chargeVars, events, late, troubles>>

\* Mutant: the migration that creates the index did not run.
IndexMissing(p) == TRUE
\* unlimited_plans_one_active_per_user.
IndexAllows(p) == ActivePlans \subseteq {p}

\* Mutant: the row keeps its status, so a lapsed plan or an offer does not start.
RenewedStatusKept(p) == [status EXCEPT ![p] = @]
RenewedStatus(p) == [status EXCEPT ![p] = "active"]

\* The new window and the commit.
Extend(c) ==
    LET k == call[c].charge
        p == call[c].target IN
    /\ call[c].at = "locked" /\ IndexAllows(p)
    /\ charge' = [charge EXCEPT ![k].status = "paid"]
    /\ extended' = [extended EXCEPT ![k] = @ + 1]
    /\ status' = RenewedStatus(p)
    /\ window' = [window EXCEPT ![p] = "open"]
    /\ newer' = Touched({p}, newer)
    /\ call' = [call EXCEPT ![c] = NoCall]
    /\ UNCHANGED <<events, late, troubles>>

\* A plan was granted since the look: the index refuses, all is rolled back,
\* and the answer is not 200.
ExtendRefused(c) ==
    /\ call[c].at = "locked" /\ ~IndexAllows(call[c].target)
    /\ call' = [call EXCEPT ![c] = NoCall]
    /\ UNCHANGED <<planVars, chargeVars, events, late, troubles>>

\* A statement fails, a deadlock is broken or the process stops.
Abort(c) ==
    /\ call[c].at # "idle" /\ troubles < MaxTroubles
    /\ troubles' = troubles + 1
    /\ call' = [call EXCEPT ![c] = NoCall]
    /\ UNCHANGED <<planVars, chargeVars, events, late>>

-----------------------------------------------------------------------------
(* runUnlimitedPlanReminderTick *)

\* Mutant: the query asks for plans that serve, as getActiveUnlimitedPlan does.
LapsedOfServing == {p \in ActivePlans : Serves(p) /\ window[p] = "over"}
Lapsed == {p \in ActivePlans : window[p] = "over"}

\* The list of active plans, with the end each of them has now.
TickLists ==
    /\ late = {}
    /\ late' = Lapsed
    /\ UNCHANGED <<planVars, chargeVars, events, call, troubles>>

\* UPDATE ... SET status = 'expired' WHERE id: after the mail, whatever the
\* row is by now.
Flip(p) ==
    /\ p \in late /\ ~PlanLocked(p)
    /\ status' = [status EXCEPT ![p] = "expired"]
    /\ newer' = Touched({p}, newer)
    /\ late' = late \ {p}
    /\ UNCHANGED <<window, chargeVars, events, call, troubles>>

\* The mail throws: the plan is left for the next tick, however often that
\* was so before.
MailFails(p) ==
    /\ p \in late
    /\ late' = late \ {p}
    /\ UNCHANGED <<planVars, chargeVars, events, call, troubles>>

-----------------------------------------------------------------------------
Admin       == \E p \in Plans : Grant(p) \/ Offer(p) \/ Revoke(p)
Paying      == \E k \in Charges : Order(k) \/ Refused(k) \/ Capture(k) \/ Fail(k)
Proceeds(c) == Claim(c) \/ LockPlans(c) \/ Extend(c) \/ ExtendRefused(c)
Applying    == \E c \in Calls : Proceeds(c) \/ Abort(c) \/ \E k \in Charges : Load(c, k)
Ticking     == TickLists \/ \E p \in Plans : Flip(p) \/ MailFails(p)

Next == Admin \/ Paying \/ Applying \/ Ticking \/ \E p \in Plans : Elapse(p)

Spec == Init /\ [][Next]_vars

\* An event comes again until it was answered without an error; Payments has
\* the acknowledgement in full.
Redelivered(k) == charge[k].status = "pending" /\ \E c \in Calls : Load(c, k)

\* Calls go on, events come again, and the tick is run.
Fairness ==
    /\ \A c \in Calls : WF_vars(Proceeds(c))
    /\ \A k \in Charges : SF_vars(Redelivered(k))
    /\ WF_vars((TickLists /\ late' # {}) \/ \E p \in Plans : Flip(p))

FairSpec == Spec /\ Fairness

-----------------------------------------------------------------------------
(* Properties *)

RenewalsTypeOK ==
    /\ status \in [Plans -> PlanStatuses]
    /\ window \in [Plans -> {"open", "over"}]
    /\ newer \subseteq PlanRows \X PlanRows
    /\ \A p, q \in PlanRows : p # q => (<<p, q>> \in newer <=> <<q, p>> \notin newer)
    /\ charge \in [Charges -> [status : ChargeStatuses, plan : Plans \cup {NoPlan}]]
    /\ \A k \in Charges : charge[k].status # "none" <=> charge[k].plan # NoPlan
    /\ extended \in [Charges -> Nat]
    /\ events \subseteq {"failed", "captured"} \X Charges
    /\ call \in [Calls -> [at : CallStates, charge : Charges \cup {NoCharge},
                           target : Plans \cup {NoPlan}]]
    /\ late \subseteq Plans
    /\ troubles \in 0 .. MaxTroubles

\* A payment buys one cycle, whoever of /renew/verify, the webhook and their
\* repetitions came first (unlimited-plan-renewal.ts:50-65).
ExtendedOnce ==
    \A k \in Charges : extended[k] = IF charge[k].status = "paid" THEN 1 ELSE 0

\* A user has one active plan at most, also when a payment for a lapsed plan
\* and a grant meet (unlimited-plan-renewal.ts:72-86, the grant's insert).
OneActivePlan == Cardinality(ActivePlans) <= 1

\* Who has paid is served, and a plan that serves, one just paid for or one
\* just granted, does so until its window is over or an admin revokes it: an
\* offer or another grant does not end it.  One thing else can: a tick that
\* read the plan before it was renewed expires it by its id
\* (unlimited-plan-scheduler.ts:122-126), although "this flip is bookkeeping,
\* not what stops access" (unlimited-plan-scheduler.ts:62-65).
ServedUntilOver ==
    [][/\ \A k \in Charges :
              charge'[k].status = "paid" /\ charge[k].status # "paid"
              => \E p \in Plans : Serves(p)'
       /\ \A p \in Plans :
              Serves(p) /\ ~Serves(p)'
              => window'[p] = "over" \/ status'[p] = "revoked" \/ p \in late]_vars

\* Money that was taken buys its cycle although a grant superseded the plan it
\* was for, and calls fail; or else an attempt of the same order was refused
\* before it was captured, and then it buys nothing: the refusal leaves the
\* charge 'failed', and the capture is skipped as applied already
\* (unlimited-plan-renewal.ts:51-58, 111-123) against "the money has already
\* moved, so this must not fail" (unlimited-plan-renewal.ts:69).
CaptureIsPaidOrFailed ==
    <>[](\A k \in Charges :
            Captured(k) => \/ charge[k].status = "paid"
                           \/ charge[k].status = "failed" /\ <<"failed", k>> \in events)

\* A plan whose window is over does not stay active for ever: the tick flips
\* it, or it is renewed or revoked; unless the mail to its user fails again
\* and again: that throws past the flip, although the status is to change
\* "regardless of whether the email above actually sent"
\* (unlimited-plan-scheduler.ts:119-121).
LapsedIsFlipped ==
    \A p \in Plans : \/ []<>(status[p] = "active" => Serves(p))
                     \/ []<><<MailFails(p)>>_vars

=============================================================================
