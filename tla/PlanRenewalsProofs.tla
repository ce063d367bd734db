------------------------- MODULE PlanRenewalsProofs -------------------------
(***************************************************************************)
(* Proofs about PlanRenewals: for every number of plans, charges and       *)
(* concurrent calls, and any number of failing statements.                 *)
(***************************************************************************)
EXTENDS PlanRenewals, FiniteSetTheorems, TLAPS

-----------------------------------------------------------------------------
(* Types *)

ChargeType == [status : ChargeStatuses, plan : Plans \cup {NoPlan}]
CallType   == [at : CallStates, charge : Charges \cup {NoCharge},
               target : Plans \cup {NoPlan}]

LEMMA NoCallType == NoCall \in CallType
  BY DEF NoCall, CallType, CallStates

\* Of two rows one was written later.
Ordered ==
    /\ newer \subseteq PlanRows \X PlanRows
    /\ \A p, q \in PlanRows : p # q => (<<p, q>> \in newer <=> <<q, p>> \notin newer)

\* It stays so when rows are written again, or a row is new.
LEMMA TouchedOrders ==
  ASSUME NEW P \in SUBSET Plans, NEW order,
         order \subseteq PlanRows \X PlanRows,
         \A p, q \in PlanRows : p # q => (<<p, q>> \in order <=> <<q, p>> \notin order),
         P \subseteq PlanRows \/ \E p : P = {p}
  PROVE  /\ Touched(P, order) \subseteq (PlanRows \cup P) \X (PlanRows \cup P)
         /\ \A p, q \in PlanRows \cup P :
               p # q => (<<p, q>> \in Touched(P, order) <=> <<q, p>> \notin Touched(P, order))
<1>1. \A p, q : <<p, q>> \in Touched(P, order)
                  <=> \/ p \in P /\ q \in PlanRows \ P
                      \/ <<p, q>> \in order /\ (p \in P <=> q \in P)
  BY DEF Touched
<1>2. Touched(P, order) \subseteq (PlanRows \cup P) \X (PlanRows \cup P)
  BY DEF Touched
<1>3. ASSUME NEW p \in PlanRows \cup P, NEW q \in PlanRows \cup P, p # q
      PROVE  <<p, q>> \in Touched(P, order) <=> <<q, p>> \notin Touched(P, order)
  <2>1. CASE p \in P /\ q \in P
    BY <1>1, <1>3, <2>1
  <2>2. CASE p \in P /\ q \notin P
    BY <1>1, <1>3, <2>2
  <2>3. CASE p \notin P /\ q \in P
    BY <1>1, <1>3, <2>3
  <2>4. CASE p \notin P /\ q \notin P
    BY <1>1, <1>3, <2>4
  <2> QED
    BY <2>1, <2>2, <2>3, <2>4
<1> QED
  BY <1>2, <1>3

\* One row is written.
LEMMA OneTouched ==
  ASSUME Ordered, NEW p \in Plans, newer' = Touched({p}, newer),
         PlanRows' = PlanRows \cup {p}
  PROVE  Ordered'
<1>1. {p} \in SUBSET Plans /\ \E q : {p} = {q}
  OBVIOUS
<1>2. /\ newer' \subseteq (PlanRows \cup {p}) \X (PlanRows \cup {p})
      /\ \A x, y \in PlanRows \cup {p} : x # y => (<<x, y>> \in newer' <=> <<y, x>> \notin newer')
  BY <1>1, TouchedOrders DEF Ordered
<1> QED
  BY <1>2 DEF Ordered

\* What the admin does.
LEMMA AdminType ==
  ASSUME RenewalsTypeOK, Admin
  PROVE  RenewalsTypeOK'
<1>0. /\ status \in [Plans -> PlanStatuses] /\ window \in [Plans -> {"open", "over"}]
      /\ Ordered
  BY DEF RenewalsTypeOK, Ordered
<1>1. SUFFICES /\ status' \in [Plans -> PlanStatuses]
               /\ window' \in [Plans -> {"open", "over"}] /\ Ordered' /\ Elsewhere
  BY DEF RenewalsTypeOK, Ordered, Elsewhere, chargeVars
<1>2. ASSUME NEW p \in Plans, Grant(p)
      PROVE  /\ status' \in [Plans -> PlanStatuses]
             /\ window' \in [Plans -> {"open", "over"}] /\ Ordered' /\ Elsewhere
  <2>1. /\ status' \in [Plans -> PlanStatuses] /\ window' \in [Plans -> {"open", "over"}]
        /\ newer' = Touched({p}, newer) /\ Elsewhere
    BY <1>0, <1>2 DEF Grant, PlanStatuses
  <2>2. PlanRows' = PlanRows \cup {p}
    BY <1>2 DEF Grant, PlanRows, OfferedPlans
  <2> QED
    BY <1>0, <2>1, <2>2, OneTouched
<1>3. ASSUME NEW p \in Plans, Offer(p)
      PROVE  /\ status' \in [Plans -> PlanStatuses]
             /\ window' \in [Plans -> {"open", "over"}] /\ Ordered' /\ Elsewhere
  <2>1. /\ status' \in [Plans -> PlanStatuses] /\ window' = window
        /\ newer' = Touched({p}, Touched(ActivePlans, newer)) /\ Elsewhere
    BY <1>0, <1>3 DEF Offer, Offerable, PlanStatuses
  <2>2. PlanRows' = PlanRows \cup {p}
    BY <1>3 DEF Offer, Offerable, PlanRows, ActivePlans
  <2> DEFINE order == Touched(ActivePlans, newer)
  <2>3. ActivePlans \in SUBSET Plans /\ ActivePlans \subseteq PlanRows
    BY DEF ActivePlans, PlanRows
  <2>4. /\ order \subseteq PlanRows \X PlanRows
        /\ \A x, y \in PlanRows : x # y => (<<x, y>> \in order <=> <<y, x>> \notin order)
    <3>1. PlanRows \cup ActivePlans = PlanRows
      BY <2>3
    <3> QED
      BY <1>0, <2>3, <3>1, TouchedOrders DEF Ordered
  <2>5. {p} \in SUBSET Plans /\ \E q : {p} = {q}
    OBVIOUS
  <2> HIDE DEF order
  <2>6. /\ Touched({p}, order) \subseteq (PlanRows \cup {p}) \X (PlanRows \cup {p})
        /\ \A x, y \in PlanRows \cup {p} :
              x # y => (<<x, y>> \in Touched({p}, order) <=> <<y, x>> \notin Touched({p}, order))
    BY <2>4, <2>5, TouchedOrders
  <2>7. newer' = Touched({p}, order)
    BY <2>1 DEF order
  <2> QED
    BY <1>0, <2>1, <2>2, <2>6, <2>7 DEF Ordered
<1>4. ASSUME NEW p \in Plans, Revoke(p)
      PROVE  /\ status' \in [Plans -> PlanStatuses]
             /\ window' \in [Plans -> {"open", "over"}] /\ Ordered' /\ Elsewhere
  <2>1. /\ status' \in [Plans -> PlanStatuses] /\ window' = window
        /\ newer' = Touched({p}, newer) /\ Elsewhere
    BY <1>0, <1>4 DEF Revoke, PlanStatuses
  <2>2. PlanRows' = PlanRows \cup {p}
    BY <1>0, <1>4 DEF Revoke, PlanRows, ActivePlans, OfferedPlans
  <2> QED
    BY <1>0, <2>1, <2>2, OneTouched
<1> QED
  BY <1>2, <1>3, <1>4 DEF Admin

\* The user, the payment service, the time and the tick.
LEMMA OutsideType ==
  ASSUME RenewalsTypeOK, Paying \/ Ticking \/ \E p \in Plans : Elapse(p)
  PROVE  RenewalsTypeOK'
<1>0. /\ status \in [Plans -> PlanStatuses] /\ window \in [Plans -> {"open", "over"}]
      /\ charge \in [Charges -> ChargeType] /\ Ordered
      /\ \A k \in Charges : charge[k].status # "none" <=> charge[k].plan # NoPlan
  BY DEF RenewalsTypeOK, Ordered, ChargeType
<1>1. ASSUME NEW k \in Charges, Order(k) PROVE RenewalsTypeOK'
  <2>1. PICK p \in Plans : charge' = [charge EXCEPT ![k] = [status |-> "pending", plan |-> p]]
    BY <1>1 DEF Order
  <2>2. /\ charge' \in [Charges -> ChargeType] /\ p # NoPlan
        /\ \A j \in Charges : charge'[j].status # "none" <=> charge'[j].plan # NoPlan
    BY <1>0, <2>1, RenewalsAssumption DEF ChargeType, ChargeStatuses
  <2>3. Ordered'
    BY <1>0, <1>1 DEF Order, planVars, Ordered, PlanRows
  <2> QED
    BY <1>1, <2>2, <2>3 DEF Order, RenewalsTypeOK, Ordered, ChargeType, planVars
<1>2. ASSUME NEW k \in Charges, Fail(k) PROVE RenewalsTypeOK'
  <2>1. /\ charge' \in [Charges -> ChargeType]
        /\ \A j \in Charges : charge'[j].status # "none" <=> charge'[j].plan # NoPlan
    BY <1>0, <1>2 DEF Fail, ChargeType, ChargeStatuses
  <2>2. Ordered'
    BY <1>0, <1>2 DEF Fail, planVars, Ordered, PlanRows
  <2> QED
    BY <1>2, <2>1, <2>2 DEF Fail, RenewalsTypeOK, Ordered, ChargeType, planVars
<1>3. ASSUME NEW k \in Charges, Refused(k) \/ Capture(k) PROVE RenewalsTypeOK'
  <2>1. Ordered'
    BY <1>0, <1>3 DEF Refused, Capture, planVars, Ordered, PlanRows
  <2> QED
    BY <1>3, <2>1 DEF Refused, Capture, RenewalsTypeOK, Ordered, planVars, chargeVars
<1>4. CASE TickLists
  <2>1. Ordered' /\ late' \subseteq Plans
    BY <1>0, <1>4 DEF TickLists, Lapsed, planVars, Ordered, PlanRows, ActivePlans
  <2> QED
    BY <1>4, <2>1 DEF TickLists, RenewalsTypeOK, Ordered, planVars, chargeVars
<1>5. ASSUME NEW p \in Plans, Flip(p) PROVE RenewalsTypeOK'
  <2>1. status' \in [Plans -> PlanStatuses] /\ late' \subseteq Plans
    BY <1>0, <1>5 DEF Flip, PlanStatuses, RenewalsTypeOK
  <2>2. PlanRows' = PlanRows \cup {p}
    BY <1>0, <1>5 DEF Flip, PlanRows
  <2>3. Ordered'
    BY <1>0, <1>5, <2>2, OneTouched DEF Flip
  <2> QED
    BY <1>5, <2>1, <2>3 DEF Flip, RenewalsTypeOK, Ordered, chargeVars
<1>6. ASSUME NEW p \in Plans, MailFails(p) PROVE RenewalsTypeOK'
  <2>1. Ordered' /\ late' \subseteq Plans /\ troubles' \in 0 .. MaxTroubles
    BY <1>0, <1>6, RenewalsAssumption DEF MailFails, planVars, Ordered, PlanRows, RenewalsTypeOK
  <2> QED
    BY <1>6, <2>1 DEF MailFails, RenewalsTypeOK, Ordered, planVars, chargeVars
<1>7. ASSUME NEW p \in Plans, Elapse(p) PROVE RenewalsTypeOK'
  <2>1. Ordered' /\ window' \in [Plans -> {"open", "over"}]
    BY <1>0, <1>7 DEF Elapse, Ordered, PlanRows
  <2> QED
    BY <1>7, <2>1 DEF Elapse, RenewalsTypeOK, Ordered, chargeVars
<1> QED
  BY <1>1, <1>2, <1>3, <1>4, <1>5, <1>6, <1>7 DEF Paying, Ticking

-----------------------------------------------------------------------------
(* The row locks *)

Holding(c) == call[c].at \in {"claimed", "locked"}
Locking(c) == call[c].at = "locked"
PlansOf(c) == {call[c].target, charge[call[c].charge].plan}

\* What a call has locked is as it found it.
CallSound(c) ==
    /\ call[c].at # "idle" => call[c].charge \in Charges
    /\ Holding(c) => charge[call[c].charge].status = "pending"
    /\ Locking(c) => /\ call[c].target \in Plans
                     /\ \/ call[c].target = charge[call[c].charge].plan
                        \/ status[call[c].target] = "active"

CallsSound == \A c \in Calls : CallSound(c)

\* A charge is held by one call, and so is a plan.
ChargesExclude ==
    \A c, d \in Calls : Holding(c) /\ Holding(d) /\ call[c].charge = call[d].charge => c = d

PlansExclude ==
    \A c, d \in Calls : Locking(c) /\ Locking(d) /\ c # d => PlansOf(c) \cap PlansOf(d) = {}

OneActive == \A p, q \in ActivePlans : p = q

RenewalInv == /\ RenewalsTypeOK
              /\ CallsSound /\ ChargesExclude /\ PlansExclude
              /\ ExtendedOnce /\ OneActive

LEMMA InitRenewal == Init => RenewalInv
<1> SUFFICES ASSUME Init PROVE RenewalInv
  OBVIOUS
<1>1. RenewalsTypeOK
  <2>1. call \in [Calls -> CallType]
    BY NoCallType DEF Init
  <2>2. PlanRows = {}
    BY DEF Init, PlanRows
  <2>3. /\ charge \in [Charges -> ChargeType]
        /\ \A k \in Charges : charge[k].status # "none" <=> charge[k].plan # NoPlan
    BY DEF Init, ChargeType, ChargeStatuses
  <2>4. troubles \in 0 .. MaxTroubles /\ extended \in [Charges -> Nat]
    BY RenewalsAssumption DEF Init
  <2> QED
    BY <2>1, <2>2, <2>3, <2>4
       DEF Init, RenewalsTypeOK, CallType, ChargeType, PlanStatuses
<1>2. \A c \in Calls : call[c].at = "idle"
  BY DEF Init, NoCall
<1>3. CallsSound /\ ChargesExclude /\ PlansExclude
  BY <1>2 DEF CallsSound, CallSound, Holding, Locking, ChargesExclude, PlansExclude
<1>4. ExtendedOnce /\ OneActive
  BY DEF Init, ExtendedOnce, OneActive, ActivePlans
<1> QED
  BY <1>1, <1>3, <1>4 DEF RenewalInv

\* Plans change around the calls: one that is locked stays active.
LEMMA RenewalAround ==
  ASSUME RenewalInv, RenewalsTypeOK', UNCHANGED <<charge, extended, call>>,
         \A p \in Plans : PlanLocked(p) /\ status[p] = "active" => status'[p] = "active",
         OneActive'
  PROVE  RenewalInv'
<1>1. CallsSound'
  <2> SUFFICES ASSUME NEW c \in Calls PROVE CallSound(c)'
    BY DEF CallsSound
  <2>1. CallSound(c)
    BY DEF RenewalInv, CallsSound
  <2>2. Locking(c) => PlanLocked(call[c].target)
    BY DEF Locking, PlanLocked
  <2> QED
    BY <2>1, <2>2 DEF CallSound, Holding, Locking
<1>2. ChargesExclude' /\ PlansExclude' /\ ExtendedOnce'
  BY DEF RenewalInv, ChargesExclude, PlansExclude, ExtendedOnce, Holding, Locking, PlansOf
<1> QED
  BY <1>1, <1>2 DEF RenewalInv

LEMMA RenewalAdmin ==
  ASSUME RenewalInv, Admin
  PROVE  RenewalInv'
<1>0. /\ RenewalsTypeOK' /\ UNCHANGED <<charge, extended, call>>
      /\ status \in [Plans -> PlanStatuses]
  BY AdminType DEF RenewalInv, RenewalsTypeOK, Admin, Grant, Offer, Revoke, Elsewhere, chargeVars
<1>1. ASSUME NEW p \in Plans, Grant(p) PROVE RenewalInv'
  <2>1. \A q \in Plans : status'[q] = "active" <=> q = p \/ status[q] = "active"
    BY <1>0, <1>1 DEF Grant, OfferedPlans
  <2>2. OneActive'
    BY <1>1, <2>1 DEF Grant, RenewalInv, OneActive, ActivePlans
  <2> QED
    BY <1>0, <2>1, <2>2, RenewalAround
<1>2. ASSUME NEW p \in Plans, Offer(p) PROVE RenewalInv'
  <2>1. \A q \in Plans : status'[q] # "active"
    BY <1>0, <1>2 DEF Offer, ActivePlans
  <2>2. \A q \in Plans : status[q] = "active" => ~PlanLocked(q)
    BY <1>2 DEF Offer, ActivePlans
  <2>3. OneActive'
    BY <2>1 DEF OneActive, ActivePlans
  <2> QED
    BY <1>0, <2>2, <2>3, RenewalAround
<1>3. ASSUME NEW p \in Plans, Revoke(p) PROVE RenewalInv'
  <2>1. \A q \in Plans : status'[q] = IF q = p THEN "revoked" ELSE status[q]
    BY <1>0, <1>3 DEF Revoke
  <2>2. OneActive'
    BY <2>1 DEF RenewalInv, OneActive, ActivePlans
  <2>3. ~PlanLocked(p)
    BY <1>3 DEF Revoke
  <2> QED
    BY <1>0, <2>1, <2>2, <2>3, RenewalAround
<1> QED
  BY <1>1, <1>2, <1>3 DEF Admin

\* An order is opened or a failure is recorded: no call holds that charge.
LEMMA RenewalCharge ==
  ASSUME RenewalInv, RenewalsTypeOK', NEW k \in Charges, NEW x,
         charge' = [charge EXCEPT ![k] = x],
         charge[k].status # "paid", x.status # "paid",
         \A c \in Calls : Holding(c) => call[c].charge # k,
         UNCHANGED <<extended, call, status>>
  PROVE  RenewalInv'
<1>1. \A j \in Charges : charge'[j] = IF j = k THEN x ELSE charge[j]
  BY DEF RenewalInv, RenewalsTypeOK
<1>2. ExtendedOnce' /\ OneActive' /\ ChargesExclude'
  BY <1>1 DEF RenewalInv, ExtendedOnce, OneActive, ActivePlans, ChargesExclude, Holding
<1>3. \A c \in Calls : /\ Locking(c) => Holding(c)
                       /\ Holding(c) => call[c].charge \in Charges
                                        /\ charge'[call[c].charge] = charge[call[c].charge]
  BY <1>1 DEF RenewalInv, CallsSound, CallSound, Holding, Locking
<1>4. CallsSound'
  BY <1>3 DEF RenewalInv, CallsSound, CallSound, Holding, Locking
<1>5. PlansExclude'
  BY <1>3 DEF RenewalInv, PlansExclude, PlansOf, Locking
<1> QED
  BY <1>2, <1>4, <1>5 DEF RenewalInv

LEMMA RenewalOutside ==
  ASSUME RenewalInv, Paying \/ Ticking \/ \E p \in Plans : Elapse(p)
  PROVE  RenewalInv'
<1>0. RenewalsTypeOK' /\ status \in [Plans -> PlanStatuses]
  BY OutsideType DEF RenewalInv, RenewalsTypeOK
<1>1. ASSUME NEW k \in Charges, Order(k) PROVE RenewalInv'
  <2>1. PICK p \in Plans : charge' = [charge EXCEPT ![k] = [status |-> "pending", plan |-> p]]
    BY <1>1 DEF Order
  <2>2. charge[k].status = "none" /\ UNCHANGED <<extended, call, status>>
    BY <1>1 DEF Order, planVars
  <2>3. \A c \in Calls : Holding(c) => call[c].charge # k
    BY <2>2 DEF RenewalInv, CallsSound, CallSound
  <2> QED
    BY <1>0, <2>1, <2>2, <2>3, RenewalCharge
<1>2. ASSUME NEW k \in Charges, Fail(k) PROVE RenewalInv'
  <2>1. /\ charge' = [charge EXCEPT ![k] = [charge[k] EXCEPT !.status = "failed"]]
        /\ charge[k].status = "pending" /\ ~ChargeLocked(k)
        /\ UNCHANGED <<extended, call, status>>
    BY <1>2 DEF Fail, planVars
  <2>2. \A c \in Calls : Holding(c) => call[c].charge # k
    BY <2>1 DEF ChargeLocked, Holding
  <2>3. [charge[k] EXCEPT !.status = "failed"].status = "failed"
    BY DEF RenewalInv, RenewalsTypeOK
  <2> QED
    BY <1>0, <2>1, <2>2, <2>3, RenewalCharge
<1>3. ASSUME NEW p \in Plans, Flip(p) PROVE RenewalInv'
  <2>1. \A q \in Plans : status'[q] = IF q = p THEN "expired" ELSE status[q]
    BY <1>0, <1>3 DEF Flip
  <2>2. OneActive'
    BY <2>1 DEF RenewalInv, OneActive, ActivePlans
  <2>3. ~PlanLocked(p) /\ UNCHANGED <<charge, extended, call>>
    BY <1>3 DEF Flip, chargeVars
  <2> QED
    BY <1>0, <2>1, <2>2, <2>3, RenewalAround
<1>4. CASE UNCHANGED <<charge, extended, call, status>>
  <2>1. OneActive'
    BY <1>4 DEF RenewalInv, OneActive, ActivePlans
  <2> QED
    BY <1>0, <1>4, <2>1, RenewalAround
<1>5. ASSUME NEW k \in Charges, Refused(k) \/ Capture(k) PROVE RenewalInv'
  BY <1>4, <1>5 DEF Refused, Capture, planVars, chargeVars
<1>6. CASE TickLists
  BY <1>4, <1>6 DEF TickLists, planVars, chargeVars
<1>7. ASSUME NEW p \in Plans, MailFails(p) \/ Elapse(p) PROVE RenewalInv'
  BY <1>4, <1>7 DEF MailFails, Elapse, planVars, chargeVars
<1> QED
  BY <1>1, <1>2, <1>3, <1>5, <1>6, <1>7 DEF Paying, Ticking

-----------------------------------------------------------------------------
(* applyUnlimitedPlanRenewalPayment *)

LEMMA ApplyingType ==
  ASSUME RenewalsTypeOK, CallsSound, Applying
  PROVE  RenewalsTypeOK'
<1>0. /\ call \in [Calls -> CallType] /\ NoCall \in CallType
      /\ status \in [Plans -> PlanStatuses] /\ window \in [Plans -> {"open", "over"}]
      /\ charge \in [Charges -> ChargeType] /\ Ordered
      /\ \A k \in Charges : charge[k].status # "none" <=> charge[k].plan # NoPlan
  BY NoCallType DEF RenewalsTypeOK, Ordered, ChargeType, CallType
<1>1. ASSUME call' \in [Calls -> CallType],
             UNCHANGED <<planVars, chargeVars, events, late>>, troubles' \in 0 .. MaxTroubles
      PROVE  RenewalsTypeOK'
  <2>1. Ordered'
    BY <1>0, <1>1 DEF planVars, Ordered, PlanRows
  <2> QED
    BY <1>1, <2>1 DEF RenewalsTypeOK, Ordered, CallType, planVars, chargeVars
<1>2. ASSUME NEW c \in Calls, NEW k \in Charges, Load(c, k) PROVE RenewalsTypeOK'
  <2>1. call' \in [Calls -> CallType]
    BY <1>0, <1>2 DEF Load, CallType, CallStates
  <2> QED
    BY <1>1, <1>2, <2>1 DEF Load, RenewalsTypeOK
<1>3. ASSUME NEW c \in Calls, Claim(c) \/ ExtendRefused(c) \/ Abort(c) PROVE RenewalsTypeOK'
  <2>1. call' \in [Calls -> CallType]
    <3>1. \/ call' = [call EXCEPT ![c].at = "claimed"]
          \/ call' = [call EXCEPT ![c] = NoCall]
      BY <1>3 DEF Claim, ExtendRefused, Abort
    <3> QED
      BY <1>0, <3>1 DEF CallType, CallStates
  <2>2. troubles' \in 0 .. MaxTroubles
    BY <1>3, RenewalsAssumption DEF Claim, ExtendRefused, Abort, RenewalsTypeOK
  <2> QED
    BY <1>1, <1>3, <2>1, <2>2 DEF Claim, ExtendRefused, Abort
<1>4. ASSUME NEW c \in Calls, LockPlans(c) PROVE RenewalsTypeOK'
  <2> DEFINE p == charge[call[c].charge].plan
  <2>1. p \in Plans
    BY <1>0, <1>4 DEF LockPlans, CallsSound, CallSound, Holding, ChargeType
  <2>2. Target(p) \in Plans
    BY <2>1 DEF Target
  <2>3. call' \in [Calls -> CallType]
    BY <1>0, <1>4, <2>2 DEF LockPlans, CallType, CallStates
  <2> QED
    BY <1>1, <1>4, <2>3 DEF LockPlans, RenewalsTypeOK
<1>5. ASSUME NEW c \in Calls, Extend(c) PROVE RenewalsTypeOK'
  <2> DEFINE k == call[c].charge
             p == call[c].target
  <2>1. k \in Charges /\ p \in Plans /\ charge[k].status = "pending"
    BY <1>5 DEF Extend, CallsSound, CallSound, Holding, Locking
  <2>2. /\ status' = [status EXCEPT ![p] = "active"] /\ window' = [window EXCEPT ![p] = "open"]
        /\ newer' = Touched({p}, newer) /\ charge' = [charge EXCEPT ![k].status = "paid"]
        /\ extended' = [extended EXCEPT ![k] = @ + 1] /\ call' = [call EXCEPT ![c] = NoCall]
        /\ UNCHANGED <<events, late, troubles>>
    BY <1>5 DEF Extend, RenewedStatus
  <2> HIDE DEF k, p
  <2>3. /\ status' \in [Plans -> PlanStatuses] /\ window' \in [Plans -> {"open", "over"}]
        /\ call' \in [Calls -> CallType]
    BY <1>0, <2>1, <2>2 DEF PlanStatuses
  <2>4. /\ charge' \in [Charges -> ChargeType] /\ extended' \in [Charges -> Nat]
        /\ \A j \in Charges : charge'[j].status # "none" <=> charge'[j].plan # NoPlan
    BY <1>0, <2>1, <2>2 DEF ChargeType, ChargeStatuses, RenewalsTypeOK
  <2>5. PlanRows' = PlanRows \cup {p}
    BY <1>0, <2>1, <2>2 DEF PlanRows
  <2>6. Ordered'
    BY <1>0, <2>1, <2>2, <2>5, OneTouched
  <2> QED
    BY <2>2, <2>3, <2>4, <2>6 DEF RenewalsTypeOK, Ordered, ChargeType, CallType
<1> QED
  BY <1>2, <1>3, <1>4, <1>5 DEF Applying, Proceeds

\* A call takes or gives up its place and holds no lock.
LEMMA RenewalUnheld ==
  ASSUME RenewalInv, RenewalsTypeOK', NEW c \in Calls, NEW x,
         call' = [call EXCEPT ![c] = x], x.at \notin {"claimed", "locked"},
         x.at # "idle" => x.charge \in Charges,
         UNCHANGED <<charge, extended, status>>
  PROVE  RenewalInv'
<1>1. \A d \in Calls : call'[d] = IF d = c THEN x ELSE call[d]
  BY DEF RenewalInv, RenewalsTypeOK
<1>2. \A d \in Calls : /\ Holding(d)' => d # c /\ Holding(d)
                       /\ Locking(d)' => d # c /\ Locking(d)
  BY <1>1 DEF Holding, Locking
<1>3. CallsSound'
  <2> SUFFICES ASSUME NEW d \in Calls PROVE CallSound(d)'
    BY DEF CallsSound
  <2>1. CASE d = c
    BY <1>1, <1>2, <2>1 DEF CallSound
  <2>2. CASE d # c
    BY <1>1, <2>2 DEF RenewalInv, CallsSound, CallSound, Holding, Locking
  <2> QED
    BY <2>1, <2>2
<1>4. ChargesExclude'
  BY <1>1, <1>2 DEF RenewalInv, ChargesExclude
<1>5. PlansExclude'
  BY <1>1, <1>2 DEF RenewalInv, PlansExclude, PlansOf
<1>6. ExtendedOnce' /\ OneActive'
  BY DEF RenewalInv, ExtendedOnce, OneActive, ActivePlans
<1> QED
  BY <1>3, <1>4, <1>5, <1>6 DEF RenewalInv

\* The charge is claimed.
LEMMA RenewalClaim ==
  ASSUME RenewalInv, RenewalsTypeOK', NEW c \in Calls, Claim(c), Claims(call[c].charge)
  PROVE  RenewalInv'
<1> DEFINE k == call[c].charge
<1>1. /\ call' = [call EXCEPT ![c].at = "claimed"] /\ call[c].at = "loaded"
      /\ UNCHANGED <<charge, extended, status>>
      /\ ~ChargeLocked(k) /\ charge[k].status = "pending"
  BY DEF Claim, Claims, planVars, chargeVars
<1>2. \A d \in Calls : /\ d # c => call'[d] = call[d]
                       /\ d = c => /\ call'[d].at = "claimed"
                                   /\ call'[d].charge = k
  BY <1>1 DEF RenewalInv, RenewalsTypeOK
<1>3. k \in Charges /\ \A d \in Calls : Holding(d) => d # c /\ call[d].charge # k
  BY <1>1 DEF RenewalInv, CallsSound, CallSound, ChargeLocked, Holding
<1>4. CallsSound'
  <2> SUFFICES ASSUME NEW d \in Calls PROVE CallSound(d)'
    BY DEF CallsSound
  <2>1. CASE d = c
    BY <1>1, <1>2, <1>3, <2>1 DEF CallSound, Holding, Locking
  <2>2. CASE d # c
    BY <1>1, <1>2, <2>2 DEF RenewalInv, CallsSound, CallSound, Holding, Locking
  <2> QED
    BY <2>1, <2>2
<1>5. ChargesExclude'
  BY <1>2, <1>3 DEF RenewalInv, ChargesExclude, Holding
<1>6. PlansExclude'
  BY <1>1, <1>2 DEF RenewalInv, PlansExclude, PlansOf, Locking
<1>7. ExtendedOnce' /\ OneActive'
  BY <1>1 DEF RenewalInv, ExtendedOnce, OneActive, ActivePlans
<1> QED
  BY <1>4, <1>5, <1>6, <1>7 DEF RenewalInv

\* The plans are locked, as they stand.
LEMMA RenewalLock ==
  ASSUME RenewalInv, RenewalsTypeOK', NEW c \in Calls, LockPlans(c)
  PROVE  RenewalInv'
<1> DEFINE k == call[c].charge
           p == charge[k].plan
           t == Target(p)
<1>1. /\ call' = [call EXCEPT ![c].at = "locked", ![c].target = t] /\ call[c].at = "claimed"
      /\ UNCHANGED <<charge, extended, status>> /\ ~PlanLocked(p) /\ ~PlanLocked(t)
  BY DEF LockPlans, planVars, chargeVars
<1>2. k \in Charges /\ charge[k].status = "pending"
  BY <1>1 DEF RenewalInv, CallsSound, CallSound, Holding
<1>3. p \in Plans
  BY <1>2 DEF RenewalInv, RenewalsTypeOK
<1>4. t \in Plans /\ (t = p \/ status[t] = "active")
  BY <1>3 DEF Target
<1> HIDE DEF t
<1>5. \A d \in Calls : /\ d # c => call'[d] = call[d]
                       /\ d = c => /\ call'[d].at = "locked" /\ call'[d].charge = k
                                   /\ call'[d].target = t
  BY <1>1 DEF RenewalInv, RenewalsTypeOK
<1>6. \A d \in Calls : /\ Holding(d)' <=> Holding(d)
                       /\ call'[d].charge = call[d].charge
  BY <1>1, <1>5 DEF Holding
<1>7. CallsSound'
  <2> SUFFICES ASSUME NEW d \in Calls PROVE CallSound(d)'
    BY DEF CallsSound
  <2>1. CASE d = c
    BY <1>1, <1>2, <1>4, <1>5, <2>1 DEF CallSound, Holding, Locking
  <2>2. CASE d # c
    BY <1>1, <1>5, <2>2 DEF RenewalInv, CallsSound, CallSound, Holding, Locking
  <2> QED
    BY <2>1, <2>2
<1>8. ChargesExclude'
  BY <1>6 DEF RenewalInv, ChargesExclude
<1>9. PlansExclude'
  <2>1. \A d \in Calls : Locking(d) => PlansOf(d) \cap {t, p} = {}
    BY <1>1 DEF PlanLocked, Locking, PlansOf
  <2>2. /\ PlansOf(c)' = {t, p}
        /\ \A d \in Calls \ {c} : /\ PlansOf(d)' = PlansOf(d)
                                  /\ Locking(d)' <=> Locking(d)
    BY <1>1, <1>5 DEF PlansOf, Locking
  <2> SUFFICES ASSUME NEW d \in Calls, NEW e \in Calls, Locking(d)', Locking(e)', d # e
               PROVE  PlansOf(d)' \cap PlansOf(e)' = {}
    BY DEF PlansExclude
  <2>3. CASE d = c
    BY <2>1, <2>2, <2>3
  <2>4. CASE e = c
    BY <2>1, <2>2, <2>4
  <2>5. CASE d # c /\ e # c
    BY <2>2, <2>5 DEF RenewalInv, PlansExclude
  <2> QED
    BY <2>3, <2>4, <2>5
<1>10. ExtendedOnce' /\ OneActive'
  BY <1>1 DEF RenewalInv, ExtendedOnce, OneActive, ActivePlans
<1> QED
  BY <1>7, <1>8, <1>9, <1>10 DEF RenewalInv

\* The cycle is bought.
LEMMA RenewalExtend ==
  ASSUME RenewalInv, RenewalsTypeOK', NEW c \in Calls, Extend(c)
  PROVE  RenewalInv'
<1> DEFINE k == call[c].charge
           p == call[c].target
<1>1. /\ k \in Charges /\ p \in Plans /\ charge[k].status = "pending"
      /\ Holding(c) /\ Locking(c) /\ p \in PlansOf(c)
  BY DEF RenewalInv, Extend, CallsSound, CallSound, Holding, Locking, PlansOf
<1>2. /\ status' = [status EXCEPT ![p] = "active"] /\ ActivePlans \subseteq {p}
      /\ charge' = [charge EXCEPT ![k].status = "paid"]
      /\ extended' = [extended EXCEPT ![k] = @ + 1] /\ call' = [call EXCEPT ![c] = NoCall]
  BY DEF Extend, RenewedStatus, IndexAllows
<1>3. /\ status \in [Plans -> PlanStatuses] /\ extended \in [Charges -> Nat]
      /\ charge \in [Charges -> ChargeType] /\ call \in [Calls -> CallType]
  BY DEF RenewalInv, RenewalsTypeOK, ChargeType, CallType
<1>4. /\ \A j \in Charges : /\ charge'[j].plan = charge[j].plan
                            /\ charge'[j].status = IF j = k THEN "paid" ELSE charge[j].status
                            /\ extended'[j] = IF j = k THEN extended[j] + 1 ELSE extended[j]
      /\ \A q \in Plans : status'[q] = IF q = p THEN "active" ELSE status[q]
      /\ \A d \in Calls : d # c => call'[d] = call[d]
      /\ call'[c].at = "idle"
  BY <1>1, <1>2, <1>3 DEF NoCall, ChargeType
<1>5. \A d \in Calls : /\ Holding(d)' => d # c /\ Holding(d)
                       /\ Locking(d)' => d # c /\ Locking(d)
                       /\ Holding(d) /\ d # c => call[d].charge # k
  BY <1>1, <1>4 DEF RenewalInv, ChargesExclude, Holding, Locking
<1>6. CallsSound'
  <2> SUFFICES ASSUME NEW d \in Calls PROVE CallSound(d)'
    BY DEF CallsSound
  <2>1. CASE d = c
    BY <1>4, <2>1 DEF CallSound, Holding, Locking
  <2>2. CASE d # c
    <3>1. CallSound(d) /\ call'[d] = call[d]
      BY <1>4, <2>2 DEF RenewalInv, CallsSound
    <3> QED
      BY <1>4, <1>5, <2>2, <3>1 DEF CallSound, Holding, Locking
  <2> QED
    BY <2>1, <2>2
<1>7. ChargesExclude'
  BY <1>4, <1>5 DEF RenewalInv, ChargesExclude
<1>8. PlansExclude'
  <2>1. \A d \in Calls : Locking(d)' => PlansOf(d)' = PlansOf(d)
    BY <1>4, <1>5 DEF RenewalInv, CallsSound, CallSound, PlansOf, Locking
  <2> QED
    BY <1>5, <2>1 DEF RenewalInv, PlansExclude
<1>9. ExtendedOnce'
  BY <1>1, <1>3, <1>4 DEF RenewalInv, ExtendedOnce
<1>10. OneActive'
  BY <1>2, <1>4 DEF OneActive, ActivePlans
<1> QED
  BY <1>6, <1>7, <1>8, <1>9, <1>10 DEF RenewalInv

LEMMA RenewalStep == RenewalInv /\ [Next]_vars => RenewalInv'
<1> SUFFICES ASSUME RenewalInv, [Next]_vars PROVE RenewalInv'
  OBVIOUS
<1>1. CASE Admin
  BY <1>1, RenewalAdmin
<1>2. CASE Paying \/ Ticking \/ \E p \in Plans : Elapse(p)
  BY <1>2, RenewalOutside
<1>3. CASE Applying
  <2>0. RenewalsTypeOK'
    BY <1>3, ApplyingType DEF RenewalInv
  <2>1. ASSUME NEW c \in Calls, NEW k \in Charges, Load(c, k) PROVE RenewalInv'
    <3> DEFINE x == [at |-> "loaded", charge |-> k, target |-> NoPlan]
    <3>1. x.at = "loaded" /\ x.charge = k
      OBVIOUS
    <3>2. call' = [call EXCEPT ![c] = x] /\ UNCHANGED <<charge, extended, status>>
      BY <2>1 DEF Load, planVars, chargeVars
    <3> HIDE DEF x
    <3> QED
      BY <2>0, <3>1, <3>2, RenewalUnheld
  <2>2. ASSUME NEW c \in Calls, call' = [call EXCEPT ![c] = NoCall],
               UNCHANGED <<charge, extended, status>>
        PROVE  RenewalInv'
    BY <2>0, <2>2, RenewalUnheld DEF NoCall
  <2>3. ASSUME NEW c \in Calls, Claim(c) PROVE RenewalInv'
    <3>1. CASE Claims(call[c].charge)
      BY <2>0, <2>3, <3>1, RenewalClaim
    <3>2. CASE ~Claims(call[c].charge)
      BY <2>2, <2>3, <3>2 DEF Claim, planVars, chargeVars
    <3> QED
      BY <3>1, <3>2
  <2>4. ASSUME NEW c \in Calls, ExtendRefused(c) \/ Abort(c) PROVE RenewalInv'
    BY <2>2, <2>4 DEF ExtendRefused, Abort, planVars, chargeVars
  <2>5. ASSUME NEW c \in Calls, LockPlans(c) PROVE RenewalInv'
    BY <2>0, <2>5, RenewalLock
  <2>6. ASSUME NEW c \in Calls, Extend(c) PROVE RenewalInv'
    BY <2>0, <2>6, RenewalExtend
  <2> QED
    BY <1>3, <2>1, <2>3, <2>4, <2>5, <2>6 DEF Applying, Proceeds
<1>4. CASE UNCHANGED vars
  <2>1. /\ RenewalsTypeOK' /\ OneActive'
        /\ UNCHANGED <<charge, extended, call, status>>
    BY <1>4 DEF RenewalInv, RenewalsTypeOK, OneActive, ActivePlans, PlanRows,
                vars, planVars, chargeVars
  <2> QED
    BY <2>1, RenewalAround
<1> QED
  BY <1>1, <1>2, <1>3, <1>4 DEF Next

\* The state of the plans, charges and calls has the form the module says.
THEOREM RenewalsTypeCorrect == Spec => []RenewalsTypeOK
<1>1. RenewalInv => RenewalsTypeOK
  BY DEF RenewalInv
<1> QED
  BY <1>1, InitRenewal, RenewalStep, PTL DEF Spec

\* A payment buys one cycle, however many calls report it.
THEOREM RenewalsExtendOnce == Spec => []ExtendedOnce
<1>1. RenewalInv => ExtendedOnce
  BY DEF RenewalInv
<1> QED
  BY <1>1, InitRenewal, RenewalStep, PTL DEF Spec

\* A user never has two active plans.
THEOREM RenewalsOneActive == Spec => []OneActivePlan
<1>1. RenewalInv => OneActivePlan
  <2> SUFFICES ASSUME RenewalInv PROVE Cardinality(ActivePlans) <= 1
    BY DEF OneActivePlan
  <2>1. CASE ActivePlans = {}
    BY <2>1, FS_EmptySet
  <2>2. ASSUME NEW p, ActivePlans = {p} PROVE Cardinality(ActivePlans) <= 1
    <3>1. Cardinality({p}) = 1
      BY FS_Singleton
    <3> QED
      BY <2>2, <3>1
  <2>3. ActivePlans = {} \/ \E p : ActivePlans = {p}
    BY DEF RenewalInv, OneActive
  <2> QED
    BY <2>1, <2>2, <2>3
<1> QED
  BY <1>1, InitRenewal, RenewalStep, PTL DEF Spec

-----------------------------------------------------------------------------
(* What ends a plan *)

Settled(k) == /\ charge[k].status # "paid"
               /\ charge'[k].status = "paid"
Stopped(p) == Serves(p) /\ ~Serves(p)'

\* Only the commit of a renewal settles a charge, and its plan serves.
LEMMA SettledServes ==
  ASSUME RenewalInv, Next, NEW k \in Charges, Settled(k)
  PROVE  \E p \in Plans : Serves(p)'
<1>0. charge \in [Charges -> ChargeType]
  BY DEF RenewalInv, RenewalsTypeOK, ChargeType
<1>1. ~Admin /\ ~Ticking /\ ~(\E p \in Plans : Elapse(p))
  BY DEF Settled, Admin, Grant, Offer, Revoke, Elsewhere, Ticking, TickLists, Flip, MailFails,
         Elapse, chargeVars
<1>2. ~Paying
  <2>1. ASSUME NEW j \in Charges, Order(j) PROVE FALSE
    BY <1>0, <2>1 DEF Settled, Order
  <2>2. ASSUME NEW j \in Charges, Fail(j) PROVE FALSE
    BY <1>0, <2>2 DEF Settled, Fail, ChargeType
  <2>3. ASSUME NEW j \in Charges, Refused(j) \/ Capture(j) PROVE FALSE
    BY <2>3 DEF Settled, Refused, Capture, chargeVars
  <2> QED
    BY <2>1, <2>2, <2>3 DEF Paying
<1>3. PICK c \in Calls : Extend(c)
  BY <1>1, <1>2 DEF Settled, Next, Applying, Proceeds, Claim, LockPlans, ExtendRefused, Abort,
                    Load, chargeVars
<1>4. call[c].target \in Plans
  BY <1>3 DEF RenewalInv, CallsSound, CallSound, Locking, Extend
<1>5. status'[call[c].target] = "active" /\ window'[call[c].target] = "open"
  BY <1>3, <1>4 DEF Extend, RenewedStatus, RenewalInv, RenewalsTypeOK
<1> QED
  BY <1>4, <1>5 DEF Serves

LEMMA StoppedOverOrRevoked ==
  ASSUME RenewalInv, Next, NEW p \in Plans, Stopped(p)
  PROVE  window'[p] = "over" \/ status'[p] = "revoked" \/ p \in late
<1>0. /\ status \in [Plans -> PlanStatuses] /\ window \in [Plans -> {"open", "over"}]
      /\ status[p] = "active" /\ window[p] = "open"
      /\ ~(status'[p] = "active" /\ window'[p] = "open")
  BY DEF RenewalInv, RenewalsTypeOK, Stopped, Serves
<1>1. ~UNCHANGED planVars
  BY <1>0 DEF planVars
<1>2. ASSUME NEW q \in Plans, Grant(q) PROVE FALSE
  BY <1>0, <1>2 DEF Grant, OfferedPlans
<1>3. ASSUME NEW q \in Plans, Offer(q) PROVE FALSE
  BY <1>0, <1>3 DEF Offer, Offerable, Serves
<1>4. ASSUME NEW q \in Plans, Revoke(q) PROVE status'[p] = "revoked"
  BY <1>0, <1>4 DEF Revoke
<1>5. ASSUME NEW q \in Plans, Flip(q) PROVE p \in late
  BY <1>0, <1>5 DEF Flip
<1>6. ASSUME NEW q \in Plans, Elapse(q) PROVE window'[p] = "over"
  BY <1>0, <1>6 DEF Elapse
<1>7. ASSUME NEW c \in Calls, Extend(c) PROVE FALSE
  <2>1. call[c].target \in Plans
    BY <1>7 DEF RenewalInv, CallsSound, CallSound, Locking, Extend
  <2> QED
    BY <1>0, <1>7, <2>1 DEF Extend, RenewedStatus
<1>8. ~Paying /\ ~TickLists /\ ~(\E q \in Plans : MailFails(q))
  BY <1>1 DEF Paying, Order, Refused, Capture, Fail, TickLists, MailFails
<1>9. ASSUME NEW c \in Calls PROVE /\ ~Claim(c) /\ ~LockPlans(c) /\ ~ExtendRefused(c) /\ ~Abort(c)
                                  /\ \A k \in Charges : ~Load(c, k)
  BY <1>1 DEF Claim, LockPlans, ExtendRefused, Abort, Load
<1> QED
  BY <1>2, <1>3, <1>4, <1>5, <1>6, <1>7, <1>8, <1>9
     DEF Next, Admin, Ticking, Applying, Proceeds

\* Whoever settles a charge leaves the user served, and a plan that serves
\* goes on until its window is over, an admin revokes it, or the tick expires
\* what it had read as over.
THEOREM RenewedServesUntilOver == Spec => ServedUntilOver
<1> DEFINE Served ==
      /\ \A k \in Charges :
             charge'[k].status = "paid" /\ charge[k].status # "paid"
             => \E p \in Plans : Serves(p)'
      /\ \A p \in Plans :
             Serves(p) /\ ~Serves(p)'
             => window'[p] = "over" \/ status'[p] = "revoked" \/ p \in late
<1>1. RenewalInv /\ [Next]_vars => [Served]_vars
  <2> SUFFICES ASSUME RenewalInv, Next PROVE Served
    BY DEF vars
  <2>1. ASSUME NEW k \in Charges, charge'[k].status = "paid", charge[k].status # "paid"
        PROVE  \E p \in Plans : Serves(p)'
    BY <2>1, SettledServes DEF Settled
  <2>2. ASSUME NEW p \in Plans, Serves(p), ~Serves(p)'
        PROVE  window'[p] = "over" \/ status'[p] = "revoked" \/ p \in late
    BY <2>2, StoppedOverOrRevoked DEF Stopped
  <2> QED
    BY <2>1, <2>2
<1>2. Spec => []RenewalInv
  BY InitRenewal, RenewalStep, PTL DEF Spec
<1> QED
  BY <1>1, <1>2, PTL DEF Spec, ServedUntilOver

=============================================================================
