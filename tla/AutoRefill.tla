----------------------------- MODULE AutoRefill -----------------------------
(***************************************************************************)
(* Automatic refills of one Shopify store.  The merchant approves a        *)
(* subscription with a monthly ceiling; when the balance is low a refill   *)
(* charges it and grants credits.  Refills start from every try-on and     *)
(* from an hourly sweep; a charge whose answer was lost leaves its row     *)
(* PENDING, which stops all refills until the reconciler has replayed the  *)
(* charge under the same key.  Meanwhile the merchant enrols again, raises *)
(* the ceiling or leaves, and what Shopify says of a subscription is       *)
(* written by three routes that do not look at the row again.              *)
(*                                                                         *)
(* Shopify is as the code takes it to be: a repeated key returns the first *)
(* record, and a subscription that is not active refuses a new charge.     *)
(***************************************************************************)
EXTENDS Naturals, FiniteSets

CONSTANTS
    Rows,      \* rows of shopify_credit_purchases with source 'autorefill'
    NoRow,
    Calls,     \* runRefill and reconcileStalePurchase in progress
    MaxSubs,   \* bound: subscriptions created, numbered from 1
    MaxDips,   \* bound: times the balance becomes low
    MaxLost    \* bound: answers of Shopify that are lost, and crashes

ASSUME AutoRefillAssumption ==
    NoRow \notin Rows /\ MaxSubs \in Nat /\ MaxDips \in Nat /\ MaxLost \in Nat

VARIABLES
    sub,      \* autorefill_subscription_id and line item of the store, 0 for none
    status,   \* autorefill_status
    approval, \* what Shopify has of each subscription
    created,  \* subscriptions created
    low,      \* balance <= trigger
    dips,     \* times it became low
    row,      \* status of a purchase row, "none" before it
    landed,   \* idempotency keys under which Shopify has charged
    call,
    seen,     \* a status read for the store and not written yet
    lost      \* answers lost

storeVars   == <<sub, status>>
shopifyVars == <<approval, created, landed>>
moneyVars   == <<low, dips, row>>
vars == <<storeVars, shopifyVars, moneyVars, call, seen, lost>>

-----------------------------------------------------------------------------
Subs == 1 .. MaxSubs

\* DECLINED and CANCELLED are told apart on the merchant's page only.
StoreStatuses == {"off", "PENDING", "ACTIVE", "CAP_REACHED", "ENDED"}

\* "gated": past the check before the lock, "listed": taken up by a sweep of
\* the reconciler; the advisory lock is held while "charging" and "answered".
CallStates == {"idle", "gated", "listed", "charging", "answered"}
Answers    == {"none", "ok", "cap", "refused"}

\* key: what the charge is sent with; item: the line item it is sent for.
Keys   == Rows \X {"first", "again"}
NoKey  == <<NoRow, "first">>
NoCall == [at |-> "idle", row |-> NoRow, item |-> 0, low |-> FALSE,
           key |-> NoKey, answer |-> "none"]

Locked  == \E c \in Calls : call[c].at \in {"charging", "answered"}
Pending == {r \in Rows : row[r] = "PENDING"}
Unused  == {r \in Rows : row[r] = "none"}

Init ==
    /\ sub = 0 /\ status = "off"
    /\ approval = [s \in Subs |-> "none"]
    /\ created = 0
    /\ low = FALSE /\ dips = 0
    /\ row = [r \in Rows |-> "none"]
    /\ landed = {}
    /\ call = [c \in Calls |-> NoCall]
    /\ seen = "none"
    /\ lost = 0

-----------------------------------------------------------------------------
(* The merchant and Shopify *)

Elsewhere == UNCHANGED <<moneyVars, landed, call, seen, lost>>

\* cancelSubscription, which may throw and is then logged and ignored.
Cancelled(s, new, works) ==
    [t \in Subs |-> IF t = new THEN "pending"
                    ELSE IF t = s /\ works THEN "ended" ELSE approval[t]]

\* enrolAutorefill: an old subscription that the store takes for live is
\* cancelled before the new one is created.
Enrol ==
    /\ created < MaxSubs
    /\ created' = created + 1
    /\ \E works \in BOOLEAN :
          /\ works => status \in {"PENDING", "ACTIVE", "CAP_REACHED"}
          /\ approval' = Cancelled(sub, created + 1, works)
    /\ sub' = created + 1
    /\ status' = "PENDING"
    /\ Elsewhere

\* disableAutorefill, and app_uninstalled, where Shopify does the cancelling.
Disable ==
    /\ sub # 0
    /\ \E works \in BOOLEAN : approval' = Cancelled(sub, 0, works)
    /\ sub' = 0
    /\ status' = "off"
    /\ UNCHANGED created
    /\ Elsewhere

\* raiseCap: the new ceiling waits for the merchant.
RaiseCap ==
    /\ sub # 0
    /\ status' = "PENDING"
    /\ UNCHANGED <<sub, approval, created>>
    /\ Elsewhere

\* The merchant approves or declines on Shopify's page, or cancels there.
Decide(s, outcome) ==
    /\ approval[s] = "pending" \/ (approval[s] = "active" /\ outcome = "ended")
    /\ approval' = [approval EXCEPT ![s] = outcome]
    /\ UNCHANGED <<storeVars, created>>
    /\ Elsewhere

\* A try-on is paid for.
Spend ==
    /\ ~low /\ dips < MaxDips
    /\ low' = TRUE /\ dips' = dips + 1
    /\ UNCHANGED <<storeVars, shopifyVars, row, call, seen, lost>>

\* A pack is bought by hand, or an admin grants credits.
TopUp ==
    /\ low /\ low' = FALSE
    /\ UNCHANGED <<storeVars, shopifyVars, dips, row, call, seen, lost>>

-----------------------------------------------------------------------------
(* What Shopify says of the subscription *)

\* mapSubscriptionStatus.
Mapped(s) == IF approval[s] = "active" THEN "ACTIVE" ELSE "ENDED"

\* confirmAutorefill and app_subscriptions_update are about to write what
\* Shopify said.
Fetch ==
    /\ seen = "none" /\ sub # 0
    /\ seen' = Mapped(sub)
    /\ UNCHANGED <<storeVars, shopifyVars, moneyVars, call, lost>>

\* refreshAutorefillState keeps a status that Shopify does not contradict,
\* and brings a store back from its ceiling when there is room again.
Refresh ==
    /\ seen = "none" /\ sub # 0
    /\ Mapped(sub) = "ENDED" \/ status = "CAP_REACHED"
    /\ seen' = Mapped(sub)
    /\ UNCHANGED <<storeVars, shopifyVars, moneyVars, call, lost>>

\* The row is written by its id, whatever it holds by now.
WriteSeen ==
    /\ seen # "none"
    /\ status' = seen
    /\ seen' = "none"
    /\ UNCHANGED <<sub, shopifyVars, moneyVars, call, lost>>

-----------------------------------------------------------------------------
(* runRefill *)

\* The check on the row that the caller has in its hands.
Gate(c) ==
    /\ call[c].at = "idle" /\ sub # 0 /\ status = "ACTIVE"
    /\ call' = [call EXCEPT ![c].at = "gated", ![c].low = low]
    /\ UNCHANGED <<storeVars, shopifyVars, moneyVars, seen, lost>>

\* Mutant: the balance is the one read before the lock.
RefillAsGated(c) == call[c].low /\ status = "ACTIVE" /\ sub # 0
\* shouldRefill, on the row read again under the lock.
ShouldRefill(c) == low /\ status = "ACTIVE" /\ sub # 0

\* The row is inserted unless another is in flight.
Begin(c) ==
    /\ call[c].at = "gated" /\ ~Locked /\ ShouldRefill(c) /\ Pending = {}
    /\ \E r \in Unused :
          /\ row' = [row EXCEPT ![r] = "PENDING"]
          /\ call' = [call EXCEPT ![c] = [at |-> "charging", row |-> r, item |-> sub,
                         low |-> FALSE, key |-> <<r, "first">>, answer |-> "none"]]
    /\ UNCHANGED <<storeVars, shopifyVars, low, dips, seen, lost>>

\* The lock is taken, the store is not due any more, or a row is in flight.
Skip(c) ==
    /\ call[c].at = "gated" /\ (Locked \/ ~ShouldRefill(c) \/ Pending # {})
    /\ call' = [call EXCEPT ![c] = NoCall]
    /\ UNCHANGED <<storeVars, shopifyVars, moneyVars, seen, lost>>

-----------------------------------------------------------------------------
(* The charge *)

\* Shopify has the key, or decides.
Charges(c, answer) ==
    LET key == call[c].key IN
    IF key \in landed THEN answer = "ok" /\ UNCHANGED landed
    ELSE IF approval[call[c].item] # "active" THEN answer = "refused" /\ UNCHANGED landed
    ELSE landed' = IF answer = "ok" THEN landed \cup {key} ELSE landed

\* createUsageRecord returns.
Charge(c, answer) ==
    /\ call[c].at = "charging"
    /\ Charges(c, answer)
    /\ call' = [call EXCEPT ![c].at = "answered", ![c].answer = answer]
    /\ UNCHANGED <<storeVars, approval, created, moneyVars, seen, lost>>

\* Mutant: a charge that threw is marked FAILED.
ThrownFailed(r) == [row EXCEPT ![r] = "FAILED"]
\* The row stays PENDING: the charge may have been made.
Thrown(r) == row

\* createUsageRecord throws, the connection with the lock is lost or the
\* process stops, before or after Shopify has charged.
Lose(c) ==
    /\ call[c].at = "charging" /\ lost < MaxLost
    /\ \E answer \in Answers \ {"none"} : Charges(c, answer)
    /\ row' = Thrown(call[c].row)
    /\ call' = [call EXCEPT ![c] = NoCall]
    /\ lost' = lost + 1
    /\ UNCHANGED <<storeVars, approval, created, low, dips, seen>>

\* The transaction after the answer; a balance that is low after a grant is
\* low anew.  The store's status is written by its id.
Granted(c) ==
    /\ call[c].answer = "ok"
    /\ row' = [row EXCEPT ![call[c].row] = "ACTIVE"]
    /\ \/ low' = FALSE /\ UNCHANGED dips
       \/ low /\ dips < MaxDips /\ dips' = dips + 1 /\ UNCHANGED low
    /\ UNCHANGED status

CapReached(c) ==
    /\ call[c].answer = "cap"
    /\ row' = [row EXCEPT ![call[c].row] = "FAILED"]
    /\ status' = "CAP_REACHED"
    /\ UNCHANGED <<low, dips>>

\* Mutant: the row is not released.
RefusedKept(c) ==
    /\ call[c].answer = "refused"
    /\ UNCHANGED <<row, low, dips, status>>

Refused(c) ==
    /\ call[c].answer = "refused"
    /\ row' = [row EXCEPT ![call[c].row] = "FAILED"]
    /\ UNCHANGED <<low, dips, status>>

Settle(c) ==
    /\ call[c].at = "answered"
    /\ Granted(c) \/ CapReached(c) \/ Refused(c)
    /\ call' = [call EXCEPT ![c] = NoCall]
    /\ UNCHANGED <<sub, shopifyVars, seen, lost>>

-----------------------------------------------------------------------------
(* reconcileStalePurchase *)

\* The sweep joins the row with its store; without a line item the charge
\* cannot be replayed and the row is left to a human.
List(c) ==
    /\ call[c].at = "idle" /\ sub # 0 /\ ~Locked
    /\ \E r \in Pending :
          call' = [call EXCEPT ![c] = [NoCall EXCEPT !.at = "listed", !.row = r, !.item = sub]]
    /\ UNCHANGED <<storeVars, shopifyVars, moneyVars, seen, lost>>

ReplayKey(r) == <<r, "first">>

\* The row is read again under the lock.
Replay(c) ==
    LET r == call[c].row IN
    /\ call[c].at = "listed"
    /\ call' = [call EXCEPT ![c] = IF Locked \/ row[r] # "PENDING" THEN NoCall
                                   ELSE [@ EXCEPT !.at = "charging", !.key = ReplayKey(r)]]
    /\ UNCHANGED <<storeVars, shopifyVars, moneyVars, seen, lost>>

-----------------------------------------------------------------------------
Merchant == Enrol \/ Disable \/ RaiseCap \/ Spend \/ TopUp
            \/ \E s \in Subs, outcome \in {"active", "ended"} : Decide(s, outcome)

Observing == Fetch \/ Refresh \/ WriteSeen

Answering(c) == \E answer \in Answers \ {"none"} : Charge(c, answer)

Proceeds(c) == Begin(c) \/ Skip(c) \/ Replay(c) \/ Answering(c) \/ Settle(c)

Next == \/ Merchant \/ Observing
        \/ \E c \in Calls : Gate(c) \/ List(c) \/ Proceeds(c) \/ Lose(c)

Spec == Init /\ [][Next]_vars

\* Calls go on, Shopify answers, and both sweeps come again.
Fairness ==
    /\ \A c \in Calls : WF_vars(Proceeds(c))
    /\ SF_vars(\E c \in Calls : List(c))
    /\ SF_vars(low /\ \E c \in Calls : Gate(c))

FairSpec == Spec /\ Fairness

-----------------------------------------------------------------------------
(* Properties *)

RefillTypeOK ==
    /\ sub \in 0 .. MaxSubs /\ status \in StoreStatuses
    /\ approval \in [Subs -> {"none", "pending", "active", "ended"}]
    /\ created \in 0 .. MaxSubs
    /\ low \in BOOLEAN /\ dips \in 0 .. MaxDips
    /\ row \in [Rows -> {"none", "PENDING", "ACTIVE", "FAILED"}]
    /\ landed \subseteq Keys
    /\ call \in [Calls -> [at : CallStates, row : Rows \cup {NoRow}, item : 0 .. MaxSubs,
                           low : BOOLEAN, key : Keys \cup {NoKey}, answer : Answers]]
    /\ seen \in {"none", "ACTIVE", "ENDED"}
    /\ lost \in 0 .. MaxLost

\* "A merchant being charged twice for one refill is the worst thing this
\* feature can do": there are never more charges than times the balance had
\* become low, with two callers at once, answers lost after the charge, and
\* replays (autorefill.ts:56-101).
OneChargePerDip == Cardinality(landed) <= dips

\* The books and Shopify agree: what was granted was charged, and what was
\* written off was not; a charge nobody knows of has its row PENDING
\* (autorefill.ts:195-220, autorefill-reconciler.ts:30-48).
BooksAgree ==
    \A r \in Rows : /\ row[r] = "ACTIVE" => <<r, "first">> \in landed
                    /\ row[r] \in {"none", "FAILED"} => <<r, "first">> \notin landed

\* A lost answer does not stop refills for good: as long as the store has a
\* line item its row is settled, and a low balance is refilled unless the
\* store is not ACTIVE, or refused until the rows of this instance are used
\* (autorefill-reconciler.ts:30-48, alert-scheduler.ts:150-155).
RefillsResume ==
    []<>(\/ sub = 0
         \/ Pending = {} /\ (low /\ status = "ACTIVE" => Unused = {}))

=============================================================================
