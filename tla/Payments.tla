------------------------------ MODULE Payments ------------------------------
(***************************************************************************)
(* Credit packs and their invoices.  A buyer opens an order, the payment   *)
(* service takes the money or refuses it, and says so twice: through the   *)
(* browser, which calls /verify with a signed answer, and through the      *)
(* webhook, whose events come late, twice and in any order and are sent    *)
(* again until they are acknowledged.  Either call may grant the credits;  *)
(* the invoice is issued after that, on its own, or by an admin.           *)
(*                                                                         *)
(* One action is one statement or what a transaction does between two      *)
(* waits for a row lock.  Renewals of unlimited plans, which share the     *)
(* webhook, are in PlanRenewals.                                           *)
(***************************************************************************)
EXTENDS Naturals, FiniteSets

CONSTANTS
    Orders,       \* orders of credit packs
    NoOrder,
    Users,
    Buyer,        \* user of an order
    Attributed,   \* users who signed up through a campaign with a bonus
    Calls,        \* requests that are served at one time
    MaxNumbers,   \* bound: invoice numbers handed out
    MaxTroubles   \* bound: statements that fail

ASSUME PaymentsAssumption ==
    /\ NoOrder \notin Orders
    /\ Buyer \in [Orders -> Users]
    /\ Attributed \subseteq Users
    /\ MaxNumbers \in Nat /\ MaxTroubles \in Nat

VARIABLES
    status,    \* payments.status, "none" before the row
    granted,   \* PAYMENT entries of the ledger, by the order they were for
    bonus,     \* CAMPAIGN_BONUS entries of the ledger
    tier,      \* users.tier, as the order whose plan it is
    events,    \* what the payment service has sent to the webhook
    acked,     \* captured orders whose event was answered with 200
    call,      \* /verify and payment.captured in progress
    next,      \* invoice_sequences.next_number
    desk,      \* issueInvoiceIfNeeded in progress
    file,      \* number printed on the stored PDF of an order, 0 for no PDF
    invoice,   \* invoices.invoice_number of an order, 0 for no row
    troubles   \* statements that have failed

ledgerVars  == <<granted, bonus, tier>>
gateVars    == <<events, acked>>
invoiceVars == <<next, desk, file, invoice>>
vars == <<status, ledgerVars, gateVars, call, invoiceVars, troubles>>

-----------------------------------------------------------------------------
Statuses == {"none", "created", "paid", "failed"}

\* "loaded": the row was read, "claimed": the order's row is locked,
\* "credited": the buyer's row of user_credits is locked too.
CallStates == {"idle", "loaded", "claimed", "credited"}

NoCall == [at |-> "idle", kind |-> "verify", order |-> NoOrder, first |-> FALSE]

\* The purchase that issues after the grant, and the admin who asks for it.
Desks == {"receipt", "admin"}

DeskStates == {"none", "check", "number", "put", "insert"}

NoDesk == [at |-> "none", number |-> 0]

Captured(o)   == <<"captured", o>> \in events
RowLocked(o)  == \E c \in Calls :
                     call[c].order = o /\ call[c].at \in {"claimed", "credited"}
UserLocked(u) == \E c \in Calls :
                     call[c].at = "credited" /\ Buyer[call[c].order] = u

\* SELECT of another paid payment of the user: committed rows only.
PriorPaid(o) ==
    \E p \in Orders \ {o} : Buyer[p] = Buyer[o] /\ status[p] = "paid"

Init ==
    /\ status  = [o \in Orders |-> "none"]
    /\ granted = [o \in Orders |-> 0]
    /\ bonus   = [u \in Users |-> 0]
    /\ tier    = [u \in Users |-> NoOrder]
    /\ events = {} /\ acked = {}
    /\ call    = [c \in Calls |-> NoCall]
    /\ next    = 1
    /\ desk    = [d \in Orders \X Desks |-> NoDesk]
    /\ file    = [o \in Orders |-> 0]
    /\ invoice = [o \in Orders |-> 0]
    /\ troubles = 0

-----------------------------------------------------------------------------
(* The buyer and the payment service *)

\* POST /v1/payments/orders.
Open(o) ==
    /\ status[o] = "none"
    /\ status' = [status EXCEPT ![o] = "created"]
    /\ UNCHANGED <<ledgerVars, gateVars, call, invoiceVars, troubles>>

\* An attempt to pay is refused; the buyer may try again on the same order.
Refused(o) ==
    /\ status[o] # "none" /\ ~Captured(o)
    /\ events' = events \cup {<<"failed", o>>}
    /\ UNCHANGED <<status, ledgerVars, acked, call, invoiceVars, troubles>>

Capture(o) ==
    /\ status[o] # "none"
    /\ events' = events \cup {<<"captured", o>>}
    /\ UNCHANGED <<status, ledgerVars, acked, call, invoiceVars, troubles>>

-----------------------------------------------------------------------------
(* /verify and payment.captured *)

\* What the caller is answered when there was no error.
Answered(c) ==
    LET o == call[c].order IN
    /\ acked' = IF call[c].kind = "webhook" THEN acked \cup {o} ELSE acked
    /\ call'  = [call EXCEPT ![c] = NoCall]
    /\ UNCHANGED events

\* The row is read before the transaction.
Load(c, k, o) ==
    /\ call[c].at = "idle" /\ Captured(o) /\ status[o] # "paid"
    /\ call' = [call EXCEPT ![c] =
                   [at |-> "loaded", kind |-> k, order |-> o, first |-> FALSE]]
    /\ UNCHANGED <<status, ledgerVars, gateVars, invoiceVars, troubles>>

\* The row read was paid already: answered without a transaction.
AckPaid(o) ==
    /\ Captured(o) /\ status[o] = "paid"
    /\ acked' = acked \cup {o}
    /\ UNCHANGED <<events, status, ledgerVars, call, invoiceVars, troubles>>

\* Mutant: the UPDATE has no condition on the status.
ClaimsAny(o) == TRUE

\* UPDATE ... WHERE status = 'created' waits for the row, then looks again.
Claims(o) == status[o] = "created"

Claim(c) ==
    LET o == call[c].order IN
    /\ call[c].at = "loaded" /\ ~RowLocked(o)
    /\ IF Claims(o)
       THEN /\ call' = [call EXCEPT ![c].at = "claimed"]
            /\ UNCHANGED gateVars
       ELSE Answered(c)
    /\ UNCHANGED <<status, ledgerVars, invoiceVars, troubles>>

\* Mutant: the question is asked before the buyer's row is locked.
CreditNeverWaits(o) == FALSE

\* grantPurchaseCredits: the upsert of user_credits locks the buyer's row,
\* and the question whether this is the first purchase is asked after it.
CreditWaits(o) == UserLocked(Buyer[o])

Credit(c) ==
    LET o == call[c].order IN
    /\ call[c].at = "claimed" /\ ~CreditWaits(o)
    /\ call' = [call EXCEPT ![c].at = "credited",
                            ![c].first = Buyer[o] \in Attributed /\ ~PriorPaid(o)]
    /\ UNCHANGED <<status, ledgerVars, gateVars, invoiceVars, troubles>>

\* The commit, the answer, and the receipt that is left to itself.
Commit(c) ==
    LET o == call[c].order
        u == Buyer[o] IN
    /\ call[c].at = "credited"
    /\ status'  = [status EXCEPT ![o] = "paid"]
    /\ granted' = [granted EXCEPT ![o] = @ + 1]
    /\ bonus'   = [bonus EXCEPT ![u] = @ + (IF call[c].first THEN 1 ELSE 0)]
    /\ tier'    = [tier EXCEPT ![u] = o]
    /\ Answered(c)
    /\ desk'    = [desk EXCEPT ![<<o, "receipt">>].at = "check"]
    /\ UNCHANGED <<next, file, invoice, troubles>>

\* Mutant: the webhook answers 200 whatever happened.
UnansweredAcks(c) == Answered(c)

\* A statement fails or the process stops: nothing is committed, and the
\* answer is not 200.
Unanswered(c) ==
    /\ call' = [call EXCEPT ![c] = NoCall]
    /\ UNCHANGED gateVars

Abort(c) ==
    /\ call[c].at # "idle" /\ troubles < MaxTroubles
    /\ troubles' = troubles + 1
    /\ Unanswered(c)
    /\ UNCHANGED <<status, ledgerVars, invoiceVars>>

-----------------------------------------------------------------------------
(* payment.failed *)

FailsFrom(o) == status[o] = "created"

Fail(o) ==
    /\ <<"failed", o>> \in events /\ ~RowLocked(o) /\ FailsFrom(o)
    /\ status' = [status EXCEPT ![o] = "failed"]
    /\ UNCHANGED <<ledgerVars, gateVars, call, invoiceVars, troubles>>

-----------------------------------------------------------------------------
(* issueInvoiceIfNeeded *)

\* The row of the invoice, then that of the payment, neither of which is
\* ever taken back.
Needed(o) == invoice[o] = 0 /\ status[o] = "paid"

Check(o) ==
    /\ desk[<<o, "receipt">>].at = "check"
    /\ desk' = [desk EXCEPT ![<<o, "receipt">>] =
                   IF Needed(o) THEN [@ EXCEPT !.at = "number"] ELSE NoDesk]
    /\ UNCHANGED <<status, ledgerVars, gateVars, call, next, file, invoice, troubles>>

\* POST /admin/payments/:id/generate-invoice, when it has to issue one.
AdminIssue(o) ==
    /\ desk[<<o, "admin">>].at = "none" /\ Needed(o)
    /\ desk' = [desk EXCEPT ![<<o, "admin">>].at = "number"]
    /\ UNCHANGED <<status, ledgerVars, gateVars, call, next, file, invoice, troubles>>

\* Mutant: one more than there are invoices.
NumberOfRows == 1 + Cardinality({o \in Orders : invoice[o] # 0})

\* allocateInvoiceNumber: one upsert.
NextNumber == next

Allocate(o, d) ==
    /\ desk[<<o, d>>].at = "number" /\ next <= MaxNumbers
    /\ desk' = [desk EXCEPT ![<<o, d>>] = [at |-> "put", number |-> NextNumber]]
    /\ next' = next + 1
    /\ UNCHANGED <<status, ledgerVars, gateVars, call, file, invoice, troubles>>

\* renderInvoicePdf and putObject: the key is that of the payment.
Put(o, d) ==
    /\ desk[<<o, d>>].at = "put"
    /\ file' = [file EXCEPT ![o] = desk[<<o, d>>].number]
    /\ desk' = [desk EXCEPT ![<<o, d>>].at = "insert"]
    /\ UNCHANGED <<status, ledgerVars, gateVars, call, next, invoice, troubles>>

\* INSERT ... ON CONFLICT (payment_id) DO NOTHING.
Inserted(o, n) == IF invoice[o] = 0 THEN n ELSE invoice[o]

Insert(o, d) ==
    /\ desk[<<o, d>>].at = "insert"
    /\ invoice' = [invoice EXCEPT ![o] = Inserted(o, desk[<<o, d>>].number)]
    /\ desk' = [desk EXCEPT ![<<o, d>>] = NoDesk]
    /\ UNCHANGED <<status, ledgerVars, gateVars, call, next, file, troubles>>

\* Any of them fails or the process stops: caught, logged, not repeated.
IssueFails(o, d) ==
    /\ desk[<<o, d>>].at # "none" /\ troubles < MaxTroubles
    /\ troubles' = troubles + 1
    /\ desk' = [desk EXCEPT ![<<o, d>>] = NoDesk]
    /\ UNCHANGED <<status, ledgerVars, gateVars, call, next, file, invoice>>

-----------------------------------------------------------------------------
Buying(o) == Open(o) \/ Refused(o) \/ Capture(o) \/ Fail(o) \/ AckPaid(o)

Answering(c) ==
    \/ Claim(c) \/ Credit(c) \/ Commit(c) \/ Abort(c)
    \/ \E k \in {"verify", "webhook"}, o \in Orders : Load(c, k, o)

Issuing(o) ==
    \/ Check(o) \/ AdminIssue(o)
    \/ \E d \in Desks : Allocate(o, d) \/ Put(o, d) \/ Insert(o, d) \/ IssueFails(o, d)

Next ==
    \/ \E o \in Orders : Buying(o) \/ Issuing(o)
    \/ \E c \in Calls : Answering(c)

Spec == Init /\ [][Next]_vars

\* A call that was read goes on, and an event that was not acknowledged is
\* sent again until a call is free to take it.
Redelivered(o) ==
    /\ o \notin acked
    /\ AckPaid(o) \/ \E c \in Calls : Load(c, "webhook", o)

Fairness ==
    /\ \A c \in Calls : WF_vars(Claim(c)) /\ WF_vars(Credit(c)) /\ WF_vars(Commit(c))
    /\ \A o \in Orders : SF_vars(Redelivered(o))

FairSpec == Spec /\ Fairness

-----------------------------------------------------------------------------
(* Properties *)

PaymentsTypeOK ==
    /\ status  \in [Orders -> Statuses]
    /\ granted \in [Orders -> Nat]
    /\ bonus   \in [Users -> Nat]
    /\ tier    \in [Users -> Orders \cup {NoOrder}]
    /\ events  \subseteq {"failed", "captured"} \X Orders
    /\ acked  \subseteq Orders
    /\ call    \in [Calls -> [at : CallStates, kind : {"verify", "webhook"},
                              order : Orders \cup {NoOrder}, first : BOOLEAN]]
    /\ next    \in 1 .. MaxNumbers + 1
    /\ desk    \in [Orders \X Desks -> [at : DeskStates, number : 0 .. MaxNumbers]]
    /\ file    \in [Orders -> 0 .. MaxNumbers]
    /\ invoice \in [Orders -> 0 .. MaxNumbers]
    /\ troubles \in 0 .. MaxTroubles

\* The ledger and the orders agree: an order that is paid was credited once,
\* whoever of /verify, the webhook and their repetitions came first, and one
\* that is not was not credited, also when its failure is reported after its
\* success (routes.ts:318, :452, :505).
CreditedOnce ==
    \A o \in Orders : granted[o] = IF status[o] = "paid" THEN 1 ELSE 0

\* The campaign bonus is for the first purchase: a user has it once when a
\* purchase of theirs is paid, also when two are granted at the same time
\* and neither sees the other's row (routes.ts:107-118).
BonusForFirst ==
    \A u \in Users :
        bonus[u] = IF u \in Attributed /\ \E o \in Orders : Buyer[o] = u /\ status[o] = "paid"
                   THEN 1 ELSE 0

\* A number is on the papers of one payment only, whichever of the two that
\* issue got it and however far they came (issue-invoice.ts:19-32, :84-106).
NumberOfOnePayment ==
    \A o, p \in Orders : o # p =>
        {invoice[o], file[o]} \cap {invoice[p], file[p]} \subseteq {0}

\* The history links to the stored PDF of every invoice row
\* (issue-invoice.ts:104-111, routes.ts:182).
InvoiceHasFile == \A o \in Orders : invoice[o] # 0 => file[o] # 0

\* Money that was taken does not stay unsettled: the order leaves 'created'
\* for good, although calls fail and the browser may never come back.  It is
\* then paid, or a failure of an earlier attempt was recorded before.
CaptureIsSettled ==
    <>[](\A o \in Orders : Captured(o) => status[o] # "created")

\* "if updated.length === 0, another call already claimed it": when /verify
\* answers without an error, the order is credited (routes.ts:312, :338, :351).
AnsweredIsCredited ==
    [][\A c \in Calls :
          call[c].kind = "verify" /\ call[c].at # "idle" /\ call'[c].at = "idle"
              /\ troubles' = troubles
          => status'[call[c].order] = "paid"]_vars
=============================================================================
