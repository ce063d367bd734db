--------------------------- MODULE PaymentsProofs ---------------------------
(***************************************************************************)
(* Proofs about Payments: for every set of orders, buyers and concurrent   *)
(* calls, and any number of failing statements.                            *)
(***************************************************************************)
EXTENDS Payments, TLAPS

-----------------------------------------------------------------------------
(* Types *)

\* The buyer, the payment service and the webhook's other events.
LEMMA BuyingType ==
  ASSUME PaymentsTypeOK, NEW o \in Orders, Buying(o)
  PROVE  PaymentsTypeOK'
<1>1. CASE Open(o)
  BY <1>1 DEF PaymentsTypeOK, Open, Statuses, ledgerVars, gateVars, invoiceVars
<1>2. CASE Refused(o)
  BY <1>2 DEF PaymentsTypeOK, Refused, ledgerVars, invoiceVars
<1>3. CASE Capture(o)
  BY <1>3 DEF PaymentsTypeOK, Capture, ledgerVars, invoiceVars
<1>4. CASE Fail(o)
  BY <1>4 DEF PaymentsTypeOK, Fail, Statuses, ledgerVars, gateVars, invoiceVars
<1>5. CASE AckPaid(o)
  BY <1>5 DEF PaymentsTypeOK, AckPaid, ledgerVars, invoiceVars
<1> QED
  BY <1>1, <1>2, <1>3, <1>4, <1>5 DEF Buying

\* A call in progress is about an order.
CallsHaveOrders == \A c \in Calls : call[c].at # "idle" => call[c].order \in Orders

\* Every step of a call keeps the types, and that.
LEMMA AnsweringType ==
  ASSUME PaymentsTypeOK, CallsHaveOrders, NEW c \in Calls, Answering(c)
  PROVE  PaymentsTypeOK' /\ CallsHaveOrders'
<1>0. NoCall \in [at : CallStates, kind : {"verify", "webhook"},
                  order : Orders \cup {NoOrder}, first : BOOLEAN]
  BY DEF NoCall, CallStates
<1>1. CASE Claim(c)
  <2>1. call[c].order \in Orders
    BY <1>1 DEF Claim, CallsHaveOrders
  <2>2. /\ status' = status /\ granted' = granted /\ bonus' = bonus /\ tier' = tier
        /\ next' = next /\ desk' = desk /\ file' = file /\ invoice' = invoice
        /\ troubles' = troubles
    BY <1>1 DEF Claim, ledgerVars, invoiceVars
  <2>3. /\ events' = events /\ acked' \subseteq Orders
        /\ \/ call' = [call EXCEPT ![c].at = "claimed"]
           \/ call' = [call EXCEPT ![c] = NoCall]
    BY <1>1, <2>1 DEF PaymentsTypeOK, Claim, Answered, gateVars
  <2>4. /\ call' \in [Calls -> [at : CallStates, kind : {"verify", "webhook"},
                                order : Orders \cup {NoOrder}, first : BOOLEAN]]
        /\ CallsHaveOrders'
    <3>1. CASE call' = [call EXCEPT ![c].at = "claimed"]
      BY <3>1, <2>1 DEF PaymentsTypeOK, CallsHaveOrders, CallStates
    <3>2. CASE call' = [call EXCEPT ![c] = NoCall]
      BY <3>2, <1>0 DEF PaymentsTypeOK, CallsHaveOrders, NoCall
    <3> QED
      BY <2>3, <3>1, <3>2
  <2> QED
    BY <2>2, <2>3, <2>4 DEF PaymentsTypeOK
<1>2. CASE Credit(c)
  <2>1. call[c].order \in Orders
    BY <1>2 DEF Credit, CallsHaveOrders
  <2>2. (Buyer[call[c].order] \in Attributed /\ ~PriorPaid(call[c].order)) \in BOOLEAN
    OBVIOUS
  <2>3. PICK first \in BOOLEAN :
          call' = [call EXCEPT ![c].at = "credited", ![c].first = first]
    BY <1>2, <2>2, Zenon DEF Credit
  <2>4. /\ call' \in [Calls -> [at : CallStates, kind : {"verify", "webhook"},
                                order : Orders \cup {NoOrder}, first : BOOLEAN]]
        /\ CallsHaveOrders'
    <3> DEFINE x == [call[c] EXCEPT !.at = "credited", !.first = first]
    <3>1. call[c] \in [at : CallStates, kind : {"verify", "webhook"},
                       order : Orders \cup {NoOrder}, first : BOOLEAN]
      BY DEF PaymentsTypeOK
    <3>2. /\ x \in [at : CallStates, kind : {"verify", "webhook"},
                    order : Orders \cup {NoOrder}, first : BOOLEAN]
          /\ x.order = call[c].order
      BY <3>1, <2>3 DEF CallStates
    <3>3. call' = [call EXCEPT ![c] = x]
      BY <2>3
    <3> HIDE DEF x
    <3> QED
      BY <2>1, <3>2, <3>3 DEF PaymentsTypeOK, CallsHaveOrders
  <2> QED
    BY <1>2, <2>4 DEF PaymentsTypeOK, Credit, ledgerVars, gateVars, invoiceVars
<1>3. CASE Commit(c)
  <2>1. call[c].order \in Orders /\ Buyer[call[c].order] \in Users
    BY <1>3, PaymentsAssumption DEF Commit, CallsHaveOrders
  <2>2. /\ status' \in [Orders -> Statuses]
        /\ granted' \in [Orders -> Nat]
        /\ bonus' \in [Users -> Nat]
        /\ tier' \in [Users -> Orders \cup {NoOrder}]
    BY <1>3, <2>1 DEF PaymentsTypeOK, Commit, Statuses
  <2>3. /\ events' = events /\ acked' \subseteq Orders
        /\ call' \in [Calls -> [at : CallStates, kind : {"verify", "webhook"},
                                order : Orders \cup {NoOrder}, first : BOOLEAN]]
        /\ CallsHaveOrders'
    BY <1>3, <1>0, <2>1 DEF PaymentsTypeOK, CallsHaveOrders, Commit, Answered, NoCall
  <2>4. desk' \in [Orders \X Desks -> [at : DeskStates, number : 0 .. MaxNumbers]]
    BY <1>3, <2>1 DEF PaymentsTypeOK, Commit, Desks, DeskStates
  <2> QED
    BY <1>3, <2>2, <2>3, <2>4 DEF PaymentsTypeOK, Commit
<1>4. CASE Abort(c)
  BY <1>4, <1>0, PaymentsAssumption
     DEF PaymentsTypeOK, CallsHaveOrders, Abort, Unanswered, NoCall,
         ledgerVars, gateVars, invoiceVars
<1>5. ASSUME NEW k \in {"verify", "webhook"}, NEW o \in Orders, Load(c, k, o)
      PROVE  PaymentsTypeOK' /\ CallsHaveOrders'
  BY <1>5 DEF PaymentsTypeOK, CallsHaveOrders, Load, CallStates,
              ledgerVars, gateVars, invoiceVars
<1> QED
  BY <1>1, <1>2, <1>3, <1>4, <1>5 DEF Answering

\* The steps of the two who issue an invoice.
LEMMA IssuingType ==
  ASSUME PaymentsTypeOK, NEW o \in Orders, Issuing(o)
  PROVE  PaymentsTypeOK'
<1>0. NoDesk \in [at : DeskStates, number : 0 .. MaxNumbers]
  BY PaymentsAssumption DEF NoDesk, DeskStates
<1>1. CASE Check(o)
  BY <1>1, <1>0 DEF PaymentsTypeOK, Check, Desks, DeskStates, ledgerVars, gateVars
<1>2. CASE AdminIssue(o)
  BY <1>2 DEF PaymentsTypeOK, AdminIssue, Desks, DeskStates, ledgerVars, gateVars
<1>3. ASSUME NEW d \in Desks, Allocate(o, d) PROVE PaymentsTypeOK'
  BY <1>3, PaymentsAssumption
     DEF PaymentsTypeOK, Allocate, NextNumber, DeskStates, ledgerVars, gateVars
<1>4. ASSUME NEW d \in Desks, Put(o, d) PROVE PaymentsTypeOK'
  BY <1>4 DEF PaymentsTypeOK, Put, DeskStates, ledgerVars, gateVars
<1>5. ASSUME NEW d \in Desks, Insert(o, d) PROVE PaymentsTypeOK'
  BY <1>5, <1>0 DEF PaymentsTypeOK, Insert, Inserted, ledgerVars, gateVars
<1>6. ASSUME NEW d \in Desks, IssueFails(o, d) PROVE PaymentsTypeOK'
  BY <1>6, <1>0, PaymentsAssumption DEF PaymentsTypeOK, IssueFails, ledgerVars, gateVars
<1> QED
  BY <1>1, <1>2, <1>3, <1>4, <1>5, <1>6 DEF Issuing

-----------------------------------------------------------------------------
(* The row locks *)

Holding(c)  == call[c].at \in {"claimed", "credited"}
Crediting(c) == call[c].at = "credited"

\* An order is held by one call, and so is a buyer.
RowsExclude ==
    \A c, d \in Calls : Holding(c) /\ Holding(d) /\ call[c].order = call[d].order => c = d

BuyersExclude ==
    \A c, d \in Calls :
        Crediting(c) /\ Crediting(d) /\ Buyer[call[c].order] = Buyer[call[d].order] => c = d

\* What a call has locked is as it found it.
HeldIsCreated == \A c \in Calls : Holding(c) => status[call[c].order] = "created"

\* The answer to "is this the first purchase" still holds while the buyer is locked.
FirstOf(c) ==
    call[c].first <=> Buyer[call[c].order] \in Attributed /\ ~PriorPaid(call[c].order)

FirstIsTrue == \A c \in Calls : Crediting(c) => FirstOf(c)

LockInv == RowsExclude /\ BuyersExclude /\ HeldIsCreated /\ FirstIsTrue

LedgerInv == /\ PaymentsTypeOK /\ CallsHaveOrders
             /\ LockInv /\ CreditedOnce /\ BonusForFirst

LEMMA InitLedger == Init => LedgerInv
<1> SUFFICES ASSUME Init PROVE LedgerInv
  OBVIOUS
<1>1. PaymentsTypeOK
  BY PaymentsAssumption
     DEF Init, PaymentsTypeOK, Statuses, NoCall, CallStates, NoDesk, DeskStates
<1>2. CallsHaveOrders /\ LockInv
  BY DEF Init, NoCall, CallsHaveOrders, LockInv, RowsExclude, BuyersExclude,
         HeldIsCreated, FirstIsTrue, FirstOf, Holding, Crediting
<1>3. CreditedOnce /\ BonusForFirst
  BY DEF Init, CreditedOnce, BonusForFirst
<1> QED
  BY <1>1, <1>2, <1>3 DEF LedgerInv

\* A step that leaves the orders, the ledger and the calls alone.
LEMMA LedgerAlone ==
  ASSUME LedgerInv, PaymentsTypeOK', UNCHANGED <<status, granted, bonus, call>>
  PROVE  LedgerInv'
<1>1. CallsHaveOrders' /\ CreditedOnce' /\ BonusForFirst'
  BY DEF LedgerInv, CallsHaveOrders, CreditedOnce, BonusForFirst
<1>2. LockInv'
  BY DEF LedgerInv, LockInv, RowsExclude, BuyersExclude, HeldIsCreated, FirstIsTrue, FirstOf,
         Holding, Crediting, PriorPaid
<1> QED
  BY <1>1, <1>2 DEF LedgerInv

\* An order that no call holds changes its status, and is not paid before or after.
LEMMA LedgerUnpaid ==
  ASSUME LedgerInv, PaymentsTypeOK', NEW o \in Orders, NEW s \in Statuses,
         status' = [status EXCEPT ![o] = s], s # "paid", status[o] # "paid",
         \A c \in Calls : Holding(c) => call[c].order # o,
         UNCHANGED <<granted, bonus, call>>
  PROVE  LedgerInv'
<1>1. /\ status \in [Orders -> Statuses] /\ Buyer \in [Orders -> Users]
      /\ \A p \in Orders : status'[p] = "paid" <=> status[p] = "paid"
  BY PaymentsAssumption DEF LedgerInv, PaymentsTypeOK
<1>2. CallsHaveOrders' /\ CreditedOnce' /\ BonusForFirst'
  BY <1>1 DEF LedgerInv, CallsHaveOrders, CreditedOnce, BonusForFirst
<1>3. RowsExclude' /\ BuyersExclude'
  BY DEF LedgerInv, LockInv, RowsExclude, BuyersExclude, Holding, Crediting
<1>4. HeldIsCreated'
  BY <1>1 DEF LedgerInv, LockInv, HeldIsCreated, Holding, CallsHaveOrders
<1>5. \A p : PriorPaid(p)' <=> PriorPaid(p)
  BY <1>1 DEF PriorPaid
<1>6. FirstIsTrue'
  BY <1>5 DEF LedgerInv, LockInv, FirstIsTrue, FirstOf, Crediting
<1> QED
  BY <1>2, <1>3, <1>4, <1>6 DEF LedgerInv, LockInv

\* A call that is not on the way to a commit takes or gives up its place.
LEMMA LedgerUnheld ==
  ASSUME LedgerInv, PaymentsTypeOK', CallsHaveOrders', NEW c \in Calls, NEW x,
         call' = [call EXCEPT ![c] = x], x.at \notin {"claimed", "credited"},
         UNCHANGED <<status, granted, bonus>>
  PROVE  LedgerInv'
<1>1. \A d \in Calls : /\ d # c => call'[d] = call[d]
                       /\ d = c => call'[d] = x
  BY DEF LedgerInv, PaymentsTypeOK
<1>2. CreditedOnce' /\ BonusForFirst'
  BY DEF LedgerInv, CreditedOnce, BonusForFirst
<1>3. \A d \in Calls : /\ Holding(d)' => d # c /\ Holding(d)
                       /\ Crediting(d)' => d # c /\ Crediting(d)
  BY <1>1 DEF Holding, Crediting
<1>4. RowsExclude' /\ BuyersExclude' /\ HeldIsCreated'
  BY <1>1, <1>3 DEF LedgerInv, LockInv, RowsExclude, BuyersExclude, HeldIsCreated
<1>5. \A p : PriorPaid(p)' <=> PriorPaid(p)
  BY DEF PriorPaid
<1>6. FirstIsTrue'
  BY <1>1, <1>3, <1>5 DEF LedgerInv, LockInv, FirstIsTrue, FirstOf
<1> QED
  BY <1>2, <1>4, <1>6 DEF LedgerInv, LockInv

\* The order's row is locked and found in 'created'.
LEMMA LedgerClaim ==
  ASSUME LedgerInv, PaymentsTypeOK', CallsHaveOrders', NEW c \in Calls, Claim(c)
  PROVE  LedgerInv'
<1> DEFINE o == call[c].order
<1>1. UNCHANGED <<status, granted, bonus>> /\ call[c].at = "loaded" /\ ~RowLocked(o)
  BY DEF Claim, ledgerVars
<1>2. CASE ~Claims(o)
  <2>1. call' = [call EXCEPT ![c] = NoCall]
    BY <1>2 DEF Claim, Answered
  <2> QED
    BY <1>1, <2>1, LedgerUnheld DEF NoCall
<1>3. CASE Claims(o)
  <2>1. call' = [call EXCEPT ![c].at = "claimed"]
    BY <1>3 DEF Claim
  <2>2. \A d \in Calls : /\ call'[d].order = call[d].order /\ call'[d].first = call[d].first
                         /\ d # c => call'[d] = call[d]
                         /\ d = c => call'[d].at = "claimed"
    BY <2>1 DEF LedgerInv, PaymentsTypeOK
  <2>3. \A d \in Calls : /\ Holding(d)' <=> d = c \/ Holding(d)
                         /\ Crediting(d)' <=> Crediting(d)
                         /\ Holding(d) => call[d].order # o
    BY <1>1, <2>2 DEF Holding, Crediting, RowLocked
  <2>4. CreditedOnce' /\ BonusForFirst'
    BY <1>1 DEF LedgerInv, CreditedOnce, BonusForFirst
  <2>5. RowsExclude' /\ BuyersExclude'
    BY <2>2, <2>3 DEF LedgerInv, LockInv, RowsExclude, BuyersExclude
  <2>6. HeldIsCreated'
    BY <1>1, <1>3, <2>2, <2>3 DEF LedgerInv, LockInv, HeldIsCreated, Claims
  <2>7. \A p : PriorPaid(p)' <=> PriorPaid(p)
    BY <1>1 DEF PriorPaid
  <2>8. FirstIsTrue'
    BY <2>2, <2>3, <2>7 DEF LedgerInv, LockInv, FirstIsTrue, FirstOf
  <2> QED
    BY <2>4, <2>5, <2>6, <2>8 DEF LedgerInv, LockInv
<1> QED
  BY <1>2, <1>3

\* The buyer's row is locked too, and the question is asked.
LEMMA LedgerCredit ==
  ASSUME LedgerInv, PaymentsTypeOK', CallsHaveOrders', NEW c \in Calls, Credit(c)
  PROVE  LedgerInv'
<1> DEFINE o == call[c].order
           isFirst == Buyer[o] \in Attributed /\ ~PriorPaid(o)
<1>1. /\ UNCHANGED <<status, granted, bonus>> /\ call[c].at = "claimed"
      /\ ~UserLocked(Buyer[o])
  BY DEF Credit, CreditWaits, ledgerVars
<1>2. isFirst \in BOOLEAN
  OBVIOUS
<1>3. PICK first \in BOOLEAN : /\ first <=> isFirst
                               /\ call' = [call EXCEPT ![c].at = "credited", ![c].first = first]
  BY <1>2, Zenon DEF Credit
<1> HIDE DEF isFirst
<1>4. \A d \in Calls : /\ call'[d].order = call[d].order
                       /\ d # c => call'[d] = call[d]
                       /\ d = c => call'[d].at = "credited" /\ call'[d].first = first
  BY <1>3 DEF LedgerInv, PaymentsTypeOK
<1>5. \A d \in Calls : /\ Holding(d)' <=> Holding(d)
                       /\ Crediting(d)' <=> d = c \/ Crediting(d)
                       /\ Crediting(d) => Buyer[call[d].order] # Buyer[o]
  BY <1>1, <1>4 DEF Holding, Crediting, UserLocked
<1>6. CreditedOnce' /\ BonusForFirst'
  BY <1>1 DEF LedgerInv, CreditedOnce, BonusForFirst
<1>7. RowsExclude' /\ BuyersExclude' /\ HeldIsCreated'
  BY <1>1, <1>4, <1>5 DEF LedgerInv, LockInv, RowsExclude, BuyersExclude, HeldIsCreated
<1>8. \A p : PriorPaid(p)' <=> PriorPaid(p)
  BY <1>1 DEF PriorPaid
<1>9. FirstIsTrue'
  <2> SUFFICES ASSUME NEW d \in Calls, Crediting(d)'
               PROVE  FirstOf(d)'
    BY DEF FirstIsTrue
  <2>1. CASE d = c
    BY <2>1, <1>3, <1>4, <1>8 DEF isFirst, FirstOf
  <2>2. CASE d # c
    BY <2>2, <1>4, <1>5, <1>8 DEF LedgerInv, LockInv, FirstIsTrue, FirstOf
  <2> QED
    BY <2>1, <2>2
<1> QED
  BY <1>6, <1>7, <1>9 DEF LedgerInv, LockInv

\* The commit: the order is paid, its credits granted, and the bonus when it was the first.
LEMMA LedgerCommit ==
  ASSUME LedgerInv, PaymentsTypeOK', CallsHaveOrders', NEW c \in Calls, Commit(c)
  PROVE  LedgerInv'
<1> DEFINE o == call[c].order
           u == Buyer[o]
<1>1. /\ o \in Orders /\ u \in Users /\ Holding(c) /\ Crediting(c)
      /\ status[o] = "created"
  BY PaymentsAssumption
     DEF LedgerInv, LockInv, HeldIsCreated, CallsHaveOrders, Commit, Holding, Crediting
<1>2. /\ status'  = [status EXCEPT ![o] = "paid"]
      /\ granted' = [granted EXCEPT ![o] = @ + 1]
      /\ bonus' = [bonus EXCEPT ![u] = @ + (IF call[c].first THEN 1 ELSE 0)]
      /\ call' = [call EXCEPT ![c] = NoCall]
  BY DEF Commit, Answered
<1>3. /\ status \in [Orders -> Statuses] /\ granted \in [Orders -> Nat]
      /\ bonus \in [Users -> Nat] /\ Buyer \in [Orders -> Users]
  BY PaymentsAssumption DEF LedgerInv, PaymentsTypeOK
<1>4. \A p \in Orders : status'[p] = "paid" <=> p = o \/ status[p] = "paid"
  BY <1>1, <1>2, <1>3
<1>5. \A d \in Calls : /\ d # c => call'[d] = call[d]
                       /\ Holding(d)' => d # c /\ Holding(d)
                       /\ Crediting(d)' => d # c /\ Crediting(d)
  BY <1>2 DEF LedgerInv, PaymentsTypeOK, Holding, Crediting, NoCall
<1>6. CreditedOnce'
  BY <1>1, <1>2, <1>3, <1>4 DEF LedgerInv, CreditedOnce
<1>7. RowsExclude' /\ BuyersExclude'
  BY <1>5 DEF LedgerInv, LockInv, RowsExclude, BuyersExclude
<1>8. HeldIsCreated'
  <2> SUFFICES ASSUME NEW d \in Calls, Holding(d)' PROVE status'[call'[d].order] = "created"
    BY DEF HeldIsCreated
  <2>1. call[d].order # o
    BY <1>1, <1>5 DEF LedgerInv, LockInv, RowsExclude
  <2> QED
    BY <2>1, <1>2, <1>3, <1>5 DEF LedgerInv, LockInv, HeldIsCreated
<1>9. FirstIsTrue'
  <2> SUFFICES ASSUME NEW d \in Calls, Crediting(d)'
               PROVE  FirstOf(d)'
    BY DEF FirstIsTrue
  <2>1. d # c /\ Crediting(d) /\ call'[d] = call[d]
    BY <1>5
  <2>2. Buyer[call[d].order] # u
    BY <1>1, <2>1 DEF LedgerInv, LockInv, BuyersExclude
  <2>3. PriorPaid(call[d].order)' <=> PriorPaid(call[d].order)
    BY <1>4, <2>1, <2>2 DEF PriorPaid
  <2> QED
    BY <2>1, <2>3 DEF LedgerInv, LockInv, FirstIsTrue, FirstOf
<1>10. BonusForFirst'
  <2>1. call[c].first <=> u \in Attributed /\ ~PriorPaid(o)
    BY <1>1 DEF LedgerInv, LockInv, FirstIsTrue, FirstOf
  <2>2. PriorPaid(o) <=> \E p \in Orders : Buyer[p] = u /\ status[p] = "paid"
    BY <1>1 DEF PriorPaid
  <2>3. \A v \in Users \ {u} : bonus'[v] = bonus[v]
    BY <1>2, <1>3
  <2>4. \A v \in Users \ {u} :
           (\E p \in Orders : Buyer[p] = v /\ status'[p] = "paid")
           <=> (\E p \in Orders : Buyer[p] = v /\ status[p] = "paid")
    BY <1>1, <1>4
  <2>5. \E p \in Orders : Buyer[p] = u /\ status'[p] = "paid"
    BY <1>1, <1>4
  <2>6. bonus'[u] = bonus[u] + (IF call[c].first THEN 1 ELSE 0)
    BY <1>1, <1>2, <1>3
  <2>7. bonus'[u] = IF u \in Attributed THEN 1 ELSE 0
    BY <2>1, <2>2, <2>6, <1>1 DEF LedgerInv, BonusForFirst
  <2> QED
    BY <2>3, <2>4, <2>5, <2>7 DEF LedgerInv, BonusForFirst
<1> QED
  BY <1>6, <1>7, <1>8, <1>9, <1>10 DEF LedgerInv, LockInv

LEMMA LedgerStep == LedgerInv /\ [Next]_vars => LedgerInv'
<1> SUFFICES ASSUME LedgerInv, [Next]_vars PROVE LedgerInv'
  OBVIOUS
<1>0. PaymentsTypeOK /\ CallsHaveOrders
  BY DEF LedgerInv
<1>1. ASSUME NEW o \in Orders, Buying(o) PROVE LedgerInv'
  <2>0. PaymentsTypeOK'
    BY <1>0, <1>1, BuyingType
  <2>1. CASE Open(o)
    <3>1. \A c \in Calls : Holding(c) => call[c].order # o
      BY <2>1 DEF LedgerInv, LockInv, HeldIsCreated, Open
    <3> QED
      BY <2>0, <2>1, <3>1, LedgerUnpaid DEF Open, Statuses, ledgerVars
  <2>2. CASE Fail(o)
    <3>1. \A c \in Calls : Holding(c) => call[c].order # o
      BY <2>2 DEF Fail, RowLocked, Holding
    <3> QED
      BY <2>0, <2>2, <3>1, LedgerUnpaid DEF Fail, FailsFrom, Statuses, ledgerVars
  <2>3. CASE Refused(o) \/ Capture(o) \/ AckPaid(o)
    BY <2>0, <2>3, LedgerAlone DEF Refused, Capture, AckPaid, ledgerVars
  <2> QED
    BY <1>1, <2>1, <2>2, <2>3 DEF Buying
<1>2. ASSUME NEW o \in Orders, Issuing(o) PROVE LedgerInv'
  <2>1. PaymentsTypeOK'
    BY <1>0, <1>2, IssuingType
  <2>2. UNCHANGED <<status, granted, bonus, call>>
    BY <1>2 DEF Issuing, Check, AdminIssue, Allocate, Put, Insert, IssueFails, ledgerVars
  <2> QED
    BY <2>1, <2>2, LedgerAlone
<1>3. ASSUME NEW c \in Calls, Answering(c) PROVE LedgerInv'
  <2>0. PaymentsTypeOK' /\ CallsHaveOrders'
    BY <1>0, <1>3, AnsweringType
  <2>1. CASE Claim(c)
    BY <2>0, <2>1, LedgerClaim
  <2>2. CASE Credit(c)
    BY <2>0, <2>2, LedgerCredit
  <2>3. CASE Commit(c)
    BY <2>0, <2>3, LedgerCommit
  <2>4. CASE Abort(c)
    BY <2>0, <2>4, LedgerUnheld DEF Abort, Unanswered, NoCall, ledgerVars
  <2>5. ASSUME NEW k \in {"verify", "webhook"}, NEW o \in Orders, Load(c, k, o)
        PROVE  LedgerInv'
    <3>1. [at |-> "loaded", kind |-> k, order |-> o, first |-> FALSE].at
             \notin {"claimed", "credited"}
      OBVIOUS
    <3> QED
      BY <2>0, <2>5, <3>1, LedgerUnheld DEF Load, ledgerVars
  <2> QED
    BY <1>3, <2>1, <2>2, <2>3, <2>4, <2>5 DEF Answering
<1>4. CASE UNCHANGED vars
  <2>1. PaymentsTypeOK'
    BY <1>0, <1>4 DEF PaymentsTypeOK, vars, ledgerVars, gateVars, invoiceVars
  <2> QED
    BY <1>4, <2>1, LedgerAlone DEF vars, ledgerVars
<1> QED
  BY <1>1, <1>2, <1>3, <1>4 DEF Next

\* The state of the orders, the ledger, the calls and the papers has the form
\* the module says.
THEOREM PaymentsTypeCorrect == Spec => []PaymentsTypeOK
<1>1. LedgerInv => PaymentsTypeOK
  BY DEF LedgerInv
<1> QED
  BY <1>1, InitLedger, LedgerStep, PTL DEF Spec

\* An order that is paid was credited once and no other was, for any number
\* of calls of /verify and the webhook about any orders.
THEOREM PaymentsCreditedOnce == Spec => []CreditedOnce
<1>1. LedgerInv => CreditedOnce
  BY DEF LedgerInv
<1> QED
  BY <1>1, InitLedger, LedgerStep, PTL DEF Spec

\* The campaign bonus is paid for the first purchase and once, however many
\* purchases of one buyer are granted at the same time.
THEOREM PaymentsBonusForFirst == Spec => []BonusForFirst
<1>1. LedgerInv => BonusForFirst
  BY DEF LedgerInv
<1> QED
  BY <1>1, InitLedger, LedgerStep, PTL DEF Spec

-----------------------------------------------------------------------------
(* The papers *)

\* A number is on a paper of an order, or held by one who issues it.
Uses(o, n) ==
    n # 0 /\ (file[o] = n \/ invoice[o] = n \/ \E d \in Desks : desk[<<o, d>>].number = n)

\* A number in use was handed out, and to one order.
NumbersOfOne ==
    \A o \in Orders, n \in Nat :
        Uses(o, n) => n < next /\ \A p \in Orders : Uses(p, n) => p = o

\* The PDF is stored before the row that links to it.
FilesFirst ==
    \A o \in Orders :
        /\ invoice[o] # 0 => file[o] # 0
        /\ \A d \in Desks :
              /\ desk[<<o, d>>].at \in {"put", "insert"} => desk[<<o, d>>].number # 0
              /\ desk[<<o, d>>].at = "insert" => file[o] # 0

PaperInv == PaymentsTypeOK /\ CallsHaveOrders /\ NumbersOfOne /\ FilesFirst

LEMMA InitPaper == Init => PaperInv
<1> SUFFICES ASSUME Init PROVE PaperInv
  OBVIOUS
<1>1. PaymentsTypeOK /\ CallsHaveOrders
  BY InitLedger DEF LedgerInv
<1>2. NumbersOfOne /\ FilesFirst
  BY DEF Init, NumbersOfOne, FilesFirst, Uses, NoDesk
<1> QED
  BY <1>1, <1>2 DEF PaperInv

\* A step that brings no number into use.
LEMMA NumbersKept ==
  ASSUME NumbersOfOne, next' = next,
         \A o \in Orders, n \in Nat : Uses(o, n)' => Uses(o, n)
  PROVE  NumbersOfOne'
  BY DEF NumbersOfOne

\* The receipt's desk is set out, or one of the desks is cleared or moves on.
LEMMA DeskMoved ==
  ASSUME PaperInv, NEW o \in Orders, NEW d \in Desks, NEW x,
         desk' = [desk EXCEPT ![<<o, d>>] = x],
         x.number = desk[<<o, d>>].number \/ x.number = 0,
         UNCHANGED <<next, file, invoice>>
  PROVE  NumbersOfOne'
<1>1. \A p \in Orders, e \in Desks :
         /\ <<p, e>> # <<o, d>> => desk'[<<p, e>>] = desk[<<p, e>>]
         /\ <<p, e>> = <<o, d>> => desk'[<<p, e>>] = x
  BY DEF PaperInv, PaymentsTypeOK
<1>2. \A p \in Orders, n \in Nat : Uses(p, n)' => Uses(p, n)
  BY <1>1 DEF Uses
<1> QED
  BY <1>2, NumbersKept DEF PaperInv

LEMMA PapersOfIssue ==
  ASSUME PaperInv, NEW o \in Orders, Issuing(o)
  PROVE  NumbersOfOne' /\ FilesFirst'
<1>0. /\ desk \in [Orders \X Desks -> [at : DeskStates, number : 0 .. MaxNumbers]]
      /\ file \in [Orders -> 0 .. MaxNumbers] /\ invoice \in [Orders -> 0 .. MaxNumbers]
      /\ next \in 1 .. MaxNumbers + 1 /\ MaxNumbers \in Nat
  BY PaymentsAssumption DEF PaperInv, PaymentsTypeOK
<1>1. CASE Check(o)
  <2>1. UNCHANGED <<next, file, invoice>> /\ "receipt" \in Desks
    BY <1>1 DEF Check, Desks
  <2>2. PICK x : /\ desk' = [desk EXCEPT ![<<o, "receipt">>] = x]
                 /\ x = [desk[<<o, "receipt">>] EXCEPT !.at = "number"] \/ x = NoDesk
    BY <1>1, <1>0 DEF Check
  <2>3. x.number = desk[<<o, "receipt">>].number \/ x.number = 0
    <3>1. CASE x = NoDesk
      BY <3>1 DEF NoDesk
    <3>2. CASE x = [desk[<<o, "receipt">>] EXCEPT !.at = "number"]
      BY <1>0, <2>1, <3>2
    <3> QED
      BY <2>2, <3>1, <3>2
  <2>4. x.at \notin {"put", "insert"}
    BY <1>0, <2>1, <2>2 DEF NoDesk
  <2>5. NumbersOfOne'
    BY <2>1, <2>2, <2>3, DeskMoved
  <2> QED
    BY <1>0, <2>1, <2>2, <2>4, <2>5 DEF PaperInv, FilesFirst
<1>2. CASE AdminIssue(o)
  <2>1. UNCHANGED <<next, file, invoice>> /\ "admin" \in Desks
    BY <1>2 DEF AdminIssue, Desks
  <2>2. PICK x : /\ desk' = [desk EXCEPT ![<<o, "admin">>] = x]
                 /\ x = [desk[<<o, "admin">>] EXCEPT !.at = "number"]
    BY <1>2, <1>0 DEF AdminIssue
  <2>3. x.number = desk[<<o, "admin">>].number /\ x.at = "number"
    BY <1>0, <2>1, <2>2
  <2>4. NumbersOfOne'
    BY <2>1, <2>2, <2>3, DeskMoved
  <2> QED
    BY <1>0, <2>1, <2>2, <2>3, <2>4 DEF PaperInv, FilesFirst
<1>3. ASSUME NEW d \in Desks, Allocate(o, d) PROVE NumbersOfOne' /\ FilesFirst'
  <2>1. /\ next' = next + 1 /\ UNCHANGED <<file, invoice>>
        /\ \A p \in Orders, e \in Desks :
              desk'[<<p, e>>] = IF <<p, e>> = <<o, d>> THEN [at |-> "put", number |-> next]
                                ELSE desk[<<p, e>>]
    BY <1>0, <1>3 DEF Allocate, NextNumber
  <2>2. \A p \in Orders, n \in Nat : Uses(p, n)' => Uses(p, n) \/ (p = o /\ n = next)
    <3>1. \A p \in Orders, e \in Desks :
             \/ desk'[<<p, e>>].number = desk[<<p, e>>].number
             \/ p = o /\ desk'[<<p, e>>].number = next
      <4> SUFFICES ASSUME NEW p \in Orders, NEW e \in Desks
                   PROVE  \/ desk'[<<p, e>>].number = desk[<<p, e>>].number
                          \/ p = o /\ desk'[<<p, e>>].number = next
        OBVIOUS
      <4>1. CASE p = o /\ e = d
        BY <2>1, <4>1
      <4>2. CASE ~(p = o /\ e = d)
        BY <2>1, <4>2
      <4> QED
        BY <4>1, <4>2
    <3>2. file' = file /\ invoice' = invoice
      BY <2>1
    <3> SUFFICES ASSUME NEW p \in Orders, NEW n \in Nat, Uses(p, n)', ~Uses(p, n)
                 PROVE  p = o /\ n = next
      OBVIOUS
    <3>3. PICK e \in Desks : desk'[<<p, e>>].number = n
      BY <3>2 DEF Uses
    <3>4. desk[<<p, e>>].number # n
      BY DEF Uses
    <3> QED
      BY <3>1, <3>3, <3>4
  <2>3. NumbersOfOne'
    <3> SUFFICES ASSUME NEW p \in Orders, NEW n \in Nat, Uses(p, n)'
                 PROVE  n < next' /\ \A q \in Orders : Uses(q, n)' => q = p
      BY DEF NumbersOfOne
    <3>1. CASE n = next
      <4>1. \A q \in Orders : ~Uses(q, n)
        BY <1>0, <3>1 DEF PaperInv, NumbersOfOne
      <4> QED
        BY <1>0, <2>1, <2>2, <3>1, <4>1
    <3>2. CASE n # next
      BY <1>0, <2>1, <2>2, <3>2 DEF PaperInv, NumbersOfOne
    <3> QED
      BY <3>1, <3>2
  <2>4. FilesFirst'
    BY <1>0, <2>1 DEF PaperInv, FilesFirst
  <2> QED
    BY <2>3, <2>4
<1>4. ASSUME NEW d \in Desks, Put(o, d) PROVE NumbersOfOne' /\ FilesFirst'
  <2>1. /\ UNCHANGED <<next, invoice>> /\ desk[<<o, d>>].at = "put"
        /\ \A p \in Orders : file'[p] = IF p = o THEN desk[<<o, d>>].number ELSE file[p]
        /\ \A p \in Orders, e \in Desks :
              /\ desk'[<<p, e>>].number = desk[<<p, e>>].number
              /\ desk'[<<p, e>>].at = IF <<p, e>> = <<o, d>> THEN "insert"
                                      ELSE desk[<<p, e>>].at
    BY <1>0, <1>4 DEF Put
  <2>2. \A p \in Orders, n \in Nat : Uses(p, n)' => Uses(p, n)
    BY <2>1 DEF Uses
  <2>3. FilesFirst'
    BY <2>1 DEF PaperInv, FilesFirst
  <2> QED
    BY <2>1, <2>2, <2>3, NumbersKept DEF PaperInv
<1>5. ASSUME NEW d \in Desks, Insert(o, d) PROVE NumbersOfOne' /\ FilesFirst'
  <2>1. /\ UNCHANGED <<next, file>> /\ desk[<<o, d>>].at = "insert"
        /\ \A p \in Orders : invoice'[p] = invoice[p]
                             \/ (p = o /\ invoice'[p] = desk[<<o, d>>].number)
        /\ \A p \in Orders, e \in Desks :
              desk'[<<p, e>>] = IF <<p, e>> = <<o, d>> THEN NoDesk ELSE desk[<<p, e>>]
    BY <1>0, <1>5 DEF Insert, Inserted
  <2>2. NoDesk.number = 0 /\ NoDesk.at = "none"
    BY DEF NoDesk
  <2>3. \A p \in Orders, n \in Nat : Uses(p, n)' => Uses(p, n)
    BY <2>1, <2>2 DEF Uses
  <2>4. FilesFirst'
    BY <2>1, <2>2 DEF PaperInv, FilesFirst
  <2> QED
    BY <2>1, <2>3, <2>4, NumbersKept DEF PaperInv
<1>6. ASSUME NEW d \in Desks, IssueFails(o, d) PROVE NumbersOfOne' /\ FilesFirst'
  <2>1. desk' = [desk EXCEPT ![<<o, d>>] = NoDesk] /\ UNCHANGED <<next, file, invoice>>
    BY <1>6 DEF IssueFails
  <2>2. NoDesk.number = 0 /\ NoDesk.at = "none"
    BY DEF NoDesk
  <2>3. NumbersOfOne'
    BY <2>1, <2>2, DeskMoved
  <2> QED
    BY <1>0, <2>1, <2>2, <2>3 DEF PaperInv, FilesFirst
<1> QED
  BY <1>1, <1>2, <1>3, <1>4, <1>5, <1>6 DEF Issuing

LEMMA PaperStep == PaperInv /\ [Next]_vars => PaperInv'
<1> SUFFICES ASSUME PaperInv, [Next]_vars PROVE PaperInv'
  OBVIOUS
<1>0. PaymentsTypeOK /\ CallsHaveOrders /\ NumbersOfOne /\ FilesFirst
  BY DEF PaperInv
<1>1. ASSUME UNCHANGED invoiceVars PROVE NumbersOfOne' /\ FilesFirst'
  BY <1>0, <1>1 DEF NumbersOfOne, FilesFirst, Uses, invoiceVars
<1>2. ASSUME NEW o \in Orders, Buying(o) PROVE PaperInv'
  <2>1. UNCHANGED invoiceVars /\ UNCHANGED call
    BY <1>2 DEF Buying, Open, Refused, Capture, Fail, AckPaid, invoiceVars
  <2> QED
    BY <1>0, <1>1, <1>2, <2>1, BuyingType DEF PaperInv, CallsHaveOrders
<1>3. ASSUME NEW o \in Orders, Issuing(o) PROVE PaperInv'
  <2>1. UNCHANGED call
    BY <1>3 DEF Issuing, Check, AdminIssue, Allocate, Put, Insert, IssueFails
  <2> QED
    BY <1>0, <1>3, <2>1, IssuingType, PapersOfIssue DEF PaperInv, CallsHaveOrders
<1>4. ASSUME NEW c \in Calls, Answering(c) PROVE PaperInv'
  <2>0. PaymentsTypeOK' /\ CallsHaveOrders'
    BY <1>0, <1>4, AnsweringType
  <2>1. CASE Commit(c)
    <3> DEFINE o == call[c].order
               x == [desk[<<o, "receipt">>] EXCEPT !.at = "check"]
    <3>1. o \in Orders /\ "receipt" \in Desks
      BY <1>0, <2>1 DEF CallsHaveOrders, Commit, Desks
    <3>2. x.number = desk[<<o, "receipt">>].number /\ x.at = "check"
      BY <1>0, <3>1 DEF PaymentsTypeOK
    <3>3. /\ desk' = [desk EXCEPT ![<<o, "receipt">>] = x]
          /\ UNCHANGED <<next, file, invoice>>
      BY <2>1 DEF Commit
    <3> HIDE DEF x, o
    <3>4. NumbersOfOne'
      BY <3>1, <3>2, <3>3, DeskMoved
    <3>5. FilesFirst'
      BY <1>0, <3>1, <3>2, <3>3 DEF PaymentsTypeOK, FilesFirst
    <3> QED
      BY <2>0, <3>4, <3>5 DEF PaperInv
  <2>2. CASE ~Commit(c)
    <3>1. UNCHANGED invoiceVars
      BY <1>4, <2>2 DEF Answering, Claim, Credit, Abort, Load
    <3> QED
      BY <1>1, <2>0, <3>1 DEF PaperInv
  <2> QED
    BY <2>1, <2>2
<1>5. CASE UNCHANGED vars
  BY <1>0, <1>1, <1>5
     DEF PaperInv, PaymentsTypeOK, CallsHaveOrders, vars, ledgerVars, gateVars, invoiceVars
<1> QED
  BY <1>2, <1>3, <1>4, <1>5 DEF Next

\* A number is on the papers of one payment only, although two may issue for
\* one payment and any of their steps may fail.
THEOREM InvoiceNumbers == Spec => []NumberOfOnePayment
<1>1. PaperInv => NumberOfOnePayment
  <2> SUFFICES ASSUME PaperInv, NEW o \in Orders, NEW p \in Orders, o # p,
                      NEW n \in {invoice[o], file[o]} \cap {invoice[p], file[p]}
               PROVE  n = 0
    BY DEF NumberOfOnePayment
  <2>1. n \in Nat
    BY PaymentsAssumption DEF PaperInv, PaymentsTypeOK
  <2>2. n # 0 => Uses(o, n) /\ Uses(p, n)
    BY DEF Uses
  <2> QED
    BY <2>1, <2>2 DEF PaperInv, NumbersOfOne
<1> QED
  BY <1>1, InitPaper, PaperStep, PTL DEF Spec

\* The PDF that the row of an invoice links to is stored.
THEOREM InvoicesAreStored == Spec => []InvoiceHasFile
<1>1. PaperInv => InvoiceHasFile
  BY DEF PaperInv, FilesFirst, InvoiceHasFile
<1> QED
  BY <1>1, InitPaper, PaperStep, PTL DEF Spec

=============================================================================
