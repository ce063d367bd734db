-------------------------- MODULE AutoRefillProofs --------------------------
(***************************************************************************)
(* Proofs about AutoRefill: for every number of purchase rows, concurrent  *)
(* calls, subscriptions, dips of the balance and lost answers.             *)
(***************************************************************************)
EXTENDS AutoRefill, FiniteSetTheorems, TLAPS

-----------------------------------------------------------------------------
(* Types *)

CallType == [at : CallStates, row : Rows \cup {NoRow}, item : 0 .. MaxSubs,
             low : BOOLEAN, key : Keys \cup {NoKey}, answer : Answers]

LEMMA NoCallType == NoCall \in CallType
  BY AutoRefillAssumption DEF NoCall, CallType, CallStates, Answers

\* The merchant and what is known of the subscription.
LEMMA StoreType ==
  ASSUME RefillTypeOK, Merchant \/ Observing
  PROVE  RefillTypeOK'
<1>0. MaxSubs \in Nat /\ MaxDips \in Nat
  BY AutoRefillAssumption
<1>1. \A s, new : \A works \in BOOLEAN :
         Cancelled(s, new, works) \in [Subs -> {"none", "pending", "active", "ended"}]
  BY DEF RefillTypeOK, Cancelled
<1>2. CASE Enrol
  BY <1>0, <1>1, <1>2 DEF RefillTypeOK, Enrol, Elsewhere, StoreStatuses, moneyVars
<1>3. CASE Disable
  BY <1>0, <1>1, <1>3 DEF RefillTypeOK, Disable, Elsewhere, StoreStatuses, moneyVars
<1>4. CASE RaiseCap
  BY <1>4 DEF RefillTypeOK, RaiseCap, Elsewhere, StoreStatuses, moneyVars
<1>5. CASE Spend
  BY <1>0, <1>5 DEF RefillTypeOK, Spend, storeVars, shopifyVars
<1>6. CASE TopUp
  BY <1>6 DEF RefillTypeOK, TopUp, storeVars, shopifyVars
<1>7. ASSUME NEW s \in Subs, NEW outcome \in {"active", "ended"}, Decide(s, outcome)
      PROVE  RefillTypeOK'
  BY <1>7 DEF RefillTypeOK, Decide, Elsewhere, storeVars, moneyVars
<1>8. CASE Fetch \/ Refresh
  BY <1>8 DEF RefillTypeOK, Fetch, Refresh, Mapped, storeVars, shopifyVars, moneyVars
<1>9. CASE WriteSeen
  BY <1>9 DEF RefillTypeOK, WriteSeen, StoreStatuses, shopifyVars, moneyVars
<1> QED
  BY <1>2, <1>3, <1>4, <1>5, <1>6, <1>7, <1>8, <1>9 DEF Merchant, Observing

\* A call that has a purchase row.
HasRow(c)   == call[c].at \in {"listed", "charging", "answered"}
Charging(c) == call[c].at \in {"charging", "answered"}

\* It has one, charges it under its own first key, and knows the answer it has.
CallSound(c) ==
    /\ HasRow(c) => call[c].row \in Rows
    /\ Charging(c) => /\ call[c].key = <<call[c].row, "first">>
                      /\ row[call[c].row] = "PENDING"
    /\ call[c].at = "answered" =>
          /\ call[c].answer # "none"
          /\ call[c].answer = "ok" <=> call[c].key \in landed

CallsSound == \A c \in Calls : CallSound(c)

LEMMA SoundKey ==
  ASSUME CallsSound, NEW c \in Calls, call[c].at = "charging"
  PROVE  call[c].row \in Rows /\ call[c].key \in Keys
<1>1. call[c].row \in Rows /\ call[c].key = <<call[c].row, "first">>
  BY DEF CallsSound, CallSound, HasRow, Charging
<1> QED
  BY <1>1 DEF Keys

\* Steps of the calls.
LEMMA CallsType ==
  ASSUME RefillTypeOK, CallsSound, NEW c \in Calls,
         Gate(c) \/ List(c) \/ Proceeds(c) \/ Lose(c)
  PROVE  RefillTypeOK'
<1>0. call \in [Calls -> CallType] /\ NoCall \in CallType /\ MaxDips \in Nat /\ MaxLost \in Nat
  BY AutoRefillAssumption, NoCallType DEF RefillTypeOK, CallType
<1>1. CASE Gate(c)
  <2>1. call' \in [Calls -> CallType]
    BY <1>0, <1>1 DEF Gate, CallType, CallStates, RefillTypeOK
  <2> QED
    BY <1>1, <2>1 DEF RefillTypeOK, CallType, Gate, storeVars, shopifyVars, moneyVars
<1>2. CASE List(c)
  <2>1. PICK r \in Pending :
          call' = [call EXCEPT ![c] = [NoCall EXCEPT !.at = "listed", !.row = r, !.item = sub]]
    BY <1>2 DEF List
  <2>2. r \in Rows /\ sub \in 0 .. MaxSubs
    BY DEF Pending, RefillTypeOK
  <2>3. [NoCall EXCEPT !.at = "listed", !.row = r, !.item = sub] \in CallType
    BY <1>0, <2>2 DEF CallType, CallStates
  <2> QED
    BY <1>0, <1>2, <2>1, <2>3
       DEF RefillTypeOK, CallType, List, storeVars, shopifyVars, moneyVars
<1>3. CASE Begin(c)
  <2>1. PICK r \in Unused :
          /\ row' = [row EXCEPT ![r] = "PENDING"]
          /\ call' = [call EXCEPT ![c] = [at |-> "charging", row |-> r, item |-> sub,
                         low |-> FALSE, key |-> <<r, "first">>, answer |-> "none"]]
    BY <1>3 DEF Begin
  <2>2. r \in Rows /\ sub \in 0 .. MaxSubs /\ <<r, "first">> \in Keys
    BY DEF Unused, RefillTypeOK, Keys
  <2>3. call' \in [Calls -> CallType]
    BY <1>0, <2>1, <2>2 DEF CallType, CallStates, Answers
  <2>4. row' \in [Rows -> {"none", "PENDING", "ACTIVE", "FAILED"}]
    BY <2>1 DEF RefillTypeOK
  <2> QED
    BY <1>3, <2>3, <2>4 DEF RefillTypeOK, CallType, Begin, storeVars, shopifyVars
<1>4. CASE Skip(c)
  BY <1>0, <1>4 DEF RefillTypeOK, CallType, Skip, storeVars, shopifyVars, moneyVars
<1>5. CASE Replay(c)
  <2> DEFINE r == call[c].row
             x == [call[c] EXCEPT !.at = "charging", !.key = ReplayKey(r)]
  <2>1. r \in Rows
    BY <1>5 DEF Replay, CallsSound, CallSound, HasRow
  <2>2. ReplayKey(r) \in Keys
    BY <2>1 DEF ReplayKey, Keys
  <2>3. x \in CallType
    BY <1>0, <2>2 DEF CallType, CallStates
  <2>4. call' = [call EXCEPT ![c] = NoCall] \/ call' = [call EXCEPT ![c] = x]
    BY <1>5 DEF Replay
  <2> HIDE DEF x, r
  <2>5. call' \in [Calls -> CallType]
    BY <1>0, <2>3, <2>4
  <2> QED
    BY <1>5, <2>5 DEF RefillTypeOK, CallType, Replay, storeVars, shopifyVars, moneyVars
<1>6. ASSUME NEW answer \in Answers \ {"none"}, Charge(c, answer) PROVE RefillTypeOK'
  <2>1. call' \in [Calls -> CallType]
    BY <1>0, <1>6 DEF Charge, CallType, CallStates
  <2>2. call[c].key \in Keys
    BY <1>6, SoundKey DEF Charge
  <2>3. landed' \subseteq Keys
    BY <1>6, <2>2 DEF Charge, Charges, RefillTypeOK
  <2> QED
    BY <1>6, <2>1, <2>3 DEF RefillTypeOK, CallType, Charge, storeVars, moneyVars
<1>7. CASE Settle(c)
  <2>1. call' \in [Calls -> CallType]
    BY <1>0, <1>7 DEF Settle
  <2>2. /\ row' \in [Rows -> {"none", "PENDING", "ACTIVE", "FAILED"}]
        /\ status' \in StoreStatuses /\ low' \in BOOLEAN /\ dips' \in 0 .. MaxDips
    <3>1. CASE Granted(c)
      <4>1. row' \in [Rows -> {"none", "PENDING", "ACTIVE", "FAILED"}] /\ status' = status
        BY <3>1 DEF RefillTypeOK, Granted
      <4>2. (low' = FALSE /\ dips' = dips) \/ (dips < MaxDips /\ dips' = dips + 1 /\ low' = low)
        BY <3>1 DEF Granted
      <4>3. low' \in BOOLEAN
        BY <4>2 DEF RefillTypeOK
      <4>4. dips' \in 0 .. MaxDips
        BY <1>0, <4>2 DEF RefillTypeOK
      <4> QED
        BY <4>1, <4>3, <4>4 DEF RefillTypeOK
    <3>2. CASE CapReached(c)
      BY <3>2 DEF RefillTypeOK, CapReached, StoreStatuses
    <3>3. CASE Refused(c)
      BY <3>3 DEF RefillTypeOK, Refused
    <3> QED
      BY <1>7, <3>1, <3>2, <3>3 DEF Settle
  <2> QED
    BY <1>7, <2>1, <2>2 DEF RefillTypeOK, CallType, Settle, shopifyVars
<1>8. CASE Lose(c)
  <2>1. call' \in [Calls -> CallType]
    BY <1>0, <1>8 DEF Lose
  <2>2. call[c].key \in Keys
    BY <1>8, SoundKey DEF Lose
  <2>3. landed' \subseteq Keys
    BY <1>8, <2>2 DEF Lose, Charges, RefillTypeOK
  <2> QED
    BY <1>0, <1>8, <2>1, <2>3 DEF RefillTypeOK, CallType, Lose, Thrown, storeVars
<1> QED
  BY <1>1, <1>2, <1>3, <1>4, <1>5, <1>6, <1>7, <1>8 DEF Proceeds, Answering

-----------------------------------------------------------------------------
(* Charges and dips *)

\* The advisory lock, and the row in flight it protects.
LockedOnce == \A c, d \in Calls : Charging(c) /\ Charging(d) => c = d
OnePending == \A r, s \in Rows : row[r] = "PENDING" /\ row[s] = "PENDING" => r = s

\* No refill is sent under a second key.
FirstKeys == landed \subseteq Rows \X {"first"}

\* The rows a merchant paid or may have paid for, and the dip that waits for one.
Live == {r \in Rows : row[r] \in {"PENDING", "ACTIVE"}}
Owed == IF low /\ Pending = {} THEN 1 ELSE 0

\* Every such row has had a dip of its own.
DipsPay == IsFiniteSet(Live) /\ Cardinality(Live) + Owed <= dips

RefillInv == /\ RefillTypeOK /\ CallsSound
             /\ LockedOnce /\ OnePending /\ FirstKeys /\ BooksAgree /\ DipsPay

LEMMA InitRefill == Init => RefillInv
<1> SUFFICES ASSUME Init PROVE RefillInv
  OBVIOUS
<1>1. RefillTypeOK
  <2>1. call \in [Calls -> CallType]
    BY NoCallType DEF Init
  <2>2. /\ sub \in 0 .. MaxSubs /\ created \in 0 .. MaxSubs
        /\ dips \in 0 .. MaxDips /\ lost \in 0 .. MaxLost
    BY AutoRefillAssumption DEF Init
  <2>4. low \in BOOLEAN /\ landed \subseteq Keys
    BY Zenon DEF Init
  <2>3. /\ approval \in [Subs -> {"none", "pending", "active", "ended"}]
        /\ row \in [Rows -> {"none", "PENDING", "ACTIVE", "FAILED"}]
        /\ status \in StoreStatuses /\ seen \in {"none", "ACTIVE", "ENDED"}
    BY DEF Init, StoreStatuses
  <2> QED
    BY <2>1, <2>2, <2>3, <2>4 DEF RefillTypeOK, CallType
<1>2. \A c \in Calls : call[c].at = "idle"
  BY DEF Init, NoCall
<1>3. CallsSound /\ LockedOnce
  BY <1>2 DEF CallsSound, CallSound, HasRow, Charging, LockedOnce
<1>4. OnePending /\ FirstKeys /\ BooksAgree
  BY DEF Init, OnePending, FirstKeys, BooksAgree
<1>5. Live = {} /\ Owed = 0 /\ dips = 0
  BY DEF Init, Live, Owed
<1>6. DipsPay
  BY <1>5, FS_EmptySet DEF DipsPay
<1> QED
  BY <1>1, <1>3, <1>4, <1>6 DEF RefillInv

\* A step that touches neither the rows nor the charges keeps the books.
LEMMA BooksAlone ==
  ASSUME RefillInv, UNCHANGED <<row, landed>>
  PROVE  OnePending' /\ FirstKeys' /\ BooksAgree' /\ Live' = Live /\ Pending' = Pending
BY DEF RefillInv, OnePending, FirstKeys, BooksAgree, Live, Pending

\* With the balance left alone too, the dips are as they were.
LEMMA DipsAlone ==
  ASSUME RefillInv, UNCHANGED <<row, landed, low, dips>>
  PROVE  DipsPay'
<1>1. Live' = Live /\ Owed' = Owed /\ dips' = dips
  BY BooksAlone DEF Owed
<1> QED
  BY <1>1 DEF RefillInv, DipsPay

LEMMA RefillStore ==
  ASSUME RefillInv, Merchant \/ Observing
  PROVE  RefillInv'
<1>1. RefillTypeOK'
  BY StoreType DEF RefillInv
<1>2. UNCHANGED <<row, landed, call>>
  BY DEF Merchant, Observing, Enrol, Disable, RaiseCap, Spend, TopUp, Decide, Fetch,
         Refresh, WriteSeen, Elsewhere, moneyVars, shopifyVars
<1>3. CallsSound' /\ LockedOnce'
  BY <1>2 DEF RefillInv, CallsSound, CallSound, HasRow, Charging, LockedOnce
<1>4. DipsPay'
  <2>1. CASE UNCHANGED <<low, dips>>
    BY <1>2, <2>1, DipsAlone
  <2>2. CASE Spend
    <3>1. Live' = Live /\ Owed = 0 /\ Owed' \in {0, 1} /\ dips' = dips + 1
      BY <1>2, <2>2, BooksAlone DEF Spend, Owed
    <3>2. Cardinality(Live) \in Nat /\ dips \in Nat
      BY FS_CardinalityType DEF RefillInv, DipsPay, RefillTypeOK
    <3> QED
      BY <3>1, <3>2 DEF RefillInv, DipsPay
  <2>3. CASE TopUp
    <3>1. Live' = Live /\ Owed' = 0 /\ Owed \in {0, 1} /\ dips' = dips
      BY <1>2, <2>3, BooksAlone DEF TopUp, Owed
    <3>2. Cardinality(Live) \in Nat /\ dips \in Nat
      BY FS_CardinalityType DEF RefillInv, DipsPay, RefillTypeOK
    <3> QED
      BY <3>1, <3>2 DEF RefillInv, DipsPay
  <2> QED
    BY <2>1, <2>2, <2>3
       DEF Merchant, Observing, Enrol, Disable, RaiseCap, Decide, Fetch, Refresh,
           WriteSeen, Elsewhere, moneyVars
<1> QED
  BY <1>1, <1>2, <1>3, <1>4, BooksAlone DEF RefillInv

\* A call passes its first check, or is done or gives up without an answer to write.
LEMMA RefillIdle ==
  ASSUME RefillInv, RefillTypeOK', NEW c \in Calls, NEW x, call' = [call EXCEPT ![c] = x],
         x.at \in {"idle", "gated"}, UNCHANGED <<row, landed, low, dips>>
  PROVE  RefillInv'
<1>1. \A d \in Calls : /\ d # c => call'[d] = call[d]
                       /\ d = c => call'[d].at \in {"idle", "gated"}
  BY DEF RefillInv, RefillTypeOK
<1>2. CallsSound' /\ LockedOnce'
  BY <1>1 DEF RefillInv, CallsSound, CallSound, HasRow, Charging, LockedOnce
<1> QED
  BY <1>2, BooksAlone, DipsAlone DEF RefillInv

\* A row is inserted for the dip that waited.
LEMMA RefillBegin ==
  ASSUME RefillInv, RefillTypeOK', NEW c \in Calls, Begin(c)
  PROVE  RefillInv'
<1>1. PICK r \in Unused :
        /\ row' = [row EXCEPT ![r] = "PENDING"]
        /\ call' = [call EXCEPT ![c] = [at |-> "charging", row |-> r, item |-> sub,
                       low |-> FALSE, key |-> <<r, "first">>, answer |-> "none"]]
  BY DEF Begin
<1>2. /\ low /\ Pending = {} /\ ~Locked /\ UNCHANGED <<landed, low, dips>>
      /\ r \in Rows /\ row[r] = "none"
  BY DEF Begin, ShouldRefill, Unused, shopifyVars
<1>3. /\ \A s \in Rows : row'[s] = IF s = r THEN "PENDING" ELSE row[s]
      /\ \A d \in Calls : d # c => call'[d] = call[d]
      /\ call'[c].at = "charging" /\ call'[c].row = r /\ call'[c].key = <<r, "first">>
  BY <1>1, <1>2 DEF RefillInv, RefillTypeOK
<1>4. \A d \in Calls : ~Charging(d)
  BY <1>2 DEF Locked, Charging
<1>5. LockedOnce'
  BY <1>3, <1>4 DEF LockedOnce, Charging
<1>6. CallsSound'
  <2> SUFFICES ASSUME NEW d \in Calls PROVE CallSound(d)'
    BY DEF CallsSound
  <2>1. CASE d = c
    BY <2>1, <1>2, <1>3 DEF CallSound, HasRow, Charging
  <2>2. CASE d # c
    BY <2>2, <1>3, <1>4 DEF RefillInv, CallsSound, CallSound, HasRow, Charging
  <2> QED
    BY <2>1, <2>2
<1>7. OnePending'
  BY <1>2, <1>3 DEF OnePending, Pending
<1>8. FirstKeys' /\ BooksAgree'
  BY <1>2, <1>3 DEF RefillInv, FirstKeys, BooksAgree
<1>9. DipsPay'
  <2>1. Live' = Live \cup {r} /\ r \notin Live
    BY <1>2, <1>3 DEF Live
  <2>2. Owed = 1 /\ Owed' = 0
    BY <1>2, <1>3 DEF Owed, Pending
  <2>3. IsFiniteSet(Live) /\ Cardinality(Live) \in Nat /\ dips \in Nat
    BY FS_CardinalityType DEF RefillInv, DipsPay, RefillTypeOK
  <2>4. IsFiniteSet(Live') /\ Cardinality(Live') = Cardinality(Live) + 1
    BY <2>1, <2>3, FS_AddElement
  <2> QED
    BY <1>2, <2>2, <2>3, <2>4 DEF RefillInv, DipsPay
<1> QED
  BY <1>5, <1>6, <1>7, <1>8, <1>9 DEF RefillInv

\* The reconciler takes the row up, and takes the lock when it is still in flight.
LEMMA RefillReplay ==
  ASSUME RefillInv, RefillTypeOK', NEW c \in Calls, List(c) \/ Replay(c)
  PROVE  RefillInv'
<1> DEFINE r == call[c].row
<1>0. UNCHANGED <<row, landed, low, dips>>
  BY DEF List, Replay, moneyVars, shopifyVars
<1>1. CASE List(c)
  <2>1. PICK s \in Pending :
          call' = [call EXCEPT ![c] = [NoCall EXCEPT !.at = "listed", !.row = s, !.item = sub]]
    BY <1>1 DEF List
  <2>2. /\ s \in Rows /\ call'[c].at = "listed" /\ call'[c].row = s
        /\ \A d \in Calls : d # c => call'[d] = call[d]
    BY <2>1 DEF RefillInv, RefillTypeOK, Pending, NoCall
  <2>3. CallsSound' /\ LockedOnce'
    BY <1>0, <2>2 DEF RefillInv, CallsSound, CallSound, HasRow, Charging, LockedOnce
  <2> QED
    BY <1>0, <2>3, BooksAlone, DipsAlone DEF RefillInv
<1>2. CASE Replay(c) /\ (Locked \/ row[r] # "PENDING")
  <2>1. call' = [call EXCEPT ![c] = NoCall]
    BY <1>2 DEF Replay
  <2> QED
    BY <1>0, <2>1, RefillIdle DEF NoCall
<1>3. CASE Replay(c) /\ ~Locked /\ row[r] = "PENDING"
  <2>1. call' = [call EXCEPT ![c] = [@ EXCEPT !.at = "charging", !.key = ReplayKey(r)]]
    BY <1>3 DEF Replay
  <2>2. /\ call'[c].at = "charging" /\ call'[c].row = r /\ call'[c].key = <<r, "first">>
        /\ \A d \in Calls : d # c => call'[d] = call[d]
    BY <2>1 DEF RefillInv, RefillTypeOK, ReplayKey
  <2>3. r \in Rows
    BY <1>3 DEF RefillInv, CallsSound, CallSound, HasRow, Replay
  <2>4. \A d \in Calls : ~Charging(d)
    BY <1>3 DEF Locked, Charging
  <2>5. LockedOnce'
    BY <2>2, <2>4 DEF LockedOnce, Charging
  <2>6. CallsSound'
    <3> SUFFICES ASSUME NEW d \in Calls PROVE CallSound(d)'
      BY DEF CallsSound
    <3>1. CASE d = c
      BY <1>0, <1>3, <2>2, <2>3, <3>1 DEF CallSound, HasRow, Charging
    <3>2. CASE d # c
      BY <1>0, <2>2, <2>4, <3>2 DEF RefillInv, CallsSound, CallSound, HasRow, Charging
    <3> QED
      BY <3>1, <3>2
  <2> QED
    BY <1>0, <2>5, <2>6, BooksAlone, DipsAlone DEF RefillInv
<1> QED
  BY <1>1, <1>2, <1>3

\* Shopify may have charged under the key of the row in flight.
LEMMA ChargeBooks ==
  ASSUME RefillInv, NEW c \in Calls, call[c].at = "charging",
         NEW answer \in Answers \ {"none"}, Charges(c, answer), UNCHANGED row
  PROVE  /\ FirstKeys' /\ BooksAgree'
         /\ answer = "ok" <=> call[c].key \in landed'
         /\ landed' = landed \/ landed' = landed \cup {call[c].key}
<1>1. /\ call[c].row \in Rows /\ call[c].key = <<call[c].row, "first">>
      /\ row[call[c].row] = "PENDING"
  BY DEF RefillInv, CallsSound, CallSound, HasRow, Charging
<1>2. /\ landed' = landed \/ landed' = landed \cup {call[c].key}
      /\ answer = "ok" <=> call[c].key \in landed'
  BY DEF Charges
<1>3. FirstKeys' /\ BooksAgree'
  BY <1>1, <1>2 DEF RefillInv, FirstKeys, BooksAgree
<1> QED
  BY <1>2, <1>3

LEMMA RefillCharge ==
  ASSUME RefillInv, RefillTypeOK', NEW c \in Calls,
         NEW answer \in Answers \ {"none"}, Charge(c, answer)
  PROVE  RefillInv'
<1>1. /\ call[c].at = "charging" /\ Charges(c, answer) /\ UNCHANGED <<row, low, dips>>
      /\ call' = [call EXCEPT ![c].at = "answered", ![c].answer = answer]
  BY DEF Charge, moneyVars
<1>2. /\ call'[c].at = "answered" /\ call'[c].answer = answer
      /\ call'[c].row = call[c].row /\ call'[c].key = call[c].key
      /\ \A d \in Calls : d # c => call'[d] = call[d]
  BY <1>1 DEF RefillInv, RefillTypeOK
<1>3. \A d \in Calls : d # c => ~Charging(d)
  BY <1>1 DEF RefillInv, LockedOnce, Charging
<1>4. LockedOnce'
  BY <1>2, <1>3 DEF LockedOnce, Charging
<1>5. FirstKeys' /\ BooksAgree' /\ (answer = "ok" <=> call[c].key \in landed')
  BY <1>1, ChargeBooks
<1>6. CallsSound'
  <2> SUFFICES ASSUME NEW d \in Calls PROVE CallSound(d)'
    BY DEF CallsSound
  <2>1. CASE d = c
    <3>1. /\ call[c].row \in Rows /\ call[c].key = <<call[c].row, "first">>
          /\ row[call[c].row] = "PENDING"
      BY <1>1 DEF RefillInv, CallsSound, CallSound, HasRow, Charging
    <3> QED
      BY <1>1, <1>2, <1>5, <2>1, <3>1 DEF CallSound, HasRow, Charging
  <2>2. CASE d # c
    BY <1>2, <1>3, <2>2 DEF RefillInv, CallsSound, CallSound, HasRow, Charging
  <2> QED
    BY <2>1, <2>2
<1>7. OnePending' /\ Live' = Live /\ Owed' = Owed
  BY <1>1 DEF RefillInv, OnePending, Live, Owed, Pending
<1>8. DipsPay'
  BY <1>1, <1>7 DEF RefillInv, DipsPay
<1> QED
  BY <1>4, <1>5, <1>6, <1>7, <1>8 DEF RefillInv

\* The answer is lost: the row stays in flight, and the lock is free.
LEMMA RefillLose ==
  ASSUME RefillInv, RefillTypeOK', NEW c \in Calls, Lose(c)
  PROVE  RefillInv'
<1>1. PICK answer \in Answers \ {"none"} : Charges(c, answer)
  BY DEF Lose
<1>2. /\ call[c].at = "charging" /\ UNCHANGED <<row, low, dips>>
      /\ call' = [call EXCEPT ![c] = NoCall]
  BY DEF Lose, Thrown
<1>3. /\ \A d \in Calls : d # c => call'[d] = call[d]
      /\ call'[c].at = "idle"
  BY <1>2 DEF RefillInv, RefillTypeOK, NoCall
<1>4. \A d \in Calls : d # c => ~Charging(d)
  BY <1>2 DEF RefillInv, LockedOnce, Charging
<1>5. LockedOnce' /\ CallsSound'
  BY <1>2, <1>3, <1>4 DEF RefillInv, LockedOnce, CallsSound, CallSound, HasRow, Charging
<1>6. FirstKeys' /\ BooksAgree'
  BY <1>1, <1>2, ChargeBooks
<1>7. OnePending' /\ Live' = Live /\ Owed' = Owed
  BY <1>2 DEF RefillInv, OnePending, Live, Owed, Pending
<1>8. DipsPay'
  BY <1>2, <1>7 DEF RefillInv, DipsPay
<1> QED
  BY <1>5, <1>6, <1>7, <1>8 DEF RefillInv

\* The answer is written: the row is settled as Shopify has it.
LEMMA RefillSettle ==
  ASSUME RefillInv, RefillTypeOK', NEW c \in Calls, Settle(c)
  PROVE  RefillInv'
<1> DEFINE r == call[c].row
<1>1. /\ r \in Rows /\ row[r] = "PENDING" /\ call[c].key = <<r, "first">>
      /\ call[c].answer = "ok" <=> <<r, "first">> \in landed
  BY DEF RefillInv, CallsSound, CallSound, HasRow, Charging, Settle
<1>2. call[c].at = "answered" /\ UNCHANGED landed /\ call' = [call EXCEPT ![c] = NoCall]
  BY DEF Settle, shopifyVars
<1>3. PICK s \in {"ACTIVE", "FAILED"} :
        /\ row' = [row EXCEPT ![r] = s]
        /\ s = "ACTIVE" <=> call[c].answer = "ok"
        /\ s = "FAILED" => UNCHANGED <<low, dips>>
        /\ s = "ACTIVE" => \/ low' = FALSE /\ dips' = dips
                           \/ dips' = dips + 1 /\ low' = low
  BY DEF Settle, Granted, CapReached, Refused
<1>4. /\ \A p \in Rows : row'[p] = IF p = r THEN s ELSE row[p]
      /\ \A d \in Calls : d # c => call'[d] = call[d]
      /\ call'[c].at = "idle"
  BY <1>1, <1>2, <1>3 DEF RefillInv, RefillTypeOK, NoCall
<1>5. \A d \in Calls : d # c => ~Charging(d)
  BY <1>2 DEF RefillInv, LockedOnce, Charging
<1>6. LockedOnce'
  BY <1>4, <1>5 DEF LockedOnce, Charging
<1>7. CallsSound'
  <2> SUFFICES ASSUME NEW d \in Calls PROVE CallSound(d)'
    BY DEF CallsSound
  <2>1. CASE d = c
    BY <1>4, <2>1 DEF CallSound, HasRow, Charging
  <2>2. CASE d # c
    BY <1>2, <1>4, <1>5, <2>2 DEF RefillInv, CallsSound, CallSound, HasRow, Charging
  <2> QED
    BY <2>1, <2>2
<1>8. OnePending' /\ Pending = {r} /\ Pending' = {}
  <2>1. Pending = {r}
    BY <1>1 DEF RefillInv, OnePending, Pending
  <2>2. \A p \in Rows : row'[p] # "PENDING"
    BY <1>1, <1>4, <2>1 DEF Pending
  <2> QED
    BY <2>1, <2>2 DEF OnePending, Pending
<1>9. FirstKeys' /\ BooksAgree'
  <2>1. FirstKeys'
    BY <1>2 DEF RefillInv, FirstKeys
  <2>2. BooksAgree'
    <3> SUFFICES ASSUME NEW p \in Rows
                 PROVE  /\ row'[p] = "ACTIVE" => <<p, "first">> \in landed
                        /\ row'[p] \in {"none", "FAILED"} => <<p, "first">> \notin landed
      BY <1>2 DEF BooksAgree
    <3>1. CASE p = r
      BY <1>1, <1>3, <1>4, <3>1
    <3>2. CASE p # r
      BY <1>4, <3>2 DEF RefillInv, BooksAgree
    <3> QED
      BY <3>1, <3>2
  <2> QED
    BY <2>1, <2>2
<1>10. DipsPay'
  <2>1. IsFiniteSet(Live) /\ Cardinality(Live) \in Nat /\ dips \in Nat
    BY FS_CardinalityType DEF RefillInv, DipsPay, RefillTypeOK
  <2>2. Owed = 0 /\ Owed' = (IF low' THEN 1 ELSE 0) /\ Cardinality(Live) <= dips
    <3>1. Owed = 0
      BY <1>8 DEF Owed
    <3>2. Owed' = IF low' THEN 1 ELSE 0
      BY <1>8 DEF Owed
    <3>3. Cardinality(Live) + Owed <= dips
      BY DEF RefillInv, DipsPay
    <3> QED
      BY <2>1, <3>1, <3>2, <3>3
  <2>3. CASE s = "ACTIVE"
    <3>1. Live' = Live
      BY <1>1, <1>4, <2>3 DEF Live
    <3>2. (dips' = dips /\ Owed' = 0) \/ (dips' = dips + 1 /\ Owed' \in {0, 1})
      BY <1>3, <2>2, <2>3
    <3> QED
      BY <2>1, <2>2, <3>1, <3>2 DEF DipsPay
  <2>4. CASE s = "FAILED"
    <3>1. Live' = Live \ {r} /\ r \in Live
      BY <1>1, <1>4, <2>4 DEF Live
    <3>2. IsFiniteSet(Live') /\ Cardinality(Live') = Cardinality(Live) - 1
      BY <2>1, <3>1, FS_RemoveElement
    <3>3. dips' = dips /\ Owed' \in {0, 1}
      BY <1>3, <2>2, <2>4
    <3> QED
      BY <2>1, <2>2, <3>2, <3>3 DEF DipsPay
  <2> QED
    BY <1>3, <2>3, <2>4
<1> QED
  BY <1>6, <1>7, <1>8, <1>9, <1>10 DEF RefillInv

LEMMA RefillStep == RefillInv /\ [Next]_vars => RefillInv'
<1> SUFFICES ASSUME RefillInv, [Next]_vars PROVE RefillInv'
  OBVIOUS
<1>1. CASE Merchant \/ Observing
  BY <1>1, RefillStore
<1>2. ASSUME NEW c \in Calls, Gate(c) \/ List(c) \/ Proceeds(c) \/ Lose(c)
      PROVE  RefillInv'
  <2>0. RefillTypeOK'
    BY <1>2, CallsType DEF RefillInv
  <2>1. CASE Gate(c)
    <3>1. [call[c] EXCEPT !.at = "gated", !.low = low].at = "gated"
      BY DEF RefillInv, RefillTypeOK
    <3> QED
      BY <2>0, <2>1, <3>1, RefillIdle DEF Gate, moneyVars, shopifyVars
  <2>2. CASE Skip(c)
    BY <2>0, <2>2, RefillIdle DEF Skip, NoCall, moneyVars, shopifyVars
  <2>3. CASE Begin(c)
    BY <2>0, <2>3, RefillBegin
  <2>4. CASE List(c) \/ Replay(c)
    BY <2>0, <2>4, RefillReplay
  <2>5. ASSUME NEW answer \in Answers \ {"none"}, Charge(c, answer) PROVE RefillInv'
    BY <2>0, <2>5, RefillCharge
  <2>6. CASE Settle(c)
    BY <2>0, <2>6, RefillSettle
  <2>7. CASE Lose(c)
    BY <2>0, <2>7, RefillLose
  <2> QED
    BY <1>2, <2>1, <2>2, <2>3, <2>4, <2>5, <2>6, <2>7 DEF Proceeds, Answering
<1>3. CASE UNCHANGED vars
  <2>1. /\ UNCHANGED <<row, landed, low, dips, call>>
        /\ RefillTypeOK'
    BY <1>3 DEF RefillInv, RefillTypeOK, vars, storeVars, shopifyVars, moneyVars
  <2>2. CallsSound' /\ LockedOnce'
    BY <2>1 DEF RefillInv, CallsSound, CallSound, HasRow, Charging, LockedOnce
  <2> QED
    BY <2>1, <2>2, BooksAlone, DipsAlone DEF RefillInv
<1> QED
  BY <1>1, <1>2, <1>3 DEF Next

\* The state of the store, Shopify, the rows and the calls has the form the
\* module says.
THEOREM RefillTypeCorrect == Spec => []RefillTypeOK
<1>1. RefillInv => RefillTypeOK
  BY DEF RefillInv
<1> QED
  BY <1>1, InitRefill, RefillStep, PTL DEF Spec

\* What was granted was charged, and what was written off was not, whatever
\* answers are lost and however many calls run at once.
THEOREM RefillBooks == Spec => []BooksAgree
<1>1. RefillInv => BooksAgree
  BY DEF RefillInv
<1> QED
  BY <1>1, InitRefill, RefillStep, PTL DEF Spec

\* A merchant is never charged more often than the balance became low.
THEOREM RefillCharges == Spec => []OneChargePerDip
<1>1. RefillInv => OneChargePerDip
  <2> SUFFICES ASSUME RefillInv PROVE Cardinality(landed) <= dips
    BY DEF OneChargePerDip
  <2> DEFINE f == [key \in landed |-> key[1]]
  <2>1. f \in Injection(landed, Live)
    <3>1. \A key \in landed : key = <<key[1], "first">> /\ key[1] \in Live
      BY DEF RefillInv, RefillTypeOK, FirstKeys, BooksAgree, Live
    <3> QED
      BY <3>1 DEF Injection, IsInjective
  <2>2. IsFiniteSet(Live) /\ Cardinality(Live) + Owed <= dips
    BY DEF RefillInv, DipsPay
  <2>3. Cardinality(landed) <= Cardinality(Live) /\ IsFiniteSet(landed)
    BY <2>1, <2>2, FS_Injection
  <2>4. Cardinality(landed) \in Nat /\ Cardinality(Live) \in Nat /\ dips \in Nat
        /\ Owed \in {0, 1}
    BY <2>2, <2>3, FS_CardinalityType DEF RefillInv, RefillTypeOK, Owed
  <2> QED
    BY <2>2, <2>3, <2>4
<1> QED
  BY <1>1, InitRefill, RefillStep, PTL DEF Spec

=============================================================================
