# TLA+ for jobs, workers and money

The platform sells generated images. A customer's request becomes a *job*: the API debits credits,
writes a row, and appends an entry to a Redis stream; a dispatcher process reads the entry, reserves
a ComfyUI worker, runs a prompt on it, stores the image and settles the job in Postgres. The credits
come from packs that are paid for, from plans that are renewed, and from automatic refills of a
Shopify store. Processes crash, leases run out, answers get lost, users cancel, admins retry and
flush, webhooks repeat themselves. This project specifies what must stay true about the job, the
worker, the image and the money through all of it, checks it with TLC on small instances and proves
most of the safety part with TLAPS for every value of the constants.

Every definition is translated from the code under `src/`; `PROJECT.json` maps each one to its
lines.

## 1. The system

### 1.1 Parts and the state they keep

| Part | Code | State | Operations |
|---|---|---|---|
| API, job creation | `apps/api/src/modules/jobs/create*.ts` | `jobs`, `job_inputs`, credit ledger, streams | one transaction debits and inserts, then `XADD`, then compensation if it failed |
| API, user routes | `jobs/routes.ts`, `jobs/regenerate.ts`, `jobs/refund-requests.ts`, `google-drive/service.ts` | `jobs`, `job_outputs`, `refund_requests` | cancel, download, export, regenerate, request a refund |
| API, admin routes | `admin/jobs.routes.ts`, `admin/refund-requests.routes.ts`, `admin/workers.routes.ts` | the same, and the worker registry | retry, cancel, flush the queue, decide refund requests, drain a worker |
| Credit ledgers | `credits/ledger.ts`, `credits/shopify-ledger.ts` | `credit_ledger` and its store twin, unique per (job, reason) | deduct, refund, cancel and refund, refund and fail |
| Dispatcher, job control | `dispatcher/src/job/{ownership,state,start,submission,settlement}.ts` | `dispatcher_job_control` (owner, generation, lease, active attempt), `execution_attempts` | acquire, take over, renew, retire, yield, prepare, bind, submit, settle |
| Dispatcher, processor | `job/processor.ts`, `job/adoption.ts`, `workflow/finalize.ts` | calls of `processJob` in memory, the map of in-flight tokens | run, adopt, retry, finalise |
| Dispatcher, streams | `stream/{loop,recovery,handoff,sweeper}.ts` | consumer-group entries | deliver, claim, hand off, sweep |
| Dispatcher, scheduler | `stream/{parked,loop,lane-tickets}.ts` | parked jobs, heads, lane slots, tickets | park, evaluate, offer a worker, resume |
| Dispatcher, workers | `worker/*.ts` | registry, holds and admission in Redis | claim, adopt, release on evidence, reconcile, rebuild |
| Payments and invoices | `api/src/modules/payments` | `payments`, ledger, invoice numbers, rows and PDFs | order, verify, webhook, grant, issue |
| Plans | `credits/unlimited-plan*.ts` | `unlimited_plans`, `unlimited_plan_charges` | grant, offer, revoke, order, apply a payment, expire |
| Shopify billing | `api/src/modules/shopify/autorefill.ts` and its routes | subscription and status of a store, purchases | enrol, raise, refill, replay, refresh |
| Other lanes | video (`pixverse`), classify, in-house, webhooks | their streams | run without or with other ownership |
| Shopify sync, comparison runs, messaging, fleet | `shopify`, `comparison`, `messaging`, `fleet`, `apps/fleet-agent` | catalogue copies; replay intents; conversations; samples and incidents | not modelled, see section 7 |
| Front ends, chatbot, packages, infrastructure | `apps/*`, `packages/*`, `infra` | | clients, libraries, configuration |

### 1.2 How the parts interact

* API to dispatcher: the job row, then a stream entry. The two are not atomic.
* Dispatcher to Postgres: every write about a job locks the `jobs` row first, then the control row,
  and compares session, generation and lease in the same transaction (`assertOwnerInTransaction`).
  API cancels take the same lock. The row lock is what makes a transaction one step.
* Dispatcher to Redis: a worker is claimed and given back by Lua scripts that compare a token
  (attempt, session, generation). Redis and Postgres are written one after the other.
* Dispatcher to worker: an intent row (`SUBMITTING`) is committed before the `POST /prompt`; the
  answer may be lost, and the prompt may still be accepted afterwards.
* Dispatcher to object store: a `PUT` after a check of the lease; the store has no fence.
* Process to process: only through Postgres and Redis. The marker `dispatcher:active-session` lets
  one dispatcher live per Redis, for as long as it renews its 30 s.
* Inside a process: parked jobs, lanes and recovery share maps in memory and interleave at every
  await.
* Payment service to API: the browser's `/verify` and the signed webhook report the same payment, in
  any order and as often as they like. Shopify to API: only answers, which may be lost.

### 1.3 What is hard

1. **Several ends of one job.** Settlement, user cancel, admin cancel, enqueue compensation, sweeper
   and flush may all end a job and all may refund it.
2. **Superseded handlers.** A handler sleeps in an await of minutes, its lease runs out, another
   process adopts the job, and the first wakes up.
3. **Ambiguous submission.** A lost answer must not run the prompt twice, nor free the worker on
   which it may run.
4. **Two stores about one worker.** The hold is in Redis, the evidence in Postgres and on the
   worker; a crash between two writes, or a reset of Redis, leaves them apart.
5. **At-least-once delivery.** The same job is delivered by its entry, by recovery, by its retry and
   by the sweeper, and acknowledging the wrong one loses it.
6. **Parking.** A job leaves its handler without leaving its owner, and comes back under the same
   token; the scheduler decides over several awaits on a map that changes under it.
7. **Payments reported twice, or not at all.** Grants, bonuses, plan extensions and refills must
   happen once.
8. **Checks and acts in different statements**: retry, flush, download, export, regenerate, the
   daily cap, the hourly tick, the status of a subscription.
9. **Liveness.** Nothing scans for `QUEUED` jobs without an entry; a hold nobody gives back takes a
   worker out of service; a row that stays `PENDING` stops all refills.

The full list, by line, with the properties that watch each, is under `hazards` in `PROJECT.json`.

### 1.4 What makes each part correct

* *Money of a job*: a charge is returned exactly when the job ends without an image, whole and once.
* *Result*: an output row exists exactly for completed jobs, and its image is in the store.
* *Ownership*: one generation, one process; a dead lease never revives; who lost the job leaves no
  trace.
* *Submission*: a prompt of an attempt is POSTed at most once; one idle attempt per phase.
* *Worker*: one prompt at a time, and every worker can be claimed again in the end.
* *Delivery*: the last entry of a job goes when the job is finished; every enqueued job ends.
  Section 6 has the gap in the first and the lease that blocks the second.
* *Scheduling*: one head per pool, no lost wake-up, no more jobs taken than the bound, every job
  leaves.
* *Admin tools*: refunds of different reasons exclude each other; nothing but a retry reopens a
  finished job.
* *Refund on request*: the credits of a job come back once, never for an image known to be taken when
  the approval looks, and a decision stands.
* *Payments*: one grant per order, one bonus per user, one payment per invoice number, settled in
  the end.
* *Plans*: one cycle per payment, one active plan; who has paid is served until the window is over
  (section 6 has the exceptions), and a lapsed plan is closed.
* *Refills*: at most one charge each time the balance is low, credits exactly for what was charged,
  refills go on.

## 2. Modules

```
JobContract                 the promise to the payer
   ^ KeepsContract
JobControl                  the rows and transactions of a job, clients arbitrary
   ^ UsesControl       ^ EXTENDS
JobProcessor           AdminJobs
calls, entries         retry, flush

WorkerUse                   one prompt at a time
   ^ OnePromptPerWorker
WorkerReservation           holds in Redis, attempts in Postgres, prompts on workers

ParkedScheduler    RefundRequests    Payments    PlanRenewals    AutoRefill
```

The arrows are refinements, checked by TLC and proved.

### JobContract
The abstract specification: a job is opened for a charge and ends at most once, with an image or
with the charge back.

### JobControl
State: `status`, `failures` (`jobs.attempts`), `control` (the control row: session, generation,
lease, retired), `active` and `exec` (the execution attempts), `refunds`, `credited`, `outputs`,
`enqueuing`; history: `tokens` (every `OwnerToken` ever issued), `sent` (POSTs per attempt),
`awaiting`.

One action is one Postgres transaction: `Acquire`, `Takeover`, `RenewLease`, `RetireOwnership`,
`RetireSession`, `BeginProcessing`, `ShowQueued`, `Transition`, `CountFailure`, `SettleOwned`,
`SettleTooLate`, `SettleTakeover`, `Yield`; `PrepareAttempt`, `BindAttempt`, `SubmitIntent`,
`MarkUnknown`, and the three outcomes of a POST; `CreateJob`, `EnqueueFinished`, `EnqueueFailed`,
`UserCancel`, `CancelJobAndRefund`; `LeaseAges` is the clock.

The clients are arbitrary: a process may present any token it was ever given at any time. So what
holds here holds for every order of handler steps, and `JobProcessor` only has to show that it uses
these transactions. Time is three values of a lease: fresh, short (less than the 10 s a storage
write needs), expired.

### JobProcessor
State added: `proc` (life of a process), `handler` (calls of `processJob`: place, entry, token
generation, attempt), `entries` (stream entries: ready, pending under a consumer, acked), `tracked`
(the in-flight map whose leases the timer renews), `parked`, `stored` (the object store), `faults`.

One action is what a handler does between two awaits others can see. `Deliver`, `ScanEntry`,
`ClaimEntry`, `Sweep` and `Resume` start a call; `AcquireJob`, `TakeOverJob`, `ResumeJob` and
`Adopt` take the job; `Prepare`, `Claim`, `Begin`, `Submit`, `Answer`, `Wait`, `Check`, `Put` and
`Settle` are the flow (`Advance` the two status writes in it); `Park`, `Count`, `YieldJob`,
`Handoff`, `Ack` and `Exit` end it; `Throw` is an exception at any await. `Boot`, `Drain`, `Dies`,
`Renew`, `LeaseRuns` are processes and time, `Enqueue` and `Api` the API beside it.

Details that matter and are kept: an answer of `transitionJob` that is ignored; the `catch` that
counts failures in the regular flow and not in an adoption; `XACK`, which is not per consumer, and
the handoff script, which is; a resumed call that throws before `onOwned` has run, after which the
timer goes on renewing its lease; `isParked`, which asks by job id alone; the gap between the look
at a lease and `XCLAIM`; the gap between `acquireComfyJob` and `takeoverComfyJob`; a PUT that lands
after its lease. A worker is only the nondeterministic outcome of a claim (`WorkerReservation` has
the rest), and only the main phase runs.

### WorkerUse and WorkerReservation
`WorkerUse` is the promise: a prompt is sent to a worker only while nothing runs there, unless that
worker was once freed without evidence.
`WorkerReservation` is how it is kept. Redis: `registry`, `hold`, `admission`, written by the
scripts `Claim`, `AdoptHold`, `ReleaseIfToken`. Postgres: `row` (the attempts with worker, receipt
and resolution), `generation`, `live`, `active`, `inflight`, `finished`. The worker: `remote`, what
has become of a prompt (on its way, working, in the history, gone). Processes: `call`, `review`,
`rebuild`, `edit`.

A call claims before it binds (`ClaimWorker`, `ProbeRejects`, `BindAttemptWorker`), commits the
intent (`SubmitIntent`), sends (`Post`; `Lands` is the worker taking it, which may come after the
answer was given up), and leaves (`Settle`, `HandleFailure`, `CallThrows`, `Leave`). A review asks
what a token stands for in steps the code awaits between: the row is loaded (`TickLists`,
`OwnerReviews`), the owner is asked for later (`SkipLiveOwner`, `Judge`). It looks at queue and
history (`QueueShows`, `QueueClean`, `HistoryRead`, `Unreadable`), and only then resolves and frees
(`MarkResolved`, `ReleaseExact`). An adopter re-keys the hold of the prompt it finds (`AdoptLoads`,
`AdoptReservation`) and searches until the deadline (`SearchFinds`, `SearchGivesUp`). A boot and a
reset of Redis rebuild the holds from the rows (`RebuildReads`, `RebuildRegisters`); an admin writes
back a registry entry it read before (`EditReads`, `EditWrites`).

What may go wrong is bounded in kind and in number: `crash` (of the process, and of a call between
its claim and its binding), `stall` (a lease runs out under a live call), `unread` (a worker that
cannot be read), `lost` (an answer), `edit` (an admin's late write), `reset` (of Redis). A cancel of
the API is no trouble: `CancelJob` writes the job's status and nothing else, and the owner, its lease
and its attempt go on until they meet it (`TooLate`). `torn` is history: the workers that were taken
for free on a row read too early (`Judge`), or with the data of Redis.

### ParkedScheduler
One process: `at` and `via` (where a job is and whether it occupies a slot or a ticket), `hint` (the
worker promised to it), `resuming`, `renewed`, `occupant` of a worker, and `pass`, the evaluation
with what it read at its last await. `SlotCheck` and `ReadMessage` are the two halves of a lane's
turn; `Recover` starts left-over entries under tickets; `Resume`, `ResumeThrows`, `Claim`, `Begin`,
`Release`, `End`, `NoWorkerFound` and `EventWritten` are the handler; `RowsRead`, `Ask`, `Offer` and
`PassEnds` are the evaluation, between whose steps everything else may happen; `Kick` is called by
the actions that call it in the code. It is the detail behind the `Park` and `Resume` of
`JobProcessor`.

### AdminJobs
`JobControl` with the admin's retry (`RetryReads`, `RetryWrites`: a read and an unconditional
update) and the flush (`FlushSelects`, `FlushStoreJob`, `FlushSweeps`, `FlushRefunds`, `FlushEnds`:
five statements over a list that was read first). `stores` says which jobs are billed to a Shopify
store. Because a retry reopens failed jobs, the guarantees of `JobControl` about finished jobs are
*not* inherited here; the properties below say what survives.

### RefundRequests
The customer's refund request over finished jobs: filing and committing (two steps, so that
concurrent requests of one customer can miss each other; the row lock of the job is held between
them), automatic and manual approval in two steps each (`AutoLooks`, `AdminLooks` read the download
without a lock; `RequestCommitted`, `AdminApproves` lock the job, check the rest and pay),
rejection, the admin's switch, the 24 hour window; and the routes that check for a request first and
act later: download (two steps), Drive export (three), regenerate (two). `waived` are the jobs of an
unlimited plan, for which the ledger took nothing. `owed` is minus the net of the ledger; `held`
(the customer has the image) and `overtaken` (a download was stamped past the look of an approval)
are history.

### Payments
Orders of credit packs. `/verify` and `payment.captured` run the same transaction in three steps,
between which the other may run: `Load` (the read before the transaction), `Claim` (the update from
`created`, which locks the row), `Credit` (the lock of the buyer's credits), then `Commit` or
`Abort`. `Fail` is `payment.failed`. `Check`, `Allocate`, `Put` and `Insert` issue the invoice, at
the receipt's desk and at the admin's at the same time, and `IssueFails` stops either after the
number, the file or the row.

### PlanRenewals
The unlimited plans of one user: `Grant`, `Offer`, `Revoke` by the admin; `Order` and the payment,
applied in `Load`, `Claim`, `LockPlans` and `Extend` or `ExtendRefused` (the unique index on active
plans rolls it back); `Elapse` is time; `TickLists` and `Flip` the hourly tick, with `MailFails`
before a flip as often as it likes. `newer` orders the rows by their last write, which decides the
"latest" plan.

### AutoRefill
The refills of one store: `Enrol`, `Disable`, `RaiseCap` and Shopify's `Decide`; `Gate` (the read
before the lock), `Begin` or `Skip` under the advisory lock, `Charge`, `Lose` or `Settle`; `List`
and `Replay` of the reconciler under the same key; `Fetch`, `Refresh` and `WriteSeen`, three writers
of a status that was read before.

### MC modules and proofs
`MC*.tla` give values to the constants. `*Proofs.tla` hold lemmas and theorems.

## 3. Runs

Eleven runs pass and one finds a disagreement:

| Run | Instance | Shows |
|---|---|---|
| `job_control` | 1 paid job, 2 sessions, 2 phases, 3 generations, 2 attempts, 1 counted failure | money, ownership, intents, idle attempts, leases, and the refinement of the contract, for every order of transactions |
| `job_processor` | 1 job, 2 concurrent calls, 2 incarnations on different hosts, 3 entries, retry budget 2, 1 fault | one call with authority, an image behind every completion, superseded calls without effect, the last entry of a job lost in one gap only |
| `job_processor_live` | the same with 1 call at a time and 3 attempts, under fairness | the rows change as `JobControl` allows; every enqueued job ends or is forgotten behind a lease renewed for nobody |
| `admin_jobs` | 1 paid job of a user or of a store, 2 overlapping retries, a flush that may stop anywhere | guarded refunds exclude each other; only a retry that read `FAILED` reopens a finished job |
| `refund_requests` | 2 jobs of one customer, each paid or waived, cap 1 | credits back once, for images not taken when looked at, decided once |
| `worker_reservation` | 1 worker, 1 job, 2 attempts, 2 generations, 2 calls, 1 crash or stall | a worker that may run a prompt is held for it until it is torn, a resolved attempt is over, one prompt per worker (`WorkerUse`) |
| `worker_reservation_live` | the same with 1 attempt, 1 trouble of any kind, under fairness | every worker can be claimed again and again |
| `parked_scheduler` | 4 jobs of 2 pools in 1 lane of 3 slots, 2 workers serving both pools, bound 2; 1 job left over, 1 cancelled, 1 overdue, 1 on a slower stream; 1 resumed call throws | one head per pool, no lost wake-up, the bound, renewals, every job ends |
| `payments` | 2 orders of 1 user with a bonus, 2 calls, 2 numbers, 1 trouble | one grant, one bonus, one payment per number, every captured order settled |
| `plan_renewals` | 2 plans and 2 charges of 1 user, 2 calls, 1 trouble | one cycle per payment, one active plan, a plan serves until it is over, captured is paid or had failed, lapsed is flipped |
| `auto_refill` | 2 rows, 2 calls, 2 subscriptions, 2 dips of the balance, 2 lost answers or crashes | one charge per dip, books agree with Shopify, refills resume |
| `answered_uncredited` | as `payments` | *violated*: `/verify` answers that the order was credited when it was not |

### Properties

*Jobs.* `MoneyFollowsOutcome`, `OneOwnerPerGeneration`, `IntentSentOnce`, `OneIdleAttempt`,
`LeaseDiscipline`, `KeepsContract`; `OneCallHasAuthority`, `CompletedHasImage`,
`SupersededCallIsHarmless`, `LostInGapOnly`; `UsesControl`, `EnqueuedJobEnds`;
`GuardedRefundsExclude`, `FinishedUntilRetried`; `RefundedOnce`, `RefundsUntakenOnly`,
`DecisionIsFinal`.

*Workers.* `HeldWhileRemote`, `ResolvedIsOver`, `OnePromptPerWorker`, `CapacityReturns`;
`OneHeadPerPool`, `WokenWhenReady`, `LaneWithinBound`, `RenewedIsHeld`, `EveryJobEnds`.

*Money.* `CreditedOnce`, `BonusForFirst`, `NumberOfOnePayment`, `CaptureIsSettled`; `ExtendedOnce`,
`OneActivePlan`, `ServedUntilOver`, `CaptureIsPaidOrFailed`, `LapsedIsFlipped`; `OneChargePerDip`,
`BooksAgree`, `RefillsResume`.

Some of them are true of the code only with an exception: the formula names it, the comment says so,
and section 6 describes it: `LostInGapOnly` and
`EnqueuedJobEnds` (`RequeuedInGap`, `Forgotten`), `HeldWhileRemote` and `OnePromptPerWorker` (`torn`),
`RenewedIsHeld` and `EveryJobEnds` (`adrift`), `RefundsUntakenOnly` (`overtaken`), `RefundedOnce` (the
waived price), `ServedUntilOver` (a flip of the tick that read the plan before),
`CaptureIsPaidOrFailed` (a refusal before), `LapsedIsFlipped` (mails that always fail). Each exception
is reached in its run, where the property without it is violated (of `Forgotten`, the lease; the lost
entry needs two calls, see `job_processor`).

The type invariants of most modules are proved and therefore in no run (`TypeOK`, `ProcTypeOK`,
`AdminTypeOK`, `RefundTypeOK`, `PaymentsTypeOK`, `RenewalsTypeOK`, `RefillTypeOK`); so are
`OutputFollowsOutcome` and `CompletedIsReleased` (conjuncts of `SettledInv`), `TerminalIsFinal` and
`InvoiceHasFile`.

The violated run is a finding in `PROJECT.json`: after `payment.failed` the row of an order is
`failed`; a later successful attempt on the same order claims nothing, `/verify` reports
`alreadyCredited`, the webhook answers 200, and nobody credits the buyer (`payments/routes.ts:339`).
`CaptureIsSettled` is stated so that it holds with that.

### Why the bounds are enough

*Jobs.* All operations are about one job, except the daily cap (two jobs) and the flush (a list,
whose jobs are worked off one at a time); rows of different jobs are never written in one
transaction. Two sessions give a loser and a winner; three generations let a loser be followed by a
winner that loses in turn. Two attempts are a first one and a retry. Two concurrent calls are needed
for every race of recovery, sweeper and parking; liveness is checked with one, because two are out of
TLC's reach under fairness. What two calls could do to it is the gap of section 6, which the safety
run with two calls has. One fault is one crash, stall, unreadable worker or
exception at any point. `MaxEntries` bounds retries by the number of entries, `RetryBudget` is
`MAX_ATTEMPTS`, two instead of the code's value, so that a job is retried and then given up.

*Workers.* Holds of different workers share nothing but the search for a free one, which tries each
worker once per call. Two attempts and two generations let a token be replaced by a later attempt of
the same owner and by an adopter of the same attempt. A worker of its own for a second job would
only wait; two jobs on one worker are two attempts that follow each other. `parked_scheduler` has
two workers that serve both pools, so that heads compete for both; a lane with one slot more than
workers, for a worker that is registered and cannot be claimed; and a bound that fewer jobs reach
than there are.

*Money.* Two orders, plans or charges of one user meet in every lock and every check there is; two
calls are the browser and the webhook, or two deliveries. One failed statement at any point of any
call. In `auto_refill` two lost answers let a replay be lost as well, and two subscriptions let one
be replaced while a charge on it is on its way.

A counter at its bound disables the step that would raise it, and a finished job stops: that is why
deadlock is not checked in most models. `RefundRequests` never stops, and `ParkedScheduler` stops
only when every job has ended (`Done`): both are checked for deadlock.

## 4. Fairness

*`FairProcSpec`* (for `EnqueuedJobEnds`): weak fairness of every handler step, since an await ends
(requests to workers and to the store have timeouts); of `Boot` and of the exit of a draining
process, since the container is restarted and the drain is bounded; of `LeaseRuns`, since time
passes (a live process renews every 5 s, so a lease that runs out under it costs one of the bounded
faults). Strong fairness of `Deliver` and `ScanEntry` for each job: the lanes read in a loop and
recovery runs every 5 s, and an entry that is eligible again and again is read in the end although
the slots are sometimes busy. Strong fairness of `Claim` and `Resume`: a waiting job asks for a
worker each time it is resumed, and is given up after three hours at the latest; it parks in
between, so weak fairness would say nothing. Nothing is assumed of `Sweep`, of `Throw` or of any
fault. The property is about jobs that have been enqueued: a job whose API process stops before the
`XADD` stays `QUEUED`, in the code too.

*`WorkerReservation`* (for `CapacityReturns`): weak fairness of the steps of each call, each review,
the tick over each worker, prompts (they land or are lost, and end), the deadline of an attempt, the
lease of an owner that no longer renews, and the rebuild. Nothing is assumed of troubles, admin
edits or cancels.

*`ParkedScheduler`* (for `EveryJobEnds`): weak fairness of each lane, of recovery, of each handler,
of the tick and the evaluation, and of the three-hour limit for the jobs that may reach it. Nothing
is assumed of cancels, promotions or of owners that are replaced.

*`Payments`, `PlanRenewals`*: calls go on (weak); a captured event that was not answered with 200 is
delivered again and again (strong, since the row may be locked each time); the hourly tick runs and
flips, unless the mail before the flip fails: `LapsedIsFlipped` says so itself. Nothing is assumed of
the browser or of admins.

*`AutoRefill`* (for `RefillsResume`): calls go on, and the two hourly sweeps run; the listing of an
old `PENDING` row by the reconciler is strongly fair. That is true of one store. In the fleet of all
stores a sweep takes the 50 oldest rows (`autorefill-reconciler.ts:24`, `:195-196`), and rows that
cannot be verified never leave the head of that list, so the assumption relies on an operator who
clears them before there are 50. Nothing is assumed of merchants.

## 5. Proofs

All theorems hold for all values of the constants that satisfy the named assumptions of the modules,
so for any number of jobs, processes, calls, generations, attempts, workers, lanes, orders, plans
and rows.

**JobControlProofs.** `TypeCorrect` goes action by action. Money needs a strengthening: that a
refund row exists only for a job that has ended without an image (`RefundsAreEarned`), because each
refunding transaction looks for earlier rows, and would skip the refund if it found a stale one.
With it, `SettledInv` (money, earned refunds, output, release) is inductive (`SettlementCorrect`),
and gives `MoneyIsRight`. `FinishedIsFinal` and `LeaseIsFenced` are action properties, from the type
invariant alone. `OwnerIsUnique` rests on the fact that tokens come from grants only
(`TokensComeFromGrants`). `IntentIsSentOnce` needs `IntentHistory`: before its intent an attempt has
sent nothing, and no state leads back there. `IdleAttemptIsOne` is inductive as it stands: an owner
is given the idle attempt its phase has, or there was none, and every other step only takes attempts
out. `ContractIsKept` is the refinement, from the above: each transaction is `Open`, `Deliver`,
`GiveUp` or a stutter of `JobContract`. Its last section is about `AdminJobs`, which extends the
same state: `AdminTypeCorrect`; `GuardedExclusive`, by the lemma that every guarded refund pays only
if no refund row exists; `RetryAloneReopens`, since every other transaction asks for an open row in
the statement that writes it.

**JobProcessorProofs.** The inductive invariant `ProcInv` adds to the type what the calls hold: a
call with a generation holds a token that was really granted (`CallsHoldTokens`), and a call that
drives an attempt has one (`CallsHaveAttempts`). With it every step is a step of `JobControl` or
leaves its variables alone (`StepIsControl`), hence `ProcessorRefinesControl`, and everything proved
about `JobControl` holds under deliveries, parking and crashes, for instance
`ProcessorMoneyIsRight`. `AuthorityIsExclusive` needs `OneHolder`: a token is in one pair of hands,
a call's or a parked job's. `Park` passes it from the call to the parked record and `Resume` back,
in one step each, and a grant issues a generation nobody has seen; together with `LeaseDiscipline`
at most one of the holders is the owner. `SupersededCallsAreHarmless` shows that a step that changes
a call is a step of that call or the death of its process (`OneCallMoves`), and that every
transaction of a call without the lease leaves the status, failures, money and outputs alone
(`UnownedStep`). `CompletedJobsHaveImages` needs `ImageInv`: from the POST to the PUT a call carries
an attempt, and a call about to settle has stored that attempt's image. The last section is about
the stream. `AcksFollowOrGap` says step by step, for any number of concurrent calls, why a call comes
to its ACK: its job is finished, or it is in the gap between `acquireComfyJob` and
`takeoverComfyJob` in which another call has put the job back to `QUEUED` (section 6); and the last
entry of a job goes by such an ACK only, as handoffs append before they ACK and no other step touches
an entry. `MessagesLostInGapOnly` draws the conclusion about states: `KeptInv` says that an unfinished
enqueued job has an entry nobody has ACKed and that a call about to ACK works on a finished job, and
it is invariant as long as no call is in the gap. That is a hypothesis about the run, which the code
does not guarantee; the theorem says that there is no other way to lose a message.

**RefundRequestsProofs.** `RefundTypeCorrect`; `DecisionStands`, from the invariant that a job with a
request being filed has no committed one and that an approval in progress holds its request
`PENDING` (`LocksHold`); `UntakenOnly`, from the invariant that a download stamped although an approval
has looked for one is overtaken (`StampsKnown`); `PaidBackOnce`, from the invariant that a job owes its
whole debit, or the debit less the whole price under some refund reason (`WholeOrBack`), for paid and
for waived jobs alike.

**WorkerReservationProofs.** In two stages. `TypeInv` (`ReservationTypeCorrect`) knows that a call
past its claim has an attempt of its own job and a worker. `TruthInv` says that what is written or
has been seen stays true while its reader sleeps: the rows say no more about a prompt than what
happened to it (`RowsTellTruth`), a review's look at the queue and the history is still right when
it resolves (`ReviewsTellTruth`), only the call of the newest generation posts (`CallsInOrder`,
`Posting`), and a call that asks about a hold waits for the answer (`OwnReviews`). It gives
`ResolvedStatesAFact`. `HoldInv` adds the other store: a worker that is not torn is held for the
attempt that is open on it (`OpenIsHeld`), an owner has both the row and the hold from its claim to
its intent (`OwnersHold`), whoever is about to free a worker uncovers nothing or has torn it
(`SafeToFree`), tokens are of generations that were granted (`TokensGranted`), an adopter holds
nothing yet (`NotYetHolding`), the reconciler frees holds of dead owners only (`ReviewedAreDead`),
and a rebuild writes no less (`RebuiltHolds`). `HeldWhileWorking` and the refinement
`ReservationGivesToOne` (a `Post` is `Send` of `WorkerUse`, the end or the rejection of a prompt is
`End`, a look that believes a stale row and a reset are `Free`, all else stutters) hold without a
hypothesis, under every kind of trouble and in any number. What is proved of a torn worker is
nothing: section 6 says how one comes about.

**ParkedSchedulerProofs.** `SchedulerInv` says what an evaluation may still rely on several awaits
after it read: the heads it has not placed are waiting (`StillWaiting`), they were chosen apart
(`HeadsApart`), it knows every worker that is promised (`KnowsPromises`), and whoever is being
resumed has a handler (`Carried`). It gives `SchedulerTypeCorrect`, `HeadsHaveOwnWorkers`,
`RenewedAreHeld`, and with a count of readers against the bound `LanesWithinBound`. That the first
of the waiting jobs exists and is one of them (`First`) is proved from the well-foundedness of the
order of finite subsets. `RenewedAreHeld` covers the resumed call that throws: the job it leaves is
adrift. `NoWakeUpIsLost` needs `WakeInv`: whenever no kick is outstanding, each pool
that waits and that nobody is resumed for either still has a head in the running evaluation
(`Considered`) or is one the evaluation could do nothing for (`Stuck`), and the workers it holds for
promised are still promised (`AllSeen`). A step that could make a pool ready kicks (`KickedWakes`);
any other can only take workers and slots away (`Calm`, `CalmWakes`). It also needs that the jobs of
a pool ride one lane (`PoolAssumption`, true of the code: section 6).

**PaymentsProofs.** `LockInv`: the rows of orders and of buyers are held by one call each
(`RowsExclude`, `BuyersExclude`), a held order is still `created` for everybody else, and a call
that reads "first purchase" under the buyer's lock reads the truth (`FirstIsTrue`). It carries
`PaymentsCreditedOnce` and `PaymentsBonusForFirst`. `PaperInv`: a number that was handed out is on
one desk, file or row only (`NumbersOfOne`), and a row follows its file (`FilesFirst`); it carries
`InvoiceNumbers` and `InvoicesAreStored`.

**PlanRenewalsProofs.** `RenewalInv`: what a call read when it took its locks still holds
(`CallsSound`), a charge and a plan are held by one call each, and the unique index keeps one plan
active. `RenewalsExtendOnce`, `RenewalsOneActive` and the action property `RenewedServesUntilOver`
follow; the last looks at every step that may end a serving plan, not at the settlement alone.

**AutoRefillProofs.** `RefillInv`: one call holds the lock (`LockedOnce`), one row is `PENDING`
(`OnePending`), a row is charged under its first key only (`FirstKeys`), the books agree, and rows
that may have charged, together with a low balance not yet paid for, are no more than the dips
(`DipsPay`). `RefillBooks` and `RefillCharges` follow.

**Model-checked only.** Liveness and anything with ENABLED are beyond the prover (`EnqueuedJobEnds`,
`CapacityReturns`, `EveryJobEnds`, `CaptureIsSettled`, `CaptureIsPaidOrFailed`, `LapsedIsFlipped`,
`RefillsResume`). Every invariant, action property and refinement of the passing runs has a theorem,
and none of these has a hypothesis beyond the assumptions on the constants; `MessagesLostInGapOnly`
alone has one, and is no property of a run. No theorem is about a recursive definition.

## 6. Departures

What the code does is in the models, also where a comment or a design document says something else.
These are reachable behaviours; each passing property is stated so that it is true with them, and
the run or instance it needs is named here.

*Jobs.*

* Two calls for one entry: one yields the job, the takeover of the other reads `QUEUED` as terminal
  and acknowledges the entry, and the handoff of the first finds nothing to replace
  (`processor.ts:456`). The job stays `QUEUED` with its charge, and nothing looks for it. The design
  says to keep the delivery pending until settlement or handoff. It needs two concurrent calls (of two
  processes, or of two recovery ticks of one). `LostInGapOnly` is checked with two calls and names this
  gap, `RequeuedInGap`; it and `MessagesLostInGapOnly` show that nothing else loses a message. The
  liveness run has one call, since two are out of TLC's reach there, and so does not reach the gap.
* A parked job whose lease lapsed is recovered under a new generation; if that call throws, its
  lease is kept on account of the old parked record, since `isParked` asks by the job id alone
  (`processor.ts:308`). Two faults are needed.
* A resumed call that throws before `onOwned` has run has no token in `owned`, so the `finally` gives
  nothing up and the process goes on renewing the lease (`processor.ts:310`), against the comment
  :301-305, "whatever the exit". Recovery and the sweeper see a live owner until the process ends. This
  is `Throw` at `resume` in `JobProcessor` (`Forgotten`) and `ResumeThrows` in `ParkedScheduler`
  (`adrift`).
* A job that fails and is refunded, is retried and cancelled by its user is refunded again: the user
  cancel looks at its own reason only (`jobs/routes.ts:1149`, against
  `packages/types/src/job-refunds.ts:5-6`). `GuardedRefundsExclude` is about the guarded reasons.
* The flush refunds a listed job that completed between its statements (`admin/jobs.routes.ts:620`),
  and its bulk update cancels jobs queued after its select, which are not on its refund list.
* The second of two retries reopens a job that the first has brought to `COMPLETED`
  (`admin/jobs.routes.ts:644`): the write has no condition, although the route says "only FAILED can
  retry". `FinishedUntilRetried` is about all other steps.
* A failed job of an unlimited plan is credited its nominal price, which nobody had paid
  (`settlement.ts:275`, against `refund-requests.ts:62-64`). `RefundedOnce` allows that price, once.
* An approval reads the download first and locks the job later (`refund-requests.ts:148-158`, with no
  lock on `job_outputs`), so an image that is stamped as downloaded in between is refunded, although
  the comment at :145-147 thinks of a download before the request only. `RefundsUntakenOnly` excepts
  such a stamp (`overtaken`).
* A download or a Drive export that passed its check leaves after the refund was approved
  (`jobs/routes.ts:999`); a regeneration that passed its checks inserts its child after it
  (`regenerate.ts:123`); two requests of one customer may both count below the daily cap before
  either commits.

*Workers.*

* The reconciler loads an attempt as `PREPARING`; then the owner submits it, its call fails and it
  leaves; then the lease is read, no owner is found, and the worker is freed under the running prompt
  (`reservation-reconciler.ts:338-355`), against "never a free worker over unresolved remote work". It
  takes no crash, stall or lost answer, only two awaits. An adopter that has loaded the hold before can
  do the same (`adoption.ts:157-166`). In the model `Judge` then marks the worker `torn`, and
  `HeldWhileRemote` and `OnePromptPerWorker` are about workers that are not; without that exception TLC
  violates both. A reset of Redis tears every worker for good.
* After a reset of Redis the rebuild may name the present owner of a job in the token of an older
  attempt. That owner may itself wait for this worker, and in a fleet of one worker it waits until
  its three hours are over. `CapacityReturns` holds because of that limit.
* A freed worker does not always go to the oldest head among the pools it serves, as
  `parked.ts:220-222` says: the heads are chosen before the workers are listed, and a job that reads
  a worker from Redis for itself may pass the waiting ones.
* An evaluation chooses one head per pool and drops the pool if that head's lane has no slot
  (`parked.ts:221-245`). A pool whose jobs came from two lanes could so be passed over with a free
  slot, and a promotion could bring such a head to the front without a kick. No pool does: what is
  created with `inhouse` rides `jobs:inhouse` and alone needs that pool (`processor.ts:1715`). The
  model states it as `PoolAssumption`; whoever feeds one pool from two lanes must kick on promotion.
* The lanes together may hold more waiting jobs than `MAX_PARKED`, since each checks for itself and
  recovered jobs are not counted; `LaneWithinBound` is per lane. A slot is checked before the read,
  so one more job than the lane's capacity may run.

*Money.*

* The finding of section 3.
* "Gap-free" numbering (`issue-invoice.ts:21`) has gaps after a failed render or `PUT` and when two
  desks issue at once; the PDF in the store may show another number than the row.
* The tick lists the active plans, mails, and expires a row by its id
  (`unlimited-plan-scheduler.ts:122`): a plan that was paid for or granted again meanwhile is
  expired although its window is open, whereas `:62-65` calls the flip bookkeeping that does not stop
  access. `ServedUntilOver` names this as the one thing beside the window and an admin.
* A mail that throws (`mailer.ts:209-215`, any error of the mail service) skips the flip, against
  `:119-121`: for an address that always fails a lapsed plan stays active for ever. `LapsedIsFlipped`
  excepts exactly that; mail failures are not bounded.
* A `payment.failed` of an earlier attempt marks a plan charge failed
  (`unlimited-plan-renewal.ts:111-123`), and the capture of a later attempt is then skipped as applied
  (:51-58): the money is taken and buys nothing, as in the finding for credit packs.
  `CaptureIsPaidOrFailed` is stated with it.
* A captured charge of a revoked plan or of a cancelled offer makes the plan active again.
* The status of one subscription is written to the store after the merchant has enrolled again or
  raised the ceiling (`autorefill.ts:488`), so a subscription may count as active before it is
  approved. Shopify refuses the charge, so no money moves.

## 7. Not modelled

Every part is listed in `PROJECT.json` with its status and reason; most of the source is front ends,
catalogues and user interface, which keep no state that these protocols share. In the modelled parts
these are left out:

* *Jobs*: the Shopify daily-cap slot that a settlement returns, and job params; jobs from before
  attempts were recorded, which keep an older policy of counted failures; the idle threshold of
  recovery (any entry nobody works on is claimable); stream trimming (`MAXLEN`); the mannequin and
  extraction phases inside `processJob`, and the video lane, which runs without an owner token; the
  daily limit of free regenerations, viewing a result while a request is pending; deletion.
* *Workers*: adding, removing, renaming and re-pointing workers, `is_active`, health keys, pools and
  ranking of workers, the claim of the dispatcher session, the transient tokens of the
  classification lane. A deadline is over once a POST can no longer land (15 s against a window of
  90 s). `TickLists` reads and loads a hold in one step; a pass over a hold with a live owner
  changes nothing. The safety run with two attempts has crashes and stalls only; the other troubles
  are in the liveness run with one attempt, and all of them in the proofs.
* *Scheduler*: shutdown, a changing concurrency, failed probes after a claim,
  pruning of placeholders, and the adoption of a parked job by the process that parked it. The claim
  and the bind of a worker, the admission of a message, and the end of a handler are one step each.
  The promotion clock restarts at each park, as in the code. `WokenWhenReady` leaves out workers
  that are promised, the slots of left-over entries, cancels and the three-hour limit, which the
  tick finds. The three hours are counted from `createdAt` by some handlers and from `queuedAt` by
  the scheduler; the model has one limit.
* *Payments*: prices, tax, receipt mails, the PDF, several financial years; deadlocks of the
  database are troubles.
* *Plans*: reminder stages, the check at login, prices, the admin's own record of charges,
  two admins at once.
* *Refills*: packs, prices and ceilings in money, warnings, one-time purchases, shopper limits.
  Shopify is taken to return the first record for a repeated key and to refuse charges on a
  subscription that is not active; a request is over after ten minutes; a lost advisory lock is a
  lost answer.

## 8. Plan

Done: the modules of section 2 and their proofs. Next, in order:

1. `StreamDelivery`: consumers by host name, the retired marker, idle time, trimming; refines the
   entries of `JobProcessor`, and shows which deliveries can put two calls on one entry.
2. `VideoLane` and the multi-phase jobs (mannequin, saree step 2, held jobs): unfenced writes
   against cancels, promotion after a crash.
3. `JobCreation`: batches, idempotency keys, waived charges, partial enqueue failure.
4. `StoreCap`: shopper limits and the daily cap, whose slots are reserved, counted and released once
   (`limits.ts:129`), and the settlement of one-time purchases.
5. `ComparisonRuns`: intent before `XADD`, the tick after a crash (`dispatcher-tick.ts:72`),
   retention.
6. `Conversation` (messaging: one conversation at a time per sender, `conversation.ts:19`) and the
   fleet evaluator.
