---------------------------- MODULE JobProcessor ----------------------------
(***************************************************************************)
(* The dispatcher process around the transactions of JobControl: handlers  *)
(* (processJob), the Redis stream entries they are started for, recovery   *)
(* and the sweeper that start them again, the process-local maps of owned  *)
(* and of parked jobs, and the death of a process at any step.             *)
(*                                                                         *)
(* One action is what a handler does between two awaits that other actors  *)
(* can see: one transaction, one Redis command, one PUT.  A handler that   *)
(* is between two actions may be overtaken by everything else.             *)
(***************************************************************************)
EXTENDS JobControl

CONSTANTS
    Handlers,    \* slots for concurrent processJob calls, over all processes
    Main,        \* the phase of the attempts modelled here
    Host,        \* Host[s]: consumer name of the process, its host name
    MaxEntries,  \* bound: stream entries per job
    RetryBudget, \* MAX_ATTEMPTS of handleFailure
    MaxFaults    \* bound: crashes, stalls, unreadable workers, stray exceptions

ASSUME ProcessorAssumption ==
    /\ Main \in Phases
    /\ DOMAIN Host = Sessions
    /\ MaxEntries \in Nat /\ MaxFaults \in Nat
    /\ RetryBudget \in Nat \ {0}

VARIABLES
    proc,     \* proc[s]: new, up, draining or dead
    handler,  \* handler[h]: where a processJob call is and what it holds
    entries,  \* entries[j][e]: stream entries that name job j
    tracked,  \* inFlight map of ownership.ts: tokens whose lease is renewed
    parked,   \* jobs map of parked.ts: jobs waiting for a worker
    stored,   \* stored[j]: attempt whose image the object store holds, 0 none
    faults    \* faults that have happened

localVars == <<handler, tracked, parked>>
procVars  == <<proc, localVars, entries, stored, faults>>
allVars   == <<vars, procVars>>

-----------------------------------------------------------------------------
(* Values *)

EntryIds == 1 .. MaxEntries

\* The delivery the sweeper makes up: NO_MESSAGE_ID.
NoMessage == 0

Entry == [state: {"absent", "ready", "pending", "acked"},
          consumer: {Host[s] : s \in Sessions} \cup {NoSession}]
NoEntry == [state |-> "absent", consumer |-> NoSession]

Place == {"scanned", "acquire", "takeover", "resume", "adopt", "prepare", "claim",
          "begin", "generate", "submit", "answer", "wait", "upload", "check", "put",
          "settle", "count", "terminate", "cancel", "yield", "handoff", "ack", "exit"}

\* gen 0: the call owns nothing yet.  adopter: the call is inside adoptComfyJob,
\* outside the try block whose catch counts failures.
Call == [pc: Place, session: Sessions, job: Jobs, entry: {NoMessage} \cup EntryIds,
         gen: 0 .. MaxGeneration, attempt: 0 .. MaxAttempts, adopter: BOOLEAN]
NoCall == [pc |-> "idle"]

ProcTypeOK ==
    /\ TypeOK
    /\ proc \in [Sessions -> {"new", "up", "draining", "dead"}]
    /\ handler \in [Handlers -> Call \cup {NoCall}]
    /\ entries \in [Jobs -> [EntryIds -> Entry]]
    /\ tracked \subseteq tokens
    /\ parked \subseteq [token: tokens, entry: {NoMessage} \cup EntryIds]
    /\ stored \in [Jobs -> 0 .. MaxAttempts]
    /\ faults \in 0 .. MaxFaults

ProcInit ==
    /\ Init
    /\ proc = [s \in Sessions |-> "new"]
    /\ handler = [h \in Handlers |-> NoCall]
    /\ entries = [j \in Jobs |-> [e \in EntryIds |-> NoEntry]]
    /\ tracked = {}
    /\ parked = {}
    /\ stored = [j \in Jobs |-> 0]
    /\ faults = 0

-----------------------------------------------------------------------------
(* A call and what it holds *)

At(h, pc) == handler[h].pc = pc
JobOf(h)  == handler[h].job
TokenOf(h) == [job |-> handler[h].job, session |-> handler[h].session,
              generation |-> handler[h].gen]

Start(s, j, e, pc) == [pc |-> pc, session |-> s, job |-> j, entry |-> e,
                       gen |-> 0, attempt |-> 0, adopter |-> FALSE]

Goto(h, pc) == handler' = [handler EXCEPT ![h].pc = pc]
Done(h)     == handler' = [handler EXCEPT ![h] = NoCall]

\* One more fault, of those the bound allows.
Fault == faults < MaxFaults /\ faults' = faults + 1

\* Everything but the call itself stays as it is.
OnlyCall == UNCHANGED <<proc, tracked, parked, entries, stored, faults>>

\* A fenced write of a handler that lost its job throws OwnershipLostError, and
\* the handler stops: no failure is counted and nothing is ACKed.
LosesJob(h) == ~Owns(TokenOf(h)) /\ Goto(h, "exit") /\ UNCHANGED vars

SameJob(t, s, j) == t.session = s /\ t.job = j

\* onOwned: trackOwnedJob replaces whatever entry the map had for the job.
Track(t) == tracked' = {u \in tracked : ~SameJob(u, t.session, t.job)} \cup {t}

\* The call owns its job from here on, under the generation just granted.
NowOwns(h, pc, adopter) ==
    LET t == [TokenOf(h) EXCEPT !.generation = control'[JobOf(h)].generation]
    IN  /\ handler' = [handler EXCEPT ![h].pc = pc, ![h].gen = t.generation,
                                      ![h].adopter = adopter]
        /\ Track(t)
        /\ UNCHANGED <<proc, parked, entries, stored, faults>>

-----------------------------------------------------------------------------
(* The stream: delivery, recovery, handoff *)

Pending(j, e) == entries[j][e].state = "pending"

Unread(j, e) == [entries EXCEPT ![j][e] = [state |-> "ready", consumer |-> NoSession]]

SetEntry(j, e, st, consumer) ==
    [entries EXCEPT ![j][e] = [state |-> st, consumer |-> consumer]]

FreeEntry(j) == {e \in EntryIds : entries[j][e].state = "absent"}

\* A lane reads a new entry: pending under this host from here on.
Deliver(h, s, j, e) ==
    /\ proc[s] = "up"
    /\ At(h, "idle")
    /\ entries[j][e].state = "ready"
    /\ entries' = SetEntry(j, e, "pending", Host[s])
    /\ handler' = [handler EXCEPT ![h] = Start(s, j, e, "acquire")]
    /\ UNCHANGED <<vars, proc, tracked, parked, stored, faults>>

\* eligibleNow: a control row whose lease is free makes an entry claimable at once;
\* the idle threshold, longer than any call that owns nothing, does otherwise.
Eligible(j, e) ==
    \/ control[j].generation > 0
    \/ \A h \in Handlers : ~At(h, "idle") => ~(JobOf(h) = j /\ handler[h].entry = e)

\* recoverPendingJobs looks at an entry: eligible, and no live lease over it ...
ScanEntry(h, s, j, e) ==
    /\ proc[s] = "up"
    /\ At(h, "idle")
    /\ Pending(j, e)
    /\ Eligible(j, e)
    /\ ~Live(j)
    /\ handler' = [handler EXCEPT ![h] = Start(s, j, e, "scanned")]
    /\ UNCHANGED vars
    /\ OnlyCall

\* ... and claims it with a command of its own, after whatever happened between.
ClaimEntry(h) ==
    LET c == handler[h] IN
    /\ At(h, "scanned")
    /\ IF Pending(c.job, c.entry)
         THEN /\ entries' = SetEntry(c.job, c.entry, "pending", Host[c.session])
              /\ Goto(h, "acquire")
         ELSE UNCHANGED entries /\ Done(h)
    /\ UNCHANGED <<vars, proc, tracked, parked, stored, faults>>

\* runSweeper: a job in flight under no live lease is adopted with no entry
\* behind it, once per process at a time.
Sweep(h, s, j) ==
    /\ proc[s] = "up"
    /\ At(h, "idle")
    /\ status[j] \in InFlight
    /\ ~Live(j)
    /\ \A g \in Handlers : ~At(g, "idle") =>
          ~(handler[g].session = s /\ JobOf(g) = j /\ handler[g].entry = NoMessage)
    /\ handler' = [handler EXCEPT ![h] = Start(s, j, NoMessage, "acquire")]
    /\ UNCHANGED vars
    /\ OnlyCall

\* XACK, which is not per consumer; nothing to do for the sweeper's delivery.
Ack(h) ==
    LET c == handler[h] IN
    /\ At(h, "ack")
    /\ entries' = IF c.entry = NoMessage THEN entries
                  ELSE SetEntry(c.job, c.entry, "acked", NoSession)
    /\ Goto(h, "exit")
    /\ UNCHANGED <<vars, proc, tracked, parked, stored, faults>>

\* Faulty: two commands instead of one script, and the process stops before the append.
HandoffLosesAppend(h) ==
    LET c == handler[h] IN
    /\ At(h, "handoff")
    /\ entries' = IF c.entry = NoMessage THEN entries
                  ELSE SetEntry(c.job, c.entry, "acked", NoSession)
    /\ Goto(h, "exit")
    /\ UNCHANGED <<vars, proc, tracked, parked, stored, faults>>

\* HANDOFF_LUA: append the replacement and ACK the original in one script, if
\* the original is still pending under this host.
Handoff(h) ==
    LET c == handler[h]
        ours == c.entry # NoMessage /\ Pending(c.job, c.entry)
                /\ entries[c.job][c.entry].consumer = Host[c.session]
    IN
    /\ At(h, "handoff")
    /\ IF c.entry = NoMessage \/ ours
         THEN \E e \in FreeEntry(c.job) :
                entries' = IF ours
                  THEN [Unread(c.job, e) EXCEPT ![c.job][c.entry] =
                          [state |-> "acked", consumer |-> NoSession]]
                  ELSE Unread(c.job, e)
         ELSE UNCHANGED entries
    /\ Goto(h, "exit")
    /\ UNCHANGED <<vars, proc, tracked, parked, stored, faults>>

-----------------------------------------------------------------------------
(* Taking the job: acquire, take over, resume *)

AcquireJob(h) ==
    LET j == JobOf(h) IN
    /\ At(h, "acquire")
    /\ \/ Acquire(j, handler[h].session) /\ NowOwns(h, "prepare", FALSE)
       \/ /\ \/ IsTerminal(j) /\ Goto(h, "ack")
             \/ ~IsTerminal(j) /\ Live(j) /\ Goto(h, "exit")
             \/ status[j] \in InFlight /\ ~Live(j) /\ Goto(h, "takeover")
          /\ UNCHANGED vars
          /\ OnlyCall

\* A second transaction, after acquireComfyJob answered Recoverable.  A job that
\* is QUEUED again by now is reported Terminal, and the delivery is ACKed.
TakeOverJob(h) ==
    LET j == JobOf(h) IN
    /\ At(h, "takeover")
    /\ \/ Takeover(j, handler[h].session) /\ NowOwns(h, "adopt", TRUE)
       \/ /\ \/ IsTerminal(j) /\ Goto(h, "ack")
             \/ ~IsTerminal(j) /\ Live(j) /\ Goto(h, "exit")
             \/ status[j] = "QUEUED" /\ ~Live(j) /\ Goto(h, "ack")
          /\ UNCHANGED vars
          /\ OnlyCall

\* retireOwnership of a token that may have been replaced: then it matches no row.
GiveUp(t) ==
    \/ RetireOwnership(t)
    \/ control[t.job].generation # t.generation /\ UNCHANGED vars

\* The parked scheduler hands a waiting job back to its lane.
Resume(h, p) ==
    /\ p \in parked
    /\ proc[p.token.session] = "up"
    /\ At(h, "idle")
    /\ parked' = parked \ {p}
    /\ handler' = [handler EXCEPT ![h] =
                     [Start(p.token.session, p.token.job, p.entry, "resume")
                        EXCEPT !.gen = p.token.generation]]
    /\ UNCHANGED <<vars, proc, tracked, entries, stored, faults>>

\* resumeComfyJob: the token the job parked with, or nothing.
ResumeJob(h) ==
    LET t == TokenOf(h) IN
    /\ At(h, "resume")
    /\ \/ /\ ~IsTerminal(t.job) /\ Owns(t)
          /\ Goto(h, "prepare") /\ Track(t)
          /\ UNCHANGED vars
       \/ /\ IsTerminal(t.job)
          /\ handler' = [handler EXCEPT ![h].pc = "ack", ![h].gen = 0]
          /\ tracked' = tracked \ {t}
          /\ GiveUp(t)
       \/ /\ ~IsTerminal(t.job) /\ ~Owns(t)
          /\ Done(h)
          /\ tracked' = tracked \ {t}
          /\ UNCHANGED vars
    /\ UNCHANGED <<proc, parked, entries, stored, faults>>

\* adoptComfyJob on what the dead owner left running.  Undecidable for now (the
\* worker is unknown or unreadable): the message stays pending.
Adopt(h) ==
    LET j == JobOf(h)
        a == active[j]
        running == a # 0 /\ exec[j][a].state \in {"SUBMITTING", "ACCEPTED", "OUTPUT_READY"}
                   /\ exec[j][a].bound
        remember(pc) == handler' = [handler EXCEPT ![h].pc = pc, ![h].attempt = a]
    IN
    /\ At(h, "adopt")
    /\ UNCHANGED <<proc, tracked, parked, entries, stored>>
    /\ \/ /\ ~running
          /\ handler' = [handler EXCEPT ![h].pc = "prepare", ![h].adopter = FALSE]
          /\ UNCHANGED <<vars, faults>>
       \/ running /\ Goto(h, "exit") /\ Fault /\ UNCHANGED vars
       \/ running /\ remember("wait") /\ UNCHANGED <<vars, faults>>
       \/ /\ running /\ exec[j][a].state = "SUBMITTING"
          /\ \/ remember("count") /\ MarkUnknown(TokenOf(h), a)
             \/ remember("cancel") /\ UNCHANGED vars
          /\ UNCHANGED faults

-----------------------------------------------------------------------------
(* The regular flow of an owner *)

\* reserveWorker records the attempt before it claims a worker.
Prepare(h) ==
    /\ At(h, "prepare")
    /\ \/ /\ PrepareAttempt(TokenOf(h), Main)
          /\ handler' = [handler EXCEPT ![h].pc = "claim",
                                        ![h].attempt = active'[JobOf(h)]]
       \/ LosesJob(h)
    /\ OnlyCall

\* A worker is claimed and bound; or none is free, and a job that has waited for
\* MAX_QUEUE_WAIT_MS (three hours) is given up.
Claim(h) ==
    LET t == TokenOf(h) IN
    /\ At(h, "claim")
    /\ \/ BindAttempt(t, handler[h].attempt) /\ Goto(h, "begin")
       \/ Goto(h, "terminate") /\ UNCHANGED vars
       \/ LosesJob(h)
    /\ OnlyCall

\* Faulty: the job is put back to QUEUED without asking whether it has finished.
ParkReopens(h) ==
    LET t == TokenOf(h) IN
    /\ At(h, "claim")
    /\ Owns(t)
    /\ SetStatus(t.job, "QUEUED")
    /\ parked' = {p \in parked : ~SameJob(p.token, t.session, t.job)}
                   \cup {[token |-> t, entry |-> handler[h].entry]}
    /\ Done(h)
    /\ UNCHANGED <<failures, ownerVars, attemptVars, moneyVars, enqueuing,
                   proc, tracked, entries, stored, faults>>

\* Faulty: the job may be resumed while the call that parked it has not ended.
ParkEndsLater(h) ==
    LET t == TokenOf(h) IN
    /\ At(h, "claim")
    /\ \/ /\ ShowQueued(t)
          /\ parked' = {p \in parked : ~SameJob(p.token, t.session, t.job)}
                         \cup {[token |-> t, entry |-> handler[h].entry]}
          /\ Goto(h, "exit")
       \/ SettleTooLate(t) /\ Goto(h, "ack") /\ UNCHANGED parked
    /\ UNCHANGED <<proc, tracked, entries, stored, faults>>

\* requeueForNoWorker: no worker is free, and the job waits outside its lane with
\* its lease and its entry.  park and the end of the call are one step: nothing
\* is awaited between them.
Park(h) ==
    LET t == TokenOf(h) IN
    /\ At(h, "claim")
    /\ \/ /\ ShowQueued(t)
          /\ parked' = {p \in parked : ~SameJob(p.token, t.session, t.job)}
                         \cup {[token |-> t, entry |-> handler[h].entry]}
          /\ Done(h)
       \/ SettleTooLate(t) /\ Goto(h, "ack") /\ UNCHANGED parked
    /\ UNCHANGED <<proc, tracked, entries, stored, faults>>

\* beginProcessing; a job that finished while it waited is ACKed.
Begin(h) ==
    LET t == TokenOf(h) IN
    /\ At(h, "begin")
    /\ \/ BeginProcessing(t) /\ Goto(h, "generate")
       \/ /\ Owns(t) /\ status[t.job] # "QUEUED"
          /\ Goto(h, IF IsTerminal(t.job) THEN "ack" ELSE "generate")
          /\ UNCHANGED vars
       \/ LosesJob(h)
    /\ OnlyCall

\* transitionJob: a job that is terminal by now is left alone, and the caller,
\* which ignores the answer, goes on.
Advance(h, from, st, to) ==
    LET t == TokenOf(h) IN
    /\ At(h, from)
    /\ \/ Transition(t, st) /\ Goto(h, to)
       \/ Owns(t) /\ IsTerminal(t.job) /\ Goto(h, to) /\ UNCHANGED vars
       \/ LosesJob(h)
    /\ OnlyCall

Submit(h) ==
    /\ At(h, "submit")
    /\ \/ SubmitIntent(TokenOf(h), handler[h].attempt) /\ Goto(h, "answer")
       \/ LosesJob(h)
    /\ OnlyCall

Answer(h) ==
    LET j == JobOf(h)
        a == handler[h].attempt
    IN  /\ At(h, "answer")
        /\ \/ PromptAccepted(j, a) /\ Goto(h, "wait")
           \/ PromptRejected(j, a) /\ Goto(h, "count")
           \/ AnswerLost(j, a) /\ Goto(h, "count")
        /\ OnlyCall

\* waitForCompletion: an image, an error or a timeout, or the user's cancel flag.
Wait(h) ==
    /\ At(h, "wait")
    /\ \E pc \in {IF handler[h].adopter THEN "check" ELSE "upload", "count", "cancel"} :
          Goto(h, pc)
    /\ UNCHANGED vars
    /\ OnlyCall

\* What an error is worth: a counted failure, or for an adopter the end of the
\* call with the message still pending.
AfterError(h) == IF handler[h].adopter THEN "exit" ELSE "count"

\* Faulty: the PUT is left for after the settlement.
CheckSkipsPut(h) ==
    /\ At(h, "check")
    /\ Goto(h, "settle")
    /\ UNCHANGED vars
    /\ OnlyCall

\* assertStorageWriteLease before the PUT; a short lease is renewed once.
Check(h) ==
    LET t == TokenOf(h)
        allowed == Owns(t) /\ ~IsTerminal(t.job) /\ active[t.job] = handler[h].attempt
    IN  /\ At(h, "check")
        /\ \/ allowed /\ control[t.job].lease = Fresh /\ Goto(h, "put") /\ UNCHANGED vars
           \/ allowed /\ t \in tracked /\ control[t.job].lease = Short
              /\ RenewLease(t) /\ Goto(h, "put")
           \/ ~allowed /\ Goto(h, AfterError(h)) /\ UNCHANGED vars
        /\ OnlyCall

\* The PUT itself, however late.  (The thumbnail repeats check and PUT; its own
\* failure is tolerated, so it adds no step here.)
Put(h) ==
    /\ At(h, "put")
    /\ stored' = [stored EXCEPT ![JobOf(h)] = handler[h].attempt]
    /\ Goto(h, "settle")
    /\ UNCHANGED <<vars, proc, tracked, parked, entries, faults>>

PutFails(h) ==
    /\ At(h, "put")
    /\ IF handler[h].adopter THEN Fault ELSE UNCHANGED faults
    /\ Goto(h, AfterError(h))
    /\ UNCHANGED <<vars, proc, tracked, parked, entries, stored>>

\* settleAndPublish: a job that finished meanwhile is ACKed like one settled here.
Settle(h, from, result) ==
    LET t == TokenOf(h) IN
    /\ At(h, from)
    /\ \/ SettleOwned(t, result) /\ Goto(h, "ack")
       \/ SettleTooLate(t) /\ Goto(h, "ack")
       \/ LosesJob(h)
    /\ OnlyCall

\* Faulty: the failure is counted outside the fence.
CountUnfenced(h) ==
    LET j == JobOf(h) IN
    /\ At(h, "count")
    /\ failures[j] < MaxFailures
    /\ failures' = [failures EXCEPT ![j] = @ + 1]
    /\ \E pc \in {"terminate", "yield"} : Goto(h, pc)
    /\ UNCHANGED <<status, ownerVars, attemptVars, moneyVars, enqueuing>>
    /\ OnlyCall

\* handleFailure: retry while the budget lasts, unless the error is final.
Count(h) ==
    LET t == TokenOf(h) IN
    /\ At(h, "count")
    /\ \/ /\ CountFailure(t)
          /\ \/ Goto(h, "terminate")
             \/ failures'[t.job] < RetryBudget /\ Goto(h, "yield")
       \/ LosesJob(h)
    /\ OnlyCall

YieldJob(h) ==
    LET t == TokenOf(h) IN
    /\ At(h, "yield")
    /\ \/ Yield(t) /\ Goto(h, "handoff")
       \/ SettleTooLate(t) /\ Goto(h, "ack")
       \/ LosesJob(h)
    /\ OnlyCall

\* Faulty: a call that ends leaves its lease to the renewal timer.
ExitKeepsLease(h) ==
    /\ At(h, "exit")
    /\ Done(h)
    /\ UNCHANGED <<vars, proc, tracked, parked, entries, stored, faults>>

\* The finally of processJob: give up the lease, unless the job (by its id alone)
\* is among the parked ones.
Exit(h) ==
    LET t == TokenOf(h)
        isParked == \E p \in parked : SameJob(p.token, t.session, t.job)
    IN
    /\ At(h, "exit")
    /\ Done(h)
    /\ IF t.generation = 0 \/ isParked
         THEN UNCHANGED <<vars, tracked>>
         ELSE tracked' = tracked \ {t} /\ GiveUp(t)
    /\ UNCHANGED <<proc, parked, entries, stored, faults>>

\* An exception nobody planned for, from any await of a call.  A resumed call that has
\* not come back to its owner yet (onOwned has not run) holds no token in `owned`:
\* the finally has nothing to give up, and the renewal goes on for nobody.
Throw(h) ==
    /\ ~At(h, "idle")
    /\ ~At(h, "exit")
    /\ Fault
    /\ IF At(h, "resume") THEN Done(h) ELSE Goto(h, "exit")
    /\ UNCHANGED <<vars, proc, tracked, parked, entries, stored>>

-----------------------------------------------------------------------------
(* Processes and time *)

\* Incarnations are interchangeable, so they are used up in a fixed order.
NextIncarnation == CHOOSE s \in Sessions : proc[s] = "new"

\* claimDispatcherSession: the next process starts when the session marker of the
\* one before has lapsed, which a process that hangs lets happen while it lives.
Boot(s) ==
    /\ proc[s] = "new"
    /\ s = NextIncarnation
    /\ IF \A r \in Sessions : proc[r] \in {"new", "dead"} THEN UNCHANGED faults ELSE Fault
    /\ proc' = [proc EXCEPT ![s] = "up"]
    /\ UNCHANGED <<vars, localVars, entries, stored>>

\* SIGTERM: the consumers stop, the owned rows are retired; handlers may still
\* be running until the process exits.
Drain(s) ==
    /\ proc[s] = "up"
    /\ Fault
    /\ proc' = [proc EXCEPT ![s] = "draining"]
    /\ \/ RetireSession(s)
       \/ ~ (\E j \in Jobs : control[j].session = s /\ ~control[j].retired) /\ UNCHANGED vars
    /\ UNCHANGED <<localVars, entries, stored>>

\* The process is gone, with every call and every map it had.
Dies(s) ==
    /\ \/ proc[s] = "up" /\ Fault
       \/ proc[s] = "draining" /\ UNCHANGED faults
    /\ proc' = [proc EXCEPT ![s] = "dead"]
    /\ handler' = [h \in Handlers |->
                     IF ~At(h, "idle") /\ handler[h].session = s THEN NoCall ELSE handler[h]]
    /\ tracked' = {t \in tracked : t.session # s}
    /\ parked' = {p \in parked : p.token.session # s}
    /\ UNCHANGED <<vars, entries, stored>>

\* The renewal timer: whatever the in-flight map holds.
Renew(t) ==
    /\ t \in tracked
    /\ control[t.job].lease # Fresh
    /\ RenewLease(t)
    /\ UNCHANGED procVars

\* A lease runs out under a live process only if its renewals stall for 30 s.
LeaseRuns(j) ==
    /\ LeaseAges(j)
    /\ IF control[j].lease = Short /\ \E t \in tracked : t.job = j /\ Owns(t)
         THEN Fault
         ELSE UNCHANGED faults
    /\ UNCHANGED <<proc, localVars, entries, stored>>

-----------------------------------------------------------------------------
(* The API beside it *)

\* XADD lands; the API learns of it, or believes it failed, in a later step.
Enqueue(j) ==
    /\ j \in enqueuing
    /\ entries[j][1].state = "absent"
    /\ entries' = Unread(j, 1)
    /\ UNCHANGED <<vars, proc, localVars, stored, faults>>

Api(j) ==
    /\ \/ CreateJob(j)
       \/ EnqueueFinished(j)
       \/ EnqueueFailed(j)
       \/ CancelJobAndRefund(j, "REFUND_ADMIN_CANCEL")
    /\ UNCHANGED procVars

-----------------------------------------------------------------------------

HandlerStep(h) ==
    \/ ClaimEntry(h) \/ AcquireJob(h) \/ TakeOverJob(h) \/ ResumeJob(h) \/ Adopt(h)
    \/ Prepare(h) \/ Claim(h) \/ Park(h) \/ Begin(h)
    \/ Advance(h, "generate", "GENERATING", "submit")
    \/ Submit(h) \/ Answer(h) \/ Wait(h)
    \/ Advance(h, "upload", "UPLOADING", "check")
    \/ Check(h) \/ Put(h) \/ PutFails(h)
    \/ Settle(h, "settle", "COMPLETED")
    \/ Settle(h, "terminate", "FAILED")
    \/ Settle(h, "cancel", "CANCELLED")
    \/ Count(h) \/ YieldJob(h) \/ Handoff(h) \/ Ack(h) \/ Exit(h)

Arrival(h) ==
    \/ \E s \in Sessions, j \in Jobs : \/ Sweep(h, s, j)
                                       \/ \E e \in EntryIds : \/ Deliver(h, s, j, e)
                                                              \/ ScanEntry(h, s, j, e)
    \/ \E p \in parked : Resume(h, p)

ProcNext ==
    \/ \E h \in Handlers : Arrival(h) \/ HandlerStep(h) \/ Throw(h)
    \/ \E s \in Sessions : Boot(s) \/ Drain(s) \/ Dies(s)
    \/ \E t \in tracked : Renew(t)
    \/ \E j \in Jobs : LeaseRuns(j) \/ Enqueue(j) \/ Api(j)

ProcSpec == ProcInit /\ [][ProcNext]_allVars

\* What the event loop, the timers and Redis justify: every call goes on, every
\* entry is read or recovered in the end, parked jobs are resumed, a stopped
\* process exits and is replaced, and the lease of a dead owner runs out.  A job
\* asks for a worker until there is one or its three hours are over: a strong
\* fairness, since it parks in between.
Fairness ==
    /\ \A h \in Handlers : WF_allVars(HandlerStep(h)) /\ SF_allVars(Claim(h))
    /\ \A s \in Sessions : WF_allVars(Boot(s)) /\ WF_allVars(proc[s] = "draining" /\ Dies(s))
    /\ \A j \in Jobs :
          /\ WF_allVars(LeaseRuns(j))
          /\ SF_allVars(\E h \in Handlers, s \in Sessions, e \in EntryIds : Deliver(h, s, j, e))
          /\ SF_allVars(\E h \in Handlers, s \in Sessions, e \in EntryIds : ScanEntry(h, s, j, e))
    /\ SF_allVars(\E h \in Handlers, p \in parked : Resume(h, p))

FairProcSpec == ProcSpec /\ Fairness

-----------------------------------------------------------------------------
(* Properties *)

Open(j) == status[j] \in {"QUEUED"} \cup InFlight

Enqueued(j) == \E e \in EntryIds : entries[j][e].state # "absent"

\* Some message of the job has not been ACKed.
Unacked(j) == \E e \in EntryIds : entries[j][e].state \in {"ready", "pending"}

\* The call was told the job is in flight, and the job has been put back since.
RequeuedInGap(h) == At(h, "takeover") /\ status[JobOf(h)] = "QUEUED"

\* The delivery is kept "pending until terminal settlement or a durable requeue handoff"
\* (the dispatcher's shutdown design, line 330), except in one gap: a call that
\* acquireComfyJob told the job is in flight, while another call hands the job back to the
\* queue, gets the QUEUED row reported as Terminal by takeoverComfyJob and ACKs.
\* That gap is the only way a message goes too early, whatever two calls, a recovery, a
\* sweep and a death do: a call goes on to ACK because the job is finished or out of the
\* gap, and the last message of a job goes by the ACK of a call that had gone on to it,
\* never by a handoff, a claim or a parking.
LostInGapOnly ==
    [][/\ \A h \in Handlers :
             ~At(h, "ack") /\ At(h, "ack")' => IsTerminal(JobOf(h))' \/ RequeuedInGap(h)
       /\ \A j \in Jobs :
             Unacked(j) /\ ~Unacked(j)' => \E h \in Handlers : At(h, "ack") /\ JobOf(h) = j
      ]_allVars

\* Two calls never work on one job with authority, although a parked job comes
\* back under the token its first call still held.
OneCallHasAuthority ==
    \A g, h \in Handlers :
       /\ ~At(g, "idle") /\ ~At(h, "idle")
       /\ handler[g].gen > 0 /\ handler[h].gen > 0
       /\ Owns(TokenOf(g)) /\ Owns(TokenOf(h))
       /\ JobOf(g) = JobOf(h)
       => g = h

\* No completed job points at an image that was never stored, whoever stored it
\* and whoever settled.
CompletedHasImage == \A j \in outputs : stored[j] # 0

\* A call that was superseded stops without a trace: no step it still takes
\* touches the row, the retry budget, the money or the result of the job.
SupersededCallIsHarmless ==
    [][\A h \in Handlers :
          LET t == TokenOf(h) IN
          ~At(h, "idle") /\ handler[h].gen > 0 /\ ~Owns(t) /\ handler'[h] # handler[h]
             => /\ status'[t.job] = status[t.job]
                /\ failures'[t.job] = failures[t.job]
                /\ credited'[t.job] = credited[t.job]
                /\ t.job \in outputs' <=> t.job \in outputs]_allVars

\* Calls, recovery, parking and crashes do nothing to the rows that JobControl
\* does not allow, so all that holds of JobControl holds here.
UsesControl == Spec

\* A call works on the job, or the job waits for a worker.
InHand(j) == \/ \E h \in Handlers : ~At(h, "idle") /\ JobOf(h) = j
             \/ \E p \in parked : p.token.job = j

\* The two ways out of every hand, both of a job that is QUEUED again: no message is
\* left (the gap above), or a lease that the timer renews although the resumed call it
\* was for has thrown before it came back to its owner, so that recovery and the sweeper
\* see a live owner.
Forgotten(j) ==
    /\ status[j] = "QUEUED" /\ ~InHand(j)
    /\ ~Unacked(j) \/ \E t \in tracked : t.job = j /\ Owns(t)

\* An enqueued job is finished in the end, with an image or with its charge back, or it is
\* forgotten in one of those two ways for good: whatever else throws, dies, stalls or
\* parks, recovery, the sweeper or the parked scheduler brings the job to its end.
EnqueuedJobEnds ==
    \A j \in Jobs : <>Enqueued(j) => <>IsTerminal(j) \/ <>[]Forgotten(j)

=============================================================================
