------------------------- MODULE JobProcessorProofs -------------------------
(***************************************************************************)
(* Proofs about JobProcessor: whatever calls, recovery, parking, crashes   *)
(* and late answers do, the rows change only as JobControl allows, so the  *)
(* theorems of JobControlProofs hold of the dispatcher as it runs.         *)
(***************************************************************************)
EXTENDS JobProcessor, JobControlProofs

-----------------------------------------------------------------------------
(* The inductive invariant *)

\* The places at which a call works on an attempt of its own.
Driving == {"claim", "begin", "generate", "submit"}

\* A call that claims a generation was given it, and a resumed one parked with it.
CallsHoldTokens ==
    \A h \in Handlers :
       ~At(h, "idle") /\ (handler[h].gen # 0 \/ At(h, "resume")) => TokenOf(h) \in tokens

\* A call that binds or submits an attempt has prepared one.
CallsHaveAttempts ==
    \A h \in Handlers : handler[h].pc \in Driving => handler[h].attempt \in AttemptIds

CallInv ==
    /\ handler \in [Handlers -> Call \cup {NoCall}]
    /\ CallsHoldTokens
    /\ CallsHaveAttempts

RestInv ==
    /\ proc \in [Sessions -> {"new", "up", "draining", "dead"}]
    /\ entries \in [Jobs -> [EntryIds -> Entry]]
    /\ tracked \subseteq tokens
    /\ parked \subseteq [token: tokens, entry: {NoMessage} \cup EntryIds]
    /\ stored \in [Jobs -> 0 .. MaxAttempts]
    /\ faults \in 0 .. MaxFaults

ProcInv == TypeOK /\ CallInv /\ RestInv

-----------------------------------------------------------------------------
(* What moves a call *)

\* A slot that is not idle holds a call, with a job and a process to its name.
LEMMA BusyCall ==
  ASSUME CallInv, NEW h \in Handlers, handler[h].pc # "idle"
  PROVE  /\ handler[h] \in Call
         /\ handler[h].pc \in Place
         /\ JobOf(h) \in Jobs /\ handler[h].session \in Sessions
         /\ handler[h].entry \in {NoMessage} \cup EntryIds
         /\ handler[h].attempt \in 0 .. MaxAttempts
         /\ handler[h].gen \in 0 .. MaxGeneration
<1>1. handler[h] # NoCall
  BY DEF NoCall
<1>2. handler[h] \in Call
  BY <1>1 DEF CallInv
<1> QED
  BY <1>2 DEF Call, JobOf

\* Tokens are never taken back.
LEMMA TokensGrow ==
  ASSUME [Next]_vars
  PROVE  tokens \subseteq tokens'
<1>1. CASE UNCHANGED tokens
  BY <1>1
<1>2. CASE ~UNCHANGED tokens
  <2>1. Next
    BY <1>2 DEF vars, ownerVars
  <2>2. \E j \in Jobs, s \in Sessions : Grant(j, s)
    BY <1>2, <2>1, TokensComeFromGrants DEF Acquire, Takeover
  <2> QED
    BY <2>2 DEF Grant
<1> QED
  BY <1>1, <1>2

\* A slot that changes to a well-formed call.
LEMMA SetCall ==
  ASSUME CallInv, NEW h \in Handlers, NEW c \in Call,
         tokens \subseteq tokens',
         handler' = [handler EXCEPT ![h] = c],
         c.gen # 0 \/ c.pc = "resume" =>
            [job |-> c.job, session |-> c.session, generation |-> c.gen] \in tokens',
         c.pc \in Driving => c.attempt \in AttemptIds
  PROVE  CallInv'
<1>1. /\ handler' \in [Handlers -> Call \cup {NoCall}]
      /\ handler'[h] = c
      /\ \A g \in Handlers : g # h => handler'[g] = handler[g]
  BY DEF CallInv
<1>2. CallsHoldTokens'
  BY <1>1 DEF CallInv, CallsHoldTokens, At, TokenOf
<1>3. CallsHaveAttempts'
  BY <1>1 DEF CallInv, CallsHaveAttempts
<1> QED
  BY <1>1, <1>2, <1>3 DEF CallInv

\* A call that drives an attempt knows which.
LEMMA CallsKnown ==
  ASSUME CallInv, NEW h \in Handlers, handler[h].pc \in Driving
  PROVE  handler[h].attempt \in AttemptIds
BY DEF CallInv, CallsHaveAttempts

\* A call that goes on to another place keeps all it holds.
LEMMA GotoCall ==
  ASSUME CallInv, NEW h \in Handlers, handler[h].pc # "idle",
         NEW pc \in Place \ {"resume"},
         pc \in Driving => handler[h].attempt \in AttemptIds,
         tokens \subseteq tokens',
         Goto(h, pc)
  PROVE  CallInv'
<1> DEFINE c == [handler[h] EXCEPT !.pc = pc]
<1>1. handler[h] \in Call
  BY BusyCall
<1>2. c \in Call
  BY <1>1, Zenon DEF Call
<1>3. /\ c.pc = pc /\ c.gen = handler[h].gen /\ c.job = handler[h].job
      /\ c.session = handler[h].session /\ c.attempt = handler[h].attempt
  BY <1>1 DEF Call
<1>4. handler' = [handler EXCEPT ![h] = c]
  BY DEF Goto, CallInv
<1>5. handler[h].gen # 0 =>
         [job |-> handler[h].job, session |-> handler[h].session,
          generation |-> handler[h].gen] \in tokens
  BY DEF CallInv, CallsHoldTokens, At, TokenOf
<1> HIDE DEF c
<1> QED
  BY <1>2, <1>3, <1>4, <1>5, SetCall

\* A call that ends.
LEMMA DoneCall ==
  ASSUME CallInv, NEW h \in Handlers, tokens \subseteq tokens', Done(h)
  PROVE  CallInv'
<1>1. /\ handler' \in [Handlers -> Call \cup {NoCall}]
      /\ handler'[h] = NoCall
      /\ \A g \in Handlers : g # h => handler'[g] = handler[g]
  BY DEF CallInv, Done
<1>2. NoCall.pc = "idle"
  BY DEF NoCall
<1>3. CallsHoldTokens'
  BY <1>1, <1>2 DEF CallInv, CallsHoldTokens, At, TokenOf
<1>4. CallsHaveAttempts'
  BY <1>1, <1>2 DEF CallInv, CallsHaveAttempts, Driving
<1> QED
  BY <1>1, <1>3, <1>4 DEF CallInv

\* A new call owns nothing.
LEMMA StartCall ==
  ASSUME CallInv, NEW h \in Handlers, NEW s \in Sessions, NEW j \in Jobs,
         NEW e \in {NoMessage} \cup EntryIds, NEW pc \in {"scanned", "acquire"},
         tokens \subseteq tokens',
         handler' = [handler EXCEPT ![h] = Start(s, j, e, pc)]
  PROVE  CallInv'
<1>1. Start(s, j, e, pc) \in Call
  BY ControlAssumption DEF Start, Call, Place
<1>2. Start(s, j, e, pc).gen = 0 /\ Start(s, j, e, pc).pc = pc
  BY DEF Start
<1> QED
  BY <1>1, <1>2, SetCall DEF Driving

\* Calls stay as they are while tokens may be added.
LEMMA SameCalls ==
  ASSUME CallInv, UNCHANGED handler, tokens \subseteq tokens'
  PROVE  CallInv'
BY DEF CallInv, CallsHoldTokens, CallsHaveAttempts, At, TokenOf

\* The rest of the process state stays as it is while tokens may be added.
LEMMA SameRest ==
  ASSUME RestInv, OnlyCall, tokens \subseteq tokens'
  PROVE  RestInv'
BY DEF RestInv, OnlyCall

\* Entries written by a command of the stream are entries.
LEMMA EntryTypes ==
  ASSUME NEW f \in [Jobs -> [EntryIds -> Entry]], NEW j, NEW e, NEW v \in Entry
  PROVE  [f EXCEPT ![j][e] = v] \in [Jobs -> [EntryIds -> Entry]]
OBVIOUS

\* One more fault within the bound.
LEMMA FaultType ==
  ASSUME RestInv, Fault
  PROVE  faults' \in 0 .. MaxFaults
BY ProcessorAssumption DEF RestInv, Fault

-----------------------------------------------------------------------------
(* Every step is a step of JobControl, or leaves its rows alone *)

\* Steps by which a call takes, resumes, adopts or gives up its job.
LEMMA TakingIsControl ==
  ASSUME TypeOK, CallInv, NEW h \in Handlers,
         \/ ClaimEntry(h) \/ AcquireJob(h) \/ TakeOverJob(h) \/ ResumeJob(h)
         \/ Adopt(h) \/ Ack(h) \/ Handoff(h) \/ Exit(h) \/ Throw(h)
  PROVE  [Next]_vars
<1> USE DEF At
<1>1. CASE ClaimEntry(h) \/ Ack(h) \/ Handoff(h) \/ Throw(h)
  BY <1>1 DEF ClaimEntry, Ack, Handoff, Throw
<1>2. CASE AcquireJob(h)
  <2>1. JobOf(h) \in Jobs /\ handler[h].session \in Sessions
    BY <1>2, BusyCall DEF AcquireJob
  <2> QED
    BY <1>2, <2>1 DEF AcquireJob, Next, OwnerStep
<1>3. CASE TakeOverJob(h)
  <2>1. JobOf(h) \in Jobs /\ handler[h].session \in Sessions
    BY <1>3, BusyCall DEF TakeOverJob
  <2> QED
    BY <1>3, <2>1 DEF TakeOverJob, Next, OwnerStep
<1>4. ASSUME NEW t, GiveUp(t) PROVE [Next]_vars
  BY <1>4 DEF GiveUp, RetireOwnership, Next, OwnerStep
<1>5. CASE ResumeJob(h)
  BY <1>4, <1>5 DEF ResumeJob
<1>6. CASE Exit(h)
  BY <1>4, <1>6 DEF Exit
<1>7. CASE Adopt(h)
  <2>1. JobOf(h) \in Jobs
    BY <1>7, BusyCall DEF Adopt
  <2>2. active[JobOf(h)] # 0 => active[JobOf(h)] \in AttemptIds
    BY <2>1, ControlAssumption DEF TypeOK, AttemptIds
  <2>3. \/ UNCHANGED vars
        \/ active[JobOf(h)] # 0 /\ MarkUnknown(TokenOf(h), active[JobOf(h)])
    BY <1>7 DEF Adopt
  <2> QED
    BY <2>2, <2>3 DEF MarkUnknown, Next, AttemptStep
<1> QED
  BY <1>1, <1>2, <1>3, <1>5, <1>6, <1>7

\* Steps of the regular flow up to the settlement.
LEMMA FlowIsControl ==
  ASSUME TypeOK, CallInv, NEW h \in Handlers,
         \/ Prepare(h) \/ Claim(h) \/ Park(h) \/ Begin(h)
         \/ Advance(h, "generate", "GENERATING", "submit")
         \/ Submit(h) \/ Answer(h) \/ Wait(h)
         \/ Advance(h, "upload", "UPLOADING", "check")
         \/ Check(h) \/ Put(h) \/ PutFails(h)
  PROVE  [Next]_vars
<1> USE DEF At
<1>1. CASE Wait(h) \/ Put(h) \/ PutFails(h)
  BY <1>1 DEF Wait, Put, PutFails
<1>2. CASE Prepare(h)
  BY <1>2, ProcessorAssumption
     DEF Prepare, LosesJob, PrepareAttempt, Next, AttemptStep
<1>3. CASE Claim(h)
  <2>1. handler[h].attempt \in AttemptIds
    BY <1>3 DEF Claim, CallInv, CallsHaveAttempts, Driving
  <2> QED
    BY <1>3, <2>1 DEF Claim, LosesJob, BindAttempt, Next, AttemptStep
<1>4. CASE Submit(h)
  <2>1. handler[h].attempt \in AttemptIds
    BY <1>4 DEF Submit, CallInv, CallsHaveAttempts, Driving
  <2> QED
    BY <1>4, <2>1 DEF Submit, LosesJob, SubmitIntent, Next, AttemptStep
<1>5. CASE Answer(h)
  <2>1. ASSUME NEW j, NEW a, Answered(j, a) PROVE j \in Jobs /\ a \in AttemptIds
    BY <2>1 DEF Answered, TypeOK
  <2> QED
    BY <1>5, <2>1
       DEF Answer, PromptAccepted, PromptRejected, AnswerLost, Next, AttemptStep
<1>6. CASE Park(h) \/ Begin(h)
  BY <1>6 DEF Park, Begin, ShowQueued, SettleTooLate, RetireOwnership,
              BeginProcessing, LosesJob, Next, OwnerStep
<1>7. CASE Advance(h, "generate", "GENERATING", "submit")
           \/ Advance(h, "upload", "UPLOADING", "check")
  BY <1>7 DEF Advance, Transition, LosesJob, Next, OwnerStep
<1>8. CASE Check(h)
  BY <1>8 DEF Check, RenewLease, Next, OwnerStep
<1> QED
  BY <1>1, <1>2, <1>3, <1>4, <1>5, <1>6, <1>7, <1>8

\* Steps by which a call ends the job or hands it back.
LEMMA EndingIsControl ==
  ASSUME NEW h \in Handlers,
         \/ Settle(h, "settle", "COMPLETED") \/ Settle(h, "terminate", "FAILED")
         \/ Settle(h, "cancel", "CANCELLED") \/ Count(h) \/ YieldJob(h)
  PROVE  [Next]_vars
<1>1. ASSUME NEW from, NEW result \in Terminal, Settle(h, from, result)
      PROVE  [Next]_vars
  BY <1>1 DEF Settle, SettleOwned, SettleTooLate, RetireOwnership, LosesJob,
              Next, OwnerStep
<1>2. CASE Count(h)
  BY <1>2 DEF Count, CountFailure, LosesJob, Next, OwnerStep
<1>3. CASE YieldJob(h)
  BY <1>3 DEF YieldJob, Yield, SettleTooLate, RetireOwnership, LosesJob,
              Next, OwnerStep
<1> QED
  BY <1>1, <1>2, <1>3 DEF Terminal

\* Processes, time and the API.
LEMMA OutsideIsControl ==
  ASSUME \/ \E s \in Sessions : Boot(s) \/ Drain(s) \/ Dies(s)
         \/ \E t \in tokens : Renew(t)
         \/ \E j \in Jobs : LeaseRuns(j) \/ Enqueue(j) \/ Api(j)
  PROVE  [Next]_vars
<1>1. ASSUME NEW s \in Sessions, Boot(s) \/ Drain(s) \/ Dies(s) PROVE [Next]_vars
  BY <1>1 DEF Boot, Drain, Dies, Next, OwnerStep
<1>2. ASSUME NEW t \in tokens, Renew(t) PROVE [Next]_vars
  BY <1>2 DEF Renew, Next, OwnerStep
<1>3. ASSUME NEW j \in Jobs, LeaseRuns(j) \/ Enqueue(j) PROVE [Next]_vars
  BY <1>3 DEF LeaseRuns, Enqueue, Next
<1>4. ASSUME NEW j \in Jobs, Api(j) PROVE [Next]_vars
  BY <1>4 DEF Api, Next, ApiStep
<1> QED
  BY <1>1, <1>2, <1>3, <1>4

\* The start of a call touches no row.
LEMMA ArrivalIsControl ==
  ASSUME NEW h \in Handlers, Arrival(h) PROVE [Next]_vars
BY DEF Arrival, Sweep, Deliver, ScanEntry, Resume

\* Together: whatever the dispatcher does is a step of JobControl or a stutter.
LEMMA StepIsControl ==
  ASSUME TypeOK, CallInv, RestInv, [ProcNext]_allVars
  PROVE  [Next]_vars
<1>1. CASE UNCHANGED allVars
  BY <1>1 DEF allVars
<1>2. ASSUME NEW h \in Handlers, HandlerStep(h) \/ Throw(h) PROVE [Next]_vars
  BY <1>2, TakingIsControl, FlowIsControl, EndingIsControl DEF HandlerStep
<1>3. tracked \subseteq tokens
  BY DEF RestInv
<1> QED
  BY <1>1, <1>2, <1>3, ArrivalIsControl, OutsideIsControl DEF ProcNext

-----------------------------------------------------------------------------
(* Every step keeps the calls well formed *)

\* An exception: a resumed call that has not come back to its owner is over at once.
ThrowsOn(h) == Throw(h) /\ ~At(h, "resume")

LEMMA ThrowEnds ==
  ASSUME NEW h \in Handlers, Throw(h)
  PROVE  ThrowsOn(h) \/ Done(h)
<1>1. CASE At(h, "resume")
  BY <1>1 DEF Throw
<1>2. CASE ~At(h, "resume")
  BY <1>2 DEF ThrowsOn
<1> QED
  BY <1>1, <1>2

\* Most steps only move a call on, and only from a place where it has an attempt
\* to one where it needs it.
LEMMA MovingOn ==
  ASSUME NEW h \in Handlers,
         \/ Claim(h) \/ Begin(h) \/ Submit(h) \/ Answer(h) \/ Wait(h)
         \/ Advance(h, "generate", "GENERATING", "submit")
         \/ Advance(h, "upload", "UPLOADING", "check")
         \/ Check(h) \/ Put(h) \/ PutFails(h)
         \/ Settle(h, "settle", "COMPLETED") \/ Settle(h, "terminate", "FAILED")
         \/ Settle(h, "cancel", "CANCELLED")
         \/ Count(h) \/ YieldJob(h) \/ Handoff(h) \/ Ack(h) \/ ThrowsOn(h)
  PROVE  \E pc \in Place \ {"resume"} :
            /\ Goto(h, pc)
            /\ handler[h].pc # "idle"
            /\ pc \in Driving => handler[h].pc \in Driving
<1> USE DEF At, Place, Driving
<1>1. CASE Claim(h) \/ Begin(h) \/ Submit(h)
  BY <1>1 DEF Claim, Begin, Submit, LosesJob
<1>2. CASE Answer(h) \/ Wait(h)
  BY <1>2 DEF Answer, Wait
<1>3. CASE Advance(h, "generate", "GENERATING", "submit")
           \/ Advance(h, "upload", "UPLOADING", "check")
  BY <1>3 DEF Advance, LosesJob
<1>4. CASE Check(h) \/ Put(h) \/ PutFails(h)
  BY <1>4 DEF Check, Put, PutFails, AfterError
<1>5. CASE \/ Settle(h, "settle", "COMPLETED") \/ Settle(h, "terminate", "FAILED")
           \/ Settle(h, "cancel", "CANCELLED")
  BY <1>5 DEF Settle, LosesJob
<1>6. CASE Count(h) \/ YieldJob(h)
  BY <1>6 DEF Count, YieldJob, LosesJob
<1>7. CASE Handoff(h) \/ Ack(h) \/ ThrowsOn(h)
  BY <1>7 DEF Handoff, Ack, ThrowsOn, Throw
<1> QED
  BY <1>1, <1>2, <1>3, <1>4, <1>5, <1>6, <1>7

\* The token a call takes with a grant is the one the grant issued.
LEMMA NowOwnsCall ==
  ASSUME CallInv, TypeOK, TypeOK', tracked \subseteq tokens, tokens \subseteq tokens',
         NEW h \in Handlers, handler[h].pc # "idle",
         NEW pc \in Place \ Driving, NEW adopter \in BOOLEAN,
         Grant(JobOf(h), handler[h].session),
         NowOwns(h, pc, adopter)
  PROVE  CallInv' /\ tracked' \subseteq tokens'
<1> DEFINE gen == control'[JobOf(h)].generation
           c == [handler[h] EXCEPT !.pc = pc, !.gen = gen, !.adopter = adopter]
           t == [job |-> JobOf(h), session |-> handler[h].session, generation |-> gen]
<1>1. handler[h] \in Call /\ JobOf(h) \in Jobs
  BY BusyCall
<1>2. control \in [Jobs -> Control] /\ control' \in [Jobs -> Control]
  BY DEF TypeOK
<1>3. gen \in 0 .. MaxGeneration
  BY <1>1, <1>2 DEF Control
<1>4. gen = control[JobOf(h)].generation + 1
  BY <1>1, <1>2 DEF Grant, Bumped
<1>5. t \in tokens'
  BY <1>4 DEF Grant
<1>6. c \in Call
  BY <1>1, <1>3, Zenon DEF Call
<1>7. c.pc = pc /\ c.gen = gen /\ c.job = JobOf(h) /\ c.session = handler[h].session
  BY <1>1 DEF Call, JobOf
<1>a. [TokenOf(h) EXCEPT !.generation = gen] = t
  BY DEF TokenOf, JobOf
<1>8. handler' = [handler EXCEPT ![h] = c]
  <2>1. handler' = [handler EXCEPT ![h].pc = pc, ![h].gen = t.generation,
                                   ![h].adopter = adopter]
    BY <1>a DEF NowOwns
  <2> QED
    BY <2>1 DEF CallInv
<1>9. tracked' \subseteq tokens'
  <2>2. tracked' \subseteq tracked \cup {t}
    BY <1>a DEF NowOwns, Track
  <2> QED
    BY <2>2, <1>5
<1> HIDE DEF c, gen
<1>10. CallInv'
  BY <1>5, <1>6, <1>7, <1>8, SetCall
<1> QED
  BY <1>9, <1>10

\* Taking the job, with or without success.
LEMMA TakingKeepsCalls ==
  ASSUME CallInv, RestInv, TypeOK, TypeOK', tokens \subseteq tokens',
         NEW h \in Handlers, AcquireJob(h) \/ TakeOverJob(h)
  PROVE  CallInv' /\ RestInv'
<1>1. tracked \subseteq tokens /\ handler[h].pc # "idle"
  BY DEF RestInv, AcquireJob, TakeOverJob, At
<1>2. ASSUME NEW pc \in {"prepare", "adopt"}, NEW adopter \in BOOLEAN,
             Grant(JobOf(h), handler[h].session), NowOwns(h, pc, adopter)
      PROVE  CallInv' /\ RestInv'
  <2>1. pc \in Place \ Driving
    BY DEF Place, Driving
  <2>2. CallInv' /\ tracked' \subseteq tokens'
    BY <1>1, <1>2, <2>1, NowOwnsCall
  <2> QED
    BY <1>2, <2>2 DEF NowOwns, RestInv
<1>3. ASSUME NEW pc \in {"ack", "exit", "takeover"}, Goto(h, pc), OnlyCall
      PROVE  CallInv' /\ RestInv'
  BY <1>1, <1>3, GotoCall, SameRest DEF Place, Driving
<1>4. CASE AcquireJob(h)
  BY <1>2, <1>3, <1>4 DEF AcquireJob, Acquire
<1>5. CASE TakeOverJob(h)
  BY <1>2, <1>3, <1>5 DEF TakeOverJob, Takeover
<1> QED
  BY <1>4, <1>5

\* A call with a new attempt, or without the flag of an adopter.
LEMMA ChangedCall ==
  ASSUME CallInv, NEW h \in Handlers, handler[h].pc # "idle", tokens \subseteq tokens',
         NEW pc \in Place \ {"resume"}, NEW a \in 0 .. MaxAttempts,
         pc \in Driving => a \in AttemptIds, NEW adopter \in BOOLEAN,
         handler' = [handler EXCEPT ![h] = [handler[h] EXCEPT
                       !.pc = pc, !.attempt = a, !.adopter = adopter]]
  PROVE  CallInv'
<1> DEFINE c == [handler[h] EXCEPT !.pc = pc, !.attempt = a, !.adopter = adopter]
<1>1. handler[h] \in Call
  BY BusyCall
<1>2. c \in Call
  BY <1>1, Zenon DEF Call
<1>3. /\ c.pc = pc /\ c.gen = handler[h].gen /\ c.job = handler[h].job
      /\ c.session = handler[h].session /\ c.attempt = a
  BY <1>1 DEF Call
<1>4. handler' = [handler EXCEPT ![h] = c]
  OBVIOUS
<1>5. handler[h].gen # 0 =>
         [job |-> handler[h].job, session |-> handler[h].session,
          generation |-> handler[h].gen] \in tokens
  BY DEF CallInv, CallsHoldTokens, At, TokenOf
<1> HIDE DEF c
<1> QED
  BY <1>2, <1>3, <1>4, <1>5, SetCall

\* prepareAttempt hands the call an attempt of its job.
LEMMA PrepareKeepsCalls ==
  ASSUME CallInv, RestInv, TypeOK, tokens \subseteq tokens',
         NEW h \in Handlers, Prepare(h)
  PROVE  CallInv' /\ RestInv'
<1>1. RestInv' /\ handler[h].pc # "idle"
  BY SameRest DEF Prepare, At
<1>2. handler[h] \in Call /\ JobOf(h) \in Jobs
  BY <1>1, BusyCall
<1>3. CASE LosesJob(h)
  BY <1>1, <1>3, GotoCall DEF LosesJob, Place, Driving
<1>4. CASE /\ PrepareAttempt(TokenOf(h), Main)
           /\ handler' = [handler EXCEPT ![h].pc = "claim",
                                         ![h].attempt = active'[JobOf(h)]]
  <2>1. PICK a \in Preparable(JobOf(h), Main) :
           active' = [active EXCEPT ![JobOf(h)] = a]
    BY <1>4 DEF PrepareAttempt, TokenOf, JobOf
  <2>2. a \in AttemptIds /\ active'[JobOf(h)] = a
    BY <1>2, <2>1 DEF Preparable, Idle, NextAttempt, TypeOK
  <2>3. a \in 0 .. MaxAttempts
    BY <2>2, ControlAssumption DEF AttemptIds
  <2>4. handler' = [handler EXCEPT ![h].pc = "claim", ![h].attempt = a]
    BY <1>4, <2>2
  <2>5. handler' = [handler EXCEPT ![h] = [handler[h] EXCEPT
                      !.pc = "claim", !.attempt = a, !.adopter = handler[h].adopter]]
    BY <1>2, <2>4 DEF CallInv, Call
  <2>6. handler[h].adopter \in BOOLEAN
    BY <1>2 DEF Call
  <2> QED
    BY <1>1, <2>2, <2>3, <2>5, <2>6, ChangedCall DEF Place
<1> QED
  BY <1>3, <1>4 DEF Prepare

\* The adopter remembers the attempt it found, or starts over without one.
LEMMA AdoptKeepsCalls ==
  ASSUME CallInv, RestInv, TypeOK, tokens \subseteq tokens',
         NEW h \in Handlers, Adopt(h)
  PROVE  CallInv' /\ RestInv'
<1>1. handler[h].pc # "idle"
  BY DEF Adopt, At
<1>2. handler[h] \in Call /\ JobOf(h) \in Jobs
  BY <1>1, BusyCall
<1>3. handler[h].adopter \in BOOLEAN /\ handler[h].attempt \in 0 .. MaxAttempts
  BY <1>2 DEF Call
<1>4. active[JobOf(h)] \in 0 .. MaxAttempts
  BY <1>2 DEF TypeOK
<1>5. faults' \in 0 .. MaxFaults
  BY FaultType DEF Adopt, RestInv
<1>6. RestInv'
  BY <1>5 DEF Adopt, RestInv
<1>7. ASSUME NEW pc \in {"wait", "count", "cancel"},
             handler' = [handler EXCEPT ![h].pc = pc, ![h].attempt = active[JobOf(h)]]
      PROVE  CallInv'
  <2>1. handler' = [handler EXCEPT ![h] = [handler[h] EXCEPT
           !.pc = pc, !.attempt = active[JobOf(h)], !.adopter = handler[h].adopter]]
    BY <1>2, <1>7 DEF CallInv, Call
  <2> QED
    BY <1>1, <1>3, <1>4, <2>1, ChangedCall DEF Place, Driving
<1>a. /\ {"prepare", "exit"} \subseteq Place \ {"resume"}
      /\ "prepare" \notin Driving /\ "exit" \notin Driving
  BY DEF Place, Driving
<1>8. CASE handler' = [handler EXCEPT ![h].pc = "prepare", ![h].adopter = FALSE]
  <2>1. handler' = [handler EXCEPT ![h] = [handler[h] EXCEPT
           !.pc = "prepare", !.attempt = handler[h].attempt, !.adopter = FALSE]]
    BY <1>2, <1>8 DEF CallInv, Call
  <2> QED
    BY <1>1, <1>3, <1>6, <1>a, <2>1, ChangedCall
<1>9. CASE Goto(h, "exit")
  BY <1>1, <1>6, <1>9, <1>a, GotoCall
<1> QED
  BY <1>6, <1>7, <1>8, <1>9 DEF Adopt

\* Parking, resuming, claiming an entry and the end of a call.
LEMMA HoldingKeepsCalls ==
  ASSUME CallInv, RestInv, TypeOK, tokens \subseteq tokens',
         NEW h \in Handlers,
         Park(h) \/ ResumeJob(h) \/ ClaimEntry(h) \/ Exit(h)
  PROVE  CallInv'
<1>1. handler[h].pc # "idle"
  BY DEF Park, ResumeJob, ClaimEntry, Exit, At
<1>2. handler[h] \in Call
  BY <1>1, BusyCall
<1>3. ASSUME NEW pc \in {"ack", "acquire", "prepare"}, Goto(h, pc) PROVE CallInv'
  BY <1>1, <1>3, GotoCall DEF Place, Driving
<1>4. CASE handler' = [handler EXCEPT ![h].pc = "ack", ![h].gen = 0]
  <2> DEFINE c == [handler[h] EXCEPT !.pc = "ack", !.gen = 0]
  <2>a. "ack" \in Place /\ 0 \in 0 .. MaxGeneration
    BY ControlAssumption DEF Place
  <2>1. c \in Call
    BY <1>2, <2>a, Zenon DEF Call
  <2>2. c.pc = "ack" /\ c.gen = 0
    BY <1>2 DEF Call
  <2>3. handler' = [handler EXCEPT ![h] = c]
    BY <1>4 DEF CallInv
  <2> HIDE DEF c
  <2> QED
    BY <2>1, <2>2, <2>3, SetCall DEF Driving
<1>5. Done(h) \/ handler' = [handler EXCEPT ![h].pc = "ack", ![h].gen = 0]
      \/ \E pc \in {"ack", "acquire", "prepare"} : Goto(h, pc)
  BY DEF Park, ResumeJob, ClaimEntry, Exit
<1> QED
  BY <1>3, <1>4, <1>5, DoneCall

\* A resumed call carries the token its job was parked with.
LEMMA ResumeKeepsCalls ==
  ASSUME CallInv, RestInv, TypeOK, tokens \subseteq tokens',
         NEW h \in Handlers, NEW p \in parked, Resume(h, p)
  PROVE  CallInv'
<1> DEFINE c == [Start(p.token.session, p.token.job, p.entry, "resume")
                   EXCEPT !.gen = p.token.generation]
<1>1. p.token \in tokens /\ p.entry \in {NoMessage} \cup EntryIds
  BY DEF RestInv
<1>2. p.token \in Token
  BY <1>1 DEF TypeOK
<1>3. /\ p.token.job \in Jobs /\ p.token.session \in Sessions
      /\ p.token.generation \in 0 .. MaxGeneration
      /\ p.token = [job |-> p.token.job, session |-> p.token.session,
                    generation |-> p.token.generation]
  BY <1>2, ControlAssumption DEF Token
<1>4. /\ c.pc = "resume" /\ c.job = p.token.job /\ c.session = p.token.session
      /\ c.gen = p.token.generation
  BY DEF Start
<1>5. c \in Call
  <2>1. "resume" \in Place /\ 0 \in 0 .. MaxAttempts /\ 0 \in 0 .. MaxGeneration
    BY ControlAssumption DEF Place
  <2>2. Start(p.token.session, p.token.job, p.entry, "resume") \in Call
    BY <1>1, <1>3, <2>1 DEF Start, Call
  <2> QED
    BY <1>3, <2>2, Zenon DEF Call
<1>6. handler' = [handler EXCEPT ![h] = c]
  BY DEF Resume
<1> HIDE DEF c
<1> QED
  BY <1>1, <1>3, <1>4, <1>5, <1>6, SetCall DEF Driving

\* Any other arrival starts a call that owns nothing.
LEMMA ArrivalKeepsCalls ==
  ASSUME CallInv, RestInv, TypeOK, tokens \subseteq tokens',
         NEW h \in Handlers, Arrival(h)
  PROVE  CallInv'
<1>1. ASSUME NEW p \in parked, Resume(h, p) PROVE CallInv'
  BY <1>1, ResumeKeepsCalls
<1>2. ASSUME NEW s \in Sessions, NEW j \in Jobs, Sweep(h, s, j) PROVE CallInv'
  BY <1>2, StartCall DEF Sweep
<1>3. ASSUME NEW s \in Sessions, NEW j \in Jobs, NEW e \in EntryIds,
             Deliver(h, s, j, e) \/ ScanEntry(h, s, j, e)
      PROVE  CallInv'
  BY <1>3, StartCall DEF Deliver, ScanEntry
<1> QED
  BY <1>1, <1>2, <1>3 DEF Arrival

\* A process that dies takes its calls with it, and no other.
LEMMA DeathKeepsCalls ==
  ASSUME CallInv, tokens \subseteq tokens', NEW s \in Sessions, Dies(s)
  PROVE  CallInv'
<1>1. \A h \in Handlers : handler'[h] = NoCall \/ handler'[h] = handler[h]
  BY DEF Dies
<1>2. handler' \in [Handlers -> Call \cup {NoCall}]
  BY <1>1 DEF Dies, CallInv
<1>3. NoCall.pc = "idle"
  BY DEF NoCall
<1>4. CallsHoldTokens'
  BY <1>1, <1>3 DEF CallInv, CallsHoldTokens, At, TokenOf
<1>5. CallsHaveAttempts'
  BY <1>1, <1>3 DEF CallInv, CallsHaveAttempts, Driving
<1> QED
  BY <1>2, <1>4, <1>5 DEF CallInv

-----------------------------------------------------------------------------
(* Every step keeps the rest of the process state well formed *)

\* Commands of the stream.
LEMMA StreamKeepsRest ==
  ASSUME CallInv, RestInv, tokens \subseteq tokens', NEW h \in Handlers,
         \/ \E s \in Sessions, j \in Jobs, e \in EntryIds : Deliver(h, s, j, e)
         \/ ClaimEntry(h) \/ Ack(h) \/ Handoff(h)
  PROVE  RestInv'
<1> DEFINE Kept == UNCHANGED <<proc, tracked, parked, stored, faults>>
           Entries == [Jobs -> [EntryIds -> Entry]]
<1>1. entries \in Entries
  BY DEF RestInv
<1>2. SUFFICES Kept /\ entries' \in Entries
  BY DEF RestInv
<1>3. \A s \in Sessions :
         [state |-> "pending", consumer |-> Host[s]] \in Entry
  BY DEF Entry
<1>4. \A st \in {"ready", "acked"} : [state |-> st, consumer |-> NoSession] \in Entry
  BY DEF Entry
<1>5. ASSUME NEW s \in Sessions, NEW j \in Jobs, NEW e \in EntryIds, Deliver(h, s, j, e)
      PROVE  Kept /\ entries' \in Entries
  BY <1>1, <1>3, <1>5, EntryTypes DEF Deliver, SetEntry
<1>6. CASE ClaimEntry(h)
  <2>1. handler[h].session \in Sessions
    BY <1>6, BusyCall DEF ClaimEntry, At
  <2>2. Kept
    BY <1>6 DEF ClaimEntry
  <2>3. \/ entries' = entries
        \/ entries' = [entries EXCEPT ![handler[h].job][handler[h].entry] =
                         [state |-> "pending", consumer |-> Host[handler[h].session]]]
    BY <1>6 DEF ClaimEntry, SetEntry
  <2>4. [entries EXCEPT ![handler[h].job][handler[h].entry] =
           [state |-> "pending", consumer |-> Host[handler[h].session]]] \in Entries
    BY <1>1, <1>3, <2>1, EntryTypes
  <2>5. entries' \in Entries
    BY <1>1, <2>3, <2>4
  <2> QED
    BY <2>2, <2>5
<1>7. CASE Ack(h)
  BY <1>1, <1>4, <1>7, EntryTypes DEF Ack, SetEntry
<1>8. CASE Handoff(h)
  <2>1. Kept
    BY <1>8 DEF Handoff
  <2>2. \A j, e : Unread(j, e) \in Entries
    BY <1>1, <1>4, EntryTypes DEF Unread
  <2>3. \A j, e, i, d : [Unread(j, e) EXCEPT ![i][d] =
                            [state |-> "acked", consumer |-> NoSession]] \in Entries
    BY <1>4, <2>2, EntryTypes
  <2>4. CASE entries' = entries
    BY <1>1, <2>1, <2>4
  <2>5. ASSUME NEW e, entries' = Unread(JobOf(h), e) PROVE Kept /\ entries' \in Entries
    BY <2>1, <2>2, <2>5
  <2>6. ASSUME NEW e, entries' = [Unread(JobOf(h), e) EXCEPT
                        ![handler[h].job][handler[h].entry] =
                          [state |-> "acked", consumer |-> NoSession]]
        PROVE  Kept /\ entries' \in Entries
    BY <2>1, <2>3, <2>6
  <2> HIDE DEF Kept, Entries
  <2> QED
    BY <1>8, <2>4, <2>5, <2>6 DEF Handoff, JobOf
<1> QED
  BY <1>5, <1>6, <1>7, <1>8

\* Steps of a call on the maps of its process and on the object store.
LEMMA CallKeepsRest ==
  ASSUME CallInv, RestInv, TypeOK, tokens \subseteq tokens', NEW h \in Handlers,
         \/ ResumeJob(h) \/ Park(h) \/ Exit(h) \/ Put(h) \/ PutFails(h) \/ Throw(h)
         \/ \E p \in parked : Resume(h, p)
  PROVE  RestInv'
<1> USE DEF RestInv
<1>1. CASE ResumeJob(h)
  <2>1. TokenOf(h) \in tokens
    BY <1>1 DEF ResumeJob, CallInv, CallsHoldTokens, At
  <2>2. tracked' \subseteq tracked \cup {TokenOf(h)}
    BY <1>1 DEF ResumeJob, Track
  <2> QED
    BY <1>1, <2>1, <2>2 DEF ResumeJob
<1>2. CASE Park(h)
  <2>1. TokenOf(h) \in tokens /\ handler[h].entry \in {NoMessage} \cup EntryIds
    BY <1>2, BusyCall DEF Park, ShowQueued, SettleTooLate, RetireOwnership, At
  <2>2. parked' \subseteq parked \cup {[token |-> TokenOf(h), entry |-> handler[h].entry]}
    BY <1>2 DEF Park
  <2>3. parked' \subseteq [token: tokens', entry: {NoMessage} \cup EntryIds]
    BY <2>1, <2>2
  <2> QED
    BY <1>2, <2>3 DEF Park
<1>3. CASE Exit(h)
  BY <1>3 DEF Exit
<1>4. CASE Put(h)
  <2>1. handler[h].attempt \in 0 .. MaxAttempts
    BY <1>4, BusyCall DEF Put, At
  <2> QED
    BY <1>4, <2>1 DEF Put
<1>5. CASE PutFails(h)
  BY <1>5, FaultType DEF PutFails
<1>6. CASE Throw(h)
  BY <1>6, FaultType DEF Throw
<1>7. ASSUME NEW p \in parked, Resume(h, p) PROVE RestInv'
  BY <1>7 DEF Resume
<1> QED
  BY <1>1, <1>2, <1>3, <1>4, <1>5, <1>6, <1>7

\* Processes, time and the API.
LEMMA OutsideKeepsRest ==
  ASSUME RestInv, tokens \subseteq tokens',
         \/ \E s \in Sessions : Boot(s) \/ Drain(s) \/ Dies(s)
         \/ \E t \in tracked : Renew(t)
         \/ \E j \in Jobs : LeaseRuns(j) \/ Api(j)
  PROVE  RestInv'
<1> USE DEF RestInv
<1>1. ASSUME NEW s \in Sessions, Boot(s) \/ Drain(s) \/ Dies(s) PROVE RestInv'
  BY <1>1, FaultType DEF Boot, Drain, Dies, localVars
<1>2. ASSUME NEW t \in tracked, Renew(t) PROVE RestInv'
  BY <1>2 DEF Renew, procVars, localVars
<1>3. ASSUME NEW j \in Jobs, LeaseRuns(j) \/ Api(j) PROVE RestInv'
  BY <1>3, FaultType DEF LeaseRuns, Api, procVars, localVars
<1> QED
  BY <1>1, <1>2, <1>3

-----------------------------------------------------------------------------
(* The invariant, and what follows from it *)

\* Steps of a call, as the next-state relation lists them.
LEMMA HandlerStepKeeps ==
  ASSUME CallInv, RestInv, TypeOK, TypeOK', tokens \subseteq tokens',
         NEW h \in Handlers, HandlerStep(h) \/ Throw(h)
  PROVE  CallInv' /\ RestInv'
<1>1. CASE \/ Claim(h) \/ Begin(h) \/ Submit(h) \/ Answer(h) \/ Wait(h)
           \/ Advance(h, "generate", "GENERATING", "submit")
           \/ Advance(h, "upload", "UPLOADING", "check")
           \/ Check(h)
           \/ Settle(h, "settle", "COMPLETED") \/ Settle(h, "terminate", "FAILED")
           \/ Settle(h, "cancel", "CANCELLED") \/ Count(h) \/ YieldJob(h)
  <2>1. CallInv'
    BY <1>1, MovingOn, GotoCall, CallsKnown
  <2>2. OnlyCall
    BY <1>1 DEF Claim, Begin, Submit, Answer, Wait, Advance, Check, Settle, Count, YieldJob
  <2> QED
    BY <2>1, <2>2, SameRest
<1>2. CASE Put(h) \/ PutFails(h) \/ ThrowsOn(h)
  BY <1>2, MovingOn, GotoCall, CallsKnown, CallKeepsRest DEF ThrowsOn
<1>3. CASE Handoff(h) \/ Ack(h)
  BY <1>3, MovingOn, GotoCall, CallsKnown, StreamKeepsRest
<1>4. CASE AcquireJob(h) \/ TakeOverJob(h)
  BY <1>4, TakingKeepsCalls
<1>5. CASE Prepare(h)
  BY <1>5, PrepareKeepsCalls
<1>6. CASE Adopt(h)
  BY <1>6, AdoptKeepsCalls
<1>7. CASE Park(h) \/ ResumeJob(h) \/ Exit(h)
  BY <1>7, HoldingKeepsCalls, CallKeepsRest
<1>8. CASE ClaimEntry(h)
  BY <1>8, HoldingKeepsCalls, StreamKeepsRest
<1>9. CASE Throw(h) /\ Done(h)
  BY <1>9, DoneCall, CallKeepsRest
<1> QED
  BY <1>1, <1>2, <1>3, <1>4, <1>5, <1>6, <1>7, <1>8, <1>9, ThrowEnds DEF HandlerStep

\* Every step keeps the invariant.
LEMMA ProcInvKept == ProcInv /\ [ProcNext]_allVars => ProcInv'
<1> SUFFICES ASSUME TypeOK, CallInv, RestInv, [ProcNext]_allVars PROVE ProcInv'
  BY DEF ProcInv
<1>1. [Next]_vars
  BY StepIsControl
<1>2. TypeOK' /\ tokens \subseteq tokens'
  BY <1>1, TypeKept, TokensGrow
<1>3. SUFFICES CallInv' /\ RestInv'
  BY <1>2 DEF ProcInv
<1>4. CASE UNCHANGED allVars
  BY <1>2, <1>4, SameCalls, SameRest DEF allVars, procVars, localVars, OnlyCall
<1>5. ASSUME NEW h \in Handlers, HandlerStep(h) \/ Throw(h) PROVE CallInv' /\ RestInv'
  BY <1>2, <1>5, HandlerStepKeeps
<1>6. ASSUME NEW h \in Handlers, Arrival(h) PROVE CallInv' /\ RestInv'
  <2>1. ASSUME NEW s \in Sessions, NEW j \in Jobs,
               Sweep(h, s, j) \/ \E e \in EntryIds : ScanEntry(h, s, j, e)
        PROVE  RestInv'
    BY <1>2, <2>1, SameRest DEF Sweep, ScanEntry
  <2>2. RestInv'
    BY <1>2, <1>6, <2>1, StreamKeepsRest, CallKeepsRest DEF Arrival
  <2> QED
    BY <1>2, <1>6, <2>2, ArrivalKeepsCalls
<1>7. ASSUME NEW s \in Sessions, Boot(s) \/ Drain(s) \/ Dies(s)
      PROVE  CallInv' /\ RestInv'
  <2>1. CallInv'
    BY <1>2, <1>7, SameCalls, DeathKeepsCalls DEF Boot, Drain, localVars
  <2> QED
    BY <1>2, <1>7, <2>1, OutsideKeepsRest
<1>8. ASSUME NEW t \in tracked, Renew(t) PROVE CallInv' /\ RestInv'
  BY <1>2, <1>8, SameCalls, OutsideKeepsRest DEF Renew, procVars, localVars
<1>9. ASSUME NEW j \in Jobs, LeaseRuns(j) \/ Api(j) PROVE CallInv' /\ RestInv'
  BY <1>2, <1>9, SameCalls, OutsideKeepsRest DEF LeaseRuns, Api, procVars, localVars
<1>10. ASSUME NEW j \in Jobs, Enqueue(j) PROVE CallInv' /\ RestInv'
  <2>1. CallInv'
    BY <1>2, <1>10, SameCalls DEF Enqueue, localVars
  <2>2. RestInv'
    BY <1>1, <1>2, <1>10 DEF RestInv, Enqueue, localVars, Unread, Entry
  <2> QED
    BY <2>1, <2>2
<1> QED
  BY <1>4, <1>5, <1>6, <1>7, <1>8, <1>9, <1>10 DEF ProcNext

\* The initial state satisfies it.
LEMMA ProcInvInit == ProcInit => ProcInv
<1> SUFFICES ASSUME ProcInit PROVE ProcInv
  OBVIOUS
<1>1. TypeOK
  BY ControlAssumption
  DEF ProcInit, Init, TypeOK, NoControl, Control, NoAttempt, Attempt, AttemptState,
      Status, Expired, AttemptIds
<1>2. \A h \in Handlers : handler[h] = NoCall /\ handler[h].pc = "idle"
  BY DEF ProcInit, NoCall
<1>3. CallInv
  BY <1>2 DEF ProcInit, CallInv, CallsHoldTokens, CallsHaveAttempts, At, Driving
<1>4. RestInv
  BY <1>1, ControlAssumption, ProcessorAssumption
     DEF ProcInit, RestInv, NoEntry, Entry
<1> QED
  BY <1>1, <1>3, <1>4 DEF ProcInv

\* It holds for ever.
LEMMA ProcInvHolds == ProcSpec => []ProcInv
BY ProcInvInit, ProcInvKept, PTL DEF ProcSpec

\* Every reachable state of the dispatcher is well formed: calls, entries, the
\* maps of owned and of parked jobs.
THEOREM ProcTypeCorrect == ProcSpec => []ProcTypeOK
<1>1. ProcInv => ProcTypeOK
  BY DEF ProcInv, CallInv, RestInv, ProcTypeOK
<1> QED
  BY <1>1, ProcInvHolds, PTL

\* The dispatcher refines JobControl: whatever handlers, recovery, the sweeper,
\* parking and crashes do, in whatever order, the rows change as JobControl allows.
THEOREM ProcessorRefinesControl == ProcSpec => UsesControl
<1>1. ProcInit => Init
  BY DEF ProcInit
<1>2. ProcInv /\ [ProcNext]_allVars => [Next]_vars
  BY StepIsControl DEF ProcInv
<1> QED
  BY <1>1, <1>2, ProcInvHolds, PTL DEF ProcSpec, UsesControl, Spec

\* So the dispatcher as it runs gives every charge back exactly when the job ended
\* without an image.
THEOREM ProcessorMoneyIsRight == ProcSpec => []MoneyFollowsOutcome
BY ProcessorRefinesControl, MoneyIsRight, PTL DEF UsesControl

-----------------------------------------------------------------------------
(* One call per owned job: a token is in one pair of hands, a call's or a      *)
(* parked job's                                                                *)

Holds(h) == ~At(h, "idle") /\ handler[h].gen # 0

OneHolder ==
    /\ \A g, h \in Handlers : Holds(g) /\ Holds(h) /\ TokenOf(g) = TokenOf(h) => g = h
    /\ \A h \in Handlers, p \in parked : Holds(h) => TokenOf(h) # p.token
    /\ \A p, q \in parked : p.token = q.token => p = q

\* The slot holds, if anything, what it held before.
HoldsNoMore(h) == Holds(h)' => Holds(h) /\ TokenOf(h)' = TokenOf(h)

\* Nothing can go wrong while nothing new is held.
LEMMA FewerHolders ==
  ASSUME OneHolder, \A h \in Handlers : HoldsNoMore(h), parked' \subseteq parked
  PROVE  OneHolder'
BY DEF OneHolder, HoldsNoMore

\* A call that changes keeps its token unless it is one of those that take one.
LEMMA ChangeHoldsNoMore ==
  ASSUME CallInv, NEW h \in Handlers, NEW c,
         handler' = [handler EXCEPT ![h] = c],
         \/ c.pc = "idle" \/ c.gen = 0
         \/ /\ handler[h].pc # "idle" /\ c.gen = handler[h].gen
            /\ c.job = handler[h].job /\ c.session = handler[h].session
  PROVE  \A g \in Handlers : HoldsNoMore(g)
<1>1. handler'[h] = c /\ \A g \in Handlers : g # h => handler'[g] = handler[g]
  BY DEF CallInv
<1> QED
  BY <1>1 DEF HoldsNoMore, Holds, At, TokenOf

\* So does one that goes on or ends.
LEMMA GoesOnHoldsNoMore ==
  ASSUME CallInv, NEW h \in Handlers,
         Done(h) \/ \E pc : Goto(h, pc) /\ handler[h].pc # "idle"
  PROVE  \A g \in Handlers : HoldsNoMore(g)
<1>1. CASE Done(h)
  BY <1>1, ChangeHoldsNoMore DEF Done, NoCall
<1>2. ASSUME NEW pc, Goto(h, pc), handler[h].pc # "idle"
      PROVE  \A g \in Handlers : HoldsNoMore(g)
  <2> DEFINE c == [handler[h] EXCEPT !.pc = pc]
  <2>1. handler[h] \in Call
    BY <1>2, BusyCall
  <2>2. /\ c.gen = handler[h].gen /\ c.job = handler[h].job
        /\ c.session = handler[h].session
    BY <2>1 DEF Call
  <2>3. handler' = [handler EXCEPT ![h] = c]
    BY <1>2 DEF Goto, CallInv
  <2> HIDE DEF c
  <2> QED
    BY <1>2, <2>2, <2>3, ChangeHoldsNoMore
<1> QED
  BY <1>1, <1>2

\* A grant issues a token nobody has.
LEMMA GrantIsHeldOnce ==
  ASSUME CallInv, RestInv, TypeOK, TypeOK', OneHolder, OneOwnerPerGeneration,
         NEW h \in Handlers, handler[h].pc # "idle",
         NEW pc \in Place, NEW adopter \in BOOLEAN,
         Grant(JobOf(h), handler[h].session),
         NowOwns(h, pc, adopter)
  PROVE  OneHolder'
<1> DEFINE gen == control'[JobOf(h)].generation
           c == [handler[h] EXCEPT !.pc = pc, !.gen = gen, !.adopter = adopter]
           t == [job |-> JobOf(h), session |-> handler[h].session, generation |-> gen]
<1>1. handler[h] \in Call /\ JobOf(h) \in Jobs
  BY BusyCall
<1>2. control \in [Jobs -> Control]
  BY DEF TypeOK
<1>3. control[JobOf(h)].generation \in Nat /\ gen = control[JobOf(h)].generation + 1
  BY <1>1, <1>2, ControlAssumption DEF Grant, Bumped, Control
<1>4. t \notin tokens
  BY <1>3 DEF OneOwnerPerGeneration
<1>5. [TokenOf(h) EXCEPT !.generation = gen] = t
  BY DEF TokenOf, JobOf
<1>6. handler' = [handler EXCEPT ![h] = c]
  <2>1. handler' = [handler EXCEPT ![h].pc = pc, ![h].gen = t.generation,
                                   ![h].adopter = adopter]
    BY <1>5 DEF NowOwns
  <2> QED
    BY <2>1 DEF CallInv
<1>7. c.gen = gen /\ c.job = JobOf(h) /\ c.session = handler[h].session
  BY <1>1 DEF Call, JobOf
<1> HIDE DEF c, gen
<1>8. handler'[h] = c /\ \A g \in Handlers : g # h => handler'[g] = handler[g]
  BY <1>6 DEF CallInv
<1>9. TokenOf(h)' = t
  BY <1>7, <1>8 DEF TokenOf
<1>10. \A g \in Handlers : g # h => (Holds(g)' <=> Holds(g)) /\ TokenOf(g)' = TokenOf(g)
  BY <1>8 DEF Holds, At, TokenOf
<1>11. \A g \in Handlers : Holds(g) => TokenOf(g) # t
  BY <1>4 DEF CallInv, CallsHoldTokens, Holds
<1>12. \A p \in parked : p.token # t
  BY <1>4 DEF RestInv
<1>13. parked' = parked
  BY DEF NowOwns
<1> QED
  BY <1>9, <1>10, <1>11, <1>12, <1>13 DEF OneHolder

\* Parking passes the token from the call to the map, in one step.
LEMMA ParkPassesToken ==
  ASSUME CallInv, RestInv, TypeOK, OneHolder, NEW h \in Handlers, Park(h)
  PROVE  OneHolder'
<1>1. handler[h].pc # "idle"
  BY DEF Park, At
<1>2. CASE Goto(h, "ack") /\ UNCHANGED parked
  BY <1>1, <1>2, GoesOnHoldsNoMore, FewerHolders
<1>3. CASE /\ ShowQueued(TokenOf(h)) /\ Done(h)
           /\ parked' \subseteq parked \cup {[token |-> TokenOf(h), entry |-> handler[h].entry]}
  <2>1. TokenOf(h) \in Token
    BY <1>3 DEF ShowQueued, TypeOK
  <2>2. Holds(h)
    BY <1>1, <2>1 DEF Token, TokenOf, Holds, At
  <2>3. /\ ~Holds(h)'
        /\ \A g \in Handlers : g # h => (Holds(g)' <=> Holds(g)) /\ TokenOf(g)' = TokenOf(g)
    BY <1>3 DEF Done, CallInv, NoCall, Holds, At, TokenOf
  <2> QED
    BY <1>3, <2>2, <2>3 DEF OneHolder
<1> QED
  BY <1>2, <1>3 DEF Park

\* Resuming passes it back.
LEMMA ResumePassesToken ==
  ASSUME CallInv, RestInv, TypeOK, OneHolder,
         NEW h \in Handlers, NEW p \in parked, Resume(h, p)
  PROVE  OneHolder'
<1> DEFINE c == [Start(p.token.session, p.token.job, p.entry, "resume")
                   EXCEPT !.gen = p.token.generation]
<1>1. p.token \in Token
  BY DEF RestInv, TypeOK
<1>2. p.token = [job |-> p.token.job, session |-> p.token.session,
                 generation |-> p.token.generation]
  BY <1>1 DEF Token
<1>3. c.job = p.token.job /\ c.session = p.token.session /\ c.gen = p.token.generation
  BY DEF Start
<1>4. handler' = [handler EXCEPT ![h] = c]
  BY DEF Resume
<1> HIDE DEF c
<1>5. handler'[h] = c /\ \A g \in Handlers : g # h => handler'[g] = handler[g]
  BY <1>4 DEF CallInv
<1>6. TokenOf(h)' = p.token
  BY <1>2, <1>3, <1>5 DEF TokenOf
<1>7. \A g \in Handlers : g # h => (Holds(g)' <=> Holds(g)) /\ TokenOf(g)' = TokenOf(g)
  BY <1>5 DEF Holds, At, TokenOf
<1>8. parked' = parked \ {p}
  BY DEF Resume
<1> QED
  BY <1>6, <1>7, <1>8 DEF OneHolder

\* The steps of a call that change more of it than its place.
LEMMA OthersHoldNoMore ==
  ASSUME CallInv, NEW h \in Handlers, Prepare(h) \/ Adopt(h) \/ ResumeJob(h)
  PROVE  \A g \in Handlers : HoldsNoMore(g)
<1>1. handler[h].pc # "idle"
  BY DEF Prepare, Adopt, ResumeJob, At
<1>2. handler[h] \in Call
  BY <1>1, BusyCall
<1>3. ASSUME NEW pc, NEW a, handler' = [handler EXCEPT ![h].pc = pc, ![h].attempt = a]
      PROVE  \A g \in Handlers : HoldsNoMore(g)
  <2> DEFINE c == [handler[h] EXCEPT !.pc = pc, !.attempt = a]
  <2>1. handler' = [handler EXCEPT ![h] = c]
    BY <1>3 DEF CallInv
  <2>2. /\ c.gen = handler[h].gen /\ c.job = handler[h].job
        /\ c.session = handler[h].session
    BY <1>2 DEF Call
  <2> HIDE DEF c
  <2> QED
    BY <1>1, <2>1, <2>2, ChangeHoldsNoMore
<1>4. CASE handler' = [handler EXCEPT ![h].pc = "prepare", ![h].adopter = FALSE]
  <2> DEFINE c == [handler[h] EXCEPT !.pc = "prepare", !.adopter = FALSE]
  <2>1. handler' = [handler EXCEPT ![h] = c]
    BY <1>4 DEF CallInv
  <2>2. /\ c.gen = handler[h].gen /\ c.job = handler[h].job
        /\ c.session = handler[h].session
    BY <1>2 DEF Call
  <2> HIDE DEF c
  <2> QED
    BY <1>1, <2>1, <2>2, ChangeHoldsNoMore
<1>5. CASE handler' = [handler EXCEPT ![h].pc = "ack", ![h].gen = 0]
  <2> DEFINE c == [handler[h] EXCEPT !.pc = "ack", !.gen = 0]
  <2>1. handler' = [handler EXCEPT ![h] = c] /\ c.gen = 0
    BY <1>2, <1>5 DEF CallInv, Call
  <2> HIDE DEF c
  <2> QED
    BY <2>1, ChangeHoldsNoMore
<1>6. CASE Done(h) \/ \E pc : Goto(h, pc)
  BY <1>1, <1>6, GoesOnHoldsNoMore
<1>7. CASE Prepare(h)
  BY <1>3, <1>6, <1>7 DEF Prepare, LosesJob
<1>8. CASE Adopt(h)
  BY <1>3, <1>4, <1>6, <1>8 DEF Adopt
<1>9. CASE ResumeJob(h)
  BY <1>5, <1>6, <1>9 DEF ResumeJob
<1> QED
  BY <1>7, <1>8, <1>9

\* Steps of a call.
LEMMA HandlerStepHolders ==
  ASSUME ProcInv, TypeOK', OneHolder, OneOwnerPerGeneration,
         NEW h \in Handlers, HandlerStep(h) \/ Throw(h)
  PROVE  OneHolder'
<1>1. TypeOK /\ CallInv /\ RestInv
  BY DEF ProcInv
<1>2. CASE \/ Claim(h) \/ Begin(h) \/ Submit(h) \/ Answer(h) \/ Wait(h)
           \/ Advance(h, "generate", "GENERATING", "submit")
           \/ Advance(h, "upload", "UPLOADING", "check")
           \/ Check(h) \/ Put(h) \/ PutFails(h)
           \/ Settle(h, "settle", "COMPLETED") \/ Settle(h, "terminate", "FAILED")
           \/ Settle(h, "cancel", "CANCELLED") \/ Count(h) \/ YieldJob(h)
           \/ Handoff(h) \/ Ack(h) \/ ThrowsOn(h)
  <2>1. \A g \in Handlers : HoldsNoMore(g)
    BY <1>1, <1>2, MovingOn, GoesOnHoldsNoMore
  <2>2. UNCHANGED parked
    BY <1>2 DEF Claim, Begin, Submit, Answer, Wait, Advance, Check, Put, PutFails,
                Settle, Count, YieldJob, Handoff, Ack, ThrowsOn, Throw, OnlyCall
  <2> QED
    BY <2>1, <2>2, FewerHolders
<1>3. CASE Prepare(h) \/ Adopt(h) \/ ResumeJob(h)
  BY <1>1, <1>3, OthersHoldNoMore, FewerHolders DEF Prepare, Adopt, ResumeJob, OnlyCall
<1>4. CASE Park(h)
  BY <1>1, <1>4, ParkPassesToken
<1>5. CASE ClaimEntry(h) \/ Exit(h)
  BY <1>1, <1>5, GoesOnHoldsNoMore, FewerHolders DEF ClaimEntry, Exit, At
<1>6. ASSUME NEW pc \in {"prepare", "adopt"}, NEW adopter \in BOOLEAN,
             handler[h].pc # "idle",
             Grant(JobOf(h), handler[h].session), NowOwns(h, pc, adopter)
      PROVE  OneHolder'
  BY <1>1, <1>6, GrantIsHeldOnce DEF Place
<1>7. CASE AcquireJob(h) \/ TakeOverJob(h)
  <2>1. CASE \E pc : Goto(h, pc) /\ OnlyCall /\ handler[h].pc # "idle"
    BY <1>1, <2>1, GoesOnHoldsNoMore, FewerHolders DEF OnlyCall
  <2> QED
    BY <1>6, <1>7, <2>1 DEF AcquireJob, TakeOverJob, Acquire, Takeover, At
<1>8. CASE Throw(h) /\ Done(h)
  BY <1>1, <1>8, GoesOnHoldsNoMore, FewerHolders DEF Throw
<1> QED
  BY <1>2, <1>3, <1>4, <1>5, <1>7, <1>8, ThrowEnds DEF HandlerStep

\* Every step.
LEMMA OneHolderKept ==
  ProcInv /\ OneHolder /\ OneOwnerPerGeneration /\ [ProcNext]_allVars => OneHolder'
<1> SUFFICES ASSUME ProcInv, OneHolder, OneOwnerPerGeneration, [ProcNext]_allVars
             PROVE  OneHolder'
  OBVIOUS
<1>1. TypeOK /\ CallInv /\ RestInv
  BY DEF ProcInv
<1>2. TypeOK'
  BY <1>1, StepIsControl, TypeKept
<1>3. ASSUME UNCHANGED handler, parked' \subseteq parked PROVE OneHolder'
  BY <1>3, FewerHolders DEF HoldsNoMore, Holds, At, TokenOf
<1>4. ASSUME NEW h \in Handlers, HandlerStep(h) \/ Throw(h) PROVE OneHolder'
  BY <1>2, <1>4, HandlerStepHolders
<1>5. ASSUME NEW h \in Handlers, Arrival(h) PROVE OneHolder'
  <2>1. ASSUME NEW p \in parked, Resume(h, p) PROVE OneHolder'
    BY <1>1, <2>1, ResumePassesToken
  <2>2. ASSUME NEW s, NEW j, NEW e, NEW pc, handler' = [handler EXCEPT ![h] = Start(s, j, e, pc)],
               UNCHANGED parked
        PROVE  OneHolder'
    BY <1>1, <2>2, ChangeHoldsNoMore, FewerHolders DEF Start
  <2> QED
    BY <1>5, <2>1, <2>2 DEF Arrival, Sweep, Deliver, ScanEntry, OnlyCall
<1>6. ASSUME NEW s \in Sessions, Dies(s) PROVE OneHolder'
  <2>1. \A h \in Handlers : handler'[h] = NoCall \/ handler'[h] = handler[h]
    BY <1>6 DEF Dies
  <2>2. \A h \in Handlers : HoldsNoMore(h)
    BY <2>1 DEF HoldsNoMore, Holds, At, TokenOf, NoCall
  <2> QED
    BY <1>6, <2>2, FewerHolders DEF Dies
<1>7. ASSUME \/ \E s \in Sessions : Boot(s) \/ Drain(s)
             \/ \E t \in tracked : Renew(t)
             \/ \E j \in Jobs : LeaseRuns(j) \/ Enqueue(j) \/ Api(j)
      PROVE  OneHolder'
  BY <1>3, <1>7 DEF Boot, Drain, Renew, LeaseRuns, Enqueue, Api, procVars, localVars
<1>8. CASE UNCHANGED allVars
  BY <1>3, <1>8 DEF allVars, procVars, localVars
<1> QED
  BY <1>4, <1>5, <1>6, <1>7, <1>8 DEF ProcNext

\* Two calls never have authority over one job, for any number of calls, processes
\* and jobs: the fence of the row, and one pair of hands for each token.
THEOREM AuthorityIsExclusive == ProcSpec => []OneCallHasAuthority
<1>1. ProcInit => OneHolder
  BY DEF ProcInit, OneHolder, Holds, At, NoCall
<1>2. ProcSpec => []OneOwnerPerGeneration
  BY ProcessorRefinesControl, OwnerIsUnique, PTL DEF UsesControl
<1>3. ProcInv /\ OneHolder => OneCallHasAuthority
  <2> SUFFICES ASSUME ProcInv, OneHolder, NEW g \in Handlers, NEW h \in Handlers,
                      ~At(g, "idle"), ~At(h, "idle"),
                      handler[g].gen > 0, handler[h].gen > 0,
                      Owns(TokenOf(g)), Owns(TokenOf(h)), JobOf(g) = JobOf(h)
               PROVE  g = h
    BY DEF OneCallHasAuthority
  <2>1. Holds(g) /\ Holds(h)
    BY DEF Holds
  <2>2. TokenOf(g) = TokenOf(h)
    BY DEF Owns, TokenOf, JobOf
  <2> QED
    BY <2>1, <2>2 DEF OneHolder
<1> QED
  BY <1>1, <1>2, <1>3, ProcInvHolds, OneHolderKept, PTL DEF ProcSpec

-----------------------------------------------------------------------------
(* A call that lost its job changes nothing of it *)

\* What the customer sees of the jobs: their state, retries, money and results.
fenced == <<status, failures, credited, outputs>>

\* Attempts, leases and receipts are no part of it.
LEMMA QuietTransactions ==
  ASSUME NEW t, NEW j, NEW s, NEW a,
         \/ Acquire(j, s) \/ Takeover(j, s) \/ RetireOwnership(t) \/ RenewLease(t)
         \/ PrepareAttempt(t, a) \/ BindAttempt(t, a) \/ SubmitIntent(t, a)
         \/ MarkUnknown(t, a) \/ PromptAccepted(j, a) \/ PromptRejected(j, a)
         \/ AnswerLost(j, a) \/ SettleTooLate(t) \/ GiveUp(t) \/ UNCHANGED vars
  PROVE  UNCHANGED fenced
BY DEF Acquire, Takeover, RetireOwnership, RenewLease, PrepareAttempt, BindAttempt,
       SubmitIntent, MarkUnknown, PromptAccepted, PromptRejected, AnswerLost,
       SettleTooLate, GiveUp, vars, moneyVars, fenced

\* Every write to it asks for the lease of the caller's own generation.
LEMMA UnownedStep ==
  ASSUME NEW h \in Handlers, ~Owns(TokenOf(h)), HandlerStep(h) \/ Throw(h)
  PROVE  UNCHANGED fenced
<1>1. CASE \/ ClaimEntry(h) \/ Wait(h) \/ Put(h) \/ PutFails(h) \/ Handoff(h)
           \/ Ack(h) \/ Throw(h)
  BY <1>1, QuietTransactions
     DEF ClaimEntry, Wait, Put, PutFails, Handoff, Ack, Throw, OnlyCall
<1>2. CASE AcquireJob(h) \/ TakeOverJob(h)
  BY <1>2, QuietTransactions DEF AcquireJob, TakeOverJob
<1>3. CASE ResumeJob(h) \/ Adopt(h)
  BY <1>3, QuietTransactions DEF ResumeJob, Adopt
<1>4. CASE Exit(h)
  BY <1>4, QuietTransactions DEF Exit
<1>5. CASE Prepare(h) \/ Claim(h) \/ Submit(h)
  BY <1>5, QuietTransactions DEF Prepare, Claim, Submit, LosesJob
<1>6. CASE Answer(h) \/ Check(h)
  BY <1>6, QuietTransactions DEF Answer, Check
<1>7. CASE Park(h) \/ Begin(h)
  BY <1>7, QuietTransactions DEF Park, Begin, ShowQueued, BeginProcessing, LosesJob
<1>8. CASE \/ Advance(h, "generate", "GENERATING", "submit")
           \/ Advance(h, "upload", "UPLOADING", "check")
  BY <1>8, QuietTransactions DEF Advance, Transition, LosesJob
<1>9. CASE \/ Settle(h, "settle", "COMPLETED") \/ Settle(h, "terminate", "FAILED")
           \/ Settle(h, "cancel", "CANCELLED") \/ Count(h) \/ YieldJob(h)
  BY <1>9, QuietTransactions
     DEF Settle, SettleOwned, Count, CountFailure, YieldJob, Yield, LosesJob
<1> QED
  BY <1>1, <1>2, <1>3, <1>4, <1>5, <1>6, <1>7, <1>8, <1>9 DEF HandlerStep

\* A step of one call leaves the other calls where they are.
LEMMA OneCallMoves ==
  ASSUME CallInv, NEW g \in Handlers, HandlerStep(g) \/ Throw(g) \/ Arrival(g)
  PROVE  \A h \in Handlers : h # g => handler'[h] = handler[h]
<1>a. ASSUME NEW c, handler' = [handler EXCEPT ![g] = c]
      PROVE  \A h \in Handlers : h # g => handler'[h] = handler[h]
  BY <1>a DEF CallInv
<1>b. ASSUME Done(g) \/ \E pc : Goto(g, pc)
      PROVE  \A h \in Handlers : h # g => handler'[h] = handler[h]
  BY <1>b DEF Done, Goto, CallInv
<1>1. CASE \/ Claim(g) \/ Begin(g) \/ Submit(g) \/ Answer(g) \/ Wait(g)
           \/ Advance(g, "generate", "GENERATING", "submit")
           \/ Advance(g, "upload", "UPLOADING", "check")
           \/ Check(g) \/ Put(g) \/ PutFails(g)
           \/ Settle(g, "settle", "COMPLETED") \/ Settle(g, "terminate", "FAILED")
           \/ Settle(g, "cancel", "CANCELLED") \/ Count(g) \/ YieldJob(g)
           \/ Handoff(g) \/ Ack(g) \/ ThrowsOn(g)
  BY <1>b, <1>1, MovingOn
<1>2. CASE ClaimEntry(g) \/ Exit(g) \/ Park(g)
  BY <1>b, <1>2 DEF ClaimEntry, Exit, Park
<1>3. CASE AcquireJob(g) \/ TakeOverJob(g)
  <2>1. CASE \E pc : Goto(g, pc)
    BY <1>b, <2>1
  <2>2. ASSUME NEW pc, NEW adopter, NowOwns(g, pc, adopter)
        PROVE  \A h \in Handlers : h # g => handler'[h] = handler[h]
    BY <2>2 DEF NowOwns, CallInv
  <2> QED
    BY <1>3, <2>1, <2>2 DEF AcquireJob, TakeOverJob
<1>4. CASE ResumeJob(g) \/ Adopt(g) \/ Prepare(g)
  BY <1>b, <1>4 DEF ResumeJob, Adopt, Prepare, LosesJob, CallInv, Goto, Done
<1>5. CASE Arrival(g)
  BY <1>a, <1>5 DEF Arrival, Sweep, Deliver, ScanEntry, Resume
<1>6. CASE Throw(g) /\ Done(g)
  BY <1>b, <1>6
<1> QED
  BY <1>1, <1>2, <1>3, <1>4, <1>5, <1>6, ThrowEnds DEF HandlerStep

\* A call whose job was given to another, or taken back, can do nothing to its
\* state, its retry budget, its money or its result, wherever in its flow it is.
THEOREM SupersededCallsAreHarmless == ProcSpec => SupersededCallIsHarmless
<1> DEFINE Harmless ==
      \A h \in Handlers :
          LET t == TokenOf(h) IN
          ~At(h, "idle") /\ handler[h].gen > 0 /\ ~Owns(t) /\ handler'[h] # handler[h]
             => /\ status'[t.job] = status[t.job]
                /\ failures'[t.job] = failures[t.job]
                /\ credited'[t.job] = credited[t.job]
                /\ t.job \in outputs' <=> t.job \in outputs
<1>1. ProcInv /\ [ProcNext]_allVars => [Harmless]_allVars
  <2> SUFFICES ASSUME ProcInv, [ProcNext]_allVars, NEW h \in Handlers,
                      ~At(h, "idle"), ~Owns(TokenOf(h)), handler'[h] # handler[h]
               PROVE  UNCHANGED fenced
    BY DEF fenced
  <2>1. CASE \E g \in Handlers : HandlerStep(g) \/ Throw(g) \/ Arrival(g)
    <3>1. PICK g \in Handlers : HandlerStep(g) \/ Throw(g) \/ Arrival(g)
      BY <2>1
    <3>2. g = h
      BY <3>1, OneCallMoves DEF ProcInv
    <3>3. ~Arrival(h)
      BY DEF Arrival, Sweep, Deliver, ScanEntry, Resume
    <3> QED
      BY <3>1, <3>2, <3>3, UnownedStep
  <2>2. CASE \E s \in Sessions : Dies(s)
    BY <2>2, QuietTransactions DEF Dies
  <2>3. CASE \/ \E s \in Sessions : Boot(s) \/ Drain(s)
             \/ \E t \in tracked : Renew(t)
             \/ \E j \in Jobs : LeaseRuns(j) \/ Enqueue(j) \/ Api(j)
             \/ UNCHANGED allVars
    <3>1. UNCHANGED handler
      BY <2>3 DEF Boot, Drain, Renew, LeaseRuns, Enqueue, Api, allVars, procVars, localVars
    <3> QED
      BY <3>1
  <2> QED
    BY <2>1, <2>2, <2>3 DEF ProcNext
<1> QED
  BY <1>1, ProcInvHolds, PTL DEF ProcSpec, SupersededCallIsHarmless

-----------------------------------------------------------------------------
(* Completed jobs have their image *)

\* The places from the POST to the PUT, where a call carries an attempt's image.
Carrying == {"answer", "wait", "upload", "check", "put"}

ImageInv ==
    /\ CompletedHasImage
    /\ \A h \in Handlers : handler[h].pc \in Carrying => handler[h].attempt # 0
    /\ \A h \in Handlers : At(h, "settle") => stored[JobOf(h)] # 0

\* A step of one call keeps this if the image is stored before the call settles.
LEMMA CallKeepsImage ==
  ASSUME CallInv, ImageInv, NEW h \in Handlers, NEW c,
         handler' = [handler EXCEPT ![h] = c],
         outputs' = outputs, stored' = stored,
         c.pc \in Carrying => c.attempt # 0,
         c.pc # "settle"
  PROVE  ImageInv'
BY DEF CallInv, ImageInv, CompletedHasImage, At, JobOf

\* Also when a call ends, or goes on from where it knew its attempt.
LEMMA GoesOnKeepsImage ==
  ASSUME CallInv, ImageInv, NEW h \in Handlers,
         outputs' = outputs, stored' = stored,
         \/ Done(h)
         \/ \E pc : /\ Goto(h, pc) /\ handler[h].pc # "idle" /\ pc # "settle"
                    /\ pc \in Carrying => handler[h].attempt # 0
  PROVE  ImageInv'
<1>1. CASE Done(h)
  <2>1. NoCall.pc = "idle"
    BY DEF NoCall
  <2> QED
    BY <1>1, <2>1, CallKeepsImage DEF Done, Carrying
<1>2. ASSUME NEW pc, Goto(h, pc), handler[h].pc # "idle", pc # "settle",
             pc \in Carrying => handler[h].attempt # 0
      PROVE  ImageInv'
  <2> DEFINE c == [handler[h] EXCEPT !.pc = pc]
  <2>1. handler[h] \in Call
    BY <1>2, BusyCall
  <2>2. c.pc = pc /\ c.attempt = handler[h].attempt
    BY <2>1 DEF Call
  <2>3. handler' = [handler EXCEPT ![h] = c]
    BY <1>2 DEF Goto, CallInv
  <2> HIDE DEF c
  <2> QED
    BY <1>2, <2>2, <2>3, CallKeepsImage
<1> QED
  BY <1>1, <1>2

\* The places a call goes to, and what it knew where it came from.
LEMMA KnowsItsImage ==
  ASSUME CallInv, ImageInv, NEW h \in Handlers,
         \/ Claim(h) \/ Begin(h) \/ Submit(h) \/ Answer(h) \/ Wait(h)
         \/ Advance(h, "generate", "GENERATING", "submit")
         \/ Advance(h, "upload", "UPLOADING", "check")
         \/ Check(h) \/ PutFails(h)
         \/ Settle(h, "settle", "COMPLETED") \/ Settle(h, "terminate", "FAILED")
         \/ Settle(h, "cancel", "CANCELLED")
         \/ Count(h) \/ YieldJob(h) \/ Handoff(h) \/ Ack(h) \/ ThrowsOn(h)
  PROVE  \E pc : /\ Goto(h, pc) /\ handler[h].pc # "idle" /\ pc # "settle"
                 /\ pc \in Carrying => handler[h].attempt # 0
<1>a. handler[h].pc \in Driving \cup Carrying => handler[h].attempt # 0
  BY CallsKnown DEF ImageInv, AttemptIds
<1>b. \E pc : /\ Goto(h, pc) /\ handler[h].pc # "idle" /\ pc # "settle"
              /\ pc \in Carrying => handler[h].pc \in Driving \cup Carrying
  <2> USE DEF At, Driving, Carrying
  <2>1. CASE Claim(h) \/ Begin(h) \/ Submit(h)
    BY <2>1 DEF Claim, Begin, Submit, LosesJob
  <2>2. CASE Answer(h) \/ Wait(h)
    BY <2>2 DEF Answer, Wait
  <2>3. CASE Advance(h, "generate", "GENERATING", "submit")
             \/ Advance(h, "upload", "UPLOADING", "check")
    BY <2>3 DEF Advance, LosesJob
  <2>4. CASE Check(h) \/ PutFails(h)
    BY <2>4 DEF Check, PutFails, AfterError
  <2>5. CASE \/ Settle(h, "settle", "COMPLETED") \/ Settle(h, "terminate", "FAILED")
             \/ Settle(h, "cancel", "CANCELLED")
    BY <2>5 DEF Settle, LosesJob
  <2>6. CASE Count(h) \/ YieldJob(h)
    BY <2>6 DEF Count, YieldJob, LosesJob
  <2>7. CASE Handoff(h) \/ Ack(h) \/ ThrowsOn(h)
    <3>1. Goto(h, "exit")
      BY <2>7 DEF Handoff, Ack, ThrowsOn, Throw
    <3>2. handler[h].pc # "idle"
      BY <2>7, MovingOn
    <3> QED
      BY <3>1, <3>2
  <2> QED
    BY <2>1, <2>2, <2>3, <2>4, <2>5, <2>6, <2>7
<1> QED
  BY <1>a, <1>b

\* The PUT stores the image of the attempt the call carries.
LEMMA PutStoresImage ==
  ASSUME CallInv, RestInv, ImageInv, NEW h \in Handlers, Put(h)
  PROVE  ImageInv'
<1>1. /\ handler[h] \in Call /\ JobOf(h) \in Jobs
      /\ handler[h].attempt # 0
  BY BusyCall DEF Put, At, ImageInv, Carrying
<1>2. /\ handler'[h].pc = "settle" /\ handler'[h].job = handler[h].job
      /\ \A g \in Handlers : g # h => handler'[g] = handler[g]
  BY <1>1 DEF Put, Goto, CallInv, Call
<1>3. /\ stored'[JobOf(h)] # 0
      /\ \A j : stored[j] # 0 /\ j \in Jobs => stored'[j] # 0
      /\ \A j : j \notin Jobs => stored'[j] = stored[j]
  BY <1>1 DEF Put, RestInv
<1>4. outputs' = outputs
  BY DEF Put, vars, moneyVars
<1> QED
  BY <1>2, <1>3, <1>4 DEF ImageInv, CompletedHasImage, At, JobOf, Carrying

\* Only a settlement that follows the PUT records an output.
LEMMA CompletionHasImage ==
  ASSUME CallInv, ImageInv, NEW h \in Handlers, Settle(h, "settle", "COMPLETED")
  PROVE  ImageInv'
<1>1. stored' = stored /\ outputs' \subseteq outputs \cup {JobOf(h)}
  BY DEF Settle, SettleOwned, SettleRows, SettleTooLate, RetireOwnership, LosesJob,
         vars, moneyVars, OnlyCall, TokenOf, JobOf
<1>2. stored[JobOf(h)] # 0
  BY DEF ImageInv, Settle
<1>3. \E pc \in {"ack", "exit"} : Goto(h, pc)
  BY DEF Settle, LosesJob
<1>4. /\ handler'[h].pc \in {"ack", "exit"}
      /\ \A g \in Handlers : g # h => handler'[g] = handler[g]
  <2>1. handler[h] \in Call
    BY BusyCall DEF Settle, At
  <2> QED
    BY <1>3, <2>1 DEF Goto, CallInv, Call
<1> QED
  BY <1>1, <1>2, <1>4 DEF ImageInv, CompletedHasImage, At, JobOf, Carrying

\* No other step of a call writes an output or stores an image.
LEMMA OthersRecordNothing ==
  ASSUME NEW h \in Handlers, HandlerStep(h) \/ Throw(h),
         ~Put(h), ~Settle(h, "settle", "COMPLETED")
  PROVE  outputs' = outputs /\ stored' = stored
<1> USE DEF OnlyCall, LosesJob
<1>a. ASSUME NEW t, NEW j, NEW s, NEW a,
         \/ Acquire(j, s) \/ Takeover(j, s) \/ RetireOwnership(t) \/ RenewLease(t)
         \/ PrepareAttempt(t, a) \/ BindAttempt(t, a) \/ SubmitIntent(t, a)
         \/ MarkUnknown(t, a) \/ PromptAccepted(j, a) \/ PromptRejected(j, a)
         \/ AnswerLost(j, a) \/ SettleTooLate(t) \/ GiveUp(t) \/ UNCHANGED vars
      PROVE outputs' = outputs
  BY <1>a, QuietTransactions DEF fenced
<1>1. CASE \/ ClaimEntry(h) \/ Wait(h) \/ PutFails(h) \/ Handoff(h)
           \/ Ack(h) \/ Throw(h)
  BY <1>a, <1>1 DEF ClaimEntry, Wait, PutFails, Handoff, Ack, Throw
<1>2. CASE AcquireJob(h) \/ TakeOverJob(h)
  BY <1>a, <1>2 DEF AcquireJob, TakeOverJob, NowOwns
<1>3. CASE ResumeJob(h) \/ Adopt(h)
  BY <1>a, <1>3 DEF ResumeJob, Adopt
<1>4. CASE Exit(h)
  BY <1>a, <1>4 DEF Exit
<1>5. CASE Prepare(h) \/ Claim(h) \/ Submit(h)
  BY <1>a, <1>5 DEF Prepare, Claim, Submit
<1>6. CASE Answer(h) \/ Check(h)
  BY <1>a, <1>6 DEF Answer, Check
<1>7. CASE Park(h) \/ Begin(h)
  BY <1>a, <1>7 DEF Park, Begin, ShowQueued, BeginProcessing, moneyVars
<1>8. CASE \/ Advance(h, "generate", "GENERATING", "submit")
           \/ Advance(h, "upload", "UPLOADING", "check")
  BY <1>a, <1>8 DEF Advance, Transition, moneyVars
<1>9. CASE Settle(h, "terminate", "FAILED") \/ Settle(h, "cancel", "CANCELLED")
  BY <1>a, <1>9 DEF Settle, SettleOwned, SettleRows
<1>10. CASE Count(h) \/ YieldJob(h)
  BY <1>a, <1>10 DEF Count, CountFailure, YieldJob, Yield, moneyVars
<1> QED
  BY <1>1, <1>2, <1>3, <1>4, <1>5, <1>6, <1>7, <1>8, <1>9, <1>10 DEF HandlerStep

\* Steps of a call.
LEMMA HandlerKeepsImage ==
  ASSUME ProcInv, ImageInv, NEW h \in Handlers, HandlerStep(h) \/ Throw(h)
  PROVE  ImageInv'
<1>1. TypeOK /\ CallInv /\ RestInv
  BY DEF ProcInv
<1>2. CASE Put(h)
  BY <1>1, <1>2, PutStoresImage
<1>3. CASE Settle(h, "settle", "COMPLETED")
  BY <1>1, <1>3, CompletionHasImage
<1>4. CASE ~Put(h) /\ ~Settle(h, "settle", "COMPLETED")
  <2>1. outputs' = outputs /\ stored' = stored
    BY <1>4, OthersRecordNothing
  <2>a. ASSUME NEW pc, Goto(h, pc), handler[h].pc # "idle", pc \notin Carrying,
               pc # "settle"
        PROVE  ImageInv'
    BY <1>1, <2>1, <2>a, GoesOnKeepsImage
  <2>b. ASSUME NEW c, handler' = [handler EXCEPT ![h] = c],
               c.pc \notin Carrying \/ c.attempt # 0, c.pc # "settle"
        PROVE  ImageInv'
    BY <1>1, <2>1, <2>b, CallKeepsImage
  <2>2. CASE \/ Claim(h) \/ Begin(h) \/ Submit(h) \/ Answer(h) \/ Wait(h)
             \/ Advance(h, "generate", "GENERATING", "submit")
             \/ Advance(h, "upload", "UPLOADING", "check")
             \/ Check(h) \/ PutFails(h)
             \/ Settle(h, "terminate", "FAILED") \/ Settle(h, "cancel", "CANCELLED")
             \/ Count(h) \/ YieldJob(h) \/ Handoff(h) \/ Ack(h) \/ ThrowsOn(h)
    BY <1>1, <2>1, <2>2, KnowsItsImage, GoesOnKeepsImage
  <2>3. CASE ClaimEntry(h) \/ Exit(h) \/ Park(h)
    <3>1. handler[h].pc # "idle"
      BY <2>3 DEF ClaimEntry, Exit, Park, At
    <3>2. Done(h) \/ \E pc \in {"acquire", "ack"} : Goto(h, pc)
      BY <2>3 DEF ClaimEntry, Exit, Park
    <3> QED
      BY <1>1, <2>1, <2>a, <3>1, <3>2, GoesOnKeepsImage DEF Carrying
  <2>4. CASE AcquireJob(h) \/ TakeOverJob(h)
    <3>1. handler[h] \in Call /\ handler[h].pc # "idle"
      BY <1>1, <2>4, BusyCall DEF AcquireJob, TakeOverJob, At
    <3>2. CASE \E pc \in {"ack", "exit", "takeover"} : Goto(h, pc)
      BY <2>a, <3>1, <3>2 DEF Carrying
    <3>3. ASSUME NEW pc \in {"prepare", "adopt"}, NEW adopter, NowOwns(h, pc, adopter)
          PROVE  ImageInv'
      <4> DEFINE gen == control'[JobOf(h)].generation
                 t == [job |-> JobOf(h), session |-> handler[h].session,
                       generation |-> gen]
                 c == [handler[h] EXCEPT !.pc = pc, !.gen = gen, !.adopter = adopter]
      <4>1. [TokenOf(h) EXCEPT !.generation = gen] = t
        BY DEF TokenOf, JobOf
      <4>2. handler' = [handler EXCEPT ![h].pc = pc, ![h].gen = t.generation,
                                       ![h].adopter = adopter]
        BY <3>3, <4>1 DEF NowOwns
      <4>3. handler' = [handler EXCEPT ![h] = c]
        BY <1>1, <4>2 DEF CallInv
      <4>4. c.pc = pc
        BY <3>1 DEF Call
      <4> HIDE DEF c
      <4> QED
        BY <2>b, <4>3, <4>4 DEF Carrying
    <3> QED
      BY <2>4, <3>2, <3>3 DEF AcquireJob, TakeOverJob
  <2>5. CASE ResumeJob(h) \/ Adopt(h) \/ Prepare(h)
    <3>1. handler[h] \in Call /\ handler[h].pc # "idle"
      BY <1>1, <2>5, BusyCall DEF ResumeJob, Adopt, Prepare, At
    <3>2. ASSUME NEW pc, NEW a, handler' = [handler EXCEPT ![h].pc = pc, ![h].attempt = a],
                 pc \notin Carrying \/ a # 0, pc # "settle"
          PROVE  ImageInv'
      <4> DEFINE c == [handler[h] EXCEPT !.pc = pc, !.attempt = a]
      <4>1. handler' = [handler EXCEPT ![h] = c]
        BY <1>1, <3>2 DEF CallInv
      <4>2. c.pc = pc /\ c.attempt = a
        BY <3>1 DEF Call
      <4> HIDE DEF c
      <4> QED
        BY <2>b, <3>2, <4>1, <4>2
    <3>3. CASE handler' = [handler EXCEPT ![h].pc = "prepare", ![h].adopter = FALSE]
      <4> DEFINE c == [handler[h] EXCEPT !.pc = "prepare", !.adopter = FALSE]
      <4>1. handler' = [handler EXCEPT ![h] = c]
        BY <1>1, <3>3 DEF CallInv
      <4>2. c.pc = "prepare"
        BY <3>1 DEF Call
      <4> HIDE DEF c
      <4> QED
        BY <2>b, <4>1, <4>2 DEF Carrying
    <3>4. CASE handler' = [handler EXCEPT ![h].pc = "ack", ![h].gen = 0]
      <4> DEFINE c == [handler[h] EXCEPT !.pc = "ack", !.gen = 0]
      <4>1. handler' = [handler EXCEPT ![h] = c]
        BY <1>1, <3>4 DEF CallInv
      <4>2. c.pc = "ack"
        BY <3>1 DEF Call
      <4> HIDE DEF c
      <4> QED
        BY <2>b, <4>1, <4>2 DEF Carrying
    <3>5. CASE Done(h) \/ \E pc \in {"prepare", "exit"} : Goto(h, pc)
      BY <1>1, <2>1, <2>a, <3>1, <3>5, GoesOnKeepsImage DEF Carrying
    <3>6. CASE ResumeJob(h)
      BY <3>4, <3>5, <3>6 DEF ResumeJob
    <3>7. CASE Prepare(h)
      <4>1. CASE LosesJob(h)
        BY <3>5, <4>1 DEF LosesJob
      <4>2. CASE ~LosesJob(h)
        <5>1. handler' = [handler EXCEPT ![h].pc = "claim",
                                         ![h].attempt = active'[JobOf(h)]]
          BY <3>7, <4>2 DEF Prepare
        <5>2. "claim" \notin Carrying /\ "claim" # "settle"
          BY DEF Carrying
        <5> QED
          BY <3>2, <5>1, <5>2
      <4> QED
        BY <4>1, <4>2
    <3>8. CASE Adopt(h)
      <4>1. \/ handler' = [handler EXCEPT ![h].pc = "prepare", ![h].adopter = FALSE]
            \/ Goto(h, "exit")
            \/ /\ active[JobOf(h)] # 0
               /\ \E pc \in {"wait", "count", "cancel"} :
                    handler' = [handler EXCEPT ![h].pc = pc,
                                               ![h].attempt = active[JobOf(h)]]
        BY <3>8 DEF Adopt
      <4> QED
        BY <3>2, <3>3, <3>5, <4>1
    <3> QED
      BY <2>5, <3>6, <3>7, <3>8
  <2>6. CASE Done(h)
    BY <1>1, <2>1, <2>6, GoesOnKeepsImage
  <2> QED
    BY <1>4, <2>2, <2>3, <2>4, <2>5, <2>6, ThrowEnds DEF HandlerStep
<1> QED
  BY <1>2, <1>3, <1>4

\* Every step.
LEMMA ImageKept == ProcInv /\ ImageInv /\ [ProcNext]_allVars => ImageInv'
<1> SUFFICES ASSUME ProcInv, ImageInv, [ProcNext]_allVars PROVE ImageInv'
  OBVIOUS
<1>a. ASSUME UNCHANGED <<outputs, stored>>,
             \A h \in Handlers : handler'[h] = NoCall \/ handler'[h] = handler[h]
      PROVE  ImageInv'
  BY <1>a DEF ImageInv, CompletedHasImage, At, JobOf, NoCall, Carrying
<1>1. ASSUME NEW h \in Handlers, HandlerStep(h) \/ Throw(h) PROVE ImageInv'
  BY <1>1, HandlerKeepsImage
<1>2. ASSUME NEW h \in Handlers, Arrival(h) PROVE ImageInv'
  <2>1. UNCHANGED <<outputs, stored>>
    BY <1>2 DEF Arrival, Sweep, Deliver, ScanEntry, Resume, OnlyCall, vars, moneyVars
  <2>2. ASSUME NEW c, handler' = [handler EXCEPT ![h] = c],
               c.pc \in {"scanned", "acquire", "resume"}
        PROVE  ImageInv'
    BY <2>1, <2>2, CallKeepsImage DEF Carrying, ProcInv
  <2>3. ASSUME NEW s, NEW j, NEW e, NEW pc \in {"scanned", "acquire"},
               handler' = [handler EXCEPT ![h] = Start(s, j, e, pc)]
        PROVE  ImageInv'
    BY <2>2, <2>3 DEF Start
  <2>4. ASSUME NEW p \in parked, Resume(h, p) PROVE ImageInv'
    <3> DEFINE c == [Start(p.token.session, p.token.job, p.entry, "resume")
                       EXCEPT !.gen = p.token.generation]
    <3>1. handler' = [handler EXCEPT ![h] = c] /\ c.pc = "resume"
      BY <2>4 DEF Resume, Start
    <3> HIDE DEF c
    <3> QED
      BY <2>2, <3>1
  <2> QED
    BY <1>2, <2>3, <2>4 DEF Arrival, Sweep, Deliver, ScanEntry
<1>3. ASSUME NEW s \in Sessions, Dies(s) PROVE ImageInv'
  BY <1>a, <1>3 DEF Dies, vars, moneyVars
<1>4. ASSUME \/ \E s \in Sessions : Boot(s) \/ Drain(s)
             \/ \E t \in tracked : Renew(t)
             \/ \E j \in Jobs : LeaseRuns(j) \/ Enqueue(j) \/ Api(j)
             \/ UNCHANGED allVars
      PROVE  ImageInv'
  BY <1>a, <1>4 DEF Boot, Drain, Renew, LeaseRuns, Enqueue, Api, RetireSession,
     RenewLease, LeaseAges, CreateJob, EnqueueFinished, EnqueueFailed,
     CancelJobAndRefund, allVars, procVars, localVars, vars, moneyVars
<1> QED
  BY <1>1, <1>2, <1>3, <1>4 DEF ProcNext

\* No job is completed without an image in the store, whichever call, process or
\* adopter settled it and however long its PUT took.
THEOREM CompletedJobsHaveImages == ProcSpec => []CompletedHasImage
<1>1. ProcInit => ImageInv
  BY DEF ProcInit, Init, ImageInv, CompletedHasImage, At, NoCall, Carrying
<1>2. ImageInv => CompletedHasImage
  BY DEF ImageInv
<1> QED
  BY <1>1, <1>2, ProcInvHolds, ImageKept, PTL DEF ProcSpec

-----------------------------------------------------------------------------
(* No message is lost, but through one gap *)

\* A job that was ever enqueued and is not finished has a message that is not ACKed, or a
\* call about to append one.
MessageIsKept ==
  \A j \in Jobs : Open(j) /\ Enqueued(j) =>
     \/ Unacked(j)
     \/ \E h \in Handlers : At(h, "handoff") /\ JobOf(h) = j

\* ACKs follow terminal rows, and an unfinished job keeps an entry.
KeptInv ==
  /\ \A j \in Jobs : ~IsTerminal(j) /\ Enqueued(j) => Unacked(j)
  /\ \A h \in Handlers : At(h, "ack") => IsTerminal(JobOf(h))

LEMMA TerminalStays ==
  ASSUME TypeOK, [Next]_vars, NEW j \in Jobs, IsTerminal(j)
  PROVE  IsTerminal(j)'
<1>1. status'[j] = status[j]
  BY FinalStep DEF vars
<1> QED
  BY <1>1 DEF IsTerminal

LEMMA GotoPlace ==
  ASSUME CallInv, NEW h \in Handlers, NEW pc, Goto(h, pc), handler[h].pc # "idle"
  PROVE  handler'[h].pc = pc /\ handler'[h].job = handler[h].job
<1>1. handler[h] \in Call
  BY BusyCall
<1> QED
  BY <1>1 DEF Goto, Call, CallInv

\* Where most steps lead; none of these places is followed by an ACK.
LEMMA LeadsElsewhere ==
  ASSUME CallInv, NEW h \in Handlers,
         \/ ClaimEntry(h) \/ Adopt(h) \/ Prepare(h) \/ Claim(h)
         \/ Advance(h, "generate", "GENERATING", "submit")
         \/ Submit(h) \/ Answer(h) \/ Wait(h)
         \/ Advance(h, "upload", "UPLOADING", "check")
         \/ Check(h) \/ Put(h) \/ PutFails(h) \/ Count(h)
         \/ Handoff(h) \/ Ack(h) \/ Exit(h) \/ Throw(h)
  PROVE  handler'[h].pc # "ack"
<1>a. ASSUME NEW pc, Goto(h, pc), handler[h].pc # "idle", pc # "ack"
      PROVE  handler'[h].pc # "ack"
  BY <1>a, GotoPlace
<1>b. ASSUME Done(h) PROVE handler'[h].pc # "ack"
  BY <1>b DEF Done, CallInv, NoCall
<1> USE DEF At
<1>1. CASE ClaimEntry(h) \/ Handoff(h) \/ Ack(h) \/ Throw(h)
  BY <1>a, <1>b, <1>1 DEF ClaimEntry, Handoff, Ack, Throw
<1>2. CASE Adopt(h)
  <2>1. handler[h] \in Call
    BY <1>2, BusyCall DEF Adopt
  <2> QED
    BY <1>2, <2>1 DEF Adopt, Goto, Call, CallInv
<1>3. CASE Prepare(h)
  <2>1. handler[h] \in Call
    BY <1>3, BusyCall DEF Prepare
  <2> QED
    BY <1>3, <2>1 DEF Prepare, LosesJob, Goto, Call, CallInv
<1>4. CASE \/ Claim(h) \/ Advance(h, "generate", "GENERATING", "submit")
           \/ Submit(h) \/ Answer(h) \/ Advance(h, "upload", "UPLOADING", "check")
           \/ Count(h)
  BY <1>a, <1>4 DEF Claim, Advance, Submit, Answer, Count, LosesJob
<1>5. CASE Wait(h) \/ Check(h) \/ Put(h) \/ PutFails(h)
  BY <1>a, <1>5 DEF Wait, Check, Put, PutFails, AfterError
<1>6. CASE Exit(h)
  BY <1>b, <1>6 DEF Exit
<1> QED
  BY <1>1, <1>2, <1>3, <1>4, <1>5, <1>6

\* Whoever is about to ACK has seen or written a terminal row, unless the job was put back
\* between the two looks at it.
LEMMA AcksFollow ==
  ASSUME TypeOK, CallInv, NEW h \in Handlers, ~RequeuedInGap(h), HandlerStep(h) \/ Throw(h),
         handler'[h].pc = "ack"
  PROVE  handler'[h].job = handler[h].job /\ IsTerminal(JobOf(h))'
<1>0. \/ AcquireJob(h) \/ TakeOverJob(h) \/ ResumeJob(h) \/ Park(h) \/ Begin(h)
      \/ Settle(h, "settle", "COMPLETED") \/ Settle(h, "terminate", "FAILED")
      \/ Settle(h, "cancel", "CANCELLED") \/ YieldJob(h)
  BY LeadsElsewhere DEF HandlerStep
<1>1. handler[h].pc # "idle"
  BY <1>0 DEF AcquireJob, TakeOverJob, ResumeJob, Park, Begin, Settle, YieldJob, At
<1>2. handler[h] \in Call /\ JobOf(h) \in Jobs /\ TokenOf(h).job = JobOf(h)
  BY <1>1, BusyCall DEF TokenOf, JobOf
<1>a. ASSUME NEW pc, Goto(h, pc) PROVE handler'[h].pc = pc /\ JobOf(h)' = JobOf(h)
  BY <1>1, <1>a, GotoPlace DEF JobOf
<1>b. ASSUME IsTerminal(JobOf(h)), JobOf(h)' = JobOf(h), UNCHANGED status
      PROVE  handler'[h].job = handler[h].job /\ IsTerminal(JobOf(h))'
  BY <1>b DEF IsTerminal, JobOf
<1>c. ASSUME Done(h) PROVE FALSE
  BY <1>c DEF Done, CallInv, NoCall
<1>d. ASSUME NEW pc, NEW adopter, NowOwns(h, pc, adopter)
      PROVE  handler'[h].pc = pc
  BY <1>2, <1>d DEF NowOwns, CallInv, Call
<1>e. ASSUME SettleTooLate(TokenOf(h)), Goto(h, "ack")
      PROVE  handler'[h].job = handler[h].job /\ IsTerminal(JobOf(h))'
  BY <1>2, <1>a, <1>b, <1>e DEF SettleTooLate, RetireOwnership
<1>f. ASSUME LosesJob(h) PROVE FALSE
  BY <1>a, <1>f DEF LosesJob
<1>3. CASE AcquireJob(h)
  <2>1. CASE Goto(h, "exit") \/ Goto(h, "takeover")
    BY <1>a, <2>1
  <2>3. CASE NowOwns(h, "prepare", FALSE)
    <3>1. handler'[h].pc = "prepare"
      BY <1>d, <2>3
    <3> QED
      BY <3>1
  <2>2. CASE IsTerminal(JobOf(h)) /\ Goto(h, "ack") /\ UNCHANGED vars
    BY <1>a, <1>b, <2>2 DEF vars
  <2> QED
    BY <1>3, <2>1, <2>2, <2>3 DEF AcquireJob
<1>4. CASE TakeOverJob(h)
  <2>1. status[JobOf(h)] # "QUEUED"
    BY <1>4 DEF TakeOverJob, RequeuedInGap
  <2>2. CASE Goto(h, "exit")
    BY <1>a, <2>2
  <2>4. CASE NowOwns(h, "adopt", TRUE)
    <3>1. handler'[h].pc = "adopt"
      BY <1>d, <2>4
    <3> QED
      BY <3>1
  <2>3. CASE IsTerminal(JobOf(h)) /\ Goto(h, "ack") /\ UNCHANGED vars
    BY <1>a, <1>b, <2>3 DEF vars
  <2> QED
    BY <1>4, <2>1, <2>2, <2>3, <2>4 DEF TakeOverJob
<1>5. CASE ResumeJob(h)
  <2>1. CASE Goto(h, "prepare") \/ Done(h)
    BY <1>a, <1>c, <2>1
  <2>2. CASE /\ IsTerminal(JobOf(h)) /\ GiveUp(TokenOf(h))
             /\ handler' = [handler EXCEPT ![h].pc = "ack", ![h].gen = 0]
    <3>1. UNCHANGED status
      BY <2>2 DEF GiveUp, RetireOwnership, vars
    <3>2. JobOf(h)' = JobOf(h)
      BY <1>2, <2>2 DEF JobOf, CallInv, Call
    <3> QED
      BY <1>b, <2>2, <3>1, <3>2
  <2> QED
    BY <1>2, <1>5, <2>1, <2>2 DEF ResumeJob
<1>6. CASE Park(h)
  BY <1>6, <1>c, <1>e DEF Park
<1>7. CASE Begin(h)
  <2>1. CASE Goto(h, "generate") \/ LosesJob(h)
    BY <2>1, <1>a, <1>f
  <2>2. CASE IsTerminal(JobOf(h)) /\ Goto(h, "ack") /\ UNCHANGED vars
    BY <2>2, <1>a, <1>b DEF vars
  <2> QED
    BY <1>2, <1>7, <2>1, <2>2 DEF Begin
<1>8. ASSUME NEW from, NEW result \in Terminal, Settle(h, from, result)
      PROVE  handler'[h].job = handler[h].job /\ IsTerminal(JobOf(h))'
  <2>1. CASE SettleOwned(TokenOf(h), result) /\ Goto(h, "ack")
    <3>1. status'[JobOf(h)] = result
      BY <1>2, <2>1 DEF SettleOwned, SettleRows, SetStatus, TypeOK
    <3> QED
      BY <1>a, <2>1, <3>1 DEF IsTerminal, JobOf
  <2> QED
    BY <1>8, <1>e, <1>f, <2>1 DEF Settle
<1>9. CASE YieldJob(h)
  BY <1>9, <1>a, <1>e, <1>f DEF YieldJob
<1> QED
  BY <1>0, <1>3, <1>4, <1>5, <1>6, <1>7, <1>8, <1>9 DEF Terminal

\* A job keeps a message that is not ACKed, and a new message is not ACKed.
Keeps(k) == /\ Unacked(k) => Unacked(k)'
            /\ Enqueued(k)' => Enqueued(k) \/ Unacked(k)'

\* A command of the stream that makes one entry ready or pending.
LEMMA SettingKeeps ==
  ASSUME RestInv, NEW j \in Jobs, NEW e \in EntryIds,
         NEW v \in Entry, v.state \in {"ready", "pending"},
         entries' = [entries EXCEPT ![j][e] = v], NEW k \in Jobs
  PROVE  Keeps(k)
<1>1. entries'[j][e] = v /\ \A i \in Jobs \ {j} : entries'[i] = entries[i]
  BY DEF RestInv
<1>2. CASE k = j
  BY <1>1, <1>2 DEF Keeps, Unacked
<1>3. CASE k # j
  BY <1>1, <1>3 DEF Keeps, Unacked, Enqueued
<1> QED
  BY <1>2, <1>3

\* The replacement is there before the original is gone.
LEMMA HandoffKeeps ==
  ASSUME CallInv, RestInv, NEW h \in Handlers, Handoff(h), NEW k \in Jobs
  PROVE  Keeps(k)
<1> DEFINE j == JobOf(h)
           o == handler[h].entry
           ready == [state |-> "ready", consumer |-> NoSession]
           acked == [state |-> "acked", consumer |-> NoSession]
<1>1. j \in Jobs /\ o \in {NoMessage} \cup EntryIds
  BY BusyCall DEF Handoff, At
<1>2. CASE UNCHANGED entries
  BY <1>2 DEF Keeps, Unacked, Enqueued
<1>3. ASSUME NEW e \in FreeEntry(j),
             \/ entries' = [entries EXCEPT ![j][e] = ready]
             \/ /\ entries' = [[entries EXCEPT ![j][e] = ready] EXCEPT ![j][o] = acked]
                /\ Pending(j, o) /\ o \in EntryIds
      PROVE  Keeps(k)
  <2>1. e \in EntryIds /\ entries[j][e].state = "absent"
    BY DEF FreeEntry
  <2>2. Pending(j, o) => e # o
    BY <2>1 DEF Pending
  <2>3. CASE k = j
    <3>1. entries'[j][e] = ready
      BY <1>1, <1>3, <2>1, <2>2 DEF RestInv
    <3> QED
      BY <2>1, <2>3, <3>1 DEF Keeps, Unacked
  <2>4. CASE k # j
    <3>1. entries'[k] = entries[k]
      BY <1>1, <1>3, <2>4 DEF RestInv
    <3> QED
      BY <3>1 DEF Keeps, Unacked, Enqueued
  <2> QED
    BY <2>3, <2>4
<1>4. UNCHANGED entries \/
      \E e \in FreeEntry(j) :
         \/ entries' = [entries EXCEPT ![j][e] = ready]
         \/ /\ entries' = [[entries EXCEPT ![j][e] = ready] EXCEPT ![j][o] = acked]
            /\ Pending(j, o) /\ o \in EntryIds
  BY <1>1 DEF Handoff, Unread, JobOf
<1> QED
  BY <1>2, <1>3, <1>4

\* A job loses its messages by an ACK of one of its calls and by nothing else.
LEMMA MessagesGoByAck ==
  ASSUME ProcInv, [ProcNext]_allVars, NEW k \in Jobs
  PROVE  Keeps(k) \/ \E h \in Handlers : Ack(h) /\ JobOf(h) = k
<1>0. CallInv /\ RestInv
  BY DEF ProcInv
<1> DEFINE Goal == Keeps(k) \/ \E h \in Handlers : Ack(h) /\ JobOf(h) = k
<1>a. ASSUME UNCHANGED entries PROVE Goal
  BY <1>a DEF Keeps, Unacked, Enqueued
<1>b. ASSUME NEW j \in Jobs, NEW e \in EntryIds, NEW v \in Entry,
             v.state \in {"ready", "pending"}, entries' = [entries EXCEPT ![j][e] = v]
      PROVE  Goal
  BY <1>0, <1>b, SettingKeeps
<1>c. \A s \in Sessions : [state |-> "pending", consumer |-> Host[s]] \in Entry
  BY DEF Entry
<1>d. ASSUME NEW h \in Handlers, Ack(h) PROVE Goal
  <2>1. CASE JobOf(h) = k
    BY <1>d, <2>1
  <2>2. CASE JobOf(h) # k
    <3>1. entries'[k] = entries[k]
      BY <1>0, <1>d, <2>2 DEF Ack, SetEntry, JobOf, RestInv
    <3> QED
      BY <3>1 DEF Keeps, Unacked, Enqueued
  <2> QED
    BY <2>1, <2>2
<1>e. ASSUME NEW h \in Handlers, Handoff(h) PROVE Goal
  BY <1>0, <1>e, HandoffKeeps
<1> HIDE DEF Goal
<1>1. ASSUME NEW h \in Handlers, HandlerStep(h) \/ Throw(h) PROVE Goal
  <2>1. CASE Ack(h)
    BY <1>d, <2>1
  <2>2. CASE Handoff(h)
    BY <1>e, <2>2
  <2>3. CASE ClaimEntry(h)
    <3>1. CASE UNCHANGED entries
      BY <1>a, <3>1
    <3>2. CASE /\ Pending(handler[h].job, handler[h].entry)
               /\ entries' = [entries EXCEPT ![handler[h].job][handler[h].entry] =
                    [state |-> "pending", consumer |-> Host[handler[h].session]]]
      <4>1. /\ handler[h].job \in Jobs /\ handler[h].session \in Sessions
            /\ handler[h].entry \in {NoMessage} \cup EntryIds
        BY <1>0, <2>3, BusyCall DEF ClaimEntry, At, JobOf
      <4>2. CASE handler[h].entry \in EntryIds
        BY <1>b, <1>c, <3>2, <4>1, <4>2
      <4>3. CASE handler[h].entry \notin EntryIds
        <5>1. UNCHANGED entries
          BY <1>0, <3>2, <4>1, <4>3 DEF RestInv
        <5> QED
          BY <1>a, <5>1
      <4> QED
        BY <4>2, <4>3
    <3> QED
      BY <2>3, <3>1, <3>2 DEF ClaimEntry, SetEntry
  <2>4. CASE ~Ack(h) /\ ~Handoff(h) /\ ~ClaimEntry(h)
    <3>1. UNCHANGED entries
      <4>1. CASE \/ AcquireJob(h) \/ TakeOverJob(h) \/ ResumeJob(h) \/ Adopt(h)
                 \/ Exit(h) \/ Throw(h) \/ Put(h) \/ PutFails(h) \/ Park(h)
        BY <4>1 DEF AcquireJob, TakeOverJob, NowOwns, OnlyCall, ResumeJob, Adopt, Exit, Throw,
                    Put, PutFails, Park
      <4>2. CASE \/ Prepare(h) \/ Claim(h) \/ Begin(h) \/ Submit(h) \/ Answer(h) \/ Wait(h)
                 \/ Advance(h, "generate", "GENERATING", "submit")
                 \/ Advance(h, "upload", "UPLOADING", "check") \/ Check(h)
                 \/ Settle(h, "settle", "COMPLETED") \/ Settle(h, "terminate", "FAILED")
                 \/ Settle(h, "cancel", "CANCELLED") \/ Count(h) \/ YieldJob(h)
        BY <4>2 DEF Prepare, Claim, Begin, Submit, Answer, Wait, Advance, Check, Settle, Count,
                    YieldJob, OnlyCall
      <4> QED
        BY <1>1, <2>4, <4>1, <4>2 DEF HandlerStep
    <3> QED
      BY <1>a, <3>1
  <2> QED
    BY <2>1, <2>2, <2>3, <2>4
<1>2. ASSUME NEW h \in Handlers, Arrival(h) PROVE Goal
  <2>1. ASSUME NEW s \in Sessions, NEW j \in Jobs, NEW e \in EntryIds, Deliver(h, s, j, e)
        PROVE  Goal
    BY <1>b, <1>c, <2>1 DEF Deliver, SetEntry
  <2>2. CASE \/ \E s \in Sessions, j \in Jobs : Sweep(h, s, j)
                   \/ \E e \in EntryIds : ScanEntry(h, s, j, e)
             \/ \E p \in parked : Resume(h, p)
    BY <1>a, <2>2 DEF Sweep, ScanEntry, Resume, OnlyCall
  <2> QED
    BY <1>2, <2>1, <2>2 DEF Arrival
<1>3. ASSUME NEW j \in Jobs, Enqueue(j) PROVE Goal
  <2>1. entries' = [entries EXCEPT ![j][1] = [state |-> "ready", consumer |-> NoSession]]
    BY <1>3 DEF Enqueue, Unread
  <2>2. CASE 1 \in EntryIds
    <3>1. [state |-> "ready", consumer |-> NoSession] \in Entry
      BY DEF Entry
    <3> QED
      BY <1>b, <2>1, <2>2, <3>1
  <2>3. CASE 1 \notin EntryIds
    BY <1>0, <1>a, <2>1, <2>3 DEF RestInv
  <2> QED
    BY <2>2, <2>3
<1>4. CASE \/ \E s \in Sessions : Boot(s) \/ Drain(s) \/ Dies(s)
           \/ \E t \in tracked : Renew(t)
           \/ \E j \in Jobs : LeaseRuns(j) \/ Api(j)
           \/ UNCHANGED allVars
  <2>1. UNCHANGED entries
    <3>1. ASSUME NEW s \in Sessions, Boot(s) \/ Drain(s) \/ Dies(s) PROVE UNCHANGED entries
      BY <3>1 DEF Boot, Drain, Dies
    <3>2. ASSUME NEW t \in tracked, Renew(t) PROVE UNCHANGED entries
      BY <3>2 DEF Renew, procVars
    <3>3. ASSUME NEW j \in Jobs, LeaseRuns(j) \/ Api(j) PROVE UNCHANGED entries
      BY <3>3 DEF LeaseRuns, Api, procVars
    <3> QED
      BY <1>4, <3>1, <3>2, <3>3 DEF allVars, procVars
  <2> QED
    BY <1>a, <2>1 DEF Goal
<1> QED
  BY <1>1, <1>2, <1>3, <1>4 DEF ProcNext, Goal

LEMMA EntriesKept ==
  ASSUME ProcInv, KeptInv, [ProcNext]_allVars, NEW k \in Jobs,
         ~IsTerminal(k)', Enqueued(k)'
  PROVE  Unacked(k)'
<1>1. ~IsTerminal(k)
  BY StepIsControl, TerminalStays DEF ProcInv
<1>2. \A h \in Handlers : Ack(h) => JobOf(h) # k
  BY <1>1 DEF Ack, KeptInv
<1>3. Keeps(k)
  BY <1>2, MessagesGoByAck
<1> QED
  BY <1>1, <1>3 DEF KeptInv, Keeps

\* A call comes to its ACK when the job is finished, or out of the gap.
LEMMA AckReached ==
  ASSUME ProcInv, [ProcNext]_allVars, NEW g \in Handlers, At(g, "ack")', ~RequeuedInGap(g)
  PROVE  handler'[g] = handler[g] \/ IsTerminal(JobOf(g))'
<1>0. TypeOK /\ CallInv /\ CallInv'
  BY ProcInvKept DEF ProcInv
<1>1. ASSUME NEW h \in Handlers, HandlerStep(h) \/ Throw(h) PROVE handler'[g] = handler[g] \/ IsTerminal(JobOf(g))'
  <2>1. CASE h = g
    BY <1>0, <1>1, <2>1, AcksFollow DEF At
  <2>2. CASE h # g
    BY <1>0, <1>1, <2>2, OneCallMoves
  <2> QED
    BY <2>1, <2>2
<1>2. ASSUME NEW h \in Handlers, Arrival(h) PROVE handler'[g] = handler[g] \/ IsTerminal(JobOf(g))'
  <2>1. CASE h = g
    <3>1. ASSUME NEW s, NEW j, NEW e, NEW pc \in {"scanned", "acquire"},
                 handler' = [handler EXCEPT ![g] = Start(s, j, e, pc)]
          PROVE  FALSE
      BY <1>0, <3>1 DEF Start, At, CallInv
    <3>2. ASSUME NEW p \in parked, Resume(g, p) PROVE FALSE
      BY <1>0, <3>2 DEF Resume, Start, At, CallInv
    <3> QED
      BY <1>2, <2>1, <3>1, <3>2 DEF Arrival, Sweep, Deliver, ScanEntry
  <2>2. CASE h # g
    BY <1>0, <1>2, <2>2, OneCallMoves
  <2> QED
    BY <2>1, <2>2
<1>3. ASSUME NEW s \in Sessions, Dies(s) PROVE handler'[g] = handler[g] \/ IsTerminal(JobOf(g))'
  <2>1. handler'[g] = handler[g] \/ handler'[g] = NoCall
    BY <1>3 DEF Dies
  <2>2. handler'[g] # NoCall
    BY DEF At, NoCall
  <2> QED
    BY <2>1, <2>2
<1>4. CASE \/ \E s \in Sessions : Boot(s) \/ Drain(s)
           \/ \E t \in tracked : Renew(t)
           \/ \E j \in Jobs : LeaseRuns(j) \/ Enqueue(j) \/ Api(j)
           \/ UNCHANGED allVars
  <2>1. UNCHANGED handler
    <3>1. ASSUME NEW s \in Sessions, Boot(s) \/ Drain(s) PROVE UNCHANGED handler
      BY <3>1 DEF Boot, Drain, localVars
    <3>2. ASSUME NEW t \in tracked, Renew(t) PROVE UNCHANGED handler
      BY <3>2 DEF Renew, procVars, localVars
    <3>3. ASSUME NEW j \in Jobs, LeaseRuns(j) \/ Enqueue(j) \/ Api(j) PROVE UNCHANGED handler
      BY <3>3 DEF LeaseRuns, Enqueue, Api, procVars, localVars
    <3> QED
      BY <1>4, <3>1, <3>2, <3>3 DEF allVars, procVars, localVars
  <2> QED
    BY <2>1
<1> QED
  BY <1>1, <1>2, <1>3, <1>4 DEF ProcNext

LEMMA KeptStep ==
  ProcInv /\ KeptInv /\ (\A h \in Handlers : ~RequeuedInGap(h)) /\ [ProcNext]_allVars => KeptInv'
<1> SUFFICES ASSUME ProcInv, KeptInv, \A h \in Handlers : ~RequeuedInGap(h), [ProcNext]_allVars,
                    NEW g \in Handlers, At(g, "ack")', handler'[g] = handler[g]
             PROVE  IsTerminal(JobOf(g))'
  BY EntriesKept, AckReached DEF KeptInv
<1>0. TypeOK /\ CallInv /\ [Next]_vars
  BY StepIsControl DEF ProcInv
<1>1. At(g, "ack") /\ JobOf(g)' = JobOf(g)
  BY DEF At, JobOf
<1>2. IsTerminal(JobOf(g)) /\ JobOf(g) \in Jobs
  BY <1>0, <1>1, BusyCall DEF KeptInv, At
<1>3. IsTerminal(JobOf(g))' = (status'[JobOf(g)] \in Terminal)
  BY <1>1 DEF IsTerminal
<1>4. status'[JobOf(g)] \in Terminal
  BY <1>0, <1>2, TerminalStays DEF IsTerminal
<1> QED
  BY <1>3, <1>4

LEMMA KeptInit == ProcInit => KeptInv
<1> SUFFICES ASSUME ProcInit PROVE KeptInv
  OBVIOUS
<1>1. \A j \in Jobs : ~Enqueued(j)
  BY DEF ProcInit, Enqueued, NoEntry
<1>2. \A h \in Handlers : ~At(h, "ack")
  BY DEF ProcInit, At, NoCall
<1> QED
  BY <1>1, <1>2 DEF KeptInv

LEMMA KeptIsKept == KeptInv => MessageIsKept
BY DEF KeptInv, MessageIsKept, Open, IsTerminal, Terminal, InFlight, Unacked

\* The gap between acquireComfyJob and takeoverComfyJob is the only one through which the
\* message of an unfinished job is lost: as long as no other call puts the job back to QUEUED
\* between the two, every ACK follows a finished row or a replacement, however many calls,
\* processes, recoveries, sweeps, parkings, retries and deaths there are.
THEOREM MessagesLostInGapOnly ==
  ProcSpec /\ [](\A h \in Handlers : ~RequeuedInGap(h)) => []MessageIsKept
BY KeptInit, KeptStep, KeptIsKept, ProcInvHolds, PTL DEF ProcSpec

\* Step by step, and with the gap: a call comes to its ACK when its job is finished or out of
\* the gap, and the last message of a job goes by such an ACK.
THEOREM AcksFollowOrGap == ProcSpec => LostInGapOnly
<1> DEFINE InGap ==
      /\ \A h \in Handlers :
            ~At(h, "ack") /\ At(h, "ack")' => IsTerminal(JobOf(h))' \/ RequeuedInGap(h)
      /\ \A j \in Jobs :
            Unacked(j) /\ ~Unacked(j)' => \E h \in Handlers : At(h, "ack") /\ JobOf(h) = j
<1>1. ProcInv /\ [ProcNext]_allVars => [InGap]_allVars
  <2> SUFFICES ASSUME ProcInv, [ProcNext]_allVars PROVE InGap
    OBVIOUS
  <2>1. ASSUME NEW h \in Handlers, ~At(h, "ack"), At(h, "ack")', ~RequeuedInGap(h)
        PROVE  IsTerminal(JobOf(h))'
    <3>1. handler'[h] # handler[h]
      BY <2>1 DEF At
    <3> QED
      BY <2>1, <3>1, AckReached
  <2>2. ASSUME NEW j \in Jobs, Unacked(j), ~Unacked(j)'
        PROVE  \E h \in Handlers : At(h, "ack") /\ JobOf(h) = j
    BY <2>2, MessagesGoByAck DEF Keeps, Ack
  <2> QED
    BY <2>1, <2>2
<1> QED
  BY <1>1, ProcInvHolds, PTL DEF ProcSpec, LostInGapOnly

=============================================================================
