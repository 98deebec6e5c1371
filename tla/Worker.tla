------------------------------- MODULE Worker -------------------------------
(***************************************************************************)
(* One worker: its construction, exec(), and the drain that runs jobs,     *)
(* waits for binding answers and fires timers until nothing is left        *)
(* (worker.rs), with the glue that dispatches an event and echoes its      *)
(* outcome (bootstrap.js).                                                 *)
(*                                                                         *)
(* The guest script is a source of choices: while JavaScript runs          *)
(* (pc \in Running) it sets and clears timers, calls bindings, queues jobs *)
(* and settles the event promises it still holds, in any order, and then   *)
(* returns or throws.  It uses the platform's API, not the __ow_* names.   *)
(***************************************************************************)
EXTENDS Timers, Bindings

CONSTANTS MaxJobs,        \* MAX_JOBS_PER_DRAIN
          MaxQueue,       \* bound: how many jobs the guest keeps queued
          MaxDispatches,  \* bound: how many events reach a dispatch
          Cancellable     \* whether the embedder drops futures of exec()

ASSUME WorkerAssumption ==
    /\ MaxJobs \in Nat \ {0}
    /\ MaxQueue \in Nat
    /\ MaxDispatches \in Nat
    /\ Cancellable \in BOOLEAN

VARIABLES pc,        \* where the host is, or which JavaScript it runs
          jobs,      \* WorkerHostHooks::jobs
          spins,     \* iterations drain_jobs() has left
          responding, \* the reaction of settle() that runs, {} when none does
          dispatch,  \* Worker::dispatches, which HostSlots::dispatch equals
          open,      \* event promises not settled yet, held by the guest
          outcome,   \* HostSlots::outcome
          event,     \* the event exec() is about, {} outside of exec()
          aborted,   \* Worker::aborted
          reply,     \* history: how the last exec() or build() ended, {} while one runs
          lost       \* history: the dispatch, if its reaction threw

controlVars == <<pc, jobs, spins, responding>>
eventVars == <<dispatch, open, outcome, event, aborted, reply, lost>>
vars == <<clockVars, timerVars, bindingVars, controlVars, eventVars>>

\* JavaScript runs: the guest's script, the dispatcher, a job, a callback.
Running == {"script", "dispatch", "job", "timer"}

Kinds == {"fetch", "task"}

\* What the promise of an event amounts to, as settle() and the host's JSON
\* parser see it: a value, a rejection, JSON the host cannot read (nested too
\* deep for serde_json), or what no JSON is made of: a value JSON.stringify
\* refuses (a cycle, a BigInt), a reason String() refuses (no prototype, a
\* toString that throws).  The value of a fetch is a status and strings, so it
\* is always well-formed; the value of a task is the guest's.
Payloads(kind) == IF kind = "fetch" THEN {"value", "error", "lost"}
                  ELSE {"value", "error", "garbled", "lost"}

\* Two jobs of the guest's: one that can run, and one that waits for another
\* thread to notify Atomics.waitAsync.
GuestJobs == {[job |-> "guest"], [job |-> "wait"]}

\* The reaction settle() attaches to the promise of a dispatch.
Respond(of, is) == [job |-> "respond", of |-> of, is |-> is]

Reaction == [job : {"respond"}, of : Nat, is : {"value", "error", "garbled", "lost"}]

Job == GuestJobs \cup Reaction

\* What crosses to the embedder; `of` is the dispatch whose promise it is.
Payload == [of : Nat, is : {"value", "error", "garbled", "failure"}]

Returns == {"Ok", "Exception", "Other", "WallClockTimeout", "MaxIterationsReached",
            "Aborted", "Cancelled"}

ControlTypeOK ==
    /\ pc \in Running \cup {"jobs", "pick", "await", "sleep", "idle", "dead"}
    /\ jobs \in Seq(Job)
    /\ spins \in 0..MaxJobs
    /\ responding \subseteq Reaction
    /\ dispatch \in Nat
    /\ open \subseteq [of : Nat, kind : Kinds]
    /\ outcome \subseteq Payload
    /\ event \subseteq Kinds
    /\ aborted \in BOOLEAN
    /\ reply \subseteq [of : Nat, ret : Returns, sent : SUBSET Payload]
    /\ lost \subseteq {dispatch}

WorkerTypeOK == TimersTypeOK /\ BindingsTypeOK /\ ControlTypeOK

\* build(): the platform scripts are evaluated, the guest's is about to be.
WorkerInit ==
    /\ TimersInit
    /\ BindingsInit
    /\ pc = "script"
    /\ jobs = <<>>
    /\ spins = 0
    /\ responding = {}
    /\ dispatch = 0
    /\ open = {}
    /\ outcome = {}
    /\ event = {}
    /\ aborted = FALSE
    /\ reply = {}
    /\ lost = {}

----------------------------------------------------------------------------
(* The guest, while JavaScript runs.                                       *)

UseTimers ==
    /\ pc \in Running
    /\ GuestTimerStep
    /\ UNCHANGED <<clockVars, bindingVars, controlVars, eventVars>>

UseBindings ==
    /\ pc \in Running
    /\ GuestBindingStep
    /\ UNCHANGED <<clockVars, timerVars, controlVars, eventVars>>

\* enqueue_promise_job, enqueue_generic_job, enqueue_timeout_job.
Enqueue(job) == jobs' = Append(jobs, job)

QueueJob ==
    /\ pc \in Running
    /\ Len(jobs) < MaxQueue
    /\ \E job \in GuestJobs : Enqueue(job)
    /\ UNCHANGED <<clockVars, timerVars, bindingVars, pc, spins, responding, eventVars>>

\* The promise of an event, perhaps of an earlier one, settles: the reaction
\* that echoes the dispatch id is queued.
SettleEvent ==
    /\ pc \in Running
    /\ \E e \in open : \E is \in Payloads(e.kind) :
         /\ Enqueue(Respond(e.of, is))
         /\ open' = open \ {e}
    /\ UNCHANGED <<clockVars, timerVars, bindingVars, pc, spins, responding,
                   dispatch, outcome, event, aborted, reply, lost>>

----------------------------------------------------------------------------
(* How exec() and build() end.                                             *)

\* exec() returns; the history also keeps what went through the event's
\* channel, and the dispatch it went for.
Finish(of, ret, sent) ==
    /\ pc' = "idle"
    /\ event' = {}
    /\ reply' = {[of |-> of, ret |-> ret, sent |-> sent]}

\* An Err: a fetch drops its channel, a task sends a failed TaskResult.
ErrorSent == {[of |-> dispatch, is |-> "failure"] : kind \in event \cap {"task"}}

\* Mutant of Fail: a failed task drops its channel as a fetch does.
FailSilently(reason) ==
    IF event = {} THEN pc' = "dead" /\ UNCHANGED <<event, reply>>
                  ELSE Finish(dispatch, reason, {})

\* dispatch() failed.  Outside of exec() there is no worker to come back to.
Fail(reason) ==
    IF event = {} THEN pc' = "dead" /\ UNCHANGED <<event, reply>>
                  ELSE Finish(dispatch, reason, ErrorSent)

\* take_outcome() after a drain that ended well, and what exec() makes of it.
TakeOutcome ==
    /\ outcome' = {}
    /\ \/ outcome = {} /\ Fail("Exception")
       \/ \E p \in outcome :
            \/ p.is = "garbled" /\ Fail("Other")
            \/ p.is = "error" /\ Fail("Exception")
            \/ p.is = "value" /\ Finish(dispatch, "Ok", outcome)

----------------------------------------------------------------------------
(* The end of a stretch of JavaScript.                                     *)

BeginDrainJobs ==
    /\ pc' = "jobs"
    /\ spins' = MaxJobs

\* The script or the dispatcher returned: the drain starts.
Drain ==
    /\ pc \in {"script", "dispatch"}
    /\ converting = {}
    /\ StartDrain
    /\ BeginDrainJobs
    /\ UNCHANGED <<timerVars, bindingVars, jobs, responding, eventVars>>

\* The script throws, or the dispatcher does before the event has a promise
\* (a URL no Request takes, a getter of the module): no drain, and the jobs
\* queued so far stay.
EvalThrows ==
    /\ converting = {}
    /\ \/ pc = "script" /\ open' = open
       \/ /\ pc = "dispatch"
          /\ \E e \in open : e.of = dispatch /\ open' = open \ {e}
    /\ Fail("Exception")
    /\ UNCHANGED <<clockVars, timerVars, bindingVars, jobs, spins, responding,
                   dispatch, outcome, aborted, lost>>

\* valueOf() of a delay returned or threw: schedule() goes on, or throws too.
EndValueOf ==
    /\ pc \in Running
    /\ (\E delay \in Delays : EndConversion(delay)) \/ ConversionThrows
    /\ UNCHANGED <<clockVars, bindingVars, controlVars, eventVars>>

\* A job or a timer callback returned, or threw and was reported.
EndJob ==
    /\ pc = "job"
    /\ responding = {}
    /\ converting = {}
    /\ pc' = "jobs"
    /\ UNCHANGED <<clockVars, timerVars, bindingVars, jobs, spins, responding, eventVars>>

\* Mutant of EndTimer: the jobs a callback queued are cleared before the drain
\* of jobs starts over.
EndTimerAfresh ==
    /\ pc = "timer"
    /\ converting = {}
    /\ jobs' = <<>>
    /\ BeginDrainJobs
    /\ UNCHANGED <<clockVars, timerVars, bindingVars, responding, eventVars>>

EndTimer ==
    /\ pc = "timer"
    /\ converting = {}
    /\ BeginDrainJobs
    /\ UNCHANGED <<clockVars, timerVars, bindingVars, jobs, responding, eventVars>>

----------------------------------------------------------------------------
(* drain_jobs().                                                           *)

TakeJob ==
    /\ pc = "jobs"
    /\ spins > 0
    /\ jobs # <<>>
    /\ spins' = spins - 1

RunJob(kind) ==
    /\ TakeJob
    /\ Head(jobs).job = kind
    /\ jobs' = Tail(jobs)
    /\ pc' = "job"
    /\ UNCHANGED <<clockVars, timerVars, bindingVars, responding, eventVars>>

RunGuestJob == RunJob("guest")

\* The notification came in time: the job is finished and runs.
RunNotifiedJob == RunJob("wait")

\* Mutant of RotateUnfinishedJob: only jobs that run cost an iteration.
RotateForFree ==
    /\ pc = "jobs" /\ spins > 0 /\ jobs # <<>>
    /\ Head(jobs).job = "wait"
    /\ jobs' = Append(Tail(jobs), Head(jobs))
    /\ UNCHANGED <<clockVars, timerVars, bindingVars, pc, spins, responding, eventVars>>

\* Nobody notified it yet: back to the end of the queue, an iteration spent.
RotateUnfinishedJob ==
    /\ TakeJob
    /\ Head(jobs).job = "wait"
    /\ jobs' = Append(Tail(jobs), Head(jobs))
    /\ UNCHANGED <<clockVars, timerVars, bindingVars, pc, responding, eventVars>>

\* Mutant of NativeRespond: whoever responds is heard.
NativeRespondAnyone(of, is) == outcome' = {[of |-> of, is |-> is]}

\* __ow_native_respond: a response from a dispatch that ended belongs to nobody.
NativeRespond(of, is) ==
    outcome' = IF of = dispatch THEN {[of |-> of, is |-> is]} ELSE outcome

\* A reaction of settle() starts: the script's toJSON() and getters run inside
\* of JSON.stringify(), its toString() inside of String().
RunRespondJob ==
    /\ TakeJob
    /\ Head(jobs).job = "respond"
    /\ responding' = {Head(jobs)}
    /\ jobs' = Tail(jobs)
    /\ pc' = "job"
    /\ UNCHANGED <<clockVars, timerVars, bindingVars, eventVars>>

\* The payload is made: the reaction responds.
EndRespondJob ==
    /\ pc = "job"
    /\ converting = {}
    /\ \E r \in responding : r.is # "lost" /\ NativeRespond(r.of, r.is)
    /\ responding' = {}
    /\ pc' = "jobs"
    /\ UNCHANGED <<clockVars, timerVars, bindingVars, jobs, spins,
                   dispatch, open, event, aborted, reply, lost>>

\* It cannot be made: the reaction throws, and nobody hears of it.
RespondJobThrows ==
    /\ pc = "job"
    /\ converting = {}
    /\ \E r \in responding : r.is = "lost" /\ lost' = lost \cup ({r.of} \cap {dispatch})
    /\ responding' = {}
    /\ pc' = "jobs"
    /\ UNCHANGED <<clockVars, timerVars, bindingVars, jobs, spins,
                   dispatch, open, outcome, event, aborted, reply>>

\* An empty queue is fine, on the last iteration too.
JobsDone ==
    /\ pc = "jobs"
    /\ jobs = <<>>
    /\ pc' = "pick"
    /\ spins' = 0
    /\ UNCHANGED <<clockVars, timerVars, bindingVars, jobs, responding, eventVars>>

\* Mutant of JobsExhausted: the leftover jobs stay.
JobsExhaustedStay ==
    /\ pc = "jobs"
    /\ spins = 0
    /\ jobs # <<>>
    /\ Fail("MaxIterationsReached")
    /\ UNCHANGED <<clockVars, timerVars, bindingVars, jobs, spins, responding,
                   dispatch, open, outcome, aborted, lost>>

JobsExhausted ==
    /\ pc = "jobs"
    /\ spins = 0
    /\ jobs # <<>>
    /\ jobs' = <<>>
    /\ Fail("MaxIterationsReached")
    /\ UNCHANGED <<clockVars, timerVars, bindingVars, spins, responding,
                   dispatch, open, outcome, aborted, lost>>

----------------------------------------------------------------------------
(* The rest of the loop of drain(): a binding first, then a timer.         *)

AwaitBinding ==
    /\ pc = "pick"
    /\ PopBinding
    /\ pc' = "await"
    /\ UNCHANGED <<clockVars, timerVars, jobs, spins, responding, eventVars>>

\* Settling runs no code of the guest's: it queues the reaction (one stands for
\* as many as the guest attached), if the payload was JSON.
BindingAnswers ==
    /\ pc = "await"
    /\ SettleBinding
    /\ Enqueue([job |-> "guest"]) \/ jobs' = jobs
    /\ BeginDrainJobs
    /\ UNCHANGED <<clockVars, timerVars, responding, eventVars>>

\* Mutant of BindingTimesOut: it clears the calls as a timeout of timers
\* clears the timers.
BindingsTimeOut ==
    /\ pc = "await"
    /\ inflight # {} /\ Elapsed
    /\ inflight' = {} /\ bindings' = <<>>
    /\ UNCHANGED <<pending, nextCall>>
    /\ Fail("WallClockTimeout")
    /\ UNCHANGED <<clockVars, timerVars, jobs, spins, responding,
                   dispatch, open, outcome, aborted, lost>>

\* Timers and the other calls stay for whoever drains next.
BindingTimesOut ==
    /\ pc = "await"
    /\ TimeoutBinding
    /\ Fail("WallClockTimeout")
    /\ UNCHANGED <<clockVars, timerVars, jobs, spins, responding,
                   dispatch, open, outcome, aborted, lost>>

AwaitTimer ==
    /\ pc = "pick"
    /\ bindings = <<>>
    /\ PickTimer
    /\ pc' = "sleep"
    /\ UNCHANGED <<clockVars, bindingVars, jobs, spins, responding, eventVars>>

\* Mutant of TimerFires: the sleep is skipped.
TimerFiresEarly ==
    /\ pc = "sleep"
    /\ callbacks' = {c \in callbacks : c.handle \notin Handles(due) \/ c.repeating}
    /\ fired' = due
    /\ due' = {}
    /\ pc' = "timer"
    /\ UNCHANGED <<nextTimer, converting, timers, timerSeq, early, clockVars, bindingVars,
                   jobs, spins, responding, eventVars>>

TimerFires ==
    /\ pc = "sleep"
    /\ FireTimer
    /\ pc' = "timer"
    /\ UNCHANGED <<clockVars, bindingVars, jobs, spins, responding, eventVars>>

TimersTimeOut ==
    /\ pc = "pick"
    /\ bindings = <<>>
    /\ GiveUp
    /\ Fail("WallClockTimeout")
    /\ UNCHANGED <<clockVars, bindingVars, jobs, spins, responding,
                   dispatch, open, outcome, aborted, lost>>

\* Mutant of DrainEnds: a drain does not wait for timers.
DrainEndsEarly ==
    /\ pc = "pick"
    /\ bindings = <<>>
    /\ IF event = {} THEN Finish(0, "Ok", {}) /\ outcome' = outcome
                     ELSE TakeOutcome
    /\ UNCHANGED <<clockVars, timerVars, bindingVars, jobs, spins, responding,
                   dispatch, open, aborted, lost>>

DrainEnds ==
    /\ pc = "pick"
    /\ bindings = <<>>
    /\ timers = {}
    /\ IF event = {} THEN Finish(0, "Ok", {}) /\ outcome' = outcome
                     ELSE TakeOutcome
    /\ UNCHANGED <<clockVars, timerVars, bindingVars, jobs, spins, responding,
                   dispatch, open, aborted, lost>>

----------------------------------------------------------------------------
(* The embedder.                                                           *)

\* exec() of an event that gets as far as a dispatch.
Dispatch ==
    /\ pc = "idle"
    /\ ~aborted
    /\ dispatch < MaxDispatches
    /\ dispatch' = dispatch + 1
    /\ outcome' = {}
    /\ reply' = {}
    /\ lost' = {}
    /\ \E kind \in Kinds :
         /\ event' = {kind}
         /\ open' = open \cup {[of |-> dispatch + 1, kind |-> kind]}
    /\ pc' = "dispatch"
    /\ UNCHANGED <<clockVars, timerVars, bindingVars, jobs, spins, responding, aborted>>

\* exec() of an event that does not: after abort(), with its init taken
\* already, or a fetch whose body is a stream.
Refuse ==
    /\ pc = "idle"
    /\ Finish(0, IF aborted THEN "Aborted" ELSE "Other", {})
    /\ UNCHANGED <<clockVars, timerVars, bindingVars, jobs, spins, responding,
                   dispatch, open, outcome, aborted, lost>>

\* abort() takes &mut self, so no exec() is running.
Abort ==
    /\ pc = "idle"
    /\ aborted' = TRUE
    /\ UNCHANGED <<clockVars, timerVars, bindingVars, controlVars,
                   dispatch, open, outcome, event, reply, lost>>

\* The embedder drops the future of exec() where it is suspended; a build
\* that is dropped leaves no worker.
Cancel ==
    /\ Cancellable
    /\ \/ pc = "await" /\ AbandonBinding /\ UNCHANGED timerVars
       \/ pc = "sleep" /\ AbandonTimer /\ UNCHANGED bindingVars
    /\ IF event = {} THEN pc' = "dead" /\ UNCHANGED <<event, reply>>
                     ELSE Finish(dispatch, "Cancelled", {})
    /\ UNCHANGED <<clockVars, jobs, spins, responding, dispatch, open, outcome, aborted, lost>>

\* Drop: the queue first, then the heap its jobs are rooted in.
Drop ==
    /\ pc = "idle"
    /\ jobs' = <<>>
    /\ pc' = "dead"
    /\ UNCHANGED <<clockVars, timerVars, bindingVars, spins, responding, eventVars>>

\* The end, for a failed build too.
Dead == pc = "dead" /\ UNCHANGED vars

----------------------------------------------------------------------------

Awaited == AnswerDue \cup {t.at : t \in due}

TimePasses ==
    /\ pc \in Running \cup {"await", "sleep"}
    /\ Tick(Awaited)
    /\ UNCHANGED <<timerVars, bindingVars, controlVars, eventVars>>

\* What somebody else has to do first, and may never do.
OutsideStep == BindingAnswers \/ RunNotifiedJob

GuestStep == UseTimers \/ UseBindings \/ QueueJob \/ SettleEvent

\* The steps the host takes by itself, once JavaScript has returned.
HostStep ==
    \/ EndValueOf \/ Drain \/ EndJob \/ EndRespondJob \/ RespondJobThrows \/ EndTimer
    \/ RunGuestJob \/ RotateUnfinishedJob \/ RunRespondJob \/ JobsDone \/ JobsExhausted
    \/ AwaitBinding \/ BindingTimesOut
    \/ AwaitTimer \/ TimerFires \/ TimersTimeOut \/ DrainEnds

EmbedderStep == Dispatch \/ Refuse \/ Abort \/ Cancel \/ Drop

WorkerNext ==
    GuestStep \/ EvalThrows \/ HostStep \/ OutsideStep \/ EmbedderStep \/ TimePasses \/ Dead

WorkerSpec == WorkerInit /\ [][WorkerNext]_vars

\* The executor polls the future of exec(), a stretch of JavaScript ends (the
\* runtime cannot bound it), and time passes.  Neither answers of bindings nor
\* notifications of waiting jobs are assumed.
WorkerFairness == WF_vars(HostStep) /\ WF_vars(TimePasses)

FairWorkerSpec == WorkerSpec /\ WorkerFairness

----------------------------------------------------------------------------
(* Properties.                                                             *)

\* What exec() hands back is about the event it was given: no response of an
\* earlier event, settled late or left behind by a failed drain, lands on it,
\* and an Ok always carries a value.
OwnReply ==
    \A r \in reply :
        /\ \A p \in r.sent : p.of = r.of
        /\ r.ret = "Ok" /\ r.of # 0 => r.sent = {[of |-> r.of, is |-> "value"]}

\* An Ok also means that nothing the event started is left over: no job, no
\* timer and no call, for the next event to run or to wait for.
QuiescentOnOk ==
    \A r \in reply :
        r.ret = "Ok" => jobs = <<>> /\ timers = {} /\ bindings = <<>>

\* No job is left for the budget of the next event to pay for, however exec()
\* ended, unless the dispatcher threw before its drain started: the one error
\* after which the queue is not empty.
OnlyThrowsLeaveJobs ==
    \A r \in reply : r.of # 0 /\ jobs # <<>> => r.ret = "Exception"

\* A fetch is reported as "did not settle" only when it did not, or when its
\* rejection could not be made a message: from the moment the promise settles,
\* its response is queued, in the making or delivered.
SettledFetchIsAnswered ==
    event = {"fetch"} =>
        \/ \E e \in open : e.of = dispatch
        \/ \E i \in 1..Len(jobs) : jobs[i].job = "respond" /\ jobs[i].of = dispatch
        \/ \E r \in responding : r.of = dispatch
        \/ outcome # {}
        \/ dispatch \in lost

\* The worker uses its two components as they are specified: seen from the
\* timers, or from the calls, each of its steps is one of theirs or none.
\* While one component waits time passes for the other, and so it may for
\* either at any moment.
TimersPart == INSTANCE Timers WITH Idle <- Nat
BindingsPart == INSTANCE Bindings WITH Idle <- Nat

ImplementsTimers == TimersPart!TimersSpec
ImplementsBindings == BindingsPart!BindingsSpec

\* What the embedder sees of the worker.
ServiceState ==
    CASE pc = "idle" -> "ready"
      [] pc = "dead" -> "closed"
      [] OTHER -> IF event = {} THEN "building" ELSE "busy"

Service == INSTANCE WorkerService
             WITH state    <- ServiceState,
                  taken    <- dispatch,
                  kind     <- event,
                  answer   <- reply,
                  Failures <- {"Exception", "Other", "WallClockTimeout",
                               "MaxIterationsReached"}

\* The worker keeps the promises of WorkerService: one event at a time, one
\* end per event that is about that event, a failed task told to its caller,
\* nothing taken after abort().
ImplementsService == Service!ServiceSpec

\* With a wall clock, and as long as each stretch of JavaScript ends, exec()
\* ends: whatever the timers, the calls nobody answers, and the jobs that
\* wait for a notification or queue each other.
ExecEnds == event # {} ~> event = {}

\* timer_test.rs:16 says that an interval nobody clears "would run for as long
\* as the worker lives, so the wall clock is what ends it": an exec() that
\* ends on the wall clock leaves no interval armed.
TimeoutEndsIntervals ==
    \A r \in reply : r.ret = "WallClockTimeout" => \A t \in timers : t.period = {}

=============================================================================
