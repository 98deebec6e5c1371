---------------------------- MODULE WorkerProofs ----------------------------
(* Theorems of Worker.  Those that rest on its two components: types, what the *)
(* timers and the calls keep when the drain interleaves them, and that it     *)
(* implements both.  Those about the events: whose reply an exec() hands back, *)
(* what is left when it says Ok, and that it implements WorkerService.         *)
EXTENDS Worker, WaitsProofs

\* The steps that touch neither the timers nor the clock, and those that touch
\* neither the calls nor the clock.
LeavesTimers == UNCHANGED <<clockVars, timerVars>>
LeavesBindings == UNCHANGED <<clockVars, bindingVars>>

LEMMA ClockMoves ==
    ASSUME ClockTypeOK, Drain \/ TimePasses
    PROVE  now' \in Nat /\ deadline' \subseteq Nat /\ now <= now'
BY ClockStepForward DEF Drain, TimePasses

LEMMA StepTimers ==
    ASSUME WorkerNext
    PROVE  \/ LeavesTimers
           \/ GuestTimerStep /\ UNCHANGED clockVars
           \/ (HostTimerStep \/ AbandonTimer) /\ UNCHANGED clockVars
           \/ (Drain \/ TimePasses) /\ UNCHANGED timerVars
<1>1. CASE GuestStep
  BY <1>1 DEF GuestStep, UseTimers, UseBindings, QueueJob, SettleEvent, LeavesTimers
<1>2. CASE EvalThrows \/ OutsideStep
  BY <1>2 DEF EvalThrows, OutsideStep, BindingAnswers, RunNotifiedJob, RunJob, LeavesTimers
<1>3. CASE HostStep
  <2>1. CASE AwaitTimer \/ TimerFires \/ TimersTimeOut
    BY <2>1 DEF AwaitTimer, TimerFires, TimersTimeOut, HostTimerStep
  <2>2. CASE Drain
    BY <2>2 DEF Drain
  <2>5. CASE EndValueOf
    BY <2>5 DEF EndValueOf, GuestTimerStep
  <2>3. CASE \/ EndJob \/ EndRespondJob \/ RespondJobThrows \/ EndTimer \/ RunGuestJob \/ RotateUnfinishedJob \/ RunRespondJob
             \/ JobsDone \/ JobsExhausted \/ AwaitBinding \/ BindingTimesOut \/ DrainEnds
    BY <2>3 DEF EndJob, EndRespondJob, RespondJobThrows, EndTimer, RunGuestJob, RunJob,
       RotateUnfinishedJob, RunRespondJob, JobsDone,
       JobsExhausted, AwaitBinding, BindingTimesOut, DrainEnds, LeavesTimers
  <2>4. QED BY <1>3, <2>1, <2>2, <2>3, <2>5 DEF HostStep
<1>4. CASE EmbedderStep
  <2>1. CASE Cancel
    BY <2>1 DEF Cancel, LeavesTimers
  <2>2. CASE Dispatch \/ Refuse \/ Abort \/ Drop
    BY <2>2 DEF Dispatch, Refuse, Abort, Drop, LeavesTimers
  <2>3. QED BY <1>4, <2>1, <2>2 DEF EmbedderStep
<1>5. CASE TimePasses
  BY <1>5 DEF TimePasses
<1>6. CASE Dead
  BY <1>6 DEF Dead, vars, LeavesTimers
<1>7. QED BY <1>1, <1>2, <1>3, <1>4, <1>5, <1>6 DEF WorkerNext

LEMMA StepBindings ==
    ASSUME WorkerNext
    PROVE  \/ LeavesBindings
           \/ GuestBindingStep /\ UNCHANGED clockVars
           \/ (HostBindingStep \/ AbandonBinding) /\ UNCHANGED clockVars
           \/ (Drain \/ TimePasses) /\ UNCHANGED bindingVars
<1>1. CASE GuestStep
  BY <1>1 DEF GuestStep, UseTimers, UseBindings, QueueJob, SettleEvent, LeavesBindings
<1>2. CASE EvalThrows \/ OutsideStep
  BY <1>2 DEF EvalThrows, OutsideStep, BindingAnswers, RunNotifiedJob, RunJob, HostBindingStep, LeavesBindings
<1>3. CASE HostStep
  <2>1. CASE AwaitBinding \/ BindingTimesOut
    BY <2>1 DEF AwaitBinding, BindingTimesOut, HostBindingStep
  <2>2. CASE Drain
    BY <2>2 DEF Drain
  <2>3. CASE \/ EndJob \/ EndRespondJob \/ RespondJobThrows \/ EndTimer \/ EndValueOf
             \/ RunGuestJob \/ RotateUnfinishedJob \/ RunRespondJob
             \/ JobsDone \/ JobsExhausted \/ AwaitTimer \/ TimerFires \/ TimersTimeOut
             \/ DrainEnds
    BY <2>3 DEF EndJob, EndRespondJob, RespondJobThrows, EndTimer, EndValueOf, RunGuestJob, RunJob,
       RotateUnfinishedJob, RunRespondJob, JobsDone,
       JobsExhausted, AwaitTimer, TimerFires, TimersTimeOut, DrainEnds, LeavesBindings
  <2>4. QED BY <1>3, <2>1, <2>2, <2>3 DEF HostStep
<1>4. CASE EmbedderStep
  <2>1. CASE Cancel
    BY <2>1 DEF Cancel, LeavesBindings
  <2>2. CASE Dispatch \/ Refuse \/ Abort \/ Drop
    BY <2>2 DEF Dispatch, Refuse, Abort, Drop, LeavesBindings
  <2>3. QED BY <1>4, <2>1, <2>2 DEF EmbedderStep
<1>5. CASE TimePasses
  BY <1>5 DEF TimePasses
<1>6. CASE Dead
  BY <1>6 DEF Dead, vars, LeavesBindings
<1>7. QED BY <1>1, <1>2, <1>3, <1>4, <1>5, <1>6 DEF WorkerNext

LEMMA TimersKept == TimersInv /\ [WorkerNext]_vars => TimersInv'
<1> SUFFICES ASSUME TimersInv, [WorkerNext]_vars PROVE TimersInv'
  OBVIOUS
<1>1. CASE LeavesTimers \/ UNCHANGED vars
  BY <1>1, StutterInv DEF LeavesTimers, allVars, vars
<1>2. CASE GuestTimerStep /\ UNCHANGED clockVars
  BY <1>2, SetTimerInv, BeginConversionInv, EndConversionInv, ConversionThrowsInv, ClearTimerInv
     DEF GuestTimerStep
<1>3. CASE (HostTimerStep \/ AbandonTimer) /\ UNCHANGED clockVars
  BY <1>3, PickTimerInv, GiveUpInv, FireTimerInv, AbandonTimerInv DEF HostTimerStep
<1>4. CASE (Drain \/ TimePasses) /\ UNCHANGED timerVars
  <2>1. ClockTypeOK
    BY DEF TimersInv, TimersTypeOK
  <2>2. QED BY <1>4, <2>1, ClockMoves, ClockForwardInv
<1>5. QED BY <1>1, <1>2, <1>3, <1>4, StepTimers

LEMMA BindingsKept == BindingsInv /\ [WorkerNext]_vars => BindingsInv'
<1> SUFFICES ASSUME BindingsInv, [WorkerNext]_vars PROVE BindingsInv'
  OBVIOUS
<1>1. ClockTypeOK
  BY DEF BindingsInv, BindingsTypeOK
<1>2. CASE LeavesBindings \/ UNCHANGED vars
  <2>1. UNCHANGED bindingVars /\ now' = now /\ deadline' = deadline
    BY <1>2 DEF LeavesBindings, vars, clockVars
  <2>2. QED BY <1>1, <2>1, CallsClockInv DEF ClockTypeOK
<1>3. CASE GuestBindingStep /\ UNCHANGED clockVars
  BY <1>3, CallInv, CallThrowsInv DEF GuestBindingStep
<1>4. CASE (HostBindingStep \/ AbandonBinding) /\ UNCHANGED clockVars
  BY <1>4, PopBindingInv, SettleBindingInv, DropBindingInv DEF HostBindingStep
<1>5. CASE (Drain \/ TimePasses) /\ UNCHANGED bindingVars
  BY <1>1, <1>5, ClockMoves, CallsClockInv
<1>6. QED BY <1>2, <1>3, <1>4, <1>5, StepBindings

\* Every timer property of Timers.tla holds of the worker: callbacks fire in
\* order, and an armed timer has its callback unless that was cleared before
\* the timer was armed, whatever the jobs, the calls and the embedder do in
\* between.
THEOREM WorkerTimers == WorkerSpec => [](TimersTypeOK /\ FiresInOrder /\ HostBacked)
<1>1. WorkerInit => TimersInv
  BY TimersInitInv DEF WorkerInit
<1>2. TimersInv => TimersTypeOK /\ FiresInOrder /\ HostBacked
  BY DEF TimersInv
<1>3. QED BY <1>1, <1>2, TimersKept, PTL DEF WorkerSpec

\* Every call the drain may still answer has its resolvers, in the worker too.
THEOREM WorkerCalls == WorkerSpec => [](BindingsTypeOK /\ CallsBacked)
<1>1. WorkerInit => BindingsInv
  BY BindingsInitInv DEF WorkerInit
<1>2. BindingsInv => BindingsTypeOK /\ CallsBacked
  BY DEF BindingsInv
<1>3. QED BY <1>1, <1>2, BindingsKept, PTL DEF WorkerSpec

----------------------------------------------------------------------------
(* The components as the worker uses them.                                 *)

\* The drain waits for a timer only where it sleeps, and for an answer only
\* where it awaits one; a delay is converted only while JavaScript runs.
WaitInv ==
    /\ due # {} => pc = "sleep"
    /\ inflight # {} => pc = "await"
    /\ converting # {} => pc \in Running

LEMMA GuestWaits == WaitInv /\ (GuestStep \/ EndValueOf) => WaitInv'
<1> SUFFICES ASSUME WaitInv, GuestStep \/ EndValueOf
             PROVE  due' = due /\ inflight' = inflight /\ pc' = pc /\ pc \in Running
  BY DEF WaitInv
<1>1. CASE UseTimers \/ EndValueOf
  BY <1>1 DEF UseTimers, EndValueOf, GuestTimerStep, SetTimer, BeginConversion, EndConversion,
     ConversionThrows, ClearTimer, MintHandle, bindingVars, controlVars
<1>2. CASE UseBindings
  BY <1>2 DEF UseBindings, GuestBindingStep, Call, CallThrows, MintCall, timerVars, controlVars
<1>3. CASE QueueJob \/ SettleEvent
  BY <1>3 DEF QueueJob, SettleEvent, timerVars, bindingVars
<1>4. QED BY <1>1, <1>2, <1>3 DEF GuestStep

LEMMA HostWaits == WaitInv /\ (HostStep \/ OutsideStep \/ EvalThrows) => WaitInv'
<1> SUFFICES ASSUME WaitInv, HostStep \/ OutsideStep \/ EvalThrows PROVE WaitInv'
  OBVIOUS
<1>1. CASE \/ Drain \/ EndJob \/ EndRespondJob \/ RespondJobThrows \/ EndTimer
           \/ JobsDone \/ JobsExhausted \/ EvalThrows
           \/ RunGuestJob \/ RunNotifiedJob \/ RotateUnfinishedJob \/ RunRespondJob \/ DrainEnds
  <2>1. /\ due' = due /\ inflight' = inflight /\ pc \notin {"sleep", "await"}
        /\ converting' = converting /\ (converting = {} \/ pc \notin Running)
    BY <1>1 DEF Drain, EndJob, EndRespondJob, RespondJobThrows, EndTimer, JobsDone, JobsExhausted,
       EvalThrows, RunGuestJob, RunNotifiedJob, RunJob, TakeJob, RotateUnfinishedJob, RunRespondJob,
       DrainEnds, timerVars, bindingVars, Running
  <2>2. QED BY <2>1 DEF WaitInv
<1>2. CASE AwaitBinding
  BY <1>2 DEF AwaitBinding, PopBinding, timerVars, WaitInv, Running
<1>3. CASE AwaitTimer
  BY <1>3 DEF AwaitTimer, PickTimer, bindingVars, WaitInv
<1>4. CASE TimerFires
  BY <1>4 DEF TimerFires, FireTimer, bindingVars, WaitInv, Running
<1>5. CASE TimersTimeOut
  BY <1>5 DEF TimersTimeOut, GiveUp, bindingVars, WaitInv
<1>6. CASE BindingTimesOut
  BY <1>6 DEF BindingTimesOut, TimeoutBinding, timerVars, WaitInv, Running
<1>7. CASE BindingAnswers
  BY <1>7 DEF BindingAnswers, SettleBinding, timerVars, WaitInv, Running
<1>8. CASE EndValueOf
  BY <1>8, GuestWaits
<1>9. QED BY <1>1, <1>2, <1>3, <1>4, <1>5, <1>6, <1>7, <1>8 DEF HostStep, OutsideStep

LEMMA WaitsKept == WaitInv /\ [WorkerNext]_vars => WaitInv'
<1> SUFFICES ASSUME WaitInv, [WorkerNext]_vars PROVE WaitInv'
  OBVIOUS
<1>1. CASE Dispatch \/ Refuse \/ Abort \/ Drop
  <2>1. due' = due /\ inflight' = inflight /\ converting' = converting /\ pc = "idle"
    BY <1>1 DEF Dispatch, Refuse, Abort, Drop, timerVars, bindingVars
  <2>2. QED BY <2>1 DEF WaitInv, Running
<1>2. CASE Cancel
  BY <1>2 DEF Cancel, AbandonBinding, AbandonTimer, timerVars, bindingVars, WaitInv, Running
<1>3. CASE TimePasses \/ Dead \/ UNCHANGED vars
  BY <1>3 DEF TimePasses, Dead, vars, timerVars, bindingVars, controlVars, WaitInv
<1>4. QED BY <1>1, <1>2, <1>3, GuestWaits, HostWaits DEF WorkerNext, EmbedderStep

\* A component that the worker uses has the same steps as one by itself, but
\* that time passes for it at any moment.
LEMMA TimerSteps ==
    /\ GuestTimerStep <=> TimersPart!GuestTimerStep
    /\ HostTimerStep <=> TimersPart!HostTimerStep
    /\ AbandonTimer <=> TimersPart!AbandonTimer
    /\ StartDrain <=> TimersPart!StartDrain
<1>1. GuestTimerStep <=> TimersPart!GuestTimerStep
  BY DEF GuestTimerStep, SetTimer, BeginConversion, EndConversion, ConversionThrows, Innermost, Entry,
     ClearTimer, MintHandle, NativeTimerStart, NativeTimerClear, Handles,
     TimersPart!GuestTimerStep, TimersPart!SetTimer, TimersPart!BeginConversion,
     TimersPart!EndConversion, TimersPart!ConversionThrows, TimersPart!Innermost, TimersPart!Entry,
     TimersPart!ClearTimer, TimersPart!MintHandle, TimersPart!NativeTimerStart,
     TimersPart!NativeTimerClear, TimersPart!Handles
<1>2. HostTimerStep <=> TimersPart!HostTimerStep
  BY DEF HostTimerStep, PickTimer, GiveUp, FireTimer, Earliest, Beyond, Before, Rescheduled,
     TimersPart!HostTimerStep, TimersPart!PickTimer, TimersPart!GiveUp, TimersPart!FireTimer,
     TimersPart!Earliest, TimersPart!Beyond, TimersPart!Before, TimersPart!Rescheduled
<1>3. QED
  BY <1>1, <1>2 DEF AbandonTimer, StartDrain, TimersPart!AbandonTimer, TimersPart!StartDrain

LEMMA BindingSteps ==
    /\ GuestBindingStep <=> BindingsPart!GuestBindingStep
    /\ HostBindingStep <=> BindingsPart!HostBindingStep
    /\ AbandonBinding <=> BindingsPart!AbandonBinding
    /\ StartDrain <=> BindingsPart!StartDrain
<1>1. GuestBindingStep <=> BindingsPart!GuestBindingStep
  BY DEF GuestBindingStep, Call, CallThrows, MintCall, BindingsPart!GuestBindingStep, BindingsPart!Call,
     BindingsPart!CallThrows, BindingsPart!MintCall
<1>2. PopBinding <=> BindingsPart!PopBinding
  BY DEF PopBinding, BindingsPart!PopBinding, Last, Front, BindingsPart!Last, BindingsPart!Front
<1>3. HostBindingStep <=> BindingsPart!HostBindingStep
  BY <1>2 DEF HostBindingStep, SettleBinding, TimeoutBinding, Elapsed, BindingsPart!HostBindingStep,
     BindingsPart!SettleBinding, BindingsPart!TimeoutBinding, BindingsPart!Elapsed
<1>4. QED
  BY <1>1, <1>3 DEF AbandonBinding, StartDrain, BindingsPart!AbandonBinding, BindingsPart!StartDrain

LEMMA TimersPartStep ==
    ASSUME TimersInv, WaitInv, [WorkerNext]_vars
    PROVE  TimersPart!TimersNext \/ LeavesTimers
<1>1. CASE UNCHANGED vars
  BY <1>1 DEF vars, LeavesTimers
<1>2. CASE \/ GuestTimerStep /\ UNCHANGED clockVars
           \/ (HostTimerStep \/ AbandonTimer) /\ UNCHANGED clockVars
  BY <1>2, TimerSteps DEF TimersPart!TimersNext, clockVars, timerVars,
    TimersPart!clockVars, TimersPart!timerVars
<1>3. CASE Drain /\ UNCHANGED timerVars
  <2>1. StartDrain /\ due = {} /\ converting = {}
    BY <1>3 DEF Drain, WaitInv
  <2>2. QED BY <1>3, <2>1, TimerSteps DEF TimersPart!TimersNext, clockVars, timerVars,
    TimersPart!clockVars, TimersPart!timerVars
<1>4. CASE TimePasses /\ UNCHANGED timerVars
  <2>1. now \in Nat /\ now' = now + 1 /\ UNCHANGED deadline
    BY <1>4 DEF TimePasses, Tick, TimersInv, TimersTypeOK, ClockTypeOK
  <2>2. TimersPart!Tick({t.at : t \in due})
    BY <2>1 DEF TimersPart!Tick
  <2>3. QED BY <1>4, <2>2, TimerSteps DEF TimersPart!TimersNext, clockVars, timerVars,
    TimersPart!clockVars, TimersPart!timerVars
<1>5. QED BY <1>1, <1>2, <1>3, <1>4, StepTimers

LEMMA BindingsPartStep ==
    ASSUME BindingsInv, WaitInv, [WorkerNext]_vars
    PROVE  BindingsPart!BindingsNext \/ LeavesBindings
<1>1. CASE UNCHANGED vars
  BY <1>1 DEF vars, LeavesBindings
<1>2. CASE \/ GuestBindingStep /\ UNCHANGED clockVars
           \/ (HostBindingStep \/ AbandonBinding) /\ UNCHANGED clockVars
  BY <1>2, BindingSteps DEF BindingsPart!BindingsNext, clockVars, bindingVars,
    BindingsPart!clockVars, BindingsPart!bindingVars
<1>3. CASE Drain /\ UNCHANGED bindingVars
  <2>1. StartDrain /\ inflight = {}
    BY <1>3 DEF Drain, WaitInv
  <2>2. QED BY <1>3, <2>1, BindingSteps DEF BindingsPart!BindingsNext, clockVars, bindingVars,
    BindingsPart!clockVars, BindingsPart!bindingVars
<1>4. CASE TimePasses /\ UNCHANGED bindingVars
  <2>1. now \in Nat /\ now' = now + 1 /\ UNCHANGED deadline
    BY <1>4 DEF TimePasses, Tick, BindingsInv, BindingsTypeOK, ClockTypeOK
  <2>2. BindingsPart!Tick(BindingsPart!AnswerDue)
    BY <2>1 DEF BindingsPart!Tick
  <2>3. QED BY <1>4, <2>2, BindingSteps DEF BindingsPart!BindingsNext, clockVars, bindingVars,
    BindingsPart!clockVars, BindingsPart!bindingVars
<1>5. QED BY <1>1, <1>2, <1>3, <1>4, StepBindings

\* Seen from the timers the worker does what they are specified to do, and
\* nothing else: whatever the jobs, the calls, the events and the embedder do
\* in between, a step of the worker is one of Timers or leaves them alone.
THEOREM WorkerImplementsTimers == WorkerSpec => ImplementsTimers
<1>1. WorkerInit => TimersInv /\ WaitInv /\ TimersPart!TimersInit
  <2>1. TimersInit <=> TimersPart!TimersInit
    BY DEF TimersInit, ClockInit, TimersPart!TimersInit, TimersPart!ClockInit
  <2>2. QED BY <2>1, TimersInitInv DEF WorkerInit, TimersInit, BindingsInit, WaitInv
<1>2. TimersInv /\ WaitInv /\ [WorkerNext]_vars =>
        [TimersPart!TimersNext]_<<TimersPart!clockVars, TimersPart!timerVars>>
  BY TimersPartStep DEF LeavesTimers, clockVars, timerVars, TimersPart!clockVars, TimersPart!timerVars
<1>3. QED BY <1>1, <1>2, TimersKept, WaitsKept, PTL DEF WorkerSpec, ImplementsTimers, TimersPart!TimersSpec

\* Seen from the calls, it does what Bindings specifies.
THEOREM WorkerImplementsBindings == WorkerSpec => ImplementsBindings
<1>1. WorkerInit => BindingsInv /\ WaitInv /\ BindingsPart!BindingsInit
  <2>1. BindingsInit <=> BindingsPart!BindingsInit
    BY DEF BindingsInit, ClockInit, BindingsPart!BindingsInit, BindingsPart!ClockInit
  <2>2. QED BY <2>1, BindingsInitInv DEF WorkerInit, TimersInit, BindingsInit, WaitInv
<1>2. BindingsInv /\ WaitInv /\ [WorkerNext]_vars =>
        [BindingsPart!BindingsNext]_<<BindingsPart!clockVars, BindingsPart!bindingVars>>
  BY BindingsPartStep DEF LeavesBindings, clockVars, bindingVars, BindingsPart!clockVars, BindingsPart!bindingVars
<1>3. QED BY <1>1, <1>2, BindingsKept, WaitsKept, PTL
          DEF WorkerSpec, ImplementsBindings, BindingsPart!BindingsSpec

----------------------------------------------------------------------------
(* The events.                                                             *)

LEMMA SeqSteps ==
    ASSUME NEW s \in Seq(Job)
    PROVE  /\ \A j \in Job : Append(s, j) \in Seq(Job)
           /\ s # <<>> => Head(s) \in Job /\ Tail(s) \in Seq(Job)
OBVIOUS

\* How an exec() that fails leaves the variables of an event.
LEMMA FailTypes ==
    ASSUME ControlTypeOK, NEW reason \in Returns, Fail(reason)
    PROVE  /\ pc' \in {"idle", "dead"}
           /\ event' \subseteq Kinds
           /\ reply' \subseteq [of : Nat, ret : Returns, sent : SUBSET Payload]
<1>1. ErrorSent \subseteq Payload
  BY DEF ErrorSent, ControlTypeOK, Payload
<1>2. CASE event = {}
  BY <1>2 DEF Fail, ControlTypeOK
<1>3. CASE event # {}
  BY <1>1, <1>3 DEF Fail, Finish, ControlTypeOK
<1>4. QED BY <1>2, <1>3

LEMMA GuestTypes == ControlTypeOK /\ GuestStep => ControlTypeOK'
<1> SUFFICES ASSUME ControlTypeOK, GuestStep PROVE ControlTypeOK'
  OBVIOUS
<1>1. CASE UseTimers \/ UseBindings
  BY <1>1 DEF UseTimers, UseBindings, controlVars, eventVars, ControlTypeOK
<1>2. CASE QueueJob
  <2>1. PICK job \in GuestJobs : jobs' = Append(jobs, job)
    BY <1>2 DEF QueueJob, Enqueue
  <2>2. job \in Job
    BY DEF Job
  <2>3. jobs' \in Seq(Job)
    BY <2>1, <2>2, SeqSteps DEF ControlTypeOK
  <2>4. QED BY <1>2, <2>3 DEF QueueJob, eventVars, ControlTypeOK
<1>3. CASE SettleEvent
  <2>0. PICK e \in open : \E is \in Payloads(e.kind) :
          jobs' = Append(jobs, Respond(e.of, is)) /\ open' = open \ {e}
    BY <1>3 DEF SettleEvent, Enqueue
  <2>1. PICK is \in Payloads(e.kind) :
          jobs' = Append(jobs, Respond(e.of, is)) /\ open' = open \ {e}
    BY <2>0
  <2>2. Respond(e.of, is) \in Job
    BY DEF Respond, Job, Reaction, Payloads, ControlTypeOK
  <2>3. jobs' \in Seq(Job) /\ open' \subseteq [of : Nat, kind : Kinds]
    BY <2>1, <2>2, SeqSteps DEF ControlTypeOK
  <2>4. QED BY <1>3, <2>3 DEF SettleEvent, ControlTypeOK
<1>4. QED BY <1>1, <1>2, <1>3 DEF GuestStep

LEMMA JobTypes ==
    ControlTypeOK /\ (RunGuestJob \/ RunNotifiedJob \/ RotateUnfinishedJob \/ RunRespondJob)
        => ControlTypeOK'
<1> SUFFICES ASSUME ControlTypeOK, RunGuestJob \/ RunNotifiedJob \/ RotateUnfinishedJob \/ RunRespondJob
             PROVE  ControlTypeOK'
  OBVIOUS
<1>1. jobs # <<>> /\ spins' \in 0..MaxJobs
  BY WorkerAssumption
     DEF RunGuestJob, RunNotifiedJob, RunJob, RotateUnfinishedJob, RunRespondJob, TakeJob,
         ControlTypeOK
<1>2. Head(jobs) \in Job /\ Tail(jobs) \in Seq(Job)
  BY <1>1, SeqSteps DEF ControlTypeOK
<1>3. Append(Tail(jobs), Head(jobs)) \in Seq(Job)
  BY <1>2
<1>4. CASE RunGuestJob \/ RunNotifiedJob
  BY <1>1, <1>2, <1>4 DEF RunGuestJob, RunNotifiedJob, RunJob, eventVars, Running, ControlTypeOK
<1>5. CASE RotateUnfinishedJob
  BY <1>1, <1>3, <1>5 DEF RotateUnfinishedJob, eventVars, ControlTypeOK
<1>6. CASE RunRespondJob
  <2>1. Head(jobs) \in Reaction
    BY <1>2, <1>6 DEF RunRespondJob, Job, GuestJobs
  <2>2. QED BY <1>1, <1>2, <1>6, <2>1 DEF RunRespondJob, eventVars, Running, ControlTypeOK
<1>7. QED BY <1>4, <1>5, <1>6

\* How a reaction ends.
LEMMA RespondTypes == ControlTypeOK /\ (EndRespondJob \/ RespondJobThrows) => ControlTypeOK'
<1> SUFFICES ASSUME ControlTypeOK, EndRespondJob \/ RespondJobThrows PROVE ControlTypeOK'
  OBVIOUS
<1>1. CASE EndRespondJob
  <2>1. PICK r \in responding : r.is # "lost" /\ NativeRespond(r.of, r.is)
    BY <1>1 DEF EndRespondJob
  <2>2. r.of \in Nat /\ r.is \in {"value", "error", "garbled", "lost"}
    BY DEF ControlTypeOK, Reaction
  <2>3. outcome' \subseteq Payload
    BY <2>1, <2>2 DEF NativeRespond, Payload, ControlTypeOK
  <2>4. QED BY <1>1, <2>3 DEF EndRespondJob, ControlTypeOK
<1>2. CASE RespondJobThrows
  BY <1>2 DEF RespondJobThrows, ControlTypeOK
<1>3. QED BY <1>1, <1>2

LEMMA HostTypes == ControlTypeOK /\ (HostStep \/ OutsideStep \/ EvalThrows) => ControlTypeOK'
<1> SUFFICES ASSUME ControlTypeOK, HostStep \/ OutsideStep \/ EvalThrows
             PROVE  ControlTypeOK'
  OBVIOUS
<1>1. MaxJobs \in 0..MaxJobs /\ 0 \in 0..MaxJobs
  BY WorkerAssumption
<1>2. CASE Drain \/ EndTimer
  BY <1>1, <1>2 DEF Drain, EndTimer, BeginDrainJobs, eventVars, ControlTypeOK
<1>3. CASE EndJob \/ AwaitBinding \/ AwaitTimer \/ TimerFires \/ EndValueOf
  BY <1>3 DEF EndJob, AwaitBinding, AwaitTimer, TimerFires, EndValueOf, Running, controlVars,
     eventVars, ControlTypeOK
<1>11. CASE EndRespondJob \/ RespondJobThrows
  BY <1>11, RespondTypes
<1>4. CASE JobsDone
  BY <1>1, <1>4 DEF JobsDone, eventVars, ControlTypeOK
<1>5. CASE RunGuestJob \/ RunNotifiedJob \/ RotateUnfinishedJob \/ RunRespondJob
  BY <1>5, JobTypes
<1>6. CASE BindingAnswers
  <2>1. [job |-> "guest"] \in Job
    BY DEF Job, GuestJobs
  <2>2. jobs' \in Seq(Job)
    BY <1>6, <2>1, SeqSteps DEF BindingAnswers, Enqueue, ControlTypeOK
  <2>3. QED BY <1>1, <1>6, <2>2 DEF BindingAnswers, BeginDrainJobs, eventVars, ControlTypeOK
<1>7. CASE JobsExhausted \/ BindingTimesOut \/ TimersTimeOut
  <2>1. PICK reason \in Returns : Fail(reason)
    BY <1>7 DEF JobsExhausted, BindingTimesOut, TimersTimeOut, Returns
  <2>2. jobs' = jobs \/ jobs' = <<>>
    BY <1>7 DEF JobsExhausted, BindingTimesOut, TimersTimeOut
  <2>3. jobs' \in Seq(Job)
    <3>1. <<>> \in Seq(Job) /\ jobs \in Seq(Job)
      BY DEF ControlTypeOK
    <3>2. QED BY <2>2, <3>1, Zenon
  <2>4. QED BY <1>7, <2>1, <2>3, FailTypes
            DEF JobsExhausted, BindingTimesOut, TimersTimeOut, ControlTypeOK
<1>8. CASE EvalThrows
  <2>1. Fail("Exception") /\ "Exception" \in Returns /\ open' \subseteq open
    BY <1>8 DEF EvalThrows, Returns
  <2>2. QED BY <1>8, <2>1, FailTypes DEF EvalThrows, ControlTypeOK
<1>9. CASE DrainEnds
  <2>1. CASE event = {}
    BY <1>9, <2>1 DEF DrainEnds, Finish, Returns, ControlTypeOK
  <2>2. CASE event # {} /\ \E reason \in Returns : Fail(reason)
    <3>1. outcome' = {}
      BY <1>9, <2>2 DEF DrainEnds, TakeOutcome
    <3>2. QED BY <1>9, <2>2, <3>1, FailTypes DEF DrainEnds, ControlTypeOK
  <2>3. CASE event # {} /\ Finish(dispatch, "Ok", outcome)
    BY <1>9, <2>3 DEF DrainEnds, TakeOutcome, Finish, Returns, ControlTypeOK
  <2>4. QED BY <1>9, <2>1, <2>2, <2>3 DEF DrainEnds, TakeOutcome, Returns
<1>10. QED BY <1>2, <1>3, <1>4, <1>5, <1>6, <1>7, <1>8, <1>9, <1>11 DEF HostStep, OutsideStep

LEMMA EmbedderTypes == ControlTypeOK /\ EmbedderStep => ControlTypeOK'
<1> SUFFICES ASSUME ControlTypeOK, EmbedderStep PROVE ControlTypeOK'
  OBVIOUS
<1>1. CASE Dispatch
  <2>1. dispatch' \in Nat
    BY <1>1 DEF Dispatch, ControlTypeOK
  <2>2. PICK kind \in Kinds :
          /\ event' = {kind}
          /\ open' = open \cup {[of |-> dispatch + 1, kind |-> kind]}
    BY <1>1 DEF Dispatch
  <2>3. QED BY <1>1, <2>1, <2>2 DEF Dispatch, Running, ControlTypeOK
<1>2. CASE Refuse
  BY <1>2 DEF Refuse, Finish, Returns, ControlTypeOK
<1>3. CASE Abort
  BY <1>3 DEF Abort, controlVars, ControlTypeOK
<1>4. CASE Cancel
  BY <1>4 DEF Cancel, Finish, Returns, ControlTypeOK
<1>5. CASE Drop
  BY <1>5 DEF Drop, eventVars, ControlTypeOK
<1>6. QED BY <1>1, <1>2, <1>3, <1>4, <1>5 DEF EmbedderStep

LEMMA ControlTypes == ControlTypeOK /\ [WorkerNext]_vars => ControlTypeOK'
<1> SUFFICES ASSUME ControlTypeOK, [WorkerNext]_vars PROVE ControlTypeOK'
  OBVIOUS
<1>1. CASE TimePasses \/ Dead \/ UNCHANGED vars
  BY <1>1 DEF TimePasses, Dead, vars, controlVars, eventVars, ControlTypeOK
<1>2. QED BY <1>1, GuestTypes, HostTypes, EmbedderTypes DEF WorkerNext

\* Every variable of the worker has its type, in every reachable state.
THEOREM WorkerTypeCorrect == WorkerSpec => []WorkerTypeOK
<1>1. WorkerInit => TimersInv /\ BindingsInv /\ ControlTypeOK
  <2>1. ASSUME WorkerInit PROVE ControlTypeOK
    <3>1. 0 \in 0..MaxJobs /\ <<>> \in Seq(Job)
      BY WorkerAssumption
    <3>2. QED BY <2>1, <3>1 DEF WorkerInit, ControlTypeOK, Running
  <2>2. QED BY <2>1, TimersInitInv, BindingsInitInv DEF WorkerInit
<1>2. TimersInv /\ BindingsInv /\ ControlTypeOK => WorkerTypeOK
  BY DEF TimersInv, BindingsInv, WorkerTypeOK
<1>3. QED BY <1>1, <1>2, TimersKept, BindingsKept, ControlTypes, PTL DEF WorkerSpec

----------------------------------------------------------------------------
(* Whose reply, and what is left.                                          *)

\* What makes OwnReply and QuiescentOnOk inductive: the outcome kept for the
\* host is of the dispatch under way and there is one, a reply stands only
\* outside of exec(), and the drain looks for timers with an empty queue.
ReplyInv ==
    /\ \A p \in outcome : p.of = dispatch /\ p.is # "failure"
    /\ \A p, q \in outcome : p = q
    /\ reply # {} => pc \in {"idle", "dead"}
    /\ pc = "idle" => event = {}
    /\ pc \in {"pick", "await", "sleep"} => jobs = <<>>
    /\ OwnReply
    /\ QuiescentOnOk
    /\ OnlyThrowsLeaveJobs

\* A step inside of exec() that neither ends it nor answers.
LEMMA QuietReply ==
    ASSUME ReplyInv, reply = {}, UNCHANGED <<dispatch, outcome, event, reply>>,
           pc' # "idle", pc' \in {"pick", "await", "sleep"} => jobs' = <<>>
    PROVE  ReplyInv'
BY DEF ReplyInv, OwnReply, QuiescentOnOk, OnlyThrowsLeaveJobs

LEMMA FailReply ==
    ASSUME ControlTypeOK, reply = {}, NEW reason, reason # "Ok", Fail(reason),
           jobs' = <<>> \/ reason = "Exception"
    PROVE  /\ pc' \in {"idle", "dead"}
           /\ pc' = "idle" => event' = {}
           /\ OwnReply'
           /\ QuiescentOnOk'
           /\ OnlyThrowsLeaveJobs'
<1>1. CASE event = {}
  BY <1>1 DEF Fail, OwnReply, QuiescentOnOk, OnlyThrowsLeaveJobs
<1>2. CASE event # {}
  <2>1. \A p \in ErrorSent : p.of = dispatch
    BY DEF ErrorSent
  <2>2. reply' = {[of |-> dispatch, ret |-> reason, sent |-> ErrorSent]}
    BY <1>2 DEF Fail, Finish
  <2>3. QED BY <1>2, <2>1, <2>2
            DEF Fail, Finish, OwnReply, QuiescentOnOk, OnlyThrowsLeaveJobs
<1>3. QED BY <1>1, <1>2

LEMMA GuestReply == ReplyInv /\ GuestStep => ReplyInv'
<1> SUFFICES ASSUME ReplyInv, GuestStep PROVE ReplyInv'
  OBVIOUS
<1>1. pc \in Running /\ UNCHANGED <<pc, dispatch, outcome, event, reply>>
  BY DEF GuestStep, UseTimers, UseBindings, QueueJob, SettleEvent, controlVars, eventVars
<1>2. QED BY <1>1, QuietReply DEF ReplyInv, Running

LEMMA JobReply ==
    ControlTypeOK /\ ReplyInv /\
    (RunGuestJob \/ RunNotifiedJob \/ RotateUnfinishedJob \/ RunRespondJob) => ReplyInv'
<1> SUFFICES ASSUME ControlTypeOK, ReplyInv,
                    RunGuestJob \/ RunNotifiedJob \/ RotateUnfinishedJob \/ RunRespondJob
             PROVE  ReplyInv'
  OBVIOUS
<1>1. reply = {}
  BY DEF RunGuestJob, RunNotifiedJob, RunJob, RotateUnfinishedJob, RunRespondJob, TakeJob, ReplyInv
<1>2. CASE RunGuestJob \/ RunNotifiedJob
  BY <1>1, <1>2, QuietReply DEF RunGuestJob, RunNotifiedJob, RunJob, eventVars
<1>3. CASE RotateUnfinishedJob
  BY <1>1, <1>3, QuietReply DEF RotateUnfinishedJob, TakeJob, eventVars
<1>4. CASE RunRespondJob
  BY <1>1, <1>4, QuietReply DEF RunRespondJob, eventVars
<1>5. QED BY <1>2, <1>3, <1>4

LEMMA RespondReply ==
    ControlTypeOK /\ ReplyInv /\ (EndRespondJob \/ RespondJobThrows) => ReplyInv'
<1> SUFFICES ASSUME ControlTypeOK, ReplyInv, EndRespondJob \/ RespondJobThrows PROVE ReplyInv'
  OBVIOUS
<1>1. /\ reply = {} /\ pc' = "jobs"
      /\ UNCHANGED <<dispatch, event, reply>>
  BY DEF EndRespondJob, RespondJobThrows, ReplyInv
<1>2. CASE outcome' = outcome
  BY <1>1, <1>2, QuietReply
<1>3. CASE \E r \in responding : r.of = dispatch /\ outcome' = {[of |-> r.of, is |-> r.is]}
  <2>1. \A r \in responding : r.is # "failure"
    BY DEF ControlTypeOK, Reaction
  <2>2. QED BY <1>1, <1>3, <2>1 DEF ReplyInv, OwnReply, QuiescentOnOk, OnlyThrowsLeaveJobs
<1>4. QED BY <1>2, <1>3 DEF EndRespondJob, RespondJobThrows, NativeRespond

\* exec() said Ok: the outcome was a value, and it went out as it was.
LEMMA ValueReply ==
    ASSUME ControlTypeOK, ReplyInv, NEW p \in outcome, p.is = "value"
    PROVE  outcome = {[of |-> dispatch, is |-> "value"]}
<1>1. p \in Payload /\ p.of = dispatch
  BY DEF ControlTypeOK, ReplyInv
<1>2. p = [of |-> dispatch, is |-> "value"]
  BY <1>1 DEF Payload
<1>3. QED BY <1>2 DEF ReplyInv

LEMMA DrainEndsReply == ControlTypeOK /\ ReplyInv /\ DrainEnds => ReplyInv'
<1> SUFFICES ASSUME ControlTypeOK, ReplyInv, DrainEnds PROVE ReplyInv'
  OBVIOUS
<1>1. /\ reply = {} /\ jobs' = <<>> /\ timers' = {} /\ bindings' = <<>>
      /\ dispatch' = dispatch
  BY DEF DrainEnds, timerVars, bindingVars, ReplyInv
<1>2. CASE event = {}
  <2>1. reply' = {[of |-> 0, ret |-> "Ok", sent |-> {}]}
    BY <1>2 DEF DrainEnds, Finish
  <2>2. QED BY <1>1, <1>2, <2>1
            DEF DrainEnds, Finish, ReplyInv, OwnReply, QuiescentOnOk, OnlyThrowsLeaveJobs
<1>3. CASE event # {} /\ \E reason \in Returns \ {"Ok"} : Fail(reason)
  <2>1. outcome' = {}
    BY <1>3 DEF DrainEnds, TakeOutcome
  <2>2. QED BY <1>1, <1>3, <2>1, FailReply DEF ReplyInv
<1>4. CASE \E p \in outcome : p.is = "value" /\ Finish(dispatch, "Ok", outcome)
  <2>1. outcome = {[of |-> dispatch, is |-> "value"]}
    BY <1>4, ValueReply
  <2>2. reply' = {[of |-> dispatch, ret |-> "Ok", sent |-> outcome]}
    BY <1>4 DEF Finish
  <2>3. OwnReply' /\ QuiescentOnOk' /\ OnlyThrowsLeaveJobs'
    BY <1>1, <2>1, <2>2 DEF OwnReply, QuiescentOnOk, OnlyThrowsLeaveJobs
  <2>4. pc' = "idle" /\ event' = {}
    BY <1>4 DEF Finish
  <2>5. outcome' = {} \/ outcome' = outcome
    BY DEF DrainEnds, TakeOutcome
  <2>6. QED BY <1>1, <2>3, <2>4, <2>5 DEF ReplyInv
<1>5. QED BY <1>2, <1>3, <1>4 DEF DrainEnds, TakeOutcome, Returns

LEMMA HostReply == ControlTypeOK /\ ReplyInv /\ (HostStep \/ OutsideStep \/ EvalThrows) => ReplyInv'
<1> SUFFICES ASSUME ControlTypeOK, ReplyInv, HostStep \/ OutsideStep \/ EvalThrows
             PROVE  ReplyInv'
  OBVIOUS
<1>1. CASE Drain \/ EndTimer \/ EndJob \/ EndValueOf \/ AwaitBinding \/ AwaitTimer \/ TimerFires
           \/ BindingAnswers \/ JobsDone
  <2>1. reply = {}
    BY <1>1 DEF Drain, EndTimer, EndJob, EndValueOf, AwaitBinding, AwaitTimer, TimerFires,
       BindingAnswers, JobsDone, Running, ReplyInv
  <2>2. UNCHANGED <<dispatch, outcome, event, reply>>
    BY <1>1 DEF Drain, EndTimer, EndJob, EndValueOf, AwaitBinding, AwaitTimer, TimerFires,
       BindingAnswers, JobsDone, eventVars
  <2>3. pc' # "idle" /\ (pc' \in {"pick", "await", "sleep"} => jobs' = <<>>)
    BY <1>1 DEF Drain, EndTimer, EndJob, EndValueOf, AwaitBinding, AwaitTimer, TimerFires,
       BindingAnswers, JobsDone, BeginDrainJobs, Running, controlVars, ReplyInv
  <2>4. QED BY <2>1, <2>2, <2>3, QuietReply
<1>2. CASE RunGuestJob \/ RunNotifiedJob \/ RotateUnfinishedJob \/ RunRespondJob
  BY <1>2, JobReply
<1>3. CASE JobsExhausted \/ BindingTimesOut \/ TimersTimeOut \/ EvalThrows
  <2>1. reply = {} /\ UNCHANGED <<dispatch, outcome>>
    BY <1>3 DEF JobsExhausted, BindingTimesOut, TimersTimeOut, EvalThrows, ReplyInv
  <2>2. \E reason \in Returns \ {"Ok"} :
            Fail(reason) /\ (jobs' = <<>> \/ reason = "Exception")
    BY <1>3 DEF JobsExhausted, BindingTimesOut, TimersTimeOut, EvalThrows, Returns, ReplyInv
  <2>3. QED BY <2>1, <2>2, FailReply DEF ReplyInv
<1>4. CASE DrainEnds
  BY <1>4, DrainEndsReply
<1>5. CASE EndRespondJob \/ RespondJobThrows
  BY <1>5, RespondReply
<1>6. QED BY <1>1, <1>2, <1>3, <1>4, <1>5 DEF HostStep, OutsideStep

LEMMA EmbedderReply == ControlTypeOK /\ ReplyInv /\ EmbedderStep => ReplyInv'
<1> SUFFICES ASSUME ControlTypeOK, ReplyInv, EmbedderStep PROVE ReplyInv'
  OBVIOUS
<1>1. CASE Dispatch
  <2>1. outcome' = {} /\ reply' = {} /\ pc' = "dispatch"
    BY <1>1 DEF Dispatch
  <2>2. QED BY <2>1 DEF ReplyInv, OwnReply, QuiescentOnOk, OnlyThrowsLeaveJobs
<1>2. CASE Refuse
  <2>1. reply' = {[of |-> 0, ret |-> IF aborted THEN "Aborted" ELSE "Other", sent |-> {}]}
    BY <1>2 DEF Refuse, Finish
  <2>2. QED BY <1>2, <2>1
            DEF Refuse, Finish, ReplyInv, OwnReply, QuiescentOnOk, OnlyThrowsLeaveJobs
<1>3. CASE Abort
  BY <1>3 DEF Abort, timerVars, bindingVars, controlVars, ReplyInv, OwnReply, QuiescentOnOk,
     OnlyThrowsLeaveJobs
<1>4. CASE Cancel
  <2>1. reply = {} /\ UNCHANGED <<dispatch, outcome>>
    BY <1>4 DEF Cancel, ReplyInv
  <2>2. CASE event = {}
    BY <1>4, <2>1, <2>2 DEF Cancel, ReplyInv, OwnReply, QuiescentOnOk, OnlyThrowsLeaveJobs
  <2>3. CASE event # {}
    <3>1. reply' = {[of |-> dispatch, ret |-> "Cancelled", sent |-> {}]}
      BY <1>4, <2>3 DEF Cancel, Finish
    <3>2. QED BY <1>4, <2>1, <2>3, <3>1
              DEF Cancel, Finish, ReplyInv, OwnReply, QuiescentOnOk, OnlyThrowsLeaveJobs
  <2>4. QED BY <2>2, <2>3
<1>5. CASE Drop
  BY <1>5 DEF Drop, timerVars, bindingVars, eventVars, ReplyInv, OwnReply, QuiescentOnOk,
     OnlyThrowsLeaveJobs
<1>6. QED BY <1>1, <1>2, <1>3, <1>4, <1>5 DEF EmbedderStep

LEMMA ReplyKept == ControlTypeOK /\ ReplyInv /\ [WorkerNext]_vars => ReplyInv'
<1> SUFFICES ASSUME ControlTypeOK, ReplyInv, [WorkerNext]_vars PROVE ReplyInv'
  OBVIOUS
<1>1. CASE TimePasses \/ Dead \/ UNCHANGED vars
  BY <1>1 DEF TimePasses, Dead, vars, timerVars, bindingVars, controlVars, eventVars,
     ReplyInv, OwnReply, QuiescentOnOk, OnlyThrowsLeaveJobs
<1>2. QED BY <1>1, GuestReply, HostReply, EmbedderReply DEF WorkerNext

LEMMA ReplyStarts == WorkerInit => ControlTypeOK /\ ReplyInv
<1> SUFFICES ASSUME WorkerInit PROVE ControlTypeOK /\ ReplyInv
  OBVIOUS
<1>1. 0 \in 0..MaxJobs /\ <<>> \in Seq(Job)
  BY WorkerAssumption
<1>2. QED BY <1>1 DEF WorkerInit, ControlTypeOK, Running, ReplyInv, OwnReply, QuiescentOnOk,
          OnlyThrowsLeaveJobs

\* Whatever the guest leaves pending, and however earlier events ended, the
\* outcome exec() hands back is of the event it was given.
THEOREM WorkerOwnReply == WorkerSpec => []OwnReply
<1>1. ReplyInv => OwnReply
  BY DEF ReplyInv
<1>2. QED BY <1>1, ReplyStarts, ReplyKept, ControlTypes, PTL DEF WorkerSpec

\* An exec() that says Ok leaves no job, no timer and no call behind.
THEOREM WorkerQuiescentOnOk == WorkerSpec => []QuiescentOnOk
<1>1. ReplyInv => QuiescentOnOk
  BY DEF ReplyInv
<1>2. QED BY <1>1, ReplyStarts, ReplyKept, ControlTypes, PTL DEF WorkerSpec

\* Whatever ends exec() empties the job queue, save a dispatcher that throws.
THEOREM WorkerLeavesNoJobs == WorkerSpec => []OnlyThrowsLeaveJobs
<1>1. ReplyInv => OnlyThrowsLeaveJobs
  BY DEF ReplyInv
<1>2. QED BY <1>1, ReplyStarts, ReplyKept, ControlTypes, PTL DEF WorkerSpec

----------------------------------------------------------------------------
(* A fetch that settled is answered.                                       *)

\* What makes SettledFetchIsAnswered inductive: one reaction runs at a time, as
\* a job.
FetchInv ==
    /\ responding # {} => pc = "job"
    /\ \A r, q \in responding : r = q
    /\ SettledFetchIsAnswered

\* A step outside of a fetch, or that ends one.
LEMMA NoFetch ==
    ASSUME FetchInv, event' # {"fetch"}, responding' = responding, responding = {} \/ pc' = pc
    PROVE  FetchInv'
BY DEF FetchInv, SettledFetchIsAnswered

LEMMA QuietFetch ==
    ASSUME FetchInv, UNCHANGED <<dispatch, open, jobs, outcome, event, responding, lost>>,
           responding = {} \/ pc' = pc
    PROVE  FetchInv'
BY DEF FetchInv, SettledFetchIsAnswered

LEMMA FailedFetch ==
    ASSUME NEW reason, Fail(reason)
    PROVE  event' # {"fetch"}
BY DEF Fail, Finish

\* A job is queued behind the others; a promise that is open no more has its
\* reaction queued.
LEMMA QueuedFetch ==
    ASSUME ControlTypeOK, FetchInv, NEW job \in Job, jobs' = Append(jobs, job),
           UNCHANGED <<dispatch, outcome, event, responding, lost>>,
           responding = {} \/ pc' = pc,
           \A e \in open \ open' : job.job = "respond" /\ job.of = e.of
    PROVE  FetchInv'
<1>1. jobs \in Seq(Job)
  BY DEF ControlTypeOK
<1>2. /\ Len(jobs') = Len(jobs) + 1 /\ jobs'[Len(jobs) + 1] = job
      /\ Len(jobs) \in Nat
      /\ \A i \in 1..Len(jobs) : jobs'[i] = jobs[i]
  BY <1>1
<1>3. /\ \A i \in 1..Len(jobs) : i \in 1..Len(jobs')
      /\ Len(jobs) + 1 \in 1..Len(jobs')
  BY <1>2
<1>4. SettledFetchIsAnswered'
  BY <1>2, <1>3 DEF FetchInv, SettledFetchIsAnswered
<1>5. QED BY <1>4 DEF FetchInv

LEMMA GuestFetch == ControlTypeOK /\ FetchInv /\ GuestStep => FetchInv'
<1> SUFFICES ASSUME ControlTypeOK, FetchInv, GuestStep PROVE FetchInv'
  OBVIOUS
<1>1. CASE UseTimers \/ UseBindings
  BY <1>1, QuietFetch DEF UseTimers, UseBindings, controlVars, eventVars
<1>2. CASE QueueJob
  BY <1>2, QueuedFetch DEF QueueJob, Enqueue, Job, eventVars
<1>3. CASE SettleEvent
  <2>1. PICK e \in open : \E is \in Payloads(e.kind) :
          jobs' = Append(jobs, Respond(e.of, is)) /\ open' = open \ {e}
    BY <1>3 DEF SettleEvent, Enqueue
  <2>2. PICK is \in Payloads(e.kind) :
          jobs' = Append(jobs, Respond(e.of, is)) /\ open' = open \ {e}
    BY <2>1
  <2>3. /\ Respond(e.of, is) \in Job
        /\ Respond(e.of, is).job = "respond" /\ Respond(e.of, is).of = e.of
    BY DEF Respond, Job, Reaction, Payloads, ControlTypeOK
  <2>4. QED BY <1>3, <2>2, <2>3, QueuedFetch DEF SettleEvent
<1>4. QED BY <1>1, <1>2, <1>3 DEF GuestStep

\* Jobs only leave the queue or change places in it: the response to the fetch
\* under way stays, or is in the making.
LEMMA CarriedFetch ==
    ASSUME FetchInv, UNCHANGED <<dispatch, open, event, outcome, lost>>, responding = {},
           responding' # {} => pc' = "job",
           \A r, q \in responding' : r = q,
           \A j \in 1..Len(jobs) :
              jobs[j].job = "respond" =>
                  jobs[j] \in responding' \/ \E i \in 1..Len(jobs') : jobs'[i] = jobs[j]
    PROVE  FetchInv'
BY DEF FetchInv, SettledFetchIsAnswered

\* What was in s is its head or in Tail(s), and still there when its head has
\* moved to the end.
LEMMA TailElements ==
    ASSUME NEW s \in Seq(Job), s # <<>>, NEW j \in 1..Len(s), s[j] # Head(s)
    PROVE  \E i \in 1..Len(Tail(s)) : Tail(s)[i] = s[j]
<1>1. /\ Len(s) \in Nat \ {0} /\ Head(s) = s[1]
      /\ Len(Tail(s)) = Len(s) - 1
      /\ \A i \in 1..Len(s) - 1 : Tail(s)[i] = s[i + 1]
  OBVIOUS
<1>2. j # 1
  BY <1>1
<1>3. j - 1 \in 1..Len(Tail(s)) /\ (j - 1) + 1 = j
  BY <1>1, <1>2
<1>4. Tail(s)[j - 1] = s[j]
  BY <1>1, <1>3
<1>5. QED BY <1>3, <1>4

LEMMA RotationElements ==
    ASSUME NEW s \in Seq(Job), s # <<>>, NEW r \in Seq(Job), r = Append(Tail(s), Head(s)),
           NEW j \in 1..Len(s)
    PROVE  \E i \in 1..Len(r) : r[i] = s[j]
<1>1. Tail(s) \in Seq(Job) /\ Head(s) \in Job
  OBVIOUS
<1>2. /\ Len(Tail(s)) \in Nat /\ Len(r) = Len(Tail(s)) + 1
      /\ r[Len(r)] = Head(s)
      /\ \A i \in 1..Len(Tail(s)) : r[i] = Tail(s)[i]
  BY <1>1
<1>3. /\ \A i \in 1..Len(Tail(s)) : i \in 1..Len(r)
      /\ Len(r) \in 1..Len(r)
  BY <1>2
<1>4. CASE s[j] = Head(s)
  BY <1>2, <1>3, <1>4
<1>5. CASE \E i \in 1..Len(Tail(s)) : Tail(s)[i] = s[j]
  BY <1>2, <1>3, <1>5
<1>6. QED BY <1>4, <1>5, TailElements

LEMMA JobFetch ==
    ControlTypeOK /\ FetchInv /\
    (RunGuestJob \/ RunNotifiedJob \/ RotateUnfinishedJob \/ RunRespondJob) => FetchInv'
<1> SUFFICES ASSUME ControlTypeOK, FetchInv,
                    RunGuestJob \/ RunNotifiedJob \/ RotateUnfinishedJob \/ RunRespondJob
             PROVE  FetchInv'
  OBVIOUS
<1>1. /\ jobs \in Seq(Job) /\ jobs # <<>> /\ responding = {}
      /\ UNCHANGED <<dispatch, open, event, outcome, lost>>
  BY DEF RunGuestJob, RunNotifiedJob, RunJob, RotateUnfinishedJob, RunRespondJob, TakeJob,
     ControlTypeOK, FetchInv, eventVars
<1>2. CASE RunGuestJob \/ RunNotifiedJob
  <2>1. jobs' = Tail(jobs) /\ Head(jobs).job # "respond" /\ responding' = {}
    BY <1>1, <1>2 DEF RunGuestJob, RunNotifiedJob, RunJob
  <2>2. QED BY <1>1, <2>1, TailElements, CarriedFetch
<1>3. CASE RotateUnfinishedJob
  <2>1. jobs' = Append(Tail(jobs), Head(jobs)) /\ responding' = {}
    BY <1>1, <1>3 DEF RotateUnfinishedJob
  <2>2. jobs' \in Seq(Job)
    BY <1>1, <2>1
  <2>3. \A j \in 1..Len(jobs) : \E i \in 1..Len(jobs') : jobs'[i] = jobs[j]
    BY <1>1, <2>1, <2>2, RotationElements
  <2>4. QED BY <1>1, <2>1, <2>3, CarriedFetch
<1>4. CASE RunRespondJob
  <2>1. jobs' = Tail(jobs) /\ responding' = {Head(jobs)} /\ pc' = "job"
    BY <1>4 DEF RunRespondJob
  <2>2. QED BY <1>1, <2>1, TailElements, CarriedFetch
<1>5. QED BY <1>2, <1>3, <1>4

\* The reaction responds or throws: either is on record.
LEMMA RespondFetch == FetchInv /\ (EndRespondJob \/ RespondJobThrows) => FetchInv'
<1> SUFFICES ASSUME FetchInv, EndRespondJob \/ RespondJobThrows PROVE FetchInv'
  OBVIOUS
<1>1. CASE EndRespondJob
  <2>1. PICK r \in responding : outcome' = IF r.of = dispatch THEN {[of |-> r.of, is |-> r.is]}
                                                             ELSE outcome
    BY <1>1 DEF EndRespondJob, NativeRespond
  <2>2. QED BY <1>1, <2>1 DEF EndRespondJob, FetchInv, SettledFetchIsAnswered
<1>2. CASE RespondJobThrows
  <2>1. PICK r \in responding : lost' = lost \cup ({r.of} \cap {dispatch})
    BY <1>2 DEF RespondJobThrows
  <2>2. QED BY <1>2, <2>1 DEF RespondJobThrows, FetchInv, SettledFetchIsAnswered
<1>3. QED BY <1>1, <1>2

LEMMA HostFetch == ControlTypeOK /\ FetchInv /\ (HostStep \/ OutsideStep \/ EvalThrows) => FetchInv'
<1> SUFFICES ASSUME ControlTypeOK, FetchInv, HostStep \/ OutsideStep \/ EvalThrows
             PROVE  FetchInv'
  OBVIOUS
<1>1. CASE \/ Drain \/ EndTimer \/ EndJob \/ EndValueOf \/ AwaitBinding \/ AwaitTimer
           \/ TimerFires \/ JobsDone
  <2>1. responding = {} \/ pc' = pc
    BY <1>1 DEF Drain, EndTimer, EndJob, EndValueOf, AwaitBinding, AwaitTimer, TimerFires, JobsDone,
       FetchInv, controlVars
  <2>2. UNCHANGED <<dispatch, open, jobs, outcome, event, responding, lost>>
    BY <1>1 DEF Drain, EndTimer, EndJob, EndValueOf, AwaitBinding, AwaitTimer, TimerFires, JobsDone,
       controlVars, eventVars
  <2>3. QED BY <2>1, <2>2, QuietFetch
<1>2. CASE RunGuestJob \/ RunNotifiedJob \/ RotateUnfinishedJob \/ RunRespondJob
  BY <1>2, JobFetch
<1>3. CASE BindingAnswers
  <2>1. [job |-> "guest"] \in Job
    BY DEF Job, GuestJobs
  <2>2. /\ responding = {} /\ UNCHANGED <<dispatch, open, outcome, event, responding, lost>>
        /\ jobs' = Append(jobs, [job |-> "guest"]) \/ jobs' = jobs
    BY <1>3 DEF BindingAnswers, Enqueue, FetchInv, eventVars
  <2>3. QED BY <2>1, <2>2, QueuedFetch, QuietFetch
<1>4. CASE JobsExhausted \/ BindingTimesOut \/ TimersTimeOut
  BY <1>4, NoFetch, FailedFetch DEF JobsExhausted, BindingTimesOut, TimersTimeOut, FetchInv
<1>5. CASE EvalThrows
  BY <1>5, NoFetch, FailedFetch DEF EvalThrows, FetchInv
<1>6. CASE DrainEnds
  <2>1. event' # {"fetch"}
    BY <1>6, FailedFetch DEF DrainEnds, TakeOutcome, Finish
  <2>2. QED BY <1>6, <2>1, NoFetch DEF DrainEnds, FetchInv
<1>7. CASE EndRespondJob \/ RespondJobThrows
  BY <1>7, RespondFetch
<1>8. QED BY <1>1, <1>2, <1>3, <1>4, <1>5, <1>6, <1>7 DEF HostStep, OutsideStep

LEMMA EmbedderFetch == ControlTypeOK /\ ReplyInv /\ FetchInv /\ EmbedderStep => FetchInv'
<1> SUFFICES ASSUME ControlTypeOK, ReplyInv, FetchInv, EmbedderStep PROVE FetchInv'
  OBVIOUS
<1>1. responding = {} /\ responding' = {}
  BY DEF EmbedderStep, Dispatch, Refuse, Abort, Cancel, Drop, FetchInv, controlVars
<1>2. CASE Dispatch
  <2>1. PICK kind \in Kinds : open' = open \cup {[of |-> dispatch + 1, kind |-> kind]}
    BY <1>2 DEF Dispatch
  <2>2. [of |-> dispatch + 1, kind |-> kind] \in open' /\ dispatch' = dispatch + 1
    BY <1>2, <2>1 DEF Dispatch
  <2>3. \E e \in open' : e.of = dispatch'
    BY <2>2
  <2>4. QED BY <1>1, <2>3 DEF FetchInv, SettledFetchIsAnswered
<1>3. CASE Abort
  BY <1>1, <1>3, QuietFetch DEF Abort, controlVars
<1>4. CASE Drop
  BY <1>1, <1>4, NoFetch DEF Drop, eventVars, ReplyInv
<1>5. CASE Refuse \/ Cancel
  BY <1>1, <1>5, NoFetch DEF Refuse, Cancel, Finish
<1>6. QED BY <1>2, <1>3, <1>4, <1>5 DEF EmbedderStep

LEMMA FetchKept ==
    ControlTypeOK /\ ReplyInv /\ FetchInv /\ [WorkerNext]_vars => FetchInv'
<1> SUFFICES ASSUME ControlTypeOK, ReplyInv, FetchInv, [WorkerNext]_vars PROVE FetchInv'
  OBVIOUS
<1>1. CASE TimePasses \/ Dead \/ UNCHANGED vars
  BY <1>1, QuietFetch DEF TimePasses, Dead, vars, controlVars, eventVars
<1>2. QED BY <1>1, GuestFetch, HostFetch, EmbedderFetch DEF WorkerNext

\* No response to a fetch is lost between its promise and take_outcome(): a
\* fetch reported as "did not settle" did not, or its rejection has no message.
THEOREM WorkerSettledFetch == WorkerSpec => []SettledFetchIsAnswered
<1>1. WorkerInit => FetchInv
  BY DEF WorkerInit, FetchInv, SettledFetchIsAnswered
<1>2. FetchInv => SettledFetchIsAnswered
  BY DEF FetchInv
<1>3. QED BY <1>1, <1>2, ReplyStarts, ReplyKept, ControlTypes, FetchKept, PTL DEF WorkerSpec

----------------------------------------------------------------------------
(* Worker implements WorkerService: its initial states are initial states of  *)
(* the abstract specification, and each of its steps is one of that           *)
(* specification's steps or changes nothing the embedder sees.                *)

ServiceUnchanged == UNCHANGED <<ServiceState, dispatch, event, aborted, reply>>

Reasons == {"Exception", "Other", "WallClockTimeout", "MaxIterationsReached"}

\* JavaScript runs or the host is in a drain.
Inside == pc \notin {"idle", "dead"}

\* A step inside of exec() or of the build that does not end it.
LEMMA QuietStep ==
    ASSUME Inside, Inside', UNCHANGED <<dispatch, event, aborted, reply>>
    PROVE  ServiceUnchanged
BY DEF Inside, ServiceUnchanged, ServiceState

LEMMA FailStep ==
    ASSUME Inside, NEW reason \in Reasons, Fail(reason), UNCHANGED <<dispatch, aborted>>
    PROVE  Service!ServiceNext
<1>1. CASE event = {}
  <2>1. ServiceState = "building" /\ ServiceState' = "closed"
    BY <1>1 DEF Inside, Fail, ServiceState
  <2>2. Service!Close
    BY <1>1, <2>1 DEF Fail, Service!Close
  <2>3. QED BY <2>2 DEF Service!ServiceNext
<1>2. CASE event # {}
  <2>1. ServiceState = "busy" /\ ServiceState' = "ready"
    BY <1>2 DEF Inside, Fail, Finish, ServiceState
  <2>2. Service!Serve(reason, ErrorSent)
    BY <1>2, <2>1 DEF Fail, Finish, Service!Serve, Service!End
  <2>3. Service!Fails
    BY <2>2 DEF Service!Fails, ErrorSent, Reasons
  <2>4. QED BY <2>3 DEF Service!ServiceNext
<1>3. QED BY <1>1, <1>2

LEMMA DrainEndsStep == ControlTypeOK /\ ReplyInv /\ DrainEnds => Service!ServiceNext
<1> SUFFICES ASSUME ControlTypeOK, ReplyInv, DrainEnds PROVE Service!ServiceNext
  OBVIOUS
<1>1. Inside /\ UNCHANGED <<dispatch, aborted>>
  BY DEF DrainEnds, Inside
<1>2. CASE event = {}
  <2>1. ServiceState = "building" /\ ServiceState' = "ready"
    BY <1>1, <1>2 DEF DrainEnds, Finish, Inside, ServiceState
  <2>2. Service!Built
    BY <1>1, <1>2, <2>1 DEF DrainEnds, Finish, Service!Built, Service!End
  <2>3. QED BY <2>2 DEF Service!ServiceNext
<1>3. CASE \E reason \in Reasons : Fail(reason)
  BY <1>1, <1>3, FailStep
<1>4. CASE event # {} /\ \E p \in outcome : p.is = "value" /\ Finish(dispatch, "Ok", outcome)
  <2>1. outcome = {[of |-> dispatch, is |-> "value"]}
    BY <1>4, ValueReply
  <2>2. ServiceState = "busy" /\ ServiceState' = "ready"
    BY <1>1, <1>4 DEF Finish, Inside, ServiceState
  <2>3. Service!Succeed
    BY <1>1, <1>4, <2>1, <2>2 DEF Finish, Service!Succeed, Service!Serve, Service!End
  <2>4. QED BY <2>3 DEF Service!ServiceNext
<1>5. QED BY <1>2, <1>3, <1>4 DEF DrainEnds, TakeOutcome, Reasons

LEMMA HostSteps ==
    ASSUME ControlTypeOK, ReplyInv, GuestStep \/ HostStep \/ OutsideStep \/ EvalThrows
    PROVE  Service!ServiceNext \/ ServiceUnchanged
<1>1. CASE GuestStep
  <2>1. /\ Inside /\ Inside'
        /\ UNCHANGED <<dispatch, event, aborted, reply>>
    BY <1>1 DEF GuestStep, UseTimers, UseBindings, QueueJob, SettleEvent, Running, Inside,
       controlVars, eventVars
  <2>2. QED BY <2>1, QuietStep
<1>2. CASE \/ Drain \/ EndTimer \/ EndJob \/ EndRespondJob \/ RespondJobThrows \/ EndValueOf
           \/ AwaitBinding \/ AwaitTimer \/ TimerFires \/ BindingAnswers \/ JobsDone
           \/ RunGuestJob \/ RunNotifiedJob \/ RotateUnfinishedJob \/ RunRespondJob
  <2>1. /\ Inside /\ Inside'
        /\ UNCHANGED <<dispatch, event, aborted, reply>>
    BY <1>2 DEF Drain, EndTimer, EndJob, EndRespondJob, RespondJobThrows, EndValueOf,
       AwaitBinding, AwaitTimer, TimerFires, BindingAnswers,
       JobsDone, RunGuestJob, RunNotifiedJob, RunJob, RotateUnfinishedJob, RunRespondJob, TakeJob,
       BeginDrainJobs, Running, controlVars,
       Inside, eventVars
  <2>2. QED BY <2>1, QuietStep
<1>3. CASE JobsExhausted \/ BindingTimesOut \/ TimersTimeOut \/ EvalThrows
  <2>1. Inside /\ UNCHANGED <<dispatch, aborted>>
    BY <1>3 DEF JobsExhausted, BindingTimesOut, TimersTimeOut, EvalThrows, Inside
  <2>2. \E reason \in Reasons : Fail(reason)
    BY <1>3 DEF JobsExhausted, BindingTimesOut, TimersTimeOut, EvalThrows, Reasons
  <2>3. QED BY <2>1, <2>2, FailStep
<1>4. CASE DrainEnds
  BY <1>4, DrainEndsStep
<1>5. QED BY <1>1, <1>2, <1>3, <1>4 DEF HostStep, OutsideStep

LEMMA EmbedderSteps ==
    ASSUME ControlTypeOK, ReplyInv, EmbedderStep
    PROVE  Service!ServiceNext \/ ServiceUnchanged
<1>1. CASE Dispatch
  <2>1. ServiceState = "ready" /\ ServiceState' = "busy"
    BY <1>1 DEF Dispatch, ServiceState
  <2>2. Service!Take
    BY <1>1, <2>1 DEF Dispatch, Service!Take
  <2>3. QED BY <2>2 DEF Service!ServiceNext
<1>2. CASE Refuse
  <2>1. ServiceState = "ready" /\ ServiceState' = "ready" /\ event' = event
    BY <1>2 DEF Refuse, Finish, ServiceState, ReplyInv
  <2>2. Service!Refuse
    BY <1>2, <2>1 DEF Refuse, Finish, Service!Refuse, Service!End
  <2>3. QED BY <2>2 DEF Service!ServiceNext
<1>3. CASE Abort
  <2>1. ServiceState = "ready" /\ ServiceState' = "ready"
    BY <1>3 DEF Abort, controlVars, ServiceState
  <2>2. Service!Abort
    BY <1>3, <2>1 DEF Abort, Service!Abort
  <2>3. QED BY <2>2 DEF Service!ServiceNext
<1>4. CASE Cancel
  <2>1. Inside /\ UNCHANGED <<dispatch, aborted>>
    BY <1>4 DEF Cancel, Inside
  <2>2. CASE event = {}
    <3>1. ServiceState = "building" /\ ServiceState' = "closed"
      BY <1>4, <2>1, <2>2 DEF Cancel, Inside, ServiceState
    <3>2. Service!Close
      BY <1>4, <2>1, <2>2, <3>1 DEF Cancel, Service!Close
    <3>3. QED BY <3>2 DEF Service!ServiceNext
  <2>3. CASE event # {}
    <3>1. ServiceState = "busy" /\ ServiceState' = "ready"
      BY <1>4, <2>1, <2>3 DEF Cancel, Finish, Inside, ServiceState
    <3>2. Service!Dropped
      BY <1>4, <2>1, <2>3, <3>1 DEF Cancel, Finish, Service!Dropped, Service!Serve, Service!End
    <3>3. QED BY <3>2 DEF Service!ServiceNext
  <2>4. QED BY <2>2, <2>3
<1>5. CASE Drop
  <2>1. ServiceState = "ready" /\ ServiceState' = "closed"
    BY <1>5 DEF Drop, ServiceState
  <2>2. Service!Close
    BY <1>5, <2>1 DEF Drop, eventVars, Service!Close
  <2>3. QED BY <2>2 DEF Service!ServiceNext
<1>6. QED BY <1>1, <1>2, <1>3, <1>4, <1>5 DEF EmbedderStep

LEMMA EveryStep ==
    ControlTypeOK /\ ReplyInv /\ [WorkerNext]_vars => [Service!ServiceNext]_Service!serviceVars
<1> SUFFICES ASSUME ControlTypeOK, ReplyInv, [WorkerNext]_vars
             PROVE  Service!ServiceNext \/ ServiceUnchanged
  BY DEF ServiceUnchanged, Service!serviceVars
<1>1. CASE TimePasses \/ Dead \/ UNCHANGED vars
  BY <1>1 DEF TimePasses, Dead, vars, controlVars, eventVars, ServiceUnchanged, ServiceState
<1>2. QED BY <1>1, HostSteps, EmbedderSteps DEF WorkerNext

\* The worker is what WorkerService promises to the embedder: one event at a
\* time, one end for each, about that event.
THEOREM WorkerImplementsService == WorkerSpec => ImplementsService
<1>1. WorkerInit => Service!ServiceInit
  BY DEF WorkerInit, Service!ServiceInit, ServiceState
<1>2. QED BY <1>1, EveryStep, ReplyStarts, ReplyKept, ControlTypes, PTL
          DEF WorkerSpec, ImplementsService, Service!ServiceSpec

=============================================================================
