------------------------------- MODULE Drain -------------------------------
(***************************************************************************)
(* One drain (worker.rs), for the question whether it ends.  Worker.tla    *)
(* bounds how many timers and calls a script ever makes; here the script   *)
(* may go on for ever, and what is bounded is how many are outstanding at  *)
(* a time.  Nothing has an identity: jobs and calls are counted, a timer   *)
(* is when it is due and how often.  Time is measured from the start of    *)
(* the drain and stops at Past, the first moment after the deadline, since *)
(* no later moment is told from it.                                        *)
(***************************************************************************)
EXTENDS Naturals, FiniteSets

CONSTANTS Limit,         \* max_wall_clock_time_ms, not 0
          Delays,        \* delays a script asks for
          MinPeriod,     \* one millisecond
          MaxJobs,       \* MAX_JOBS_PER_DRAIN
          MaxPending,    \* bound: jobs, and calls, outstanding at a time
          MaxTimers      \* bound: timers armed at a time

ASSUME DrainAssumption ==
    /\ Limit \in Nat \ {0}
    /\ Delays \subseteq Nat
    /\ MinPeriod \in Nat \ {0}
    /\ MaxJobs \in Nat \ {0}
    /\ MaxPending \in Nat \ {0}
    /\ MaxTimers \in Nat

VARIABLES pc,      \* where drain() is; how it ended is in `result`
          spent,   \* time since the drain started
          spins,   \* iterations drain_jobs() has left
          jobs,    \* number of jobs queued
          calls,   \* number of calls whose futures were not polled yet
          timers,  \* timers armed: [at, period]
          until,   \* the moment slept for, {} when none is
          result   \* {} until drain() returns

vars == <<pc, spent, spins, jobs, calls, timers, until, result>>

Past == Limit + 1
Moment(t) == IF t < Past THEN t ELSE Past

Timer == [at : 0..Past, period : SUBSET Delays]

DrainTypeOK ==
    /\ pc \in {"jobs", "pick", "await", "sleep", "over"}
    /\ spent \in 0..Past
    /\ spins \in 0..MaxJobs
    /\ jobs \in 0..MaxPending
    /\ calls \in 0..MaxPending
    /\ timers \subseteq Timer
    /\ until \subseteq 0..Past
    /\ result \subseteq {"Ok", "WallClockTimeout", "MaxIterationsReached"}

Armed == {[at |-> Moment(spent + d), period |-> p] :
             d \in Delays, p \in {{}} \cup {{e} : e \in Delays}}

\* Whatever the event's handler left behind, and earlier events.
Init ==
    /\ pc = "jobs"
    /\ spent = 0
    /\ spins = MaxJobs
    /\ jobs \in 0..MaxPending
    /\ calls \in 0..MaxPending
    /\ timers \in {S \in SUBSET Armed : Cardinality(S) <= MaxTimers}
    /\ until = {}
    /\ result = {}

\* A stretch of JavaScript: it queues jobs next to the `queued` ones, makes
\* calls, clears a timer or arms one.
Guest(queued) ==
    /\ jobs' \in queued..MaxPending
    /\ calls' \in calls..MaxPending
    /\ \/ timers' = timers
       \/ \E t \in timers : timers' = timers \ {t}
       \/ \E t \in Armed : timers' = timers \cup {t} /\ Cardinality(timers') <= MaxTimers

Return(r) ==
    /\ pc' = "over"
    /\ result' = {r}

----------------------------------------------------------------------------
(* drain_jobs().                                                           *)

RunJob ==
    /\ pc = "jobs"
    /\ spins > 0
    /\ jobs > 0
    /\ spins' = spins - 1
    /\ Guest(jobs - 1)
    /\ UNCHANGED <<pc, spent, until, result>>

JobsDone ==
    /\ pc = "jobs"
    /\ jobs = 0
    /\ pc' = "pick"
    /\ spins' = 0
    /\ UNCHANGED <<spent, jobs, calls, timers, until, result>>

JobsExhausted ==
    /\ pc = "jobs"
    /\ spins = 0
    /\ jobs > 0
    /\ jobs' = 0
    /\ Return("MaxIterationsReached")
    /\ UNCHANGED <<spent, spins, calls, timers, until>>

----------------------------------------------------------------------------
(* A binding comes before a timer.                                         *)

\* Settling a promise queues the reaction the guest attached, or none.
Settle ==
    /\ pc' = "jobs"
    /\ spins' = MaxJobs
    /\ jobs' \in 0..1

\* `timeout` polls the answer before it looks at the clock: one that is there
\* counts, whatever is left of the budget.
PopReady ==
    /\ pc = "pick"
    /\ calls > 0
    /\ calls' = calls - 1
    /\ Settle
    /\ UNCHANGED <<spent, timers, until, result>>

PopPending ==
    /\ pc = "pick"
    /\ calls > 0
    /\ calls' = calls - 1
    /\ IF spent < Limit THEN pc' = "await" /\ UNCHANGED result
                        ELSE Return("WallClockTimeout")
    /\ UNCHANGED <<spent, spins, jobs, timers, until>>

Answer ==
    /\ pc = "await"
    /\ Settle
    /\ UNCHANGED <<spent, calls, timers, until, result>>

AnswerTimesOut ==
    /\ pc = "await"
    /\ spent >= Limit
    /\ Return("WallClockTimeout")
    /\ UNCHANGED <<spent, spins, jobs, calls, timers, until>>

----------------------------------------------------------------------------
(* next_timer() and what follows.                                          *)

IsNext(t) == \A u \in timers : t.at <= u.at

\* Mutant of Again: an interval may repeat after no time at all.
AgainAtOnce(t) == {[at |-> Moment(t.at + p), period |-> {p}] : p \in t.period}

Again(t) == {[at |-> Moment(t.at + (IF p > MinPeriod THEN p ELSE MinPeriod)), period |-> {p}] :
                p \in t.period}

PickTimer ==
    /\ pc = "pick"
    /\ calls = 0
    /\ \E t \in timers :
         /\ IsNext(t)
         /\ t.at <= Limit
         /\ timers' = (timers \ {t}) \cup Again(t)
         /\ until' = {t.at}
    /\ pc' = "sleep"
    /\ UNCHANGED <<spent, spins, jobs, calls, result>>

TimersTimeOut ==
    /\ pc = "pick"
    /\ calls = 0
    /\ \E t \in timers : IsNext(t) /\ t.at > Limit
    /\ timers' = {}
    /\ Return("WallClockTimeout")
    /\ UNCHANGED <<spent, spins, jobs, calls, until>>

FireTimer ==
    /\ pc = "sleep"
    /\ \E t \in until : t <= spent
    /\ until' = {}
    /\ Guest(jobs)
    /\ pc' = "jobs"
    /\ spins' = MaxJobs
    /\ UNCHANGED <<spent, result>>

NothingLeft ==
    /\ pc = "pick"
    /\ calls = 0
    /\ timers = {}
    /\ Return("Ok")
    /\ UNCHANGED <<spent, spins, jobs, calls, timers, until>>

----------------------------------------------------------------------------

Tick ==
    /\ pc # "over"
    /\ spent < Past
    /\ spent' = spent + 1
    /\ UNCHANGED <<pc, spins, jobs, calls, timers, until, result>>

Over == pc = "over" /\ UNCHANGED vars

Step ==
    \/ RunJob \/ JobsDone \/ JobsExhausted
    \/ PopReady \/ PopPending \/ AnswerTimesOut
    \/ PickTimer \/ TimersTimeOut \/ FireTimer \/ NothingLeft

Next == Step \/ Answer \/ Tick \/ Over

\* The executor polls the drain and time passes; that an answer comes is not
\* assumed, and neither is that the script ever stops.
Spec == Init /\ [][Next]_vars /\ WF_vars(Step) /\ WF_vars(Tick)

----------------------------------------------------------------------------
(* Properties.                                                             *)

\* README.md:176: a handler "that never settles its response promise fails
\* with an explicit error instead of hanging".
DrainEnds == <>(pc = "over")

\* The drain ends even for a script that never stops queueing jobs, arming
\* timers and making calls, unless answers that are there at the first poll
\* never stop coming: neither bound looks at those.
DrainEndsUnlessAnswered == DrainEnds \/ []<><<PopReady>>_vars

=============================================================================
