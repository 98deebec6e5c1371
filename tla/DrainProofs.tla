---------------------------- MODULE DrainProofs -----------------------------
(* Types of a drain, for a script that never stops.                          *)
EXTENDS Drain, TLAPS

LEMMA PastIsAMoment == Past \in Nat /\ Limit \in Nat /\ Limit < Past /\ 0 \in 0..Past
BY DrainAssumption DEF Past

LEMMA MomentType == ASSUME NEW t \in Nat PROVE Moment(t) \in 0..Past
BY PastIsAMoment DEF Moment

LEMMA ArmedType == spent \in 0..Past => Armed \subseteq Timer
<1> SUFFICES ASSUME spent \in 0..Past, NEW t \in Armed PROVE t \in Timer
  OBVIOUS
<1>1. PICK d \in Delays, p \in {{}} \cup {{e} : e \in Delays} :
        t = [at |-> Moment(spent + d), period |-> p]
  BY DEF Armed
<1>2. spent + d \in Nat
  BY PastIsAMoment, DrainAssumption
<1>3. Moment(spent + d) \in 0..Past
  BY <1>2, MomentType
<1>4. p \in SUBSET Delays
  OBVIOUS
<1>5. QED BY <1>1, <1>3, <1>4 DEF Timer

LEMMA AgainType == ASSUME NEW t \in Timer PROVE Again(t) \subseteq Timer
<1> SUFFICES ASSUME NEW u \in Again(t) PROVE u \in Timer
  OBVIOUS
<1>1. PICK p \in t.period :
        u = [at |-> Moment(t.at + (IF p > MinPeriod THEN p ELSE MinPeriod)), period |-> {p}]
  BY DEF Again
<1>2. t.at \in Nat /\ p \in Delays /\ p \in Nat
  BY PastIsAMoment, DrainAssumption DEF Timer
<1>3. t.at + (IF p > MinPeriod THEN p ELSE MinPeriod) \in Nat
  BY <1>2, DrainAssumption
<1>4. Moment(t.at + (IF p > MinPeriod THEN p ELSE MinPeriod)) \in 0..Past
  BY <1>3, MomentType
<1>5. QED BY <1>1, <1>2, <1>4 DEF Timer

LEMMA GuestType ==
    ASSUME DrainTypeOK, NEW queued \in Nat, Guest(queued)
    PROVE  jobs' \in 0..MaxPending /\ calls' \in 0..MaxPending /\ timers' \subseteq Timer
<1>1. jobs' \in 0..MaxPending /\ calls' \in 0..MaxPending
  BY DrainAssumption DEF Guest, DrainTypeOK
<1>2. Armed \subseteq Timer
  BY ArmedType DEF DrainTypeOK
<1>3. timers' \subseteq Timer
  BY <1>2 DEF Guest, DrainTypeOK
<1>4. QED BY <1>1, <1>3

LEMMA SettleType == Settle => jobs' \in 0..MaxPending /\ spins' \in 0..MaxJobs /\ pc' = "jobs"
BY DrainAssumption DEF Settle

LEMMA JobSteps == DrainTypeOK /\ (RunJob \/ JobsDone \/ JobsExhausted) => DrainTypeOK'
<1> SUFFICES ASSUME DrainTypeOK, RunJob \/ JobsDone \/ JobsExhausted PROVE DrainTypeOK'
  OBVIOUS
<1>1. CASE RunJob
  <2>1. jobs - 1 \in Nat /\ spins - 1 \in 0..MaxJobs
    BY <1>1, DrainAssumption DEF RunJob, DrainTypeOK
  <2>2. jobs' \in 0..MaxPending /\ calls' \in 0..MaxPending /\ timers' \subseteq Timer
    BY <1>1, <2>1, GuestType DEF RunJob, DrainTypeOK
  <2>3. QED BY <1>1, <2>1, <2>2 DEF RunJob, DrainTypeOK
<1>2. CASE JobsDone
  BY <1>2, DrainAssumption DEF JobsDone, DrainTypeOK
<1>3. CASE JobsExhausted
  BY <1>3, DrainAssumption DEF JobsExhausted, Return, DrainTypeOK
<1>4. QED BY <1>1, <1>2, <1>3

LEMMA CallSteps == DrainTypeOK /\ (PopReady \/ PopPending \/ Answer \/ AnswerTimesOut) => DrainTypeOK'
<1> SUFFICES ASSUME DrainTypeOK, PopReady \/ PopPending \/ Answer \/ AnswerTimesOut PROVE DrainTypeOK'
  OBVIOUS
<1>1. CASE PopReady
  BY <1>1, SettleType, DrainAssumption DEF PopReady, DrainTypeOK
<1>2. CASE PopPending
  <2>1. calls' \in 0..MaxPending
    BY <1>2, DrainAssumption DEF PopPending, DrainTypeOK
  <2>2. CASE spent < Limit
    BY <1>2, <2>1, <2>2 DEF PopPending, DrainTypeOK
  <2>3. CASE ~(spent < Limit)
    <3>1. pc' = "over" /\ result' = {"WallClockTimeout"}
      BY <1>2, <2>3 DEF PopPending, Return
    <3>2. UNCHANGED <<spent, spins, jobs, timers, until>>
      BY <1>2 DEF PopPending
    <3>3. QED BY <2>1, <3>1, <3>2 DEF DrainTypeOK
  <2>4. QED BY <2>2, <2>3
<1>3. CASE Answer
  BY <1>3, SettleType DEF Answer, DrainTypeOK
<1>4. CASE AnswerTimesOut
  BY <1>4 DEF AnswerTimesOut, Return, DrainTypeOK
<1>5. QED BY <1>1, <1>2, <1>3, <1>4

LEMMA TimerSteps ==
    DrainTypeOK /\ (PickTimer \/ TimersTimeOut \/ FireTimer \/ NothingLeft \/ Tick) => DrainTypeOK'
<1> SUFFICES ASSUME DrainTypeOK, PickTimer \/ TimersTimeOut \/ FireTimer \/ NothingLeft \/ Tick
             PROVE  DrainTypeOK'
  OBVIOUS
<1>1. CASE PickTimer
  <2>1. PICK t \in timers : timers' = (timers \ {t}) \cup Again(t) /\ until' = {t.at}
    BY <1>1 DEF PickTimer
  <2>2. t \in Timer
    BY <2>1 DEF DrainTypeOK
  <2>3. timers' \subseteq Timer
    BY <2>1, <2>2, AgainType DEF DrainTypeOK
  <2>4. until' \subseteq 0..Past
    BY <2>1, <2>2 DEF Timer
  <2>5. QED BY <1>1, <2>3, <2>4 DEF PickTimer, DrainTypeOK
<1>2. CASE TimersTimeOut
  BY <1>2 DEF TimersTimeOut, Return, DrainTypeOK
<1>3. CASE FireTimer
  <2>1. jobs \in Nat
    BY DEF DrainTypeOK
  <2>2. jobs' \in 0..MaxPending /\ calls' \in 0..MaxPending /\ timers' \subseteq Timer
    BY <1>3, <2>1, GuestType DEF FireTimer, DrainTypeOK
  <2>3. QED BY <1>3, <2>2, DrainAssumption DEF FireTimer, DrainTypeOK
<1>4. CASE NothingLeft
  BY <1>4 DEF NothingLeft, Return, DrainTypeOK
<1>5. CASE Tick
  BY <1>5, PastIsAMoment DEF Tick, DrainTypeOK
<1>6. QED BY <1>1, <1>2, <1>3, <1>4, <1>5

LEMMA DrainStarts == Init => DrainTypeOK
<1> SUFFICES ASSUME Init PROVE DrainTypeOK
  OBVIOUS
<1>1. timers \subseteq Timer
  BY PastIsAMoment, ArmedType DEF Init
<1>2. QED BY <1>1, DrainAssumption, PastIsAMoment DEF Init, DrainTypeOK

LEMMA DrainKept == DrainTypeOK /\ [Next]_vars => DrainTypeOK'
<1> SUFFICES ASSUME DrainTypeOK, [Next]_vars PROVE DrainTypeOK'
  OBVIOUS
<1>1. CASE Over \/ UNCHANGED vars
  BY <1>1 DEF Over, vars, DrainTypeOK
<1>2. QED BY <1>1, JobSteps, CallSteps, TimerSteps DEF Next, Step

\* A drain's counters and timers stay in their ranges, for every budget, every
\* set of delays and every limit on what is outstanding.
THEOREM DrainTypeCorrect == Spec => []DrainTypeOK
BY DrainStarts, DrainKept, PTL DEF Spec

=============================================================================
