----------------------------- MODULE WaitsProofs ----------------------------
(* Theorems of the two components the drain waits for: of Timers, for every  *)
(* budget, delay and number of handles, and of Bindings, for every budget and *)
(* number of calls.                                                          *)
EXTENDS Timers, Bindings, SequenceTheorems, TLAPS

----------------------------------------------------------------------------
(* Timers.                                                                 *)

allVars == <<clockVars, timerVars>>

\* Keys and handles are minted by counters, and an armed timer has one of each
\* to itself.
Minted ==
    /\ \A t \in timers \cup due : t.seq < timerSeq /\ t.handle < nextTimer
    /\ \A c \in callbacks : c.handle < nextTimer
    /\ \A t, u \in timers : t.seq = u.seq \/ t.handle = u.handle => t = u
    /\ \A c, e \in callbacks : c.handle = e.handle => c = e

\* One timer is waited for; it came first, and what bears its handle besides is
\* its own next round.
OnePicked ==
    /\ \A d, e \in due : d = e
    /\ \A d \in due : \A t \in timers :
          /\ Before(d, t)
          /\ d.handle = t.handle => d.period # {} /\ t.period # {}
    /\ \A d \in due : d.period # {} => d.handle \in Handles(timers)

OnePeriod == \A t \in timers : \A p, q \in t.period : p = q

\* A timer that fired was due.
FiredWasDue == \A f \in fired : f.at <= now /\ f.seq < timerSeq

\* Nobody waits inside of a conversion; each is of a handle of its own, which is
\* not armed yet, and has its entry unless that was cleared.
ConvertedApart ==
    /\ converting # {} => due = {}
    /\ \A c, e \in converting : c.handle = e.handle => c = e
    /\ \A c \in converting : c.handle < nextTimer /\ c.handle \notin Handles(timers)
    /\ \A c \in converting : c \in callbacks \/ c.handle \in early

TimersInv ==
    /\ TimersTypeOK
    /\ Minted
    /\ ConvertedApart
    /\ OnePicked
    /\ OnePeriod
    /\ FiredWasDue
    /\ FiresInOrder
    /\ HostBacked

----------------------------------------------------------------------------

\* An interval moves by a millisecond at least, and stays itself otherwise.
LEMMA RescheduledLater ==
    ASSUME NEW t \in Timer, NEW r \in Rescheduled(t)
    PROVE  /\ r \in Timer
           /\ Before(t, r)
           /\ r.handle = t.handle /\ r.seq = t.seq /\ r.period = t.period
           /\ t.period # {}
BY TimersAssumption DEF Rescheduled, Timer, Before

LEMMA BeforeTransitive ==
    ASSUME NEW s \in Timer, NEW t \in Timer, NEW u \in Timer,
           Before(s, t), Before(t, u)
    PROVE  Before(s, u)
BY DEF Before, Timer

LEMMA TimersInitInv == TimersInit => TimersInv
BY ClockAssumption
   DEF TimersInit, ClockInit, TimersInv, TimersTypeOK, ClockTypeOK, Minted, ConvertedApart, OnePicked,
       OnePeriod, FiredWasDue, FiresInOrder, HostBacked

LEMMA SetTimerInv ==
    ASSUME TimersInv, NEW delay \in Delays, NEW repeating \in Repeats,
           SetTimer(delay, repeating), UNCHANGED clockVars
    PROVE  TimersInv'
<1> DEFINE new == [handle |-> nextTimer, at |-> now + delay,
                   period |-> IF repeating THEN {delay} ELSE {}, seq |-> timerSeq]
           entry == [handle |-> nextTimer, repeating |-> repeating]
<1>1. /\ timers' = timers \cup {new}
      /\ callbacks' = callbacks \cup {entry}
      /\ due = {} /\ due' = {} /\ fired' = fired
      /\ converting' = converting /\ early' = early
      /\ nextTimer' = nextTimer + 1 /\ timerSeq' = timerSeq + 1
      /\ now' = now /\ deadline' = deadline
  BY DEF SetTimer, MintHandle, NativeTimerStart, Entry, clockVars
<1>2. /\ new \in Timer /\ entry \in Callback
      /\ new.handle = nextTimer /\ new.seq = timerSeq /\ new.at >= now
      /\ \A p, q \in new.period : p = q
      /\ [handle |-> new.handle, repeating |-> new.period # {}] = entry
  BY TimersAssumption DEF TimersInv, TimersTypeOK, ClockTypeOK, Timer, Callback
<1> HIDE DEF new, entry
<1>3. TimersTypeOK'
  BY <1>1, <1>2 DEF TimersInv, TimersTypeOK, ClockTypeOK
<1>4. entry.handle = nextTimer
  BY <1>2 DEF entry
<1>5. Minted'
  BY <1>1, <1>2, <1>4 DEF TimersInv, Minted, TimersTypeOK, Timer, Callback
<1>a. ConvertedApart'
  BY <1>1, <1>2, <1>4
     DEF TimersInv, TimersTypeOK, ConvertedApart, Handles, Callback
<1>6. OnePicked' /\ OnePeriod' /\ FiredWasDue'
  BY <1>1, <1>2
     DEF TimersInv, TimersTypeOK, ClockTypeOK, OnePicked, OnePeriod, FiredWasDue, Timer
<1>7. FiresInOrder'
  <2>1. \A f \in fired : Before(f, new)
    BY <1>2 DEF TimersInv, TimersTypeOK, ClockTypeOK, FiredWasDue, Before, Timer
  <2>2. QED BY <1>1, <2>1 DEF TimersInv, FiresInOrder, Before
<1>8. HostBacked'
  BY <1>1, <1>2, <1>4 DEF TimersInv, TimersTypeOK, HostBacked
<1>9. QED BY <1>3, <1>5, <1>a, <1>6, <1>7, <1>8 DEF TimersInv

LEMMA BeginConversionInv ==
    ASSUME TimersInv, NEW repeating \in Repeats,
           BeginConversion(repeating), UNCHANGED clockVars
    PROVE  TimersInv'
<1> DEFINE entry == [handle |-> nextTimer, repeating |-> repeating]
<1>1. /\ callbacks' = callbacks \cup {entry} /\ converting' = converting \cup {entry}
      /\ due = {} /\ due' = {} /\ nextTimer' = nextTimer + 1
      /\ UNCHANGED <<timers, timerSeq, fired, early, now, deadline>>
  BY DEF BeginConversion, MintHandle, Entry, clockVars
<1>2. entry \in Callback /\ entry.handle = nextTimer
  BY TimersAssumption DEF TimersInv, TimersTypeOK, Callback
<1> HIDE DEF entry
<1>3. TimersTypeOK'
  BY <1>1, <1>2 DEF TimersInv, TimersTypeOK, ClockTypeOK
<1>4. Minted'
  BY <1>1, <1>2 DEF TimersInv, Minted, TimersTypeOK, Timer, Callback
<1>5. ConvertedApart'
  BY <1>1, <1>2
     DEF TimersInv, TimersTypeOK, Minted, ConvertedApart, Handles, Callback, Timer
<1>6. OnePicked' /\ OnePeriod' /\ FiredWasDue'
  BY <1>1 DEF TimersInv, OnePicked, OnePeriod, FiredWasDue
<1>7. FiresInOrder'
  BY <1>1 DEF TimersInv, FiresInOrder, Before
<1>8. HostBacked'
  BY <1>1, <1>2 DEF TimersInv, TimersTypeOK, HostBacked
<1>9. QED BY <1>3, <1>4, <1>5, <1>6, <1>7, <1>8 DEF TimersInv

LEMMA EndConversionInv ==
    ASSUME TimersInv, NEW delay \in Delays,
           EndConversion(delay), UNCHANGED clockVars
    PROVE  TimersInv'
<1>1. PICK c \in Innermost :
        /\ converting' = converting \ {c}
        /\ NativeTimerStart(c.handle, delay, c.repeating)
  BY DEF EndConversion
<1> DEFINE new == [handle |-> c.handle, at |-> now + delay,
                   period |-> IF c.repeating THEN {delay} ELSE {}, seq |-> timerSeq]
<1>2. /\ timers' = timers \cup {new} /\ timerSeq' = timerSeq + 1
      /\ UNCHANGED <<callbacks, nextTimer, due, fired, early, now, deadline>>
  BY <1>1 DEF EndConversion, NativeTimerStart, clockVars
<1>3. /\ c \in converting /\ c \in Callback /\ due = {}
      /\ c.handle < nextTimer /\ c.handle \notin Handles(timers)
      /\ c \in callbacks \/ c.handle \in early
  BY <1>1 DEF Innermost, TimersInv, TimersTypeOK, ConvertedApart
<1>4. /\ new \in Timer
      /\ new.handle = c.handle /\ new.seq = timerSeq /\ new.at >= now
      /\ \A p, q \in new.period : p = q
      /\ [handle |-> new.handle, repeating |-> new.period # {}] = c
  BY <1>3, TimersAssumption DEF TimersInv, TimersTypeOK, ClockTypeOK, Timer, Callback
<1> HIDE DEF new
<1>5. TimersTypeOK'
  BY <1>1, <1>2, <1>4 DEF TimersInv, TimersTypeOK, ClockTypeOK
<1>6. Minted'
  BY <1>2, <1>3, <1>4 DEF TimersInv, Minted, TimersTypeOK, Timer, Callback, Handles
<1>7. ConvertedApart'
  BY <1>1, <1>2, <1>3, <1>4 DEF TimersInv, ConvertedApart, Handles
<1>8. OnePicked' /\ OnePeriod' /\ FiredWasDue'
  BY <1>2, <1>3, <1>4
     DEF TimersInv, TimersTypeOK, ClockTypeOK, OnePicked, OnePeriod, FiredWasDue, Timer
<1>9. FiresInOrder'
  <2>1. \A f \in fired : Before(f, new)
    BY <1>4 DEF TimersInv, TimersTypeOK, ClockTypeOK, FiredWasDue, Before, Timer
  <2>2. QED BY <1>2, <2>1 DEF TimersInv, FiresInOrder, Before
<1>10. HostBacked'
  BY <1>2, <1>3, <1>4 DEF TimersInv, HostBacked
<1>11. QED BY <1>5, <1>6, <1>7, <1>8, <1>9, <1>10 DEF TimersInv

LEMMA ConversionThrowsInv ==
    ASSUME TimersInv, ConversionThrows, UNCHANGED clockVars
    PROVE  TimersInv'
BY DEF ConversionThrows, Innermost, clockVars, TimersInv, TimersTypeOK, ClockTypeOK, Minted,
       ConvertedApart, OnePicked, OnePeriod, FiredWasDue, FiresInOrder, HostBacked, Before,
       Handles

LEMMA ClearTimerInv ==
    ASSUME TimersInv, NEW handle \in 1..nextTimer - 1,
           ClearTimer(handle), UNCHANGED clockVars
    PROVE  TimersInv'
<1>1. /\ due = {} /\ due' = {}
      /\ callbacks' = {c \in callbacks : c.handle # handle}
      /\ timers' = {t \in timers : t.handle # handle}
      /\ early' = early \cup ({handle} \cap Handles(converting))
      /\ UNCHANGED <<nextTimer, converting, timerSeq, fired, now, deadline>>
  BY DEF ClearTimer, NativeTimerClear, clockVars
<1>2. \A c \in converting : c.handle = handle => c.handle \in early'
  BY <1>1 DEF Handles
<1>3. TimersTypeOK'
  BY <1>1 DEF TimersInv, TimersTypeOK, ClockTypeOK
<1>4. Minted' /\ OnePicked' /\ OnePeriod' /\ FiredWasDue'
  BY <1>1 DEF TimersInv, Minted, OnePicked, OnePeriod, FiredWasDue
<1>5. ConvertedApart'
  BY <1>1, <1>2 DEF TimersInv, ConvertedApart, Handles
<1>6. FiresInOrder'
  BY <1>1 DEF TimersInv, FiresInOrder, Before
<1>7. HostBacked'
  BY <1>1 DEF TimersInv, HostBacked
<1>8. QED BY <1>3, <1>4, <1>5, <1>6, <1>7 DEF TimersInv

----------------------------------------------------------------------------

LEMMA PickTimerInv ==
    ASSUME TimersInv, PickTimer, UNCHANGED clockVars
    PROVE  TimersInv'
<1>1. PICK t \in Earliest :
        /\ due' = {t}
        /\ timers' = (timers \ {t}) \cup Rescheduled(t)
  BY DEF PickTimer
<1>2. /\ due = {} /\ converting = {} /\ converting' = {}
      /\ UNCHANGED <<callbacks, nextTimer, timerSeq, fired, early, now, deadline>>
  BY DEF PickTimer, clockVars
<1>3. /\ t \in timers /\ t \in Timer
      /\ \A u \in timers \ {t} : Before(t, u)
  BY DEF Earliest, TimersInv, TimersTypeOK
<1>4. \A r \in Rescheduled(t) :
        /\ r \in Timer
        /\ Before(t, r)
        /\ r.handle = t.handle /\ r.seq = t.seq /\ r.period = t.period
        /\ t.period # {}
  BY <1>3, RescheduledLater
<1>5. /\ \A r, s \in Rescheduled(t) : r = s
      /\ t.period # {} => \E r \in Rescheduled(t) : TRUE
  <2> DEFINE later(p) ==
        [t EXCEPT !.at = t.at + (IF p > MinPeriod THEN p ELSE MinPeriod)]
  <2>1. \A p, q \in t.period : p = q
    BY <1>3 DEF TimersInv, OnePeriod
  <2>2. Rescheduled(t) = {later(p) : p \in t.period}
    BY DEF Rescheduled
  <2> HIDE DEF later
  <2>3. QED BY <2>1, <2>2
<1>6. TimersTypeOK'
  BY <1>1, <1>2, <1>3, <1>4 DEF TimersInv, TimersTypeOK, ClockTypeOK
<1>7. Minted'
  BY <1>1, <1>2, <1>3, <1>4, <1>5 DEF TimersInv, Minted
<1>a. ConvertedApart'
  BY <1>2 DEF ConvertedApart
<1>8. OnePicked'
  BY <1>1, <1>2, <1>3, <1>4, <1>5 DEF TimersInv, Minted, OnePicked, Handles
<1>9. OnePeriod' /\ FiredWasDue'
  BY <1>1, <1>2, <1>3, <1>4 DEF TimersInv, OnePeriod, FiredWasDue
<1>10. FiresInOrder'
  <2> SUFFICES ASSUME NEW f \in fired, NEW u \in timers' \cup due'
               PROVE  Before(f, u)
    BY <1>2 DEF FiresInOrder, Before
  <2>1. Before(f, t) /\ f \in Timer
    BY <1>3 DEF TimersInv, TimersTypeOK, FiresInOrder
  <2>2. CASE u \in Rescheduled(t)
    BY <2>1, <2>2, <1>3, <1>4, BeforeTransitive
  <2>3. CASE u \notin Rescheduled(t)
    BY <2>1, <2>3, <1>1, <1>3 DEF TimersInv, FiresInOrder
  <2>4. QED BY <2>2, <2>3
<1>11. HostBacked'
  BY <1>1, <1>2, <1>3, <1>4 DEF TimersInv, HostBacked
<1>12. QED BY <1>6, <1>7, <1>a, <1>8, <1>9, <1>10, <1>11 DEF TimersInv

LEMMA GiveUpInv ==
    ASSUME TimersInv, GiveUp, UNCHANGED clockVars
    PROVE  TimersInv'
BY DEF GiveUp, clockVars, TimersInv, TimersTypeOK, ClockTypeOK, Minted, ConvertedApart, OnePicked,
       OnePeriod, FiredWasDue, FiresInOrder, HostBacked, Before, Handles

LEMMA FireTimerInv ==
    ASSUME TimersInv, FireTimer, UNCHANGED clockVars
    PROVE  TimersInv'
<1>1. PICK d \in due :
        /\ d.at <= now
        /\ callbacks' = {c \in callbacks : c.handle # d.handle \/ c.repeating}
  BY DEF FireTimer
<1>2. /\ due = {d} /\ due' = {} /\ fired' = {d}
      /\ UNCHANGED <<nextTimer, converting, timers, timerSeq, early, now, deadline>>
  BY <1>1 DEF FireTimer, clockVars, TimersInv, OnePicked
<1>3. TimersTypeOK'
  BY <1>1, <1>2 DEF TimersInv, TimersTypeOK, ClockTypeOK
<1>4. Minted' /\ OnePicked' /\ OnePeriod'
  BY <1>1, <1>2 DEF TimersInv, Minted, OnePicked, OnePeriod
<1>a. ConvertedApart'
  BY <1>2 DEF TimersInv, ConvertedApart
<1>5. FiredWasDue' /\ FiresInOrder'
  BY <1>1, <1>2 DEF TimersInv, Minted, OnePicked, FiredWasDue, FiresInOrder, Before
<1>6. HostBacked'
  BY <1>1, <1>2 DEF TimersInv, OnePicked, HostBacked
<1>7. QED BY <1>3, <1>4, <1>a, <1>5, <1>6 DEF TimersInv

LEMMA AbandonTimerInv ==
    ASSUME TimersInv, AbandonTimer, UNCHANGED clockVars
    PROVE  TimersInv'
BY DEF AbandonTimer, clockVars, TimersInv, TimersTypeOK, ClockTypeOK, Minted, ConvertedApart, OnePicked,
       OnePeriod, FiredWasDue, FiresInOrder, HostBacked, Before, Handles

\* Nothing depends on how far the clock moves, as long as it is forward.
LEMMA ClockForwardInv ==
    ASSUME TimersInv, UNCHANGED timerVars,
           now' \in Nat, deadline' \subseteq Nat, now <= now'
    PROVE  TimersInv'
<1>1. FiredWasDue'
  BY DEF TimersInv, TimersTypeOK, ClockTypeOK, FiredWasDue, Timer, timerVars
<1>2. QED
  BY <1>1 DEF timerVars, TimersInv, TimersTypeOK, ClockTypeOK, Minted, ConvertedApart, OnePicked,
       OnePeriod, FiresInOrder, HostBacked, Before, Handles

LEMMA ClockStepForward ==
    ASSUME ClockTypeOK, NEW until, StartDrain \/ Tick(until)
    PROVE  now' \in Nat /\ deadline' \subseteq Nat /\ now <= now'
<1>1. CASE StartDrain
  BY <1>1, ClockAssumption DEF StartDrain, ClockTypeOK
<1>2. CASE Tick(until)
  BY <1>2 DEF Tick, ClockTypeOK
<1>3. QED BY <1>1, <1>2

LEMMA StutterInv == TimersInv /\ UNCHANGED allVars => TimersInv'
BY DEF allVars, clockVars, timerVars, TimersInv, TimersTypeOK, ClockTypeOK, Minted,
       ConvertedApart, OnePicked, OnePeriod, FiredWasDue, FiresInOrder, HostBacked, Before, Handles

----------------------------------------------------------------------------

LEMMA TimersNextInv == TimersInv /\ [TimersNext]_allVars => TimersInv'
<1> SUFFICES ASSUME TimersInv, [TimersNext]_allVars PROVE TimersInv'
  OBVIOUS
<1>1. CASE GuestTimerStep /\ UNCHANGED clockVars
  BY <1>1, SetTimerInv, BeginConversionInv, EndConversionInv, ConversionThrowsInv, ClearTimerInv
     DEF GuestTimerStep
<1>2. CASE HostTimerStep /\ UNCHANGED clockVars
  BY <1>2, PickTimerInv, GiveUpInv, FireTimerInv DEF HostTimerStep
<1>3. CASE AbandonTimer /\ UNCHANGED clockVars
  BY <1>3, AbandonTimerInv
<1>4. CASE (StartDrain \/ Tick({t.at : t \in due})) /\ UNCHANGED timerVars
  <2>1. ClockTypeOK
    BY DEF TimersInv, TimersTypeOK
  <2>2. QED BY <1>4, <2>1, ClockStepForward, ClockForwardInv
<1>5. CASE UNCHANGED allVars
  BY <1>5, StutterInv
<1>6. QED BY <1>1, <1>2, <1>3, <1>4, <1>5 DEF TimersNext

\* The inductive invariant of the timers holds of every behaviour.
THEOREM TimersInvariant == TimersSpec => []TimersInv
<1>1. TimersInit => TimersInv
  BY TimersInitInv
<1>2. TimersInv /\ [TimersNext]_<<clockVars, timerVars>> => TimersInv'
  BY TimersNextInv DEF allVars
<1>3. QED BY <1>1, <1>2, PTL DEF TimersSpec

\* Every variable of the timers keeps its type.
THEOREM TimersTypeCorrect == TimersSpec => []TimersTypeOK
<1>1. TimersInv => TimersTypeOK
  BY DEF TimersInv
<1>2. QED BY <1>1, TimersInvariant, PTL

\* Callbacks run in the order (due time, order of setting).
THEOREM TimersFireInOrder == TimersSpec => []FiresInOrder
<1>1. TimersInv => FiresInOrder
  BY DEF TimersInv
<1>2. QED BY <1>1, TimersInvariant, PTL

\* A timer the host would fire has its callback, unless it was cleared inside of
\* its own Number(delay); and a callback that was cleared so is gone for good.
THEOREM TimersHostBacked == TimersSpec => []HostBacked
<1>1. TimersInv => HostBacked
  BY DEF TimersInv
<1>2. QED BY <1>1, TimersInvariant, PTL

----------------------------------------------------------------------------

\* A callback loses its host timer only when its delay throws, the drain runs
\* out of time, or the embedder drops the drain that waits for it.
THEOREM TimersStranded == TimersSpec => StrandedOnlyByFailure
<1> DEFINE Lost(c) ==
      \/ c \in Innermost /\ timers' = timers
      \/ timers' = {} /\ \E t \in timers : Beyond(t.at)
      \/ \E d \in due : d.handle = c.handle /\ fired' = fired
<1>1. ASSUME TimersInv, [TimersNext]_allVars, NEW c \in Stranded', c \notin Stranded
      PROVE  Lost(c)
  <2>1. c \in callbacks' /\ c.handle \notin Handles(timers' \cup due' \cup converting')
    BY <1>1 DEF Stranded, Handles
  <2>2. c \in callbacks => c.handle \in Handles(timers \cup due \cup converting)
    BY <1>1 DEF Stranded
  <2>3. ASSUME NEW delay \in Delays, NEW repeating \in Repeats, SetTimer(delay, repeating)
        PROVE  Lost(c)
    <3> DEFINE new == [handle |-> nextTimer, at |-> now + delay,
                       period |-> IF repeating THEN {delay} ELSE {}, seq |-> timerSeq]
    <3>1. /\ callbacks' = callbacks \cup {Entry(repeating)} /\ timers' = timers \cup {new}
          /\ due' = due /\ converting' = converting
      BY <2>3 DEF SetTimer, MintHandle, NativeTimerStart
    <3>2. new.handle = nextTimer /\ Entry(repeating).handle = nextTimer
      BY DEF Entry
    <3> HIDE DEF new
    <3>3. CASE c = Entry(repeating)
      BY <2>1, <3>1, <3>2, <3>3 DEF Handles
    <3>4. CASE c \in callbacks
      BY <2>1, <2>2, <3>1, <3>4 DEF Handles
    <3>5. QED BY <2>1, <3>1, <3>3, <3>4
  <2>4. ASSUME NEW repeating \in Repeats, BeginConversion(repeating)
        PROVE  Lost(c)
    BY <2>1, <2>2, <2>4 DEF BeginConversion, MintHandle, Entry, Handles
  <2>a. ASSUME NEW delay \in Delays, EndConversion(delay)
        PROVE  Lost(c)
    <3>1. PICK e \in Innermost :
            /\ converting' = converting \ {e}
            /\ NativeTimerStart(e.handle, delay, e.repeating)
      BY <2>a DEF EndConversion
    <3>2. callbacks' = callbacks /\ due' = due
      BY <2>a DEF EndConversion
    <3> DEFINE new == [handle |-> e.handle, at |-> now + delay,
                       period |-> IF e.repeating THEN {delay} ELSE {}, seq |-> timerSeq]
    <3>3. timers' = timers \cup {new} /\ new.handle = e.handle
      BY <3>1 DEF NativeTimerStart
    <3> HIDE DEF new
    <3>4. QED BY <2>1, <2>2, <3>1, <3>2, <3>3 DEF Handles
  <2>b. CASE ConversionThrows
    <3>1. PICK e \in Innermost : converting' = converting \ {e}
      BY <2>b DEF ConversionThrows
    <3>2. /\ callbacks' = callbacks /\ timers' = timers /\ due' = due
          /\ c \in callbacks /\ c.handle = e.handle
      BY <2>1, <2>2, <2>b, <3>1 DEF ConversionThrows, Handles
    <3>3. e \in callbacks
      BY <1>1, <3>1, <3>2 DEF Innermost, TimersInv, ConvertedApart, HostBacked
    <3>4. c = e
      BY <1>1, <3>2, <3>3 DEF TimersInv, Minted
    <3>5. QED BY <3>1, <3>2, <3>4
  <2>5. ASSUME NEW handle \in 1..nextTimer - 1, ClearTimer(handle)
        PROVE  Lost(c)
    BY <2>1, <2>2, <2>5 DEF ClearTimer, NativeTimerClear, Handles
  <2>6. CASE PickTimer
    <3>1. PICK t \in Earliest :
            /\ due' = {t}
            /\ timers' = (timers \ {t}) \cup Rescheduled(t)
      BY <2>6 DEF PickTimer
    <3>2. due = {} /\ callbacks' = callbacks
      BY <2>6 DEF PickTimer
    <3>a. converting' = converting
      BY <2>6 DEF PickTimer
    <3>3. QED BY <2>1, <2>2, <3>1, <3>2, <3>a DEF Handles
  <2>7. CASE GiveUp
    BY <2>1, <2>2, <2>7 DEF GiveUp, Earliest
  <2>8. CASE FireTimer
    <3>1. PICK d \in due :
            callbacks' = {e \in callbacks : e.handle # d.handle \/ e.repeating}
      BY <2>8 DEF FireTimer
    <3>2. due = {d} /\ timers' = timers /\ converting' = converting
      BY <1>1, <2>8, <3>1 DEF FireTimer, TimersInv, OnePicked
    <3>3. c.handle = d.handle /\ c.repeating /\ c \in callbacks
      BY <2>1, <2>2, <3>1, <3>2 DEF Handles
    <3>4. [handle |-> d.handle, repeating |-> d.period # {}] \in callbacks
      BY <1>1, <3>1, <3>3 DEF TimersInv, HostBacked
    <3>5. d.period # {}
      <4> DEFINE e == [handle |-> d.handle, repeating |-> d.period # {}]
      <4>1. c = e
        BY <1>1, <3>3, <3>4 DEF TimersInv, Minted
      <4>2. e.repeating = (d.period # {})
        OBVIOUS
      <4>3. c.repeating
        BY <3>3
      <4>4. QED BY <4>1, <4>2, <4>3
    <3>6. d.handle \in Handles(timers')
      BY <1>1, <3>2, <3>5 DEF TimersInv, OnePicked
    <3>7. QED BY <2>1, <3>3, <3>6 DEF Handles
  <2>9. CASE AbandonTimer
    BY <2>1, <2>2, <2>9 DEF AbandonTimer, Handles
  <2>10. CASE UNCHANGED timerVars
    BY <2>1, <2>2, <2>10 DEF timerVars
  <2>11. QED
    BY <1>1, <2>3, <2>4, <2>a, <2>b, <2>5, <2>6, <2>7, <2>8, <2>9, <2>10
       DEF TimersNext, GuestTimerStep, HostTimerStep, allVars
<1>2. TimersInv /\ [TimersNext]_<<clockVars, timerVars>>
        => [\A c \in Stranded' \ Stranded :
               \/ c \in Innermost /\ timers' = timers
               \/ timers' = {} /\ \E t \in timers : Beyond(t.at)
               \/ \E d \in due : d.handle = c.handle /\ fired' = fired]_<<clockVars, timerVars>>
  BY <1>1 DEF allVars
<1>3. QED
  BY <1>2, TimersInvariant, PTL DEF TimersSpec, StrandedOnlyByFailure

----------------------------------------------------------------------------
(* Bindings.                                                               *)

\* Ids are minted by a counter, and a call is in one place.
BindingsInv ==
    /\ BindingsTypeOK
    /\ \A id \in pending : id < nextCall
    /\ \A c, d \in inflight : c = d
    /\ CallsBacked

\* ToSet by index.
LEMMA ToSetByIndex ==
    ASSUME NEW s \in Seq(Nat), NEW id
    PROVE  id \in ToSet(s) <=> \E i \in 1..Len(s) : s[i] = id
BY DEF ToSet

\* Popping the stack takes its last element off and leaves the others.
LEMMA PopSplits ==
    ASSUME NEW s \in Seq(Nat), s # <<>>
    PROVE  /\ Front(s) \in Seq(Nat)
           /\ Last(s) \in Nat
           /\ Len(Front(s)) = Len(s) - 1
           /\ \A i \in 1..Len(s) - 1 : Front(s)[i] = s[i]
           /\ Last(s) = s[Len(s)]
           /\ ToSet(s) = ToSet(Front(s)) \cup {Last(s)}
<1>1. PICK n \in Nat : n = Len(s) /\ n > 0
  OBVIOUS
<1>2. 1 \in Int /\ n - 1 \in Int /\ \A i \in 1..n - 1 : s[i] \in Nat
  BY <1>1
<1>3. /\ SubSeq(s, 1, n - 1) \in Seq(Nat)
      /\ Len(SubSeq(s, 1, n - 1)) = IF 1 <= n - 1 THEN (n - 1) - 1 + 1 ELSE 0
      /\ \A i \in 1..(n - 1) - 1 + 1 : SubSeq(s, 1, n - 1)[i] = s[1 + i - 1]
  BY <1>2, SubSeqProperties
<1>4. Front(s) = SubSeq(s, 1, n - 1) /\ Last(s) = s[n]
  BY <1>1 DEF Front, Last
<1>5. /\ Front(s) \in Seq(Nat) /\ Len(Front(s)) = n - 1
      /\ \A i \in 1..n - 1 : Front(s)[i] = s[i]
  BY <1>1, <1>3, <1>4
<1>6. \A id : id \in ToSet(s) <=> id \in ToSet(Front(s)) \/ id = s[n]
  <2> TAKE id
  <2>1. id \in ToSet(s) <=> \E i \in 1..n : s[i] = id
    BY <1>1, ToSetByIndex
  <2>2. id \in ToSet(Front(s)) <=> \E i \in 1..n - 1 : Front(s)[i] = id
    BY <1>5, ToSetByIndex
  <2>3. \A i : i \in 1..n <=> i \in 1..n - 1 \/ i = n
    BY <1>1
  <2>4. (\E i \in 1..n : s[i] = id) <=> (\E i \in 1..n - 1 : s[i] = id) \/ s[n] = id
    BY <2>3
  <2>5. (\E i \in 1..n - 1 : s[i] = id) <=> (\E i \in 1..n - 1 : Front(s)[i] = id)
    BY <1>5
  <2>6. Len(Front(s)) = n - 1
    BY <1>5
  <2>7. QED BY <2>1, <2>2, <2>4, <2>5, <2>6
<1>7. QED BY <1>1, <1>4, <1>5, <1>6

LEMMA BindingsInitInv == BindingsInit => BindingsInv
BY ClockAssumption
   DEF BindingsInit, ClockInit, BindingsInv, BindingsTypeOK, ClockTypeOK, CallsBacked,
       HostCalls, ToSet

LEMMA CallInv ==
    ASSUME BindingsInv, Call, UNCHANGED clockVars
    PROVE  BindingsInv'
<1>1. /\ bindings' = Append(bindings, nextCall)
      /\ pending' = pending \cup {nextCall}
      /\ nextCall' = nextCall + 1
      /\ inflight = {} /\ inflight' = {}
      /\ now' = now /\ deadline' = deadline
  BY DEF Call, MintCall, clockVars
<1>2. BindingsTypeOK'
  BY <1>1 DEF BindingsInv, BindingsTypeOK, ClockTypeOK
<1>3. \A i \in 1..Len(bindings) : bindings[i] \in pending /\ bindings[i] < nextCall
  BY DEF BindingsInv, BindingsTypeOK, CallsBacked, HostCalls, ToSet
<1>4. CallsBacked'
  BY <1>1, <1>3
     DEF BindingsInv, BindingsTypeOK, CallsBacked, HostCalls, ToSet
<1>5. QED BY <1>1, <1>2, <1>4 DEF BindingsInv, BindingsTypeOK

LEMMA CallThrowsInv ==
    ASSUME BindingsInv, CallThrows, UNCHANGED clockVars
    PROVE  BindingsInv'
BY DEF CallThrows, MintCall, clockVars, BindingsInv, BindingsTypeOK, ClockTypeOK,
       CallsBacked, HostCalls, ToSet

LEMMA PopBindingInv ==
    ASSUME BindingsInv, PopBinding, UNCHANGED clockVars
    PROVE  BindingsInv'
<1>1. /\ bindings \in Seq(Nat) /\ bindings # <<>>
      /\ inflight = {} /\ inflight' = {Last(bindings)}
      /\ bindings' = Front(bindings)
      /\ UNCHANGED <<pending, nextCall, now, deadline>>
  BY DEF PopBinding, clockVars, BindingsInv, BindingsTypeOK
<1>2. PICK n \in Nat : n = Len(bindings) /\ n > 0
  BY <1>1
<1>3. /\ bindings' \in Seq(Nat)
      /\ Last(bindings) \in Nat
      /\ Len(bindings') = n - 1
      /\ \A i \in 1..n - 1 : bindings'[i] = bindings[i]
      /\ Last(bindings) = bindings[n]
      /\ ToSet(bindings) = ToSet(bindings') \cup inflight'
  BY <1>1, <1>2, PopSplits
<1>4. BindingsTypeOK'
  <2>1. inflight' \subseteq pending
    BY <1>3 DEF BindingsInv, CallsBacked, HostCalls
  <2>2. QED BY <1>1, <1>3, <2>1 DEF BindingsInv, BindingsTypeOK, ClockTypeOK
<1>5. \A i, j \in 1..n : bindings[i] = bindings[j] => i = j
  BY <1>2 DEF BindingsInv, CallsBacked
<1>6. \A i, j \in 1..Len(bindings') : bindings'[i] = bindings'[j] => i = j
  BY <1>2, <1>3, <1>5
<1>7. Last(bindings) \notin ToSet(bindings')
  BY <1>2, <1>3, <1>5, ToSetByIndex
<1>8. CallsBacked'
  BY <1>1, <1>3, <1>6, <1>7 DEF BindingsInv, CallsBacked, HostCalls
<1>9. QED BY <1>1, <1>4, <1>8 DEF BindingsInv

LEMMA SettleBindingInv ==
    ASSUME BindingsInv, SettleBinding, UNCHANGED clockVars
    PROVE  BindingsInv'
<1>1. /\ pending' = pending \ inflight
      /\ inflight' = {}
      /\ UNCHANGED <<nextCall, bindings, now, deadline>>
  BY DEF SettleBinding, clockVars
<1>2. BindingsTypeOK'
  BY <1>1 DEF BindingsInv, BindingsTypeOK, ClockTypeOK
<1>3. CallsBacked'
  BY <1>1 DEF BindingsInv, CallsBacked, HostCalls
<1>4. QED BY <1>1, <1>2, <1>3 DEF BindingsInv

\* The future of the call in flight is dropped.
LEMMA DropBindingInv ==
    ASSUME BindingsInv, TimeoutBinding \/ AbandonBinding, UNCHANGED clockVars
    PROVE  BindingsInv'
<1>1. /\ inflight' = {}
      /\ UNCHANGED <<pending, nextCall, bindings, now, deadline>>
  BY DEF TimeoutBinding, AbandonBinding, clockVars
<1>2. BindingsTypeOK'
  BY <1>1 DEF BindingsInv, BindingsTypeOK, ClockTypeOK
<1>3. CallsBacked'
  BY <1>1 DEF BindingsInv, CallsBacked, HostCalls
<1>4. QED BY <1>1, <1>2, <1>3 DEF BindingsInv

LEMMA CallsClockInv ==
    ASSUME BindingsInv, UNCHANGED bindingVars, now' \in Nat, deadline' \subseteq Nat
    PROVE  BindingsInv'
BY DEF bindingVars, BindingsInv, BindingsTypeOK, ClockTypeOK, CallsBacked, HostCalls, ToSet

----------------------------------------------------------------------------

LEMMA BindingsNextInv == BindingsInv /\ [BindingsNext]_<<clockVars, bindingVars>> => BindingsInv'
<1> SUFFICES ASSUME BindingsInv, [BindingsNext]_<<clockVars, bindingVars>>
             PROVE  BindingsInv'
  OBVIOUS
<1>1. CASE GuestBindingStep /\ UNCHANGED clockVars
  BY <1>1, CallInv, CallThrowsInv DEF GuestBindingStep
<1>2. CASE (HostBindingStep \/ AbandonBinding) /\ UNCHANGED clockVars
  BY <1>2, PopBindingInv, SettleBindingInv, DropBindingInv DEF HostBindingStep
<1>3. CASE (StartDrain \/ Tick(AnswerDue)) /\ UNCHANGED bindingVars
  <2>1. now' \in Nat /\ deadline' \subseteq Nat
    <3>1. now \in Nat /\ deadline \subseteq Nat
      BY DEF BindingsInv, BindingsTypeOK, ClockTypeOK
    <3>2. CASE StartDrain
      BY <3>1, <3>2, ClockAssumption DEF StartDrain
    <3>3. CASE Tick(AnswerDue)
      BY <3>1, <3>3 DEF Tick
    <3>4. QED BY <1>3, <3>2, <3>3
  <2>2. QED BY <1>3, <2>1, CallsClockInv
<1>4. CASE UNCHANGED <<clockVars, bindingVars>>
  <2>1. now' \in Nat /\ deadline' \subseteq Nat
    BY <1>4 DEF clockVars, BindingsInv, BindingsTypeOK, ClockTypeOK
  <2>2. QED BY <1>4, <2>1, CallsClockInv
<1>5. QED BY <1>1, <1>2, <1>3, <1>4 DEF BindingsNext

\* Each call the host holds is held once and still has its resolvers.
THEOREM BindingsCallsBacked == BindingsSpec => []CallsBacked
<1>1. BindingsInit => BindingsInv
  BY BindingsInitInv
<1>2. BindingsInv => CallsBacked
  BY DEF BindingsInv
<1>3. QED BY <1>1, <1>2, BindingsNextInv, PTL DEF BindingsSpec

\* Every variable of the calls keeps its type.
THEOREM BindingsTypeCorrect == BindingsSpec => []BindingsTypeOK
<1>1. BindingsInit => BindingsInv
  BY BindingsInitInv
<1>2. BindingsInv => BindingsTypeOK
  BY DEF BindingsInv
<1>3. QED BY <1>1, <1>2, BindingsNextInv, PTL DEF BindingsSpec

\* A call leaves the host's hands only after the drain took it up.
THEOREM CallsAreLostOneByOne == BindingsSpec => CallsLostOneByOne
<1>1. ASSUME BindingsInv, [BindingsNext]_<<clockVars, bindingVars>>
      PROVE  HostCalls \ HostCalls' \subseteq inflight
  <2>1. CASE Call
    <3>1. /\ bindings' = Append(bindings, nextCall) /\ inflight' = inflight
          /\ bindings \in Seq(Nat) /\ nextCall \in Nat
      BY <1>1, <2>1 DEF Call, BindingsInv, BindingsTypeOK
    <3>2. ToSet(bindings) \subseteq ToSet(bindings')
      BY <3>1 DEF ToSet
    <3>3. QED BY <3>1, <3>2 DEF HostCalls
  <2>2. CASE CallThrows
    BY <2>2 DEF CallThrows, HostCalls
  <2>3. CASE PopBinding
    <3>1. /\ bindings \in Seq(Nat) /\ bindings # <<>>
          /\ inflight' = {Last(bindings)} /\ bindings' = Front(bindings)
      BY <1>1, <2>3 DEF PopBinding, BindingsInv, BindingsTypeOK
    <3>2. ToSet(bindings) = ToSet(bindings') \cup inflight'
      BY <3>1, PopSplits
    <3>3. QED BY <3>2 DEF HostCalls
  <2>4. CASE SettleBinding \/ TimeoutBinding \/ AbandonBinding
    BY <2>4 DEF SettleBinding, TimeoutBinding, AbandonBinding, HostCalls
  <2>5. CASE UNCHANGED bindingVars
    BY <2>5 DEF bindingVars, HostCalls
  <2>6. QED
    BY <1>1, <2>1, <2>2, <2>3, <2>4, <2>5
       DEF BindingsNext, GuestBindingStep, HostBindingStep
<1>2. BindingsInit => BindingsInv
  BY BindingsInitInv
<1>3. BindingsInv /\ [BindingsNext]_<<clockVars, bindingVars>>
        => [HostCalls \ HostCalls' \subseteq inflight]_<<clockVars, bindingVars>>
  BY <1>1
<1>4. QED BY <1>2, <1>3, BindingsNextInv, PTL DEF BindingsSpec, CallsLostOneByOne

=============================================================================
