------------------------------- MODULE Timers -------------------------------
(***************************************************************************)
(* Guest timers, which live in two places: the callback stays in a Map of  *)
(* the platform script (bootstrap.js), the moment it is due in a Vec of    *)
(* the host (worker.rs).  The guest sets and clears timers while           *)
(* JavaScript runs; the drain picks the one due first, sleeps, and asks    *)
(* for its callback.  While the drain sleeps no JavaScript runs.           *)
(***************************************************************************)
EXTENDS Clock

CONSTANTS Delays,     \* delays a script asks for, 0 standing for NaN and negatives too
          Repeats,    \* {FALSE} for setTimeout alone, BOOLEAN for setInterval as well
          BadDelays,  \* whether scripts pass objects for a delay, which Number() asks
                      \* for their value: guest code, which may throw
          MinPeriod,  \* one millisecond, in units of the clock
          MaxTimers   \* bound: how many handles scripts mint

ASSUME TimersAssumption ==
    /\ Delays \subseteq Nat
    /\ Repeats \subseteq BOOLEAN
    /\ BadDelays \in BOOLEAN
    /\ MinPeriod \in Nat \ {0}
    /\ MaxTimers \in Nat

VARIABLES callbacks,  \* bootstrap.js `timers`: [handle, repeating] of each entry
          nextTimer,  \* bootstrap.js `nextTimer`
          converting, \* calls of schedule() inside Number(delay), one in the other
          timers,     \* HostSlots::timers
          timerSeq,   \* HostSlots::timer_seq
          due,        \* the timer next_timer() returned and the drain sleeps for
          fired,      \* history: the timer fired last, {} before the first
          early       \* history: handles cleared inside of their own Number(delay)

timerVars == <<callbacks, nextTimer, converting, timers, timerSeq, due, fired, early>>

Callback == [handle : Nat, repeating : BOOLEAN]
Timer == [handle : Nat, at : Nat, period : SUBSET Nat, seq : Nat]

TimersTypeOK ==
    /\ ClockTypeOK
    /\ callbacks \subseteq Callback
    /\ nextTimer \in Nat
    /\ converting \subseteq Callback
    /\ timers \subseteq Timer
    /\ timerSeq \in Nat
    /\ due \subseteq Timer
    /\ fired \subseteq Timer
    /\ early \subseteq 1..nextTimer - 1

TimersInit ==
    /\ ClockInit
    /\ callbacks = {}
    /\ nextTimer = 1
    /\ converting = {}
    /\ timers = {}
    /\ timerSeq = 0
    /\ due = {}
    /\ fired = {}
    /\ early = {}

Handles(S) == {t.handle : t \in S}

----------------------------------------------------------------------------
(* The guest's side: setTimeout, setInterval, clearTimeout, clearInterval. *)

\* The entry a call of schedule() makes in the Map.
Entry(repeating) == [handle |-> nextTimer, repeating |-> repeating]

\* schedule() up to Number(delay): the Map entry comes first.
MintHandle(repeating) ==
    /\ due = {}
    /\ nextTimer <= MaxTimers
    /\ callbacks' = callbacks \cup {Entry(repeating)}
    /\ nextTimer' = nextTimer + 1

\* Mutant of NativeTimerStart: a negative delay, which 0 stands for, is kept.
NativeTimerStartSigned(handle, delay, repeating) ==
    /\ timers' = timers \cup {[handle |-> handle,
                               at     |-> IF delay = 0 THEN now - 1 ELSE now + delay,
                               period |-> IF repeating THEN {delay} ELSE {},
                               seq    |-> timerSeq]}
    /\ timerSeq' = timerSeq + 1

NativeTimerStart(handle, delay, repeating) ==
    /\ timers' = timers \cup {[handle |-> handle,
                               at     |-> now + delay,
                               period |-> IF repeating THEN {delay} ELSE {},
                               seq    |-> timerSeq]}
    /\ timerSeq' = timerSeq + 1

\* A delay that is a number, a string or nothing: no guest code runs in between.
SetTimer(delay, repeating) ==
    /\ MintHandle(repeating)
    /\ NativeTimerStart(nextTimer, delay, repeating)
    /\ UNCHANGED <<converting, due, fired, early>>

\* A delay that is an object: its valueOf() runs, and may use timers itself.
BeginConversion(repeating) ==
    /\ BadDelays
    /\ MintHandle(repeating)
    /\ converting' = converting \cup {Entry(repeating)}
    /\ UNCHANGED <<timers, timerSeq, due, fired, early>>

\* Calls nest, so the latest handle is the first to be done with.
Innermost == {c \in converting : \A d \in converting : d.handle <= c.handle}

\* Number(delay) returned: the host is told, whatever became of the entry.
EndConversion(delay) ==
    \E c \in Innermost :
        /\ converting' = converting \ {c}
        /\ NativeTimerStart(c.handle, delay, c.repeating)
        /\ UNCHANGED <<callbacks, nextTimer, due, fired, early>>

\* Number(delay) threw: the host never hears of the handle.
ConversionThrows ==
    \E c \in Innermost :
        /\ converting' = converting \ {c}
        /\ UNCHANGED <<callbacks, nextTimer, timers, timerSeq, due, fired, early>>

\* Mutant of NativeTimerClear: only the Map forgets the handle.
NativeTimerClearNothing(handle) == timers' = timers

NativeTimerClear(handle) ==
    timers' = {t \in timers : t.handle # handle}

\* cancel(): a handle nobody minted changes nothing.
ClearTimer(handle) ==
    /\ due = {}
    /\ callbacks' = {c \in callbacks : c.handle # handle}
    /\ NativeTimerClear(handle)
    /\ early' = early \cup ({handle} \cap Handles(converting))
    /\ UNCHANGED <<nextTimer, converting, timerSeq, due, fired>>

----------------------------------------------------------------------------
(* The host's side: the timer half of drain().                             *)

\* The key of next_timer(): due first, then as they were set.
Before(s, t) == s.at < t.at \/ (s.at = t.at /\ s.seq < t.seq)

Earliest == {t \in timers : \A u \in timers \ {t} : Before(t, u)}

\* Mutant of Rescheduled: an interval may repeat after no time at all.
RescheduledAtOnce(t) == {[t EXCEPT !.at = t.at + p] : p \in t.period}

Rescheduled(t) ==
    {[t EXCEPT !.at = t.at + (IF p > MinPeriod THEN p ELSE MinPeriod)] : p \in t.period}

\* Mutant of PickTimer: an interval is removed like a one-shot.
PickTimerOnce ==
    /\ due = {} /\ converting = {}
    /\ \E t \in Earliest : ~Beyond(t.at) /\ due' = {t} /\ timers' = timers \ {t}
    /\ UNCHANGED <<callbacks, nextTimer, converting, timerSeq, fired, early>>

\* next_timer(): an interval is rescheduled, a one-shot removed, before either
\* is waited for.
PickTimer ==
    /\ due = {} /\ converting = {}
    /\ \E t \in Earliest :
         /\ ~Beyond(t.at)
         /\ due' = {t}
         /\ timers' = (timers \ {t}) \cup Rescheduled(t)
    /\ UNCHANGED <<callbacks, nextTimer, converting, timerSeq, fired, early>>

\* The earliest timer is due after the deadline: the host forgets every timer.
\* The Map of callbacks is not told.
GiveUp ==
    /\ due = {} /\ converting = {}
    /\ \E t \in Earliest : Beyond(t.at)
    /\ timers' = {}
    /\ UNCHANGED <<callbacks, nextTimer, converting, timerSeq, due, fired, early>>

\* The sleep is over; __ow_run_timer drops a one-shot's entry, then calls it.
FireTimer ==
    /\ \E d \in due :
         /\ d.at <= now
         /\ callbacks' = {c \in callbacks : c.handle # d.handle \/ c.repeating}
    /\ fired' = due
    /\ due' = {}
    /\ UNCHANGED <<nextTimer, converting, timers, timerSeq, early>>

\* The embedder drops the future of exec() during the sleep.
AbandonTimer ==
    /\ due # {}
    /\ due' = {}
    /\ UNCHANGED <<callbacks, nextTimer, converting, timers, timerSeq, fired, early>>

----------------------------------------------------------------------------

GuestTimerStep ==
    \/ \E delay \in Delays, repeating \in Repeats : SetTimer(delay, repeating)
    \/ \E repeating \in Repeats : BeginConversion(repeating)
    \/ \E delay \in Delays : EndConversion(delay)
    \/ ConversionThrows
    \/ \E handle \in 1..nextTimer - 1 : ClearTimer(handle)

HostTimerStep == PickTimer \/ GiveUp \/ FireTimer

TimersNext ==
    \/ (GuestTimerStep \/ HostTimerStep \/ AbandonTimer) /\ UNCHANGED clockVars
    \/ due = {} /\ converting = {} /\ StartDrain /\ UNCHANGED timerVars
    \/ Tick({t.at : t \in due}) /\ UNCHANGED timerVars

TimersSpec == TimersInit /\ [][TimersNext]_<<clockVars, timerVars>>

----------------------------------------------------------------------------
(* Properties.                                                             *)

\* Callbacks run in the order (due time, order of setting): whatever is armed
\* or picked comes strictly after what fired last.  It relies on an interval
\* moving by a millisecond at least, and on timers set later not being due
\* before a timer that has run.
FiresInOrder ==
    \A f \in fired : \A t \in timers \cup due : Before(f, t)

\* The two halves agree: a timer the host would fire has its callback in the
\* Map, repeating exactly when the host reschedules it.  A timer that was
\* cleared, or a one-shot that ran, is therefore not armed any more.  The one
\* exception is a handle that was cleared while schedule() was in its
\* Number(delay), before the host was told of it (bootstrap.js:93-94): the host
\* arms it all the same, but its callback is gone and never runs.
HostBacked ==
    /\ \A t \in timers \cup due :
          \/ [handle |-> t.handle, repeating |-> t.period # {}] \in callbacks
          \/ t.handle \in early
    /\ \A c \in callbacks : c.handle \notin early

Stranded == {c \in callbacks : c.handle \notin Handles(timers \cup due \cup converting)}

\* A callback loses its host timer in three ways only: its delay threw, the
\* drain ran out of time, or the embedder dropped the drain that waited for
\* it.  No interval stops by itself and no one-shot is forgotten.
StrandedOnlyByFailure ==
    [][\A c \in Stranded' \ Stranded :
          \/ c \in Innermost /\ timers' = timers
          \/ timers' = {} /\ \E t \in timers : Beyond(t.at)
          \/ \E d \in due : d.handle = c.handle /\ fired' = fired]_<<clockVars, timerVars>>

=============================================================================
