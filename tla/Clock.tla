------------------------------- MODULE Clock -------------------------------
(***************************************************************************)
(* The host's monotonic clock and the wall-clock deadline of one drain.    *)
(*                                                                         *)
(* Rust's Option<T> is a set of at most one element throughout these       *)
(* modules: {} is None, {x} is Some(x), and `is_some_and(p)` is            *)
(* \E x \in option : p(x).                                                 *)
(***************************************************************************)
EXTENDS Naturals

CONSTANTS Budget,   \* Worker::wall_clock: {} when the limit is 0, else {limit}
          Idle,     \* bound: moments at which time passes though nobody waits for it
          LastDrain \* bound: no drain starts after this moment

ASSUME ClockAssumption ==
    /\ Budget \subseteq Nat \ {0}
    /\ \A b, c \in Budget : b = c
    /\ Idle \subseteq Nat
    /\ LastDrain \in Nat

VARIABLES now,      \* Instant::now()
          deadline  \* the drain's local `deadline`

clockVars == <<now, deadline>>

ClockTypeOK ==
    /\ now \in Nat
    /\ deadline \subseteq Nat

ClockInit ==
    /\ now = 0
    /\ deadline = Budget

----------------------------------------------------------------------------

\* The first statement of drain(): every drain has a budget of its own.
StartDrain ==
    /\ now <= LastDrain
    /\ deadline' = {now + b : b \in Budget}
    /\ UNCHANGED now

\* A wait until `at` would outlast the drain.
Beyond(at) == \E d \in deadline : at > d

\* Nothing is left of the budget: `timeout` elapses unless the answer is there.
Elapsed == \E d \in deadline : d <= now

\* Time passes; at a moment that is not in Idle, only for whom waits until a
\* later one of `until`.
Tick(until) ==
    /\ now \in Idle \/ \E t \in until : now < t
    /\ now' = now + 1
    /\ UNCHANGED deadline

=============================================================================
