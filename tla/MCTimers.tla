------------------------------ MODULE MCTimers ------------------------------
(* Timers on a small instance: three handles, a budget of two ticks.      *)
EXTENDS Timers

MCBudget == {2}
MCDelays == {0, 1, 4}

=============================================================================
