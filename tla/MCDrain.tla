------------------------------ MODULE MCDrain ------------------------------
(* Drain on a small instance.                                              *)
EXTENDS Drain

MCDelays == {0, 1, 3}

=============================================================================
