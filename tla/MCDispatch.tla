----------------------------- MODULE MCDispatch -----------------------------
(* Dispatch on a small instance.                                            *)
EXTENDS Dispatch

CONSTANTS p1, p2, p3

MCPromises == {p1, p2, p3}

=============================================================================
