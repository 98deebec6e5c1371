------------------------------- MODULE MCKeys -------------------------------
(* Keys on a small instance.                                                 *)
EXTENDS Keys, TLC

\* A hash whose digest every curve takes, and one that P-384 does not.
MCHashes == {"SHA-1", "SHA-256"}

\* One buffer is as good as the other.
MCSymmetry == Permutations(Data)

=============================================================================
