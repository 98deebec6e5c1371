------------------------------ MODULE MCCodecs ------------------------------
(* Instances of Codecs for TLC.                                              *)
EXTENDS Codecs

\* A format the host has, and one it does not.
AnyFormat == {"gzip", "brotli"}

=============================================================================
