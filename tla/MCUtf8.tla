------------------------------- MODULE MCUtf8 -------------------------------
(* TextDecoder on a small instance: bytes at the edges of the ranges UTF-8   *)
(* tells apart, and the three of the byte order mark.                       *)
EXTENDS TextDecoder

MCBytes == {65, 128, 143, 160, 187, 191, 194, 224, 237, 239, 244, 255}

\* One code point of each length, the mark and a lone surrogate.
MCPoints == {65, 2047, 2048, 65279, 55296, 1114111}

\* The bytes of the marks, of a surrogate of each kind, and a letter.
MCLegacyBytes == {65, 216, 220, 254, 255}

=============================================================================
