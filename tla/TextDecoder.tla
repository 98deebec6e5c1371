---------------------------- MODULE TextDecoder ----------------------------
(***************************************************************************)
(* TextDecoder: Utf8 for UTF-8, and for other labels the host              *)
(* (encoding.rs), which decodes each chunk whole and keeps nothing between *)
(* two calls.  What encoding_rs knows of an encoding is taken from the     *)
(* Encoding Standard, for four of them: a single-byte encoding that maps   *)
(* every byte, one that does not, and both of UTF-16, those with a mark.   *)
(* The other multi-byte ones are left out, ISO-2022-JP among them, which   *)
(* carries a state from one character to the next.                         *)
(***************************************************************************)
EXTENDS Utf8

CONSTANTS LegacyBytes,  \* bytes a chunk for the host is made of
          MaxLegacy,    \* bound: bytes of one stream the host decodes
          MaxChunks     \* bound: its chunks

ASSUME TextDecoderAssumption ==
    /\ LegacyBytes \subseteq 0..255
    /\ MaxLegacy \in Nat
    /\ MaxChunks \in Nat

VARIABLES legacy,  \* #legacy: {} for UTF-8, or the encoding the label names
          chunks,  \* history: what the decoder was given, call by call
          texts    \* history: what each call returned, {} if it threw

decoderVars == <<vars, legacy, chunks, texts>>

Encodings == {"windows-1252", "windows-1253", "UTF-16LE", "UTF-16BE"}

----------------------------------------------------------------------------
(* The bytes go down as hexadecimal digits.                                *)

ToHex(bytes) == FlattenSeq([i \in DOMAIN bytes |-> <<bytes[i] \div 16, bytes[i] % 16>>])

FromHex(digits) ==
    IF Len(digits) % 2 = 1 THEN {}
    ELSE {[i \in 1..Len(digits) \div 2 |-> 16 * digits[2 * i - 1] + digits[2 * i]]}

----------------------------------------------------------------------------
(* encoding_rs: the pieces some bytes fall into, each a character with its *)
(* point, or malformed.  A byte of a single-byte encoding stands for       *)
(* itself here.                                                            *)

Unmapped(encoding) == IF encoding = "windows-1253" THEN {170, 210, 255} ELSE {}

Unit(encoding, first, second) ==
    IF encoding = "UTF-16LE" THEN first + 256 * second ELSE 256 * first + second

Highs == 55296..56319
Lows == 56320..57343

\* A character, a lone surrogate, or what the bytes end in the middle of.
First16(encoding, bytes) ==
    LET n == Len(bytes)
        unit == IF n < 2 THEN {} ELSE {Unit(encoding, bytes[1], bytes[2])}
        next == IF n < 4 THEN {} ELSE {Unit(encoding, bytes[3], bytes[4])}
    IN  CASE unit = {}          -> [size |-> n, point |-> {}]
          [] unit \subseteq Lows /\ unit # {} -> [size |-> 2, point |-> {}]
          [] unit \cap Highs # {} ->
                IF next \cap Lows # {}
                THEN [size |-> 4,
                      point |-> {65536 + 1024 * (u - 55296) + v - 56320 : u \in unit, v \in next}]
                ELSE [size |-> IF n = 3 THEN 3 ELSE 2, point |-> {}]
          [] OTHER -> [size |-> 2, point |-> unit]

First(encoding, bytes) ==
    IF encoding \in {"UTF-16LE", "UTF-16BE"} THEN First16(encoding, bytes)
    ELSE [size |-> 1, point |-> {bytes[1]} \ Unmapped(encoding)]

LegacyPieces(encoding, bytes) ==
    LET from[i \in 1..Len(bytes) + 1] ==
            IF i > Len(bytes) THEN <<>>
            ELSE LET piece == First(encoding, SubSeq(bytes, i, Len(bytes)))
                 IN  <<piece>> \o from[i + piece.size]
    IN  from[1]

IsMalformed(pieces) == \E i \in DOMAIN pieces : pieces[i].point = {}

Replaced(pieces) ==
    [i \in DOMAIN pieces |->
        IF pieces[i].point = {} THEN REPLACEMENT ELSE CHOOSE p \in pieces[i].point : TRUE]

----------------------------------------------------------------------------
(* native_encoding().                                                      *)

Mark(encoding) ==
    CASE encoding = "UTF-16LE" -> <<255, 254>>
      [] encoding = "UTF-16BE" -> <<254, 255>>
      [] OTHER                 -> <<>>

Marked(encoding, bytes) ==
    Mark(encoding) # <<>> /\ IsPrefix(Mark(encoding), bytes)

\* Mutant of Bare: the option is not looked at.
BareAlways(encoding, bytes) ==
    IF Marked(encoding, bytes) THEN SubSeq(bytes, 3, Len(bytes)) ELSE bytes

\* The bytes without the encoding's own mark at the front of them.
Bare(encoding, bytes) ==
    IF Marked(encoding, bytes) /\ ~ignoreBOM THEN SubSeq(bytes, 3, Len(bytes)) ELSE bytes

\* Mutant of NativeDecode: what a chunk ends in the middle of is left out.
NativeDecodeWhole(encoding, digits) ==
    {LET pieces == LegacyPieces(encoding, Bare(encoding, bytes))
         last == Len(pieces)
     IN  Replaced(IF last > 0 /\ pieces[last].point = {} THEN Front(pieces) ELSE pieces) :
        bytes \in {b \in FromHex(digits) :
                     ~(fatal /\ IsMalformed(LegacyPieces(encoding, Bare(encoding, b))))}}

\* decode(name, hex, fatal, ignoreBOM): {} for what makes #decodeLegacy() throw.
NativeDecode(encoding, digits) ==
    {Replaced(LegacyPieces(encoding, Bare(encoding, bytes))) :
        bytes \in {b \in FromHex(digits) :
                     ~(fatal /\ IsMalformed(LegacyPieces(encoding, Bare(encoding, b))))}}

----------------------------------------------------------------------------

\* The constructor; for a label the host does not know it throws.
DecoderInit ==
    /\ Init
    /\ legacy \in {{}} \cup {{e} : e \in Encodings}
    /\ chunks = <<>>
    /\ texts = <<>>

\* decode() with a UTF-8 decoder.
DecodeUtf8 == legacy = {} /\ Next /\ UNCHANGED <<legacy, chunks, texts>>

\* decode() with any other; the `stream` option changes nothing.
DecodeLegacy ==
    /\ Len(chunks) < MaxChunks
    /\ \E encoding \in legacy, chunk \in SeqOf(LegacyBytes, MaxLegacy - Len(FlattenSeq(chunks))) :
         /\ chunks' = Append(chunks, chunk)
         /\ texts' = Append(texts, NativeDecode(encoding, ToHex(chunk)))
    /\ UNCHANGED <<vars, legacy>>

\* The script goes on to another stream; the decoder knows nothing of either.
AnotherStream ==
    /\ chunks # <<>>
    /\ chunks' = <<>> /\ texts' = <<>>
    /\ UNCHANGED <<vars, legacy>>

DecoderNext == DecodeUtf8 \/ DecodeLegacy \/ AnotherStream

DecoderSpec == DecoderInit /\ [][DecoderNext]_decoderVars

----------------------------------------------------------------------------
(* Properties.                                                             *)

Whole == FlattenSeq(chunks)

\* Where one chunk ends and the next begins, and where characters do, as
\* numbers of bytes from the front of the stream.
Cuts == {Len(FlattenSeq(SubSeq(chunks, 1, k))) : k \in DOMAIN chunks}

Ends(pieces) ==
    LET upTo[k \in 0..Len(pieces)] == IF k = 0 THEN 0 ELSE upTo[k - 1] + pieces[k].size
    IN  {upTo[k] : k \in 0..Len(pieces)}

CutBetween(pieces) == Cuts \subseteq Ends(pieces)

Returns == FlattenSeq([k \in DOMAIN texts |-> IF texts[k] = {} THEN <<>>
                                              ELSE CHOOSE t \in texts[k] : TRUE])

Threw == \E k \in DOMAIN texts : texts[k] = {}

\* A stream cut between its characters decodes as the whole of it, its mark
\* dropped at the front and nowhere else: every stream of a single-byte
\* encoding (encoding.rs:6, "A single-byte encoding is exact"), and every
\* UTF-16 one none of whose later chunks begins with the mark.  One that does
\* loses a U+FEFF which the whole would keep: Bare is applied call by call.
LegacyAsOneShot ==
    \A encoding \in legacy :
        LET pieces == LegacyPieces(encoding, Whole)
            points == Replaced(pieces)
        IN  /\ ~Threw /\ CutBetween(pieces)
            /\ \A k \in DOMAIN chunks : Marked(encoding, chunks[k]) =>
                   ignoreBOM \/ \A j \in 1..k - 1 : chunks[j] = <<>>
            => Returns = IF ~ignoreBOM /\ Marked(encoding, Whole) THEN Tail(points) ELSE points

\* encoding.rs:5: "a multi-byte character split across two `stream` calls
\* decodes as U+FFFD", wherever the other cuts of the stream are; a fatal
\* decoder throws for it, and for what is malformed anyway, and only then.
SplitIsReplaced ==
    \A encoding \in legacy :
        LET pieces == LegacyPieces(encoding, Whole)
        IN  /\ Threw <=> fatal /\ (IsMalformed(pieces) \/ ~CutBetween(pieces))
            /\ ~fatal /\ ~CutBetween(pieces) =>
                  \E i \in DOMAIN Returns : Returns[i] = REPLACEMENT

=============================================================================
