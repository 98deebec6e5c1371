-------------------------------- MODULE Utf8 --------------------------------
(***************************************************************************)
(* TextEncoder and the UTF-8 half of TextDecoder (encoding.js): a decoder  *)
(* whose state lives between the chunks of a stream, fed any bytes in any  *)
(* chunks, or what encodeInto() wrote of a text into a buffer too short    *)
(* for it.  Text is a sequence of code points, bytes are numbers; a lone   *)
(* surrogate is a code point of its own.                                   *)
(***************************************************************************)
EXTENDS Naturals, Sequences, SequencesExt

CONSTANTS Bytes,   \* bytes a chunk is made of
          Points,  \* code points a text is made of
          MaxFed,  \* bound: bytes of one stream
          MaxText  \* bound: code points of a text

LargestPoint == 1114111   \* U+10FFFF

ASSUME Utf8Assumption ==
    /\ Bytes \subseteq 0..255
    /\ Points \subseteq 0..LargestPoint
    /\ MaxFed \in Nat
    /\ MaxText \in Nat

REPLACEMENT == 65533   \* U+FFFD
BOM == 65279           \* U+FEFF
Surrogates == 55296..57343

VARIABLES fatal, ignoreBOM,   \* options of the constructor
          partial,  \* the private fields: needed, seen, codePoint, lower, upper
          bomSeen,
          \* History of the current stream; a call without `stream` ends it:
          fed,      \* its bytes so far
          emitted,  \* the code points its calls returned
          sent,     \* the text so far, when it all came out of encodeInto()
          stale,    \* whether bomSeen was set when it started
          stream    \* "open" or "closed" by its last call; "failed" when that
                    \* call closed it and threw; "broken" once an open one threw

vars == <<fatal, ignoreBOM, partial, bomSeen, fed, emitted, sent, stale, stream>>

----------------------------------------------------------------------------
(* TextEncoder.                                                            *)

\* The numbers are the hexadecimal constants of encode(): 0x7f, 0x7ff, 0xffff,
\* 0xc0, 0xe0, 0xf0, 0x80; << and >> by 6 are products and quotients of 64.
Trail(n) == 128 + (n % 64)

BytesOf(code) ==
    CASE code <= 127                   -> <<code>>
      [] 127 < code /\ code <= 2047    -> <<192 + (code \div 64), Trail(code)>>
      [] 2047 < code /\ code <= 65535  -> <<224 + (code \div 4096), Trail(code \div 64),
                                            Trail(code)>>
      [] code > 65535                  -> <<240 + (code \div 262144), Trail(code \div 4096),
                                            Trail(code \div 64), Trail(code)>>

\* Mutant of Scalar: a lone surrogate is encoded as it is.
ScalarOrNot(point) == point

Scalar(point) == IF point \in Surrogates THEN REPLACEMENT ELSE point

EncodePoint(point) == BytesOf(Scalar(point))

Encode(text) == FlattenSeq([i \in DOMAIN text |-> EncodePoint(text[i])])

\* encodeInto: how many code points of the text are written into `room` bytes,
\* whole ones only.
Fitting(text, room) ==
    CHOOSE n \in 0..Len(text) :
        /\ Len(Encode(SubSeq(text, 1, n))) <= room
        /\ n < Len(text) => Len(Encode(SubSeq(text, 1, n + 1))) > room

----------------------------------------------------------------------------
(* The history of a stream.                                                *)

Over == stream \in {"closed", "failed"}

\* The call that ended a stream was followed by the next one to begin.
NewStream ==
    /\ Over
    /\ stream' = "open"
    /\ fed' = <<>> /\ emitted' = <<>> /\ sent' = {<<>>}
    /\ stale' = bomSeen
    /\ UNCHANGED <<fatal, ignoreBOM, partial, bomSeen>>

Becomes(threw, more) ==
    IF more THEN IF threw \/ stream = "broken" THEN "broken" ELSE "open"
            ELSE IF threw \/ stream = "broken" THEN "failed" ELSE "closed"

----------------------------------------------------------------------------
(* TextDecoder.  A call works on a record: the fields of the decoder, the  *)
(* points so far, and whether #malformed() threw.                          *)

Rest == [needed |-> 0, seen |-> 0, codePoint |-> 0, lower |-> 128, upper |-> 191]

Push(d, point) == [d EXCEPT !.points = Append(@, point)]

\* Mutant of Reset: the range of the next byte is not put back.
ResetSequence(d) ==
    [d EXCEPT !.fields = [@ EXCEPT !.needed = 0, !.seen = 0, !.codePoint = 0]]

Reset(d) == [d EXCEPT !.fields = Rest]

Malformed(d) == IF fatal THEN [d EXCEPT !.threw = TRUE] ELSE Push(d, REPLACEMENT)

Start(d, needed, codePoint) ==
    [d EXCEPT !.fields = [@ EXCEPT !.needed = needed, !.seen = 0, !.codePoint = codePoint]]

Within(d, lower, upper) == [d EXCEPT !.fields = [@ EXCEPT !.lower = lower, !.upper = upper]]

\* The first byte of a sequence: up to 0x7f, 0xc2-0xdf, 0xe0-0xef, 0xf0-0xf4.
Lead(d, byte) ==
    CASE byte <= 127        -> Push(d, byte)
      [] byte \in 194..223  -> Start(d, 1, byte % 32)
      [] byte \in 224..239  -> Within(Start(d, 2, byte % 16),
                                      IF byte = 224 THEN 160 ELSE 128,
                                      IF byte = 237 THEN 159 ELSE 191)
      [] byte \in 240..244  -> Within(Start(d, 3, byte % 8),
                                      IF byte = 240 THEN 144 ELSE 128,
                                      IF byte = 244 THEN 143 ELSE 191)
      [] OTHER              -> Malformed(d)

\* A byte inside the range the sequence expects.
Continue(d, byte) ==
    LET f == d.fields
        e == [d EXCEPT !.fields =
                 [f EXCEPT !.lower = 128, !.upper = 191,
                           !.codePoint = @ * 64 + (byte % 64), !.seen = @ + 1]]
    IN  IF e.fields.seen = e.fields.needed THEN Reset(Push(e, e.fields.codePoint)) ELSE e

\* Mutant of Consume: the offending byte is swallowed with the sequence.
ConsumeOffender(d, byte) ==
    CASE d.threw -> d
      [] ~d.threw /\ d.fields.needed = 0 -> Lead(d, byte)
      [] ~d.threw /\ d.fields.needed # 0 ->
            IF byte \in d.fields.lower..d.fields.upper THEN Continue(d, byte)
            ELSE Malformed(Reset(d))

\* One turn of the loop; a byte that does not continue the sequence is looked
\* at again, as the first of its own.
Consume(d, byte) ==
    CASE d.threw -> d
      [] ~d.threw /\ d.fields.needed = 0 -> Lead(d, byte)
      [] ~d.threw /\ d.fields.needed # 0 ->
            IF byte \in d.fields.lower..d.fields.upper THEN Continue(d, byte)
            ELSE LET e == Malformed(Reset(d)) IN IF e.threw THEN e ELSE Lead(e, byte)

\* Mutant of Flush: an unfinished sequence at the end is forgotten.
FlushQuietly(d, more) == IF more \/ d.threw THEN d ELSE Reset(d)

\* A call without `stream` ends an unfinished sequence.
Flush(d, more) ==
    IF more \/ d.threw \/ d.fields.needed = 0 THEN d ELSE Malformed(Reset(d))

\* Whether the call is the first to have something to look for the mark in.
FirstPoints(d) == ~ignoreBOM /\ ~bomSeen /\ d.points # <<>>

Returned(d) == IF FirstPoints(d) /\ Head(d.points) = BOM THEN Tail(d.points) ELSE d.points

\* decode(chunk, {stream: more}).  A throw leaves at once: bomSeen is as it
\* was, and the points of the call are lost.
Call(chunk, more) ==
    LET d == Flush(FoldLeft(Consume, [fields |-> partial, points |-> <<>>, threw |-> FALSE], chunk),
                   more)
    IN  /\ ~Over
        /\ partial' = d.fields
        /\ stream' = Becomes(d.threw, more)
        /\ IF d.threw THEN UNCHANGED <<emitted, bomSeen>>
           ELSE /\ emitted' = emitted \o Returned(d)
                /\ bomSeen' = (more /\ (bomSeen \/ FirstPoints(d)))
        /\ fed' = fed \o chunk
        /\ UNCHANGED <<fatal, ignoreBOM, stale>>

\* The constructor, with a label for UTF-8.
Init ==
    /\ fatal \in BOOLEAN
    /\ ignoreBOM \in BOOLEAN
    /\ partial = Rest
    /\ bomSeen = FALSE
    /\ fed = <<>>
    /\ emitted = <<>>
    /\ sent = {<<>>}
    /\ stale = FALSE
    /\ stream = "open"

\* Any bytes at all.
DecodeBytes ==
    \E more \in BOOLEAN, chunk \in SeqOf(Bytes, MaxFed - Len(fed)) :
        /\ Call(chunk, more)
        /\ sent' = {}

\* A text on its way through a buffer with `room` bytes: encodeInto() writes
\* what fits, and the decoder gets that.  With `stream`, more may follow.
DecodeText ==
    \E text \in sent : \E more \in BOOLEAN, next \in SeqOf(Points, MaxText - Len(text)),
                        room \in 0..4 * MaxText :
        LET written == SubSeq(next, 1, Fitting(next, room)) IN
        /\ Call(Encode(written), more)
        /\ sent' = {text \o written}

Next == NewStream \/ DecodeBytes \/ DecodeText

Spec == Init /\ [][Next]_vars

----------------------------------------------------------------------------
(* The reference: Table 3-7 of the Unicode standard, well-formed UTF-8, and *)
(* its rule that each maximal subpart of one is replaced by one U+FFFD.     *)

Trailing == 128..191

WellFormedRows ==
    {<<0..127>>,
     <<194..223, Trailing>>,
     <<{224}, 160..191, Trailing>>, <<225..236, Trailing, Trailing>>,
     <<{237}, 128..159, Trailing>>, <<238..239, Trailing, Trailing>>,
     <<{240}, 144..191, Trailing, Trailing>>,
     <<241..243, Trailing, Trailing, Trailing>>,
     <<{244}, 128..143, Trailing, Trailing>>}

Along(row, bytes) ==
    Len(bytes) <= Len(row) /\ \A i \in DOMAIN bytes : bytes[i] \in row[i]

IsCharacter(bytes) == \E row \in WellFormedRows : Along(row, bytes) /\ Len(bytes) = Len(row)

IsSubpart(bytes) == \E row \in WellFormedRows : Along(row, bytes) /\ Len(bytes) < Len(row)

\* The number a character stands for: its payload bits, most significant first.
PointOf(bytes) ==
    CASE Len(bytes) = 1 -> bytes[1]
      [] Len(bytes) = 2 -> (bytes[1] - 192) * 64 + bytes[2] - 128
      [] Len(bytes) = 3 -> (bytes[1] - 224) * 4096 + (bytes[2] - 128) * 64 + bytes[3] - 128
      [] Len(bytes) = 4 -> (bytes[1] - 240) * 262144 + (bytes[2] - 128) * 4096
                           + (bytes[3] - 128) * 64 + bytes[4] - 128

\* The first piece of some bytes: a character, else the longest subpart of one,
\* else a byte by itself.
PieceLength(bytes) ==
    LET cuts == 1..(IF Len(bytes) < 4 THEN Len(bytes) ELSE 4)
        good == {n \in cuts : IsCharacter(SubSeq(bytes, 1, n))}
        start == {n \in cuts : IsSubpart(SubSeq(bytes, 1, n))} \cup {1}
    IN  IF good # {} THEN CHOOSE n \in good : TRUE
                     ELSE CHOOSE n \in start : \A m \in start : m <= n

\* The pieces of the bytes, in order.
Pieces(bytes) ==
    LET from[i \in 1..Len(bytes) + 1] ==
            IF i > Len(bytes) THEN <<>>
            ELSE LET n == PieceLength(SubSeq(bytes, i, Len(bytes)))
                 IN  <<SubSeq(bytes, i, i + n - 1)>> \o from[i + n]
    IN  from[1]

WellFormed(bytes) == \A i \in DOMAIN Pieces(bytes) : IsCharacter(Pieces(bytes)[i])

\* Pieces nothing more can change: all but an unfinished last one.
Decided(pieces) ==
    IF pieces # <<>> /\ IsSubpart(pieces[Len(pieces)]) THEN Front(pieces) ELSE pieces

PointsOf(pieces) ==
    [i \in DOMAIN pieces |-> IF IsCharacter(pieces[i]) THEN PointOf(pieces[i]) ELSE REPLACEMENT]

Unmarked(points) ==
    IF ~ignoreBOM /\ points # <<>> /\ Head(points) = BOM THEN Tail(points) ELSE points

\* What the calls of the stream ought to have returned.
Settled == PointsOf(IF stream = "open" THEN Decided(Pieces(fed)) ELSE Pieces(fed))

----------------------------------------------------------------------------
(* Properties.                                                             *)

\* The fields a decoder can have between two calls: a sequence is in progress
\* only inside a stream, and the range is narrow only after its first byte.
Utf8TypeOK ==
    /\ fatal \in BOOLEAN /\ ignoreBOM \in BOOLEAN /\ bomSeen \in BOOLEAN
    /\ partial \in [needed : 0..3, seen : 0..2, codePoint : 0..LargestPoint,
                    lower : {128, 144, 160}, upper : {143, 159, 191}]
    /\ partial.needed = 0 => partial = Rest
    /\ partial.needed # 0 => partial.seen < partial.needed
    /\ partial.seen > 0 => partial.lower = 128 /\ partial.upper = 191
    /\ Over => partial = Rest
    /\ fed \in Seq(0..255)
    /\ emitted \in Seq(0..LargestPoint)
    /\ stream \in {"open", "closed", "failed", "broken"}

\* However a stream is cut into chunks, its calls return what the whole of it
\* decodes to, each character as soon as its last byte is there, and the mark
\* is dropped once, at the front (encoding.js: "its state kept between `stream`
\* calls").  A decoder that still thinks it saw the mark keeps it.
StreamedAsOneShot ==
    stream \in {"open", "closed"} => emitted = IF stale THEN Settled ELSE Unmarked(Settled)

\* A stream's leading mark is dropped unless ignoreBOM asks for it (tests/
\* encoding_test.rs:168, test_text_decoder_strips_a_leading_bom), whatever the
\* decoder did before: its state is kept "between `stream` calls", encoding.js:6.
LeadingMarkDropped == stream \in {"open", "closed"} => emitted = Unmarked(Settled)

\* A fatal decoder throws for malformed bytes, and only for them, a sequence
\* its last call cut short included.
FatalThrows ==
    /\ fatal /\ stream = "closed" => WellFormed(fed)
    /\ stream \in {"failed", "broken"} => fatal /\ ~WellFormed(fed)

\* A text sent through encodeInto(), whatever the room for each piece, arrives
\* as it was but for lone surrogates and the mark, and each call returns all
\* of the characters it was sent.
RoundTrip ==
    stream \in {"open", "closed"} =>
        \A text \in sent :
            LET points == [i \in DOMAIN text |->
                              IF text[i] \in Surrogates THEN REPLACEMENT ELSE text[i]]
            IN  emitted = IF stale THEN points ELSE Unmarked(points)

=============================================================================
