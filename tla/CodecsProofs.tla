---------------------------- MODULE CodecsProofs ----------------------------
(* Theorems of Codecs, for every number of streams and of chunks.            *)
EXTENDS Codecs, SequenceTheorems, TLAPS

\* What a stream's data look like in its format before the closing mark.
Body(stream) ==
    IF stream.decompress THEN stream.fed ELSE <<Opening(stream.format)>> \o stream.fed

\* The codec of a stream is of its kind, and what the stream got and what the
\* codec holds are together its body.
Follows(codec, stream) ==
    /\ codec.format = stream.format
    /\ codec.decompress = stream.decompress
    /\ stream.got \o codec.held = Body(stream)

\* What came out of a stream, given whether its codec is still there.
InOrder(i) ==
    IF i \in DOMAIN open
    THEN Follows(open[i], streams[i]) /\ streams[i].is \in {"open", "unread"}
    ELSE /\ IsPrefix(streams[i].got, Whole(streams[i]))
         /\ streams[i].is = "ended" => streams[i].got = Whole(streams[i])

\* The counter never wraps, so the i-th stream has the id i.
CodecsInv ==
    /\ CodecsTypeOK
    /\ Len(streams) <= MaxStreams
    /\ \A i \in 1..Len(streams) : streams[i].id = i /\ InOrder(i)

----------------------------------------------------------------------------
(* Sequences.                                                              *)

\* A sequence that begins another is a prefix of it.
LEMMA PrefixOfConcat ==
    ASSUME NEW S, NEW s \in Seq(S), NEW t \in Seq(S)
    PROVE  IsPrefix(s, s \o t)
<1>1. Len(s) <= Len(s \o t)
  BY ConcatProperties
<1>2. SubSeq(s \o t, 1, Len(s)) = s
  BY SubSeqOfConcat1
<1>3. SubSeq(s, 1, Len(s)) = s
  BY SubSeqFull
<1>4. QED BY <1>1, <1>2, <1>3 DEF IsPrefix

\* Cutting a sequence anywhere leaves two sequences that make it up.
LEMMA CutRejoins ==
    ASSUME NEW S, NEW s \in Seq(S), NEW n \in 0..Len(s)
    PROVE  /\ SubSeq(s, 1, n) \in Seq(S)
           /\ SubSeq(s, n + 1, Len(s)) \in Seq(S)
           /\ SubSeq(s, 1, n) \o SubSeq(s, n + 1, Len(s)) = s
<1>1. Len(s) \in Nat /\ \A i \in 1..Len(s) : s[i] \in S
  OBVIOUS
<1>2. SubSeq(s, 1, n) \in Seq(S) /\ SubSeq(s, n + 1, Len(s)) \in Seq(S)
  <2>1. \A i \in 1..n : s[i] \in S
    BY <1>1
  <2>2. \A i \in n + 1..Len(s) : s[i] \in S
    BY <1>1
  <2>3. 1 \in Int /\ n \in Int /\ n + 1 \in Int /\ Len(s) \in Int
    BY <1>1
  <2>4. SubSeq(s, 1, n) \in Seq(S)
    BY <2>1, <2>3, SubSeqProperties
  <2>5. SubSeq(s, n + 1, Len(s)) \in Seq(S)
    BY <2>2, <2>3, SubSeqProperties
  <2>6. QED BY <2>4, <2>5
<1>3. SubSeq(s, 1, n) \o SubSeq(s, n + 1, Len(s)) = SubSeq(s, 1, Len(s))
  <2>1. 1 \in 1..Len(s) + 1 /\ n \in 1 - 1..Len(s) /\ Len(s) \in n..Len(s)
    BY <1>1
  <2>2. QED BY <2>1, ConcatAdjacentSubSeq
<1>4. SubSeq(s, 1, Len(s)) = s
  BY SubSeqFull
<1>5. QED BY <1>2, <1>3, <1>4

\* A sequence is a prefix of itself.
LEMMA PrefixOfItself ==
    ASSUME NEW s
    PROVE  IsPrefix(s, s)
BY DEF IsPrefix

----------------------------------------------------------------------------
(* Tokens and records.                                                     *)

LEMMA ChunkTypes ==
    ASSUME NEW decompress \in BOOLEAN, NEW chunk \in Chunks(decompress)
    PROVE  chunk \in Seq(Tokens) /\ DataIn(chunk) \in Seq(Tokens)
<1>1. \A t \in Tokens : <<t>> \in Seq(Tokens)
  OBVIOUS
<1>2. <<>> \in Seq(Tokens)
  OBVIOUS
<1>3. \A d \in Data : Piece(d) \in Tokens
  BY DEF Tokens
<1>4. chunk \in Seq(Tokens)
  BY <1>1, <1>2, <1>3 DEF Chunks
<1>5. QED BY <1>2, <1>4 DEF DataIn

\* Concatenation of tokens is associative.
LEMMA Regroup ==
    \A s, t, u \in Seq(Tokens) : (s \o t) \o u = s \o (t \o u)
<1> TAKE s, t, u \in Seq(Tokens)
<1> HIDE DEF Tokens
<1> QED BY ConcatAssociative

LEMMA MarkTypes ==
    ASSUME NEW format \in Supported
    PROVE  /\ Opening(format) \in Tokens /\ <<Opening(format)>> \in Seq(Tokens)
           /\ Closing(format) \in Tokens /\ <<Closing(format)>> \in Seq(Tokens)
<1>1. Opening(format) \in Tokens /\ Closing(format) \in Tokens
  BY DEF Tokens
<1>2. QED BY <1>1

LEMMA StreamFields ==
    ASSUME NEW s \in StreamTypes
    PROVE  /\ s.id \in Nat \ {0} /\ s.format \in Supported /\ s.decompress \in BOOLEAN
           /\ s.fed \in Seq(Tokens) /\ s.got \in Seq(Tokens) /\ s.pushes \in Nat
           /\ s.is \in {"open", "unread", "threw", "ended", "dropped"}
BY DEF StreamTypes

LEMMA CodecFields ==
    ASSUME NEW c \in CodecTypes
    PROVE  /\ c.format \in Supported /\ c.decompress \in BOOLEAN
           /\ c.held \in Seq(Tokens) /\ c.seen \in {"nothing", "opening", "closing"}
BY DEF CodecTypes

LEMMA BodyTypes ==
    ASSUME NEW s \in StreamTypes
    PROVE  Body(s) \in Seq(Tokens) /\ Whole(s) \in Seq(Tokens)
<1>1. s.fed \in Seq(Tokens) /\ s.format \in Supported /\ s.decompress \in BOOLEAN
  BY StreamFields
<1>2. <<Opening(s.format)>> \in Seq(Tokens) /\ <<Closing(s.format)>> \in Seq(Tokens)
  BY <1>1, MarkTypes
<1>3. <<Opening(s.format)>> \o s.fed \in Seq(Tokens)
  BY <1>1, <1>2, ConcatProperties
<1>4. (<<Opening(s.format)>> \o s.fed) \o <<Closing(s.format)>> \in Seq(Tokens)
  BY <1>2, <1>3, ConcatProperties
<1>5. QED BY <1>1, <1>3, <1>4 DEF Body, Whole

\* As long as its codec follows a stream, what the stream got begins the whole,
\* and with the rest the codec would emit it is the whole.
LEMMA FollowsWhole ==
    ASSUME NEW s \in StreamTypes, NEW c \in CodecTypes, Follows(c, s)
    PROVE  /\ IsPrefix(s.got, Whole(s))
           /\ s.got \o Rest(c) = Whole(s)
           /\ Rest(c) \in Seq(Tokens)
<1>1. /\ s.got \in Seq(Tokens) /\ c.held \in Seq(Tokens) /\ s.fed \in Seq(Tokens)
      /\ s.format \in Supported /\ c.format = s.format
      /\ c.decompress = s.decompress /\ s.decompress \in BOOLEAN
      /\ s.got \o c.held = Body(s)
  BY StreamFields, CodecFields DEF Follows
<1>2. <<Closing(s.format)>> \in Seq(Tokens) /\ <<Opening(s.format)>> \in Seq(Tokens)
  BY <1>1, MarkTypes
<1>3. Rest(c) \in Seq(Tokens)
  BY <1>1, <1>2, ConcatProperties DEF Rest
<1>4. s.got \o Rest(c) = Whole(s)
  <2>1. CASE s.decompress
    BY <1>1, <2>1 DEF Rest, Body, Whole
  <2>2. CASE ~s.decompress
    <3>1. \A m \in Seq(Tokens) : s.got \o (c.held \o m) = (s.got \o c.held) \o m
      BY <1>1, Regroup, Zenon
    <3>2. s.got \o (c.held \o <<Closing(s.format)>>)
            = (s.got \o c.held) \o <<Closing(s.format)>>
      BY <1>2, <3>1, Zenon
    <3>3. s.got \o c.held = <<Opening(s.format)>> \o s.fed
      BY <1>1, <2>2 DEF Body
    <3>4. QED BY <1>1, <2>2, <3>2, <3>3 DEF Rest, Whole
  <2>3. QED BY <1>1, <2>1, <2>2
<1>5. IsPrefix(s.got, s.got \o Rest(c))
  BY <1>1, <1>3, PrefixOfConcat
<1>6. QED BY <1>3, <1>4, <1>5

\* One stream is replaced.
LEMMA UpdateStream ==
    ASSUME streams \in Seq(StreamTypes), NEW i \in 1..Len(streams), NEW s \in StreamTypes,
           streams' = [streams EXCEPT ![i] = s]
    PROVE  /\ streams' \in Seq(StreamTypes)
           /\ Len(streams') = Len(streams)
           /\ streams'[i] = s
           /\ \A j \in 1..Len(streams) : j # i => streams'[j] = streams[j]
<1>1. /\ Len([streams EXCEPT ![i] = s]) = Len(streams)
      /\ [streams EXCEPT ![i] = s] \in Seq(StreamTypes)
  BY ExceptSeq
<1>2. QED BY <1>1

----------------------------------------------------------------------------
(* Steps.                                                                  *)

LEMMA CodecsInitInv == CodecsInit => CodecsInv
<1> SUFFICES ASSUME CodecsInit PROVE CodecsInv
  OBVIOUS
<1>1. streams = <<>> /\ next = 0 /\ open = <<>>
  BY DEF CodecsInit
<1>2. Len(streams) = 0 /\ streams \in Seq(StreamTypes) /\ DOMAIN open = {}
  BY <1>1
<1>3. QED BY <1>1, <1>2, CodecsAssumption DEF CodecsInv, CodecsTypeOK

\* A step on one stream disturbs no other.
LEMMA OneStream ==
    ASSUME CodecsInv, NEW i \in 1..Len(streams), NEW s \in StreamTypes,
           streams' = [streams EXCEPT ![i] = s], s.id = i, next' = next,
           DOMAIN open' \subseteq DOMAIN open,
           \A j \in DOMAIN open' : open'[j] \in CodecTypes,
           \A j \in DOMAIN open \ {i} : j \in DOMAIN open' /\ open'[j] = open[j],
           InOrder(i)'
    PROVE  CodecsInv'
<1>1. /\ streams' \in Seq(StreamTypes)
      /\ Len(streams') = Len(streams)
      /\ streams'[i] = s
      /\ \A j \in 1..Len(streams) : j # i => streams'[j] = streams[j]
  BY UpdateStream DEF CodecsInv, CodecsTypeOK
<1>2. CodecsTypeOK'
  BY <1>1 DEF CodecsInv, CodecsTypeOK
<1>3. ASSUME NEW j \in 1..Len(streams'), j # i
      PROVE  streams'[j].id = j /\ InOrder(j)'
  <2>1. streams[j].id = j /\ InOrder(j) /\ streams'[j] = streams[j]
    BY <1>1, <1>3 DEF CodecsInv
  <2>2. j \in DOMAIN open <=> j \in DOMAIN open'
    BY <1>3
  <2>3. QED BY <1>3, <2>1, <2>2 DEF InOrder
<1>4. QED BY <1>1, <1>2, <1>3 DEF CodecsInv

\* What the invariant says of one stream, and of its codec if it is there.
LEMMA InvOf ==
    ASSUME CodecsInv, NEW i \in DOMAIN streams
    PROVE  /\ i \in 1..Len(streams) /\ streams[i] \in StreamTypes
           /\ streams[i].id = i
           /\ InOrder(i)
           /\ i \in DOMAIN open =>
                /\ open[i] \in CodecTypes
                /\ Follows(open[i], streams[i])
                /\ streams[i].is \in {"open", "unread"}
<1>1. streams \in Seq(StreamTypes) /\ i \in 1..Len(streams)
  BY DEF CodecsInv, CodecsTypeOK
<1>2. QED BY <1>1 DEF CodecsInv, CodecsTypeOK, InOrder

\* The codec of a stream goes.
LEMMA Goes ==
    ASSUME CodecsInv, NEW i \in DOMAIN streams, NEW s \in StreamTypes,
           streams' = [streams EXCEPT ![i] = s], s.id = i, next' = next,
           Release(i),
           IsPrefix(s.got, Whole(s)), s.is = "ended" => s.got = Whole(s)
    PROVE  CodecsInv'
<1>1. open' = [k \in DOMAIN open \ {i} |-> open[k]]
  BY DEF Release
<1>2. DOMAIN open' = DOMAIN open \ {i} /\ \A j \in DOMAIN open' : open'[j] = open[j]
  BY <1>1
<1>3. i \in 1..Len(streams) /\ streams'[i] = s
  BY InvOf, UpdateStream DEF CodecsInv, CodecsTypeOK
<1>4. InOrder(i)'
  BY <1>2, <1>3 DEF InOrder
<1>5. \A j \in DOMAIN open' : open'[j] \in CodecTypes
  BY <1>2 DEF CodecsInv, CodecsTypeOK
<1>6. QED BY <1>2, <1>3, <1>4, <1>5, OneStream

\* The table stays as it is.
LEMMA Stays ==
    ASSUME CodecsInv, NEW i \in DOMAIN streams,
           NEW as \in {"unread", "threw"},
           streams' = [streams EXCEPT ![i] = Over(@, as)],
           UNCHANGED <<open, next>>,
           i \in DOMAIN open => as = "unread"
    PROVE  CodecsInv'
<1> DEFINE s == Over(streams[i], as)
<1>1. /\ i \in 1..Len(streams) /\ streams[i] \in StreamTypes
      /\ streams[i].id = i
      /\ InOrder(i)
  BY InvOf
<1>3. /\ streams' = [streams EXCEPT ![i] = s]
      /\ s = [streams[i] EXCEPT !.is = IF @ \in {"open", "unread"} THEN as ELSE @]
  BY DEF Over
<1> HIDE DEF s
<1>2. /\ s \in StreamTypes /\ s.id = i /\ s.got = streams[i].got
      /\ s.is = IF streams[i].is \in {"open", "unread"} THEN as ELSE streams[i].is
      /\ s.format = streams[i].format /\ s.decompress = streams[i].decompress
      /\ Whole(s) = Whole(streams[i]) /\ Body(s) = Body(streams[i])
  BY <1>1, <1>3 DEF StreamTypes, Whole, Body
<1>4. streams'[i] = s
  BY <1>1, <1>2, <1>3, UpdateStream DEF CodecsInv, CodecsTypeOK
<1>5. InOrder(i)'
  BY <1>1, <1>2, <1>4 DEF InOrder, Follows
<1>6. \A j \in DOMAIN open' : open'[j] \in CodecTypes
  BY DEF CodecsInv, CodecsTypeOK
<1>7. QED BY <1>1, <1>2, <1>3, <1>5, <1>6, OneStream

\* A stream that fails or is dropped, and whose codec goes.
LEMMA GivesUp ==
    ASSUME CodecsInv, NEW i \in DOMAIN streams, NEW as \in {"threw", "dropped"},
           streams' = [streams EXCEPT ![i] = Over(@, as)], next' = next,
           Release(streams[i].id)
    PROVE  CodecsInv'
<1> DEFINE s == Over(streams[i], as)
<1>1. /\ i \in 1..Len(streams) /\ streams[i] \in StreamTypes /\ streams[i].id = i
      /\ InOrder(i)
      /\ i \in DOMAIN open => open[i] \in CodecTypes /\ Follows(open[i], streams[i])
  BY InvOf
<1>2. /\ streams' = [streams EXCEPT ![i] = s]
      /\ s = [streams[i] EXCEPT !.is = IF @ \in {"open", "unread"} THEN as ELSE @]
  BY DEF Over
<1> HIDE DEF s
<1>3. /\ s \in StreamTypes /\ s.id = i /\ s.got = streams[i].got
      /\ s.is = "ended" => streams[i].is = "ended"
      /\ Whole(s) = Whole(streams[i])
  BY <1>1, <1>2 DEF StreamTypes, Whole
<1>4. IsPrefix(s.got, Whole(s)) /\ (s.is = "ended" => s.got = Whole(s))
  <2>1. CASE i \in DOMAIN open
    <3>1. streams[i].is # "ended"
      BY <2>1, InvOf
    <3>2. QED BY <1>1, <1>3, <2>1, <3>1, FollowsWhole
  <2>2. CASE i \notin DOMAIN open
    BY <1>1, <1>3, <2>2 DEF InOrder
  <2>3. QED BY <2>1, <2>2
<1>5. QED BY <1>1, <1>2, <1>3, <1>4, Goes

----------------------------------------------------------------------------

\* The id a start gives out was never given out before.
LEMMA NextId ==
    ASSUME CodecsInv, Len(streams) < MaxStreams
    PROVE  (next + 1) % IdBound = Len(streams) + 1
<1>1. streams \in Seq(StreamTypes) /\ next = Len(streams)
  BY DEF CodecsInv, CodecsTypeOK
<1>2. next + 1 \in Nat /\ next + 1 < IdBound /\ IdBound \in Nat \ {0}
  BY <1>1, CodecsAssumption
<1>3. \A m, n \in Nat : m < n => m % n = m
  OBVIOUS
<1>4. QED BY <1>1, <1>2, <1>3

LEMMA StartInv ==
    ASSUME CodecsInv, Start
    PROVE  CodecsInv'
<1>1. CASE UNCHANGED vars
  BY <1>1 DEF CodecsInv, CodecsTypeOK, InOrder, vars
<1>2. CASE ~UNCHANGED vars
  <2>1. PICK format \in Supported, decompress \in BOOLEAN :
          LET id == (next + 1) % IdBound IN
          /\ Len(streams) < MaxStreams
          /\ next' = id
          /\ Insert(id, NewCodec(format, decompress))
          /\ streams' = Append(streams, NewStream(id, format, decompress))
    BY <1>2 DEF Start
  <2>2. /\ streams \in Seq(StreamTypes) /\ next = Len(streams)
        /\ DOMAIN open \subseteq 1..Len(streams)
        /\ \A j \in DOMAIN open : open[j] \in CodecTypes
    BY DEF CodecsInv, CodecsTypeOK
  <2>3. PICK id \in Nat : id = Len(streams) + 1
    BY <2>2
  <2> DEFINE s == NewStream(id, format, decompress)
             c == NewCodec(format, decompress)
  <2>4. (next + 1) % IdBound = id
    BY <2>1, <2>3, NextId
  <2>5. /\ next' = id
        /\ streams' = Append(streams, s)
        /\ open' = [k \in DOMAIN open \cup {id} |-> IF k = id THEN c ELSE open[k]]
    BY <2>1, <2>4 DEF Insert
  <2>6. <<>> \in Seq(Tokens) /\ <<Opening(format)>> \in Seq(Tokens)
    BY MarkTypes
  <2>7. /\ s \in StreamTypes /\ s.id = id /\ s.is = "open"
        /\ s.got = <<>> /\ s.fed = <<>> /\ s.format = format /\ s.decompress = decompress
    BY <2>6, <2>3 DEF StreamTypes, NewStream
  <2>8. /\ c \in CodecTypes /\ c.format = format /\ c.decompress = decompress
        /\ c.held = IF decompress THEN <<>> ELSE <<Opening(format)>>
    BY <2>6 DEF CodecTypes, NewCodec
  <2>9. Follows(c, s)
    <3>1. <<>> \o <<>> = <<>>
      OBVIOUS
    <3>2. \A m \in Seq(Tokens) : <<>> \o m = m /\ m \o <<>> = m
      BY ConcatEmptySeq
    <3>3. <<>> \o <<Opening(format)>> = <<Opening(format)>> \o <<>>
      BY <2>6, <3>2, Zenon
    <3>4. QED BY <2>7, <2>8, <3>1, <3>3 DEF Follows, Body
  <2> HIDE DEF s, c
  <2>10. /\ streams' \in Seq(StreamTypes) /\ Len(streams') = id /\ streams'[id] = s
        /\ \A j \in 1..Len(streams) : streams'[j] = streams[j]
    BY <2>2, <2>5, <2>7, <2>3, AppendProperties
  <2>11. /\ DOMAIN open' = DOMAIN open \cup {id}
         /\ open'[id] = c
         /\ \A j \in DOMAIN open : open'[j] = open[j]
    BY <2>2, <2>5, <2>3
  <2>12. CodecsTypeOK'
    BY <2>2, <2>5, <2>8, <2>10, <2>11, <2>3 DEF CodecsTypeOK
  <2>13. streams'[id].id = id /\ InOrder(id)'
    BY <2>7, <2>9, <2>10, <2>11 DEF InOrder
  <2>14. ASSUME NEW j \in 1..Len(streams)
         PROVE  streams'[j].id = j /\ InOrder(j)'
    <3>1. streams[j].id = j /\ InOrder(j) /\ streams'[j] = streams[j]
      BY <2>10 DEF CodecsInv
    <3>2. j # id
      BY <2>2, <2>3
    <3>3. j \in DOMAIN open' <=> j \in DOMAIN open
      BY <2>11, <3>2
    <3>4. QED BY <2>11, <3>1, <3>3 DEF InOrder
  <2>15. \A j \in 1..Len(streams') : j = id \/ j \in 1..Len(streams)
    BY <2>2, <2>3, <2>10
  <2>16. \A j \in 1..Len(streams') : streams'[j].id = j /\ InOrder(j)'
    BY <2>13, <2>14, <2>15
  <2>17. Len(streams') <= MaxStreams
    BY <2>1, <2>2, <2>3, <2>10, CodecsAssumption
  <2>18. QED BY <2>12, <2>16, <2>17 DEF CodecsInv
<1>3. QED BY <1>1, <1>2

LEMMA PushInv ==
    ASSUME CodecsInv, Push
    PROVE  CodecsInv'
<1>1. PICK i \in DOMAIN streams :
        /\ streams[i].id \in DOMAIN open
        /\ \E chunk \in Chunks(open[streams[i].id].decompress) :
             \E n \in 0..Len(Holding(open[streams[i].id], chunk)) :
               /\ open' = [open EXCEPT ![streams[i].id] = Pushed(open[streams[i].id], chunk, n)]
               /\ streams' = [streams EXCEPT ![i] =
                    Advanced(@, DataIn(chunk), Emitted(open[streams[i].id], chunk, n))]
        /\ next' = next
  BY DEF Push
<1>2. /\ i \in 1..Len(streams) /\ streams[i] \in StreamTypes /\ streams[i].id = i
      /\ i \in DOMAIN open /\ open[i] \in CodecTypes /\ Follows(open[i], streams[i])
      /\ streams[i].is \in {"open", "unread"}
  BY <1>1, InvOf
<1>3. PICK chunk \in Chunks(open[i].decompress) :
        \E n \in 0..Len(Holding(open[i], chunk)) :
          /\ open' = [open EXCEPT ![i] = Pushed(open[i], chunk, n)]
          /\ streams' = [streams EXCEPT ![i] =
               Advanced(@, DataIn(chunk), Emitted(open[i], chunk, n))]
  BY <1>1, <1>2
<1>4. PICK n \in 0..Len(Holding(open[i], chunk)) :
        /\ open' = [open EXCEPT ![i] = Pushed(open[i], chunk, n)]
        /\ streams' = [streams EXCEPT ![i] =
             Advanced(@, DataIn(chunk), Emitted(open[i], chunk, n))]
  BY <1>3
<1> DEFINE old == streams[i]
           codec == open[i]
           data == DataIn(chunk)
           out == Emitted(codec, chunk, n)
           kept == SubSeq(Holding(codec, chunk), n + 1, Len(Holding(codec, chunk)))
           s == Advanced(old, data, out)
           c == Pushed(codec, chunk, n)
<1>5. /\ old.fed \in Seq(Tokens) /\ old.got \in Seq(Tokens) /\ old.pushes \in Nat
      /\ old.format \in Supported /\ old.decompress \in BOOLEAN
      /\ codec.held \in Seq(Tokens) /\ codec.decompress \in BOOLEAN
      /\ data \in Seq(Tokens)
  BY <1>2, StreamFields, CodecFields, ChunkTypes
<1>6. Holding(codec, chunk) = codec.held \o data /\ codec.held \o data \in Seq(Tokens)
  BY <1>5, ConcatProperties DEF Holding
<1>7. /\ out \in Seq(Tokens) /\ kept \in Seq(Tokens)
      /\ out \o kept = codec.held \o data
  BY <1>6, CutRejoins DEF Emitted
<1>8. old.fed \o data \in Seq(Tokens) /\ old.got \o out \in Seq(Tokens)
  BY <1>5, <1>7, ConcatProperties
<1>9. /\ c \in CodecTypes /\ c.held = kept
      /\ c.format = codec.format /\ c.decompress = codec.decompress
  <2>1. Seen(codec, chunk[1]) \in {"nothing", "opening", "closing"}
    BY <1>2, CodecFields DEF Seen
  <2> DEFINE seen == IF chunk # <<>> /\ codec.decompress THEN Seen(codec, chunk[1])
                     ELSE codec.seen
  <2>2. seen \in {"nothing", "opening", "closing"}
    BY <1>2, <2>1, CodecFields
  <2>3. c = [codec EXCEPT !.held = kept, !.seen = seen]
    BY DEF Pushed
  <2> HIDE DEF seen, kept, c
  <2>4. QED BY <1>2, <1>7, <2>2, <2>3 DEF CodecTypes
<1>10. /\ s \in StreamTypes /\ s.id = i /\ s.is = old.is
      /\ s.fed = old.fed \o data /\ s.got = old.got \o out
      /\ s.format = old.format /\ s.decompress = old.decompress
  <2> DEFINE fed == old.fed \o data
             got == old.got \o out
             pushes == old.pushes + 1
  <2>1. fed \in Seq(Tokens) /\ got \in Seq(Tokens) /\ pushes \in Nat
    BY <1>5, <1>8
  <2>2. s = [old EXCEPT !.fed = fed, !.got = got, !.pushes = pushes]
    BY DEF Advanced
  <2>5. old \in StreamTypes /\ old.id = i
    BY <1>2
  <2> HIDE DEF fed, got, pushes, s, old
  <2>3. /\ s \in StreamTypes /\ s.id = i /\ s.is = old.is
        /\ s.fed = fed /\ s.got = got
        /\ s.format = old.format /\ s.decompress = old.decompress
    BY <2>1, <2>2, <2>5 DEF StreamTypes
  <2>4. QED BY <2>3 DEF fed, got
<1>11. streams' = [streams EXCEPT ![i] = s]
       /\ DOMAIN open' = DOMAIN open /\ open'[i] = c
       /\ \A j \in DOMAIN open \ {i} : open'[j] = open[j]
  <2>1. open' = [open EXCEPT ![i] = c]
    BY <1>4
  <2>3. streams' = [streams EXCEPT ![i] = s]
    BY <1>4
  <2> HIDE DEF s, c
  <2>2. QED BY <1>2, <2>1, <2>3
<1> HIDE DEF old, codec, data, out, kept, s, c
<1>12. Follows(c, s)
  <2>1. codec.format = old.format /\ codec.decompress = old.decompress
        /\ old.got \o codec.held = Body(old)
    BY <1>2 DEF Follows, old, codec
  <2>2. (old.got \o out) \o kept = old.got \o (out \o kept)
    BY <1>5, <1>7, Regroup, Zenon
  <2>3. old.got \o (codec.held \o data) = (old.got \o codec.held) \o data
    BY <1>5, Regroup, Zenon
  <2>4. s.got \o c.held = Body(old) \o data
    BY <1>7, <1>9, <1>10, <2>1, <2>2, <2>3, Zenon
  <2>5. Body(s) = Body(old) \o data
    <3>1. CASE old.decompress
      BY <1>10, <3>1 DEF Body
    <3>2. CASE ~old.decompress
      <4>1. <<Opening(old.format)>> \in Seq(Tokens)
        BY <1>5, MarkTypes
      <4>2. (<<Opening(old.format)>> \o old.fed) \o data
              = <<Opening(old.format)>> \o (old.fed \o data)
        BY <1>5, <4>1, Regroup, Zenon
      <4>3. QED BY <1>10, <3>2, <4>2 DEF Body
    <3>3. QED BY <1>5, <3>1, <3>2
  <2>6. QED BY <1>9, <1>10, <2>1, <2>4, <2>5 DEF Follows
<1>13. streams'[i] = s
  BY <1>2, <1>10, <1>11, UpdateStream DEF CodecsInv, CodecsTypeOK
<1>14. InOrder(i)'
  BY <1>2, <1>10, <1>11, <1>12, <1>13 DEF InOrder, old
<1>15. \A j \in DOMAIN open' : open'[j] \in CodecTypes
  BY <1>9, <1>11 DEF CodecsInv, CodecsTypeOK
<1>16. next' = next
  BY <1>1
<1>17. QED BY <1>2, <1>10, <1>11, <1>14, <1>15, <1>16, OneStream

LEMMA PushFailsInv ==
    ASSUME CodecsInv, PushInvalid \/ PushUnreadable \/ Missing
    PROVE  CodecsInv'
<1>1. CASE PushUnreadable \/ Missing
  <2>1. PICK i \in DOMAIN streams, as \in {"unread", "threw"} :
          /\ streams' = [streams EXCEPT ![i] = Over(@, as)]
          /\ UNCHANGED <<open, next>>
          /\ as = "threw" => streams[i].id \notin DOMAIN open
    BY <1>1 DEF PushUnreadable, Missing
  <2>2. streams[i].id = i
    BY <2>1, InvOf
  <2>3. QED BY <2>1, <2>2, Stays
<1>2. CASE PushInvalid
  <2>1. PICK i \in DOMAIN streams :
          /\ streams[i].id \in DOMAIN open
          /\ Release(streams[i].id)
          /\ streams' = [streams EXCEPT ![i] = Over(@, "threw")]
          /\ UNCHANGED next
    BY <1>2 DEF PushInvalid
  <2>2. QED BY <2>1, GivesUp
<1>3. QED BY <1>1, <1>2

LEMMA FinishInv ==
    ASSUME CodecsInv, Finish \/ FinishBadly \/ Drop
    PROVE  CodecsInv'
<1>1. CASE Finish
  <2>1. PICK i \in DOMAIN streams :
          /\ streams[i].id \in DOMAIN open
          /\ Release(streams[i].id)
          /\ streams' = [streams EXCEPT ![i] = Ended(@, Rest(open[streams[i].id]))]
          /\ UNCHANGED next
    BY <1>1 DEF Finish
  <2>2. /\ i \in 1..Len(streams) /\ streams[i] \in StreamTypes /\ streams[i].id = i
        /\ i \in DOMAIN open /\ open[i] \in CodecTypes /\ Follows(open[i], streams[i])
    BY <2>1, InvOf
  <2>3. /\ streams[i].got \o Rest(open[i]) = Whole(streams[i])
        /\ Rest(open[i]) \in Seq(Tokens)
    BY <2>2, FollowsWhole
  <2> DEFINE old == streams[i]
             got == streams[i].got \o Rest(open[i])
             s == Ended(old, Rest(open[i]))
  <2>4. got = Whole(old) /\ got \in Seq(Tokens)
    BY <2>2, <2>3, BodyTypes
  <2>5. s = [old EXCEPT !.got = got, !.is = "ended"]
    BY DEF Ended
  <2>6. old \in StreamTypes /\ old.id = i
    BY <2>2
  <2>7. streams' = [streams EXCEPT ![i] = s]
    BY <2>1, <2>2
  <2> HIDE DEF old, got, s
  <2>8. /\ s \in StreamTypes /\ s.id = i /\ s.got = got /\ s.is = "ended"
        /\ Whole(s) = Whole(old)
    BY <2>4, <2>5, <2>6 DEF StreamTypes, Whole
  <2>9. IsPrefix(s.got, Whole(s))
    BY <2>4, <2>8, PrefixOfItself
  <2>10. QED BY <2>1, <2>2, <2>4, <2>7, <2>8, <2>9, Goes
<1>2. CASE FinishBadly \/ Drop
  <2>1. PICK i \in DOMAIN streams, as \in {"threw", "dropped"} :
          /\ Release(streams[i].id)
          /\ streams' = [streams EXCEPT ![i] = Over(@, as)]
          /\ UNCHANGED next
    BY <1>2 DEF FinishBadly, Drop
  <2>2. QED BY <2>1, GivesUp
<1>3. QED BY <1>1, <1>2

LEMMA CodecsNextInv == CodecsInv /\ [CodecsNext]_vars => CodecsInv'
<1> SUFFICES ASSUME CodecsInv, [CodecsNext]_vars
             PROVE  CodecsInv'
  OBVIOUS
<1>1. CASE UNCHANGED vars
  BY <1>1 DEF CodecsInv, CodecsTypeOK, InOrder, vars
<1>2. QED BY <1>1, StartInv, PushInv, PushFailsInv, FinishInv DEF CodecsNext

----------------------------------------------------------------------------

\* Every variable keeps its type, and the counter never wraps.
THEOREM CodecsTypeCorrect == CodecsSpec => []CodecsTypeOK
<1>1. CodecsInv => CodecsTypeOK
  BY DEF CodecsInv
<1>2. QED BY <1>1, CodecsInitInv, CodecsNextInv, PTL DEF CodecsSpec

\* What comes out of a stream is its own data, in order and once; all of it
\* when finish has answered.
THEOREM OutputIsItsOwn == CodecsSpec => []OwnOutput
<1>1. CodecsInv => OwnOutput
  <2> SUFFICES ASSUME CodecsInv, NEW i \in DOMAIN streams
               PROVE  /\ IsPrefix(streams[i].got, Whole(streams[i]))
                      /\ streams[i].is = "ended" => streams[i].got = Whole(streams[i])
    BY DEF OwnOutput
  <2>1. CASE i \in DOMAIN open
    BY <2>1, InvOf, FollowsWhole
  <2>2. CASE i \notin DOMAIN open
    BY <2>2, InvOf DEF InOrder
  <2>3. QED BY <2>1, <2>2
<1>2. QED BY <1>1, CodecsInitInv, CodecsNextInv, PTL DEF CodecsSpec

\* A worker keeps codecs only for streams that can go on.
THEOREM CodecsAreReleased == CodecsSpec => []Released
<1>1. CodecsInv => Released
  BY InvOf DEF Released
<1>2. QED BY <1>1, CodecsInitInv, CodecsNextInv, PTL DEF CodecsSpec

\* A released id never names a codec again.
THEOREM StreamsStayOver == CodecsSpec => NeverRevived
<1>1. ASSUME CodecsInv, CodecsNext, NEW i \in DOMAIN streams,
             streams[i].id \notin DOMAIN open
      PROVE  /\ streams[i].id \notin DOMAIN open'
             /\ streams'[i].fed = streams[i].fed
             /\ streams'[i].got = streams[i].got
  <2>1. /\ i \in 1..Len(streams) /\ streams[i] \in StreamTypes /\ streams[i].id = i
        /\ \A j \in DOMAIN streams : streams[j].id = j
        /\ streams \in Seq(StreamTypes)
    BY <1>1, InvOf DEF CodecsInv, CodecsTypeOK
  <2>2. CASE Start
    <3>1. PICK id, c, s :
            /\ Len(streams) < MaxStreams => id = (next + 1) % IdBound
            /\ streams' = Append(streams, s) /\ Insert(id, c) /\ Len(streams) < MaxStreams
            \/ UNCHANGED vars
      BY <2>2, Zenon DEF Start
    <3>2. CASE UNCHANGED vars
      BY <1>1, <3>2 DEF vars
    <3>3. CASE ~UNCHANGED vars
      <4>1. id = Len(streams) + 1
        BY <1>1, <3>1, <3>3, NextId
      <4>2. DOMAIN open' = DOMAIN open \cup {id}
        BY <3>1, <3>3 DEF Insert
      <4>3. streams'[i] = streams[i]
        BY <2>1, <3>1, <3>3
      <4>4. QED BY <1>1, <2>1, <4>1, <4>2, <4>3
    <3>4. QED BY <3>2, <3>3
  <2>3. CASE Push
    <3>1. PICK j \in DOMAIN streams :
            /\ j \in DOMAIN open
            /\ \E s : streams' = [streams EXCEPT ![j] = s]
            /\ \E c : open' = [open EXCEPT ![j] = c]
      BY <2>1, <2>3 DEF Push
    <3>2. QED BY <1>1, <2>1, <3>1
  <2>4. CASE Finish
    <3>1. PICK j \in DOMAIN streams :
            /\ j \in DOMAIN open
            /\ Release(j)
            /\ streams' = [streams EXCEPT ![j] = Ended(@, Rest(open[j]))]
      BY <2>1, <2>4 DEF Finish
    <3>2. QED BY <1>1, <2>1, <3>1 DEF Release
  <2>5. CASE PushInvalid \/ PushUnreadable \/ Missing \/ FinishBadly \/ Drop
    <3>1. PICK j \in DOMAIN streams, as \in {"unread", "threw", "dropped"} :
            /\ Release(j) \/ UNCHANGED open
            /\ streams' = [streams EXCEPT ![j] = Over(@, as)]
      BY <2>1, <2>5 DEF PushInvalid, PushUnreadable, Missing, FinishBadly, Drop
    <3>2. streams[i].id \notin DOMAIN open'
      BY <1>1, <3>1 DEF Release
    <3>3. streams'[i] = streams[i] \/ streams'[i] = Over(streams[i], as)
      BY <2>1, <3>1
    <3>4. Over(streams[i], as).fed = streams[i].fed /\ Over(streams[i], as).got = streams[i].got
      BY <2>1 DEF Over, StreamTypes
    <3>5. QED BY <3>2, <3>3, <3>4
  <2>6. QED BY <1>1, <2>2, <2>3, <2>4, <2>5 DEF CodecsNext
<1>2. CodecsInv /\ [CodecsNext]_vars =>
        [\A i \in DOMAIN streams :
            streams[i].id \notin DOMAIN open =>
                /\ streams[i].id \notin DOMAIN open'
                /\ streams'[i].fed = streams[i].fed
                /\ streams'[i].got = streams[i].got]_vars
  BY <1>1
<1>3. QED BY <1>2, CodecsInitInv, CodecsNextInv, PTL DEF CodecsSpec, NeverRevived

=============================================================================
