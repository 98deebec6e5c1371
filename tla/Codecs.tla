------------------------------- MODULE Codecs -------------------------------
(***************************************************************************)
(* Compression streams (compression.rs and the four operations of ops.js): *)
(* the worker keeps the codecs, the script's side holds their ids.  Each   *)
(* operation is one synchronous native call.                               *)
(*                                                                         *)
(* flate2 is external.  A compressed stream is an opening mark, the data   *)
(* and a closing mark, all of one format; a codec may hold back any part   *)
(* of what it could emit until it is finished.                             *)
(***************************************************************************)
EXTENDS Naturals, Sequences, SequencesExt

CONSTANTS Formats,    \* formats asked for
          Data,       \* pieces of data
          IdBound,    \* ids are u32: the counter has this many values
          MaxStreams, \* bound: streams a script starts
          MaxPushes   \* bound: chunks it pushes into one stream

Supported == {"deflate", "deflate-raw", "gzip"}

ASSUME CodecsAssumption ==
    /\ MaxStreams \in Nat /\ MaxPushes \in Nat
    /\ IdBound \in Nat \ {0}
    /\ MaxStreams < IdBound

VARIABLES open,    \* Codecs::open, by id
          next,    \* Codecs::next
          streams  \* the streams of the script: the id each holds, and its
                   \* history: the data accepted, what came out, how it stands

vars == <<open, next, streams>>

Opening(format) == [mark |-> "opening", of |-> format]
Closing(format) == [mark |-> "closing", of |-> format]
Piece(data)     == [mark |-> "data", of |-> data]
Garbage         == [mark |-> "garbage", of |-> "none"]

Tokens == {Opening(f) : f \in Supported} \cup {Closing(f) : f \in Supported}
            \cup {Piece(d) : d \in Data} \cup {Garbage}

\* A chunk holds at most one token, a decoder's any, an encoder's a piece.
Chunks(decompress) ==
    {<<>>} \cup {<<t>> : t \in IF decompress THEN Tokens ELSE {Piece(d) : d \in Data}}

----------------------------------------------------------------------------
(* One codec.                                                              *)

\* Codec::new() for a format the standard names.
NewCodec(format, decompress) ==
    [format |-> format, decompress |-> decompress,
     seen |-> "nothing",
     held |-> IF decompress THEN <<>> ELSE <<Opening(format)>>]

\* The data a codec takes out of a chunk.
DataIn(chunk) == IF chunk # <<>> /\ chunk[1].mark = "data" THEN chunk ELSE <<>>

\* What a decoder has seen of its stream after a token.
Seen(codec, token) ==
    IF token = Opening(codec.format) THEN "opening"
    ELSE IF token = Closing(codec.format) THEN "closing" ELSE codec.seen

\* Whether write_all() takes the chunk: a decoder wants the opening, data, the
\* closing and nothing after it.
Takes(codec, chunk) ==
    codec.decompress /\ chunk # <<>> =>
        \/ codec.seen = "nothing" /\ chunk[1] = Opening(codec.format)
        \/ codec.seen = "opening" /\ chunk[1].mark = "data"
        \/ codec.seen = "opening" /\ chunk[1] = Closing(codec.format)

\* Codec::push(): the codec after it, and the n tokens it emits.
Holding(codec, chunk) == codec.held \o DataIn(chunk)

\* Mutant of Pushed: the output is copied, not taken.
PushedKept(codec, chunk, n) ==
    [codec EXCEPT !.held = Holding(codec, chunk),
                  !.seen = IF chunk # <<>> /\ @ # "closing" /\ codec.decompress
                           THEN Seen(codec, chunk[1]) ELSE @]

Pushed(codec, chunk, n) ==
    [codec EXCEPT !.held = SubSeq(Holding(codec, chunk), n + 1, Len(Holding(codec, chunk))),
                  !.seen = IF chunk # <<>> /\ codec.decompress
                           THEN Seen(codec, chunk[1]) ELSE @]

Emitted(codec, chunk, n) == SubSeq(Holding(codec, chunk), 1, n)

\* Codec::finish(): the rest of what it can emit.
Rest(codec) ==
    IF codec.decompress THEN codec.held ELSE codec.held \o <<Closing(codec.format)>>

----------------------------------------------------------------------------
(* native_compression(), each with what ops.js makes of the answer.        *)

Release(id) == open' = [k \in DOMAIN open \ {id} |-> open[k]]

NewStream(id, format, decompress) ==
    [id |-> id, format |-> format, decompress |-> decompress,
     fed |-> <<>>, got |-> <<>>, pushes |-> 0, is |-> "open"]

Insert(id, codec) ==
    open' = [k \in DOMAIN open \cup {id} |-> IF k = id THEN codec ELSE open[k]]

\* Mutant of Start: the smallest id not in use is taken.
StartReusing ==
    \E format \in Formats, decompress \in BOOLEAN :
        /\ Len(streams) < MaxStreams
        /\ format \in Supported
        /\ \E id \in 1..MaxStreams :
             /\ id \notin DOMAIN open
             /\ \A k \in 1..id - 1 : k \in DOMAIN open
             /\ next' = IF id > next THEN id ELSE next
             /\ Insert(id, NewCodec(format, decompress))
             /\ streams' = Append(streams, NewStream(id, format, decompress))

\* "start": a format the standard does not name is null, and throws.
Start ==
    \E format \in Formats, decompress \in BOOLEAN :
        /\ Len(streams) < MaxStreams
        /\ IF format \in Supported
           THEN LET id == (next + 1) % IdBound IN
                /\ next' = id
                /\ Insert(id, NewCodec(format, decompress))
                /\ streams' = Append(streams, NewStream(id, format, decompress))
           ELSE UNCHANGED vars

\* The stream after a push that took `data` in and brought `out` out.
Advanced(stream, data, out) ==
    [stream EXCEPT !.fed = @ \o data, !.got = @ \o out, !.pushes = @ + 1]

\* The stream after "finish" brought `out` out, and after a call that leaves it
\* `as`, unless it was over before.
Ended(stream, out) == [stream EXCEPT !.got = @ \o out, !.is = "ended"]
Over(stream, as) == [stream EXCEPT !.is = IF @ \in {"open", "unread"} THEN as ELSE @]

\* "push" of a chunk the codec takes.
Push ==
    \E i \in DOMAIN streams :
        LET id == streams[i].id IN
        /\ streams[i].pushes < MaxPushes
        /\ id \in DOMAIN open
        /\ \E chunk \in Chunks(open[id].decompress) :
             /\ Takes(open[id], chunk)
             /\ \E n \in 0..Len(Holding(open[id], chunk)) :
                  /\ open' = [open EXCEPT ![id] = Pushed(open[id], chunk, n)]
                  /\ streams' = [streams EXCEPT ![i] =
                       Advanced(@, DataIn(chunk), Emitted(open[id], chunk, n))]
        /\ UNCHANGED next

\* Mutant of PushInvalid: the codec that failed is kept.
PushInvalidKept ==
    \E i \in DOMAIN streams :
        LET id == streams[i].id IN
        /\ id \in DOMAIN open
        /\ \E chunk \in Chunks(open[id].decompress) : ~Takes(open[id], chunk)
        /\ streams' = [streams EXCEPT ![i] = Over(@, "threw")]
        /\ UNCHANGED <<open, next>>

\* "push" of a chunk it does not take: the codec is released.
PushInvalid ==
    \E i \in DOMAIN streams :
        LET id == streams[i].id IN
        /\ id \in DOMAIN open
        /\ \E chunk \in Chunks(open[id].decompress) : ~Takes(open[id], chunk)
        /\ Release(id)
        /\ streams' = [streams EXCEPT ![i] = Over(@, "threw")]
        /\ UNCHANGED next

\* "push" of a chunk whose bytes are in no ArrayBuffer, which is refused before
\* the codec is looked for and leaves it.
PushUnreadable ==
    \E i \in DOMAIN streams :
        /\ streams' = [streams EXCEPT ![i] = Over(@, "unread")]
        /\ UNCHANGED <<open, next>>

\* "push" and "finish" where the id names no codec: null, and it throws.
Missing ==
    \E i \in DOMAIN streams :
        /\ streams[i].id \notin DOMAIN open
        /\ streams' = [streams EXCEPT ![i] = Over(@, "threw")]
        /\ UNCHANGED <<open, next>>

\* "finish" that ends well, and one that does not; either releases the codec.
\* A decoder that has not seen the closing mark may do either.
Finish ==
    \E i \in DOMAIN streams :
        LET id == streams[i].id IN
        /\ id \in DOMAIN open
        /\ Release(id)
        /\ streams' = [streams EXCEPT ![i] = Ended(@, Rest(open[id]))]
        /\ UNCHANGED next

FinishBadly ==
    \E i \in DOMAIN streams :
        LET id == streams[i].id IN
        /\ id \in DOMAIN open
        /\ open[id].decompress /\ open[id].seen # "closing"
        /\ Release(id)
        /\ streams' = [streams EXCEPT ![i] = Over(@, "threw")]
        /\ UNCHANGED next

\* "drop", of a codec or of none.
Drop ==
    \E i \in DOMAIN streams :
        /\ Release(streams[i].id)
        /\ streams' = [streams EXCEPT ![i] = Over(@, "dropped")]
        /\ UNCHANGED next

CodecsInit == open = <<>> /\ next = 0 /\ streams = <<>>

CodecsNext ==
    \/ Start
    \/ Push \/ PushInvalid \/ PushUnreadable \/ Missing
    \/ Finish \/ FinishBadly
    \/ Drop

CodecsSpec == CodecsInit /\ [][CodecsNext]_vars

----------------------------------------------------------------------------
(* Properties.                                                             *)

CodecTypes ==
    [format : Supported, decompress : BOOLEAN,
     seen : {"nothing", "opening", "closing"}, held : Seq(Tokens)]

StreamTypes ==
    [id : Nat \ {0}, format : Supported, decompress : BOOLEAN, fed : Seq(Tokens),
     got : Seq(Tokens), pushes : Nat, is : {"open", "unread", "threw", "ended", "dropped"}]

\* The counter has counted the streams, and the ids in the table are among
\* those it gave out.
CodecsTypeOK ==
    /\ streams \in Seq(StreamTypes)
    /\ next = Len(streams)
    /\ DOMAIN open \subseteq 1..next
    /\ \A id \in DOMAIN open : open[id] \in CodecTypes

\* What a stream stands for once all of it has come out.
Whole(stream) ==
    IF stream.decompress THEN stream.fed
    ELSE <<Opening(stream.format)>> \o stream.fed \o <<Closing(stream.format)>>

\* Whatever the streams of a worker are doing at once, what comes out of one is
\* its own data in its own format and direction, in order and nothing twice;
\* all of it once finish has answered.
OwnOutput ==
    \A i \in DOMAIN streams :
        /\ IsPrefix(streams[i].got, Whole(streams[i]))
        /\ streams[i].is = "ended" => streams[i].got = Whole(streams[i])

\* A worker keeps a codec only for a stream that can still go on: neither one
\* that ended, was dropped or failed on its data (compression.rs:5).
Released ==
    \A i \in DOMAIN streams :
        streams[i].id \in DOMAIN open => streams[i].is \in {"open", "unread"}

\* A stream that is over stays over: its id never comes to name a codec again,
\* so nothing later goes in or comes out under it.
NeverRevived ==
    [][\A i \in DOMAIN streams :
          streams[i].id \notin DOMAIN open =>
              /\ streams[i].id \notin DOMAIN open'
              /\ streams'[i].fed = streams[i].fed
              /\ streams'[i].got = streams[i].got]_vars

=============================================================================
