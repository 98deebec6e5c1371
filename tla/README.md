# OpenWorkers runtime (Nova): TLA+ project

The crate runs one JavaScript worker on nova_vm, an ECMAScript interpreter that
knows neither events, timers nor promises of a host. `src/worker.rs` builds
the worker, hands it events and drives its jobs, timers and binding calls to an
end; the platform scripts (`bootstrap.js`, `bindings.js`, `encoding.js`,
`ops.js`, `crypto.js`, ...) are the other half of each of those, on the
JavaScript side of a boundary that only strings, numbers and buffers cross.

Everything runs on one thread. What makes the system hard is not parallelism
but order: state in two places that must agree, promises that outlive the event
they belong to, two suspension points where the embedder may drop the future, a
wall clock that is looked at in some places and not in others, and a guest that
may do any of its operations at any time JavaScript runs. Those are modelled.

## 1. Inventory

Paths are relative to the repository's `src/` unless they start with `tests/`.

**The worker** (`worker.rs`). State: `hooks.jobs` (the microtask queue), `slots`
(outcome, dispatch id, bindings, timers, codecs), `dispatches`, `aborted`, the
wall clock. Operations: `build`, `exec` for a fetch or a task, `drain`,
`drain_jobs`, `next_timer`, `fire_timer`, `settle_binding`, `take_outcome`,
`abort`, `Drop`. Calls the guest by evaluating a script, is called back by the
`__ow_native_*` builtins. Hard: `drain` is suspended while it waits for a binding
or a timer, where its future can be dropped; a promise of one event can settle
during another; every error path leaves something behind. Correct when each
event taken has one end and the reply is its own; an Ok leaves nothing behind; a
fetch whose promise settled is answered; and `exec` ends.

**Timers** (`bootstrap.js` 81-129; `worker.rs` `next_timer`,
`native_timer_start`, `native_timer_clear`). State: a Map of callbacks in
JavaScript and a Vec of due moments in the host. Hard: rescheduling before the
callback runs, clearing from inside a callback, delays whose `valueOf` throws or uses
timers half-way, running out of time. Correct when callbacks run in order of due time
and then of setting, the halves agree, and none is lost but by a failure.

**Binding calls** (`bindings.js`, `bindings.rs`). State: a Map of resolvers in
JavaScript and a Vec of lazy futures in the host; for each operation of a script,
how far it is. Operations: `fetch`, `env.<NAME>.fetch`, `.query` and `.invoke`, the
object each declared binding becomes (`env_source`), and in the host the future
that asks the embedder's handler and collects the answer. Hard: the latest call
is popped first and begins only then; a request's body is read before it is
called for; parameters that throw here or do not parse there; an answer that
streams, breaks off, or is cut by the wall clock. Correct when each future has its
resolvers, a promise is left pending only by the failure of its own wait, no wait
hangs, the embedder is asked once and for what was declared, and a promise gets the
whole answer to its own call.

**The dispatch glue** (`bootstrap.js` 154-317). State of one event: the
listeners, the response given, the `waitUntil` promises, where its async function
waits. Hard: listeners registered during the event, `respondWith` twice or late,
promises settling in any order, an await that throws, a `catch` that throws. Correct
when the event settles if its promises do, the last `respondWith` in time counts,
`waitUntil` is waited for and sinks nothing, and a task's errors become its result.

**Text encoding** (`encoding.js`, `encoding.rs`). State: the fields of a
TextDecoder between the chunks of a stream. Hard: characters cut by chunks,
malformed bytes that begin the next character, the byte order mark, throwing in
the middle. Correct when chunks do not show and a fatal decoder throws exactly
for malformed input. For the other labels the host decodes each chunk by itself:
correct, of the four encodings modelled, when chunks show only where they cut a
character or a mark, or begin with one.

**Compression codecs** (`compression.rs`, `ops.js` 34-69). State: a table of
open codecs by id, and their counter. Operations: start, push, finish, drop. Hard:
released by `finish`, `drop` or a failing `push`, while the script keeps the id and
may go on using it; output held back; several streams by turns. Correct when each
stream gets its own output, a codec goes with its stream, and an id is not used
again.

**Keys and crypto** (`crypto.js`, `crypto.rs`). State: the CryptoKeys a script holds,
with their material in a WeakMap. Operations: `importKey`, `generateKey`,
`exportKey`, `sign`, `verify`, `encrypt`, `decrypt`. Hard: keys used for what they
are not, a hash from the call or from the key, halves of a pair that go out and
come in again, fields of a key that the script may write to. Correct when exactly
what was made with a key holds for it, and the material of a key nobody wrote to goes
out only if the key was made extractable.

**URL and URLPattern**, **wire conversions**, **console**: one synchronous call each,
into a library or over the text of a value; no state that outlives a call but
the guest's own objects.

**Interaction.** `exec` evaluates a dispatcher script; the glue calls handlers,
which set timers, make calls and queue jobs; the promise of the event queues a job
that calls `__ow_native_respond`; `drain` runs jobs until none is left, waits for
one call or else one timer, and starts over; `take_outcome` reads the slot.

## 2. Modules

| module | models | source |
|---|---|---|
| `Clock` | the monotonic clock and the deadline of a drain | `worker.rs` 230-267, 482-488 |
| `Timers` | both halves of the timers, over `Clock` | `bootstrap.js` 81-129, `worker.rs` |
| `Bindings` | both halves of the binding calls, over `Clock` | `bindings.js`, `bindings.rs`, `worker.rs` |
| `Calls` | what goes through a call, from the operation to the embedder and back, over `Bindings` | `bindings.js`, `bindings.rs` |
| `Worker` | the worker: composes `Timers` and `Bindings` with the jobs, the events and their outcomes | `worker.rs`, `bootstrap.js` 162-175 |
| `WorkerService` | what a worker promises an embedder, abstractly | implemented by `Worker` |
| `Drain` | the loop of `drain` again, for scripts that never stop making work | `worker.rs` 227-362 |
| `Dispatch` | one event inside the glue | `bootstrap.js` 154-317 |
| `Utf8` | TextEncoder, and TextDecoder for UTF-8 | `encoding.js` |
| `TextDecoder` | TextDecoder for UTF-8 and for four encodings of the host, over `Utf8` | `encoding.js`, `encoding.rs`, `crypto.rs` 82-91 |
| `Codecs` | compression streams | `compression.rs`, `ops.js` 34-69 |
| `Keys` | `crypto.subtle` | `crypto.js` 57-314, `crypto.rs` |
| `WaitsProofs` (of `Timers` and `Bindings`), `CallsProofs`, `WorkerProofs`, `DrainProofs`, `DispatchProofs`, `CodecsProofs`, `KeysProofs`, `TextDecoderProofs` | theorems | |
| `MC*` | constants of the runs | |

`PROJECT.json` maps every definition to the lines it stands for. Conventions:
Rust's `Option` is a set of at most one element; definitions keep the source's
names; a comment "Mutant of X" marks a faulty variant of X, used by nothing in
the specification, that the properties were tried against.

### State and actions, against the code

*Worker.* `pc` is where the host is: `"script"`, `"dispatch"`, `"job"`,
`"timer"` while JavaScript runs, and in those states any guest action may
happen; `"jobs"` is the loop of `drain_jobs`, `"pick"` the rest of a round of
`drain`, `"await"` and `"sleep"` its two awaits, `"idle"` no `exec` running,
`"dead"` no worker any more. The loop is a step per iteration, because the job
budget counts iterations. `Fail` is the one error path of `exec`: a task sends a
failed `TaskResult`, a fetch drops its channel. The reaction of `settle` is a job:
`RunRespondJob` starts it, guest code may run while the payload is made (`toJSON`,
getters, `toString`), and it responds (`EndRespondJob`) or, for a rejection `String`
refuses, throws (`RespondJobThrows`). `NativeRespond` compares the dispatch id. `Cancel` is the future dropped at an await: what was popped for the
wait is gone with it. `reply` is history: how the last `exec` ended and what went
through the event's channel.

*Timers, Bindings.* An action per native call, with the JavaScript statements
before it in the same action, in the order they happen: a throw between the
two halves is an action of its own (`CallThrows`). A delay that is an object runs
its `valueOf` after the Map has the entry and before the host is told, so setting such a
timer is two steps, `BeginConversion` and `EndConversion` or `ConversionThrows`, with any
use of timers in between, nested ones too; `converting` has those under way, `early` is
history: handles cleared inside of their own conversion. `due` and `inflight` hold
what the drain popped and waits for.

*Calls.* `requests` are the operations of the script: `call` is the id of the native
call once it was made, `end` how the promise ended. `future` is the suspension
point of the future in flight: `"asked"` waits for the handler, `"collecting"` for
the next chunk, `"refused"` is one that is ready with an error. `asked` is history:
what the embedder was asked, and its answer. Each step is one of `Bindings` with
what the call carries beside it, or leaves that alone; a body is counted in chunks, and
a status is one of three kinds, since that is all `new Response` tells apart. The
signal of a fetch is looked at once, before the body is read: aborting it later changes
nothing in the code, and is no action here.

*Dispatch.* `at` is the await the async function is in. A value that is no
promise is one fulfilled already, and a throw one that is rejected, as `await`
treats them. A value may throw when it is read (`"bad"`), and what a task is rejected
with, or what reading its value throws, may have no message (`"mute"`, `"bad mute"`),
which throws out of the `catch` of a task. `inTime` is history, what `respondWith` was
last given before the last handler was done. Guest actions may happen between any two
steps of the function.

*Utf8.* `partial` is the decoder's private fields, `Call` is one `decode`, byte
by byte with `Consume`. `fed` and `emitted` are history of the current stream,
which `NewStream` starts; the reference is a table of well-formed sequences
and shares no definition with the decoder.

*TextDecoder.* `legacy` is the encoding the label names. A chunk goes down as its
digits, which `FromHex` reads; `encoding_rs` is external and stands for four encodings,
one that maps every byte (windows-1252), one that does not (windows-1253), and UTF-16 in
both orders. The other multi-byte encodings that `encoding.rs:45` accepts are not modelled,
and nothing here is said of them: a decoder of ISO-2022-JP is in a state between two
characters, so its chunks show wherever they are cut. `chunks` and
`texts` are history: what the calls were given and what they returned.

*Codecs.* `open` and `next` are the fields of the table. `streams` are the script's:
the id each holds, and as history what it fed in and got out. flate2 is external: a
stream is an opening mark, the data and a closing mark of one format, of which
a codec may hold back any part until it is finished. A decoder that did not see the
closing mark may end well or badly.

*Keys.* `keys` are the script's CryptoKeys with their material, `held` the material
it has in buffers, `drawn` counts the secrets drawn. The primitives are ideal: what
one computes is a term of what it was given. `WriteField` is the script writing to a
field of a key (`type`, `extractable`, or the name, curve or hash of its algorithm),
which the operations read back, and `written` in a key is the history of that. `verify`
and `decrypt` change nothing and are operators; `made` is history, what was signed and encrypted, and the
properties ask of everything in it what each key says to it.

### Abstractions

- The guest is any sequence of platform operations; it does not call the
  `__ow_*` names or replace intrinsics (README.md:223 names that limit).
- One reaction job stands for as many as a guest attaches to a promise; a job is
  `guest`, `wait` (`Atomics.waitAsync`) or the `respond` reaction of `settle`.
- Payloads are kinds: a value, an error, JSON the host cannot read, one that cannot
  be made at all, since `JSON.stringify` refuses the value or `String` the rejection.
- The script's code inside of `JSON.stringify(params)` of a call runs before the native
  call and after the resolvers are kept, where nothing looks at them; that another call
  may be made there is not told from making it before.
- A unit of time stands for any number of milliseconds. `MinPeriod` is the
  millisecond an interval moves by at least.
- A script asks for the formats, names and curves that are served: the others
  throw. It writes no others to the fields of a key either.
- Panics of libraries, heap exhaustion and garbage collection are left out.

## 3. Runs

| run | shows |
|---|---|
| `timers` | `FiresInOrder`, `HostBacked`, `StrandedOnlyByFailure`: the order of callbacks, the agreement of the halves and its one exception, and the only ways a callback is stranded |
| `calls` | `AskedOnce`, `AsksAsDeclared`, `WholeAnswer`: what the embedder is asked and what a promise gets; `ForgottenOnlyByFailure`: the only ways a promise stays pending; `NoWaitHangs` |
| `calls_bodiless` | fails: an asset with a status that has no body rejects (finding 3) |
| `worker` | `OwnReply`, `QuiescentOnOk`, `OnlyThrowsLeaveJobs`, `SettledFetchIsAnswered`, and the refinement `ImplementsService`, over two events on one worker |
| `worker_ends` | `ExecEnds`: every `exec` ends, with fairness; `ImplementsTimers`, `ImplementsBindings`: the composed worker uses its components as they are specified |
| `worker_timeout` | fails: a wall clock that runs out on a call leaves intervals armed (finding 1) |
| `drain` | `DrainEndsUnlessAnswered` for a script that never stops |
| `dispatch` | `BackgroundAwaited`, `LastRespondCounts`: what an answer waits for and which it is; `FailureHasCause`, `TaskErrorsAreResults`: what can fail an event; `EventSettles` |
| `utf8` | `StreamedAsOneShot`, `FatalThrows`, `RoundTrip` for UTF-8; `LegacyAsOneShot`, `SplitIsReplaced` for four encodings of the host |
| `utf8_throw` | fails: the mark after a stream that threw (finding 2) |
| `codecs` | `OwnOutput`, `Released`, `NeverRevived` |
| `keys` | `TagsHoldAsMade`, `SignaturesHoldAsMade`, `DecryptsWhatWasEncrypted`: what holds and what comes out, of each key for everything that was made |

The runs `timers`, `calls`, `dispatch`, `utf8` and `keys` also check a type invariant,
which states the relations between variables that the other properties take for
granted (in `keys`, that no material goes out but of a key made extractable, or of
one whose fields the script wrote to first). Those of
`Bindings`, `Worker`, `Drain` and `Codecs` are proved for every instance and not
checked again on a small one; so are `CallsBacked` and `CallsLostOneByOne`.

### Bounds, and why they are enough

- `timers`: three handles are what it takes for a tie of two and one between
  them; delays 0, 1 and 4 against a budget of 2 are now, within the deadline and
  beyond it. Any of the three may be set by an object for a delay, so conversions nest
  three deep. One drain begins at once and one a tick later. `Idle` is the set of moments
  at which time passes though nobody waits for it: few in the runs, any in the proofs, and
  all of them where `Worker` is shown to implement the components; a wait is always let
  finish.
- `calls`: two operations of any kind, so that one is queued or read while the other
  is in flight, and the later one is popped first; two chunks, so that a body can
  break off in the middle; two drains and a budget of one, so that a call is lost
  in one and the other goes on in the next. The declarations are one of each type,
  one name declared twice, and none.
- `worker`: two events, so that the promise of the first can settle during the
  second, with a timer, a call and a queue of one job besides what events put
  there; `MaxJobs = 2` so that the budget runs out with jobs left. `worker_ends` has
  one event with a timer and two calls, delays that run code and parameters that throw.
- `drain`: three iterations, two outstanding jobs, calls and timers. Nothing has
  an identity there, so only zero, one and more matter; time stops at the first
  moment past the deadline, as no later one is told from it. A handler may leave any of
  the timers armed before the drain begins.
- `dispatch`: two listeners, and three promises, which may play several parts:
  enough for one to be rejected while one is pending and one was the answer.
- `utf8`: streams of four bytes, the longest character, in every way of
  cutting them into chunks; twelve bytes, among them the ends of the ranges that
  `decode` tells apart; texts of two code points, a length and a lone surrogate
  each, over buffers of every size. For the host's decoders four bytes, a pair of
  surrogates, in up to three chunks: the bytes of the marks, of a surrogate of each
  kind, and a letter.
- `codecs`: two streams, every format and direction, three chunks in each: an
  opening mark, data and a closing mark. `IdBound` is more than the streams
  that are started, as 2^32 is.
- `keys`: three keys, two of them secrets at most: a pair and one that was imported or
  generated next to it, or two secrets, of which one may be the other imported again;
  one write to a field of one of them, which is what it takes to let out a secret made
  not extractable or a private half; one signature, tag or ciphertext, against every
  key, hash, nonce and piece of data; a hash every curve takes and one that P-384 does
  not; brought along is a key of 32 bytes, the size AES-GCM takes and a scalar of P-256
  has. The two pieces of data are interchangeable, hence the symmetry.

`MaxTimers`, `MaxCalls`, `MaxQueue`, `MaxDispatches`, `Idle`, `LastDrain`,
`MaxPending`, `MaxListeners`, `MaxFed`, `MaxText`, `MaxLegacy`, `MaxRequests`,
`MaxChunks`, `MaxStreams`, `MaxPushes`, `MaxKeys`, `MaxSecrets`, `MaxWrites` and `MaxMade` are bounds of the models
and not of the code; `MaxJobs` is the code's `MAX_JOBS_PER_DRAIN`. The runs of `Calls`,
`Codecs` and `Keys` do not check for deadlock: once their operations are used up they
stop.

### Fairness

`FairWorkerSpec` assumes that the steps the host takes by itself are taken
(`HostStep`: the executor polls the future of `exec`, and a stretch of JavaScript
returns, the `valueOf` of a delay and the reactions of `settle` too, which the runtime has
no means to enforce) and that time passes. It does not assume that a binding is ever
answered, that a waiting job is ever notified, or that the embedder does anything.
Nor do `Calls` and `Drain`: `Calls` has weak fairness on an error that is there
already, on the timeout and on time, all of them within a wait, since nobody polls
before the next `exec`; `Drain` on its loop and on time. `Timers` and `Bindings` have no
fairness: the drain that polls them is the worker's, and an `exec` that ended on a binding
leaves its timers to the next one, if there is one. `Dispatch` assumes that a settled promise lets
the function go on, which is a job in the queue of the drain; that the guest's
promises settle is the hypothesis of `EventSettles`, not fairness.

## 4. Findings

1. `tests/timer_test.rs:16` says the wall clock is what ends an interval. When it
   runs out while the drain waits for a binding, the timers stay armed and
   run in the next event (`TimeoutEndsIntervals`).
2. `encoding.js:6` keeps state "between `stream` calls". When the last call of a
   stream throws, `bomSeen` stays set, and the next stream of that decoder keeps a
   byte order mark it should drop (`LeadingMarkDropped`).
3. `bindings.js:75` says of 204, 205 and 304 that they have no body "and a Response
   refuses one", and `fetch` passes null then. `env.<NAME>.fetch` passes the bytes, so
   an asset answered with one of them rejects (`BodilessIsAnswered`).

Seen and not checked by a run of its own:

- `README.md:76` says that guest exceptions surface "with the JS error message". The
  reaction that makes the message of a rejected fetch calls `String(error)`, which throws
  for an object without a prototype: nothing is responded, and `exec` reports a handler
  that "did not settle". It is the exception `SettledFetchIsAnswered` makes (`lost`).
- `bootstrap.js:290` says "A task that throws is a failed task, not a failed dispatch".
  The `catch` reads the message of the error, and when that throws the dispatch fails:
  the exception `TaskErrorsAreResults` makes (`Mute`).
- `bindings.rs:72` says that `__ow_native_binding` "starts the call and returns at
  once"; a call is a lazy future that the drain polls one at a time, the latest
  first (`Poll` of `Calls` is where the embedder hears of it).
- `README.md:176` promises an explicit error instead of hanging. The deadline is not
  looked at after an answer, and `timeout` polls the answer first, so answers that
  are ready at once keep a drain going past it: the second disjunct of
  `DrainEndsUnlessAnswered`.
- `README.md:110` takes a value "carrying a boolean `success`" as a whole TaskResult,
  while `toTaskResult` takes any object with a `success` at all.
- `waitUntil` promises are no longer waited for by the glue once one of them is
  rejected (`BackgroundAwaited` says exactly that).
- An abort stops nothing once `fetch` looked at the signal, before it reads the body
  (`Fetch` of `Calls`), and the fetch of an asset never sends a body, whatever its `init`
  has.
- The handle of a timer is a counter, so the `valueOf` of its delay can clear it before
  the host hears of it: the host then arms a timer without a callback, which a drain
  waits for and fires in vain (the exception in `HostBacked`).
- `crypto.js:57` keeps key material "off the object the guest holds", but `exportKey`
  reads `extractable` and `type` off that object, where the script can write them
  (`KeysTypeOK` promises nothing of a key it wrote to).
- HMAC does not look into a hash that is given as an object, as ECDSA does: `sign`
  throws, and `verify` answers false (`TagsHoldAsMade`). ECDSA of a P-384 key over a
  SHA-1 digest throws a TypeError out of `fromHex(null)`. The usages of a key are
  kept and not looked at.
- A push whose chunk is in no ArrayBuffer throws like one that is not valid, but
  leaves the codec in the table (`PushUnreadable`).

## 5. Proofs

All theorems hold for every value of the constants allowed by the `ASSUME`s of the
modules they extend: any budget (or none), delays, declarations, numbers of timers,
calls, operations, chunks, jobs, events, listeners, promises, streams and keys, texts
and bytes of any length.

- `WaitsProofs`, the timers. `FiresInOrder` and `HostBacked` are not inductive.
  `TimersInv` adds what they rest on: handles and sequence numbers are minted by
  counters and identify a timer (`Minted`); a handle whose delay is being converted is
  armed nowhere yet, and is in the Map or was cleared early (`ConvertedApart`); the timer
  picked came before every armed one, and only the next round of an interval shares its
  handle (`OnePicked`); what fired was due (`FiredWasDue`), so a timer set after it is due
  later.
  `TimersStranded` is an action property proved from the same invariant.
- `WaitsProofs`, the calls. `BindingsInv`: ids come from a counter, the queue holds
  none twice, and each has its resolvers. Popping the last element splits the set of
  calls in two (`PopSplits`).
- `CallsProofs`. The transport first: each step of `Calls` is one of `Bindings` or leaves
  it alone, so `BindingsInv` holds. `CallsInv` adds who holds a call: an operation
  has at most one, no two share one (`OwnCalls`), one whose resolvers are kept has not
  ended, and a call was asked for only when it is not queued any more. A call that was
  popped never goes back, which is why nothing is asked twice; what is collected belongs to
  the last thing asked, which is why an answer is whole. `ForgottenOnlySo` is an action
  property proved from the same invariant: a step that drops a call drops the one in
  flight, and that is of one operation.
- `WorkerProofs`, the components. Every step of the worker is, for either component,
  one of that component's steps, a move of the clock, or none (`StepTimers`,
  `StepBindings`), so both invariants hold of the composed worker. The refinements
  `WorkerImplementsTimers` and `WorkerImplementsBindings` say more: a step of the worker
  never does half of a component's step. For them `WaitInv` relates the host's
  program counter to what the components hold: a timer is due only while the worker
  sleeps, a call is in flight only while it awaits one, so neither component's other
  host steps can run into a wait.
- `WorkerProofs`, the replies. Types; then `ReplyInv`: the outcome is at most one, of
  the current dispatch; a reply is there only when no `exec` runs; past the loop of
  `drain_jobs` the queue is empty. The last is why an Ok finds no job.
  `OwnReply`, `QuiescentOnOk` and `OnlyThrowsLeaveJobs` are part of it. `FetchInv`
  makes `SettledFetchIsAnswered` inductive: one reaction runs at a time, and as a job, so
  from the promise to the outcome the response of a fetch is in exactly one place
  after another, open, queued, in the making, delivered, or noted as one that cannot be
  made.
  The refinement, at the end of the module: under `ControlTypeOK` and `ReplyInv` each step of
  `Worker` is a step of `WorkerService` or leaves its variables alone.
- `DrainProofs`. Types only: a clock and due moments that stop at the first moment past
  the deadline stay there.
- `DispatchProofs`. `DispatchInv` adds to the types that nobody is called before
  the start and that there is no answer before it was awaited. After the event is
  over nothing it depends on changes (`OverStays`), so each property is a matter of
  the step that settles it. `LastRespondCounts` needs an invariant of its own
  (`RespondInv`): while handlers run, the last call is what the event holds; once they
  are done it is what the function awaits, and then its answer, whatever is given later.
- `CodecsProofs`. An invariant over the table and the streams: the i-th stream has
  id i, so an id below the counter is never given out again (`MaxStreams < IdBound` is
  the one assumption on the counter); and of each open codec, what it holds
  back, put after what came out, is what the stream stands for so far.
- `KeysProofs`. `KeysInv`: the material of a key is some that was brought along or drawn,
  of the key's kind until the script writes to it, what is out came from where
  `KeysTypeOK` says, and every term in `made` is what `sign` or `encrypt` computes of the
  material, hash and data kept beside it. What `verify` and `decrypt` answer to it is then
  a comparison of terms; that a key passed off as one of another curve is of no pair
  follows from the sizes (`CurveOfPoint`).
- `TextDecoderProofs`, UTF-8. The decoder looks at a byte and five numbers, the
  standard at whole sequences, so the proof goes in three steps. First, the table by its
  first byte (`Table`), and from it how the text's pieces change when a byte is
  appended: the last piece takes it, or it is a piece (`PiecesExtend`). Second, which
  bytes the five numbers stand for (`Keeps`): one turn of the loop does to the fields
  and the points what one more byte does to the pending piece and the decided ones
  (`TurnFollows`), so a whole chunk does (`LoopFollows`), and the flush of a last call
  decides on what is pending. Third, `Utf8Inv`: in an open stream the fields keep the
  pending bytes, what was returned is what the decided pieces are worth, less the
  mark; a stream that threw has a piece that is no character among its decided ones,
  and more bytes do not undo that (`RuinStays`). `RoundTrip` needs also that the
  encoding of a text has the text's points as its pieces and nothing pending
  (`Encoded`, `WholeText`).
- `TextDecoderProofs`, the four encodings. Here the decoder keeps nothing and the proof is
  about text: which pieces of a chunk are pieces of the whole stream. A first piece
  that is a character stays the first piece whatever follows (`CharacterStays`), and one
  of the whole that ends within a chunk is the chunk's, unless one byte of the chunk
  is left over (`PieceStays`): a high surrogate and a byte are one piece of three when
  nothing follows them, but two and a unit when something does. Hence `CutParts` (the whole cut between
  pieces falls into the pieces of its parts), `CleanParts` (so does a whole whose
  first part is not malformed) and `EndsParts` (where the pieces of the parts end).
  `LegacyInv` says of the stream so far that a chunk of it is malformed by itself
  just when the whole is, or is cut within a character; that the calls threw for
  that and nothing else; that it shows as U+FFFD otherwise; and that without it what
  was returned is what the whole decodes to. `StreamedAppend` is its step. The
  digits the bytes go down as come back as the bytes (`FromHexBack`), so `Decoded` can
  say what the host answers by the pieces of the chunk.

The theorems about text are about recursive functions and folds. The library's
induction theorems cannot be applied, as they take an operator; induction is taken
from the well-foundedness of the order on the naturals instead, on the set of lengths
a lemma holds for (`Induction`), and a function defined by recursion or `FoldLeft` is
shown to exist the same way before its equations are used (`FromExists`, `FoldExists`,
`FlatExists`, `LegacyFromExists`, `UpToExists`).

Only model-checked: everything about liveness (`NoWaitHangs`,
`ExecEnds`, `DrainEndsUnlessAnswered`, `EventSettles`), which is out of the proof
system's reach. Every safety property of a passing run is a theorem.

## 6. Not modelled, and why

URL and URLPattern: one call into a library, no state. The wire conversions, the
console and the text of the env source: data of one value. What URLs, headers, rows
and base64 a call carries. Labels of encodings, and multi-byte encodings other than UTF-8
and UTF-16. `getRandomValues` and `randomUUID`:
randomness. The examples.

## 7. Plan

Done, in this order: the timers, the calls, the worker that composes them, its
abstract specification, the drain for endless scripts, the glue of one event,
the text coding in both halves, what calls carry, the codecs, the keys; and the
proofs of section 5, of every safety property.

Next:

1. The boolean `success` of a TaskResult in `Dispatch`, and values told apart for
   it.
2. `Dispatch` inside `Worker`: the promise of an event there as a refinement of
   `SettleEvent`, with the awaits as jobs.
