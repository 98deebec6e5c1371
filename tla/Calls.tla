------------------------------- MODULE Calls -------------------------------
(***************************************************************************)
(* What goes through a binding call: from the operation a script uses      *)
(* (bindings.js: fetch, env.<NAME>.fetch, .query, .invoke), over the       *)
(* future that asks the embedder and collects its answer (bindings.rs), to *)
(* the promise the script holds.  The transport is Bindings; nothing of it *)
(* is repeated here.                                                       *)
(*                                                                         *)
(* Bodies are counted in chunks.  A body of no bytes or of one buffer is a *)
(* stream of no chunk or of one.                                           *)
(***************************************************************************)
EXTENDS Bindings

CONSTANTS Declarations,  \* the Script.bindings looked at: sequences of [name, type]
          MaxRequests,   \* bound: operations of the script
          MaxChunks      \* bound: chunks the embedder streams

BindingTypes == {"assets", "database", "invoke", "other"}

ASSUME CallsAssumption ==
    /\ \A d \in Declarations : \A i \in DOMAIN d : d[i].type \in BindingTypes
    /\ MaxRequests \in Nat
    /\ MaxChunks \in Nat

VARIABLES wired,     \* HostSlots::ops: whether the embedder gave a handle
          declared,  \* Script.bindings
          requests,  \* the operations of the script, in order
          asked,     \* history: what reached the embedder, and what it answered
          future     \* how far the future in flight is: "none", "refused"
                     \* (ready with an error), "asked" or "collecting"

callVars == <<wired, declared, requests, asked, future>>
vars == <<clockVars, bindingVars, callVars>>

\* The kinds of a call, and the binding each one goes to; "http" goes to none.
KindOf == [assets |-> "fetch", database |-> "query", invoke |-> "invoke"]
Kinds == {"http", "fetch", "query", "invoke"}

\* An answer's status: one with a body, 204, 205 or 304, or one no Response takes.
Statuses == {"full", "bodiless", "outside"}

\* How a promise ends.
Answered(n) == [is |-> "answer", chunks |-> n]
Rejected == [is |-> "error", chunks |-> 0]
AbortError == [is |-> "abort", chunks |-> 0]

----------------------------------------------------------------------------
(* env_source(): the object each declared binding becomes.                 *)

\* Mutant of EnvObject: the first binding of a name wins.
EnvObjectFirst(name) ==
    {KindOf[d.type] :
        d \in {declared[i] : i \in {i \in DOMAIN declared :
                  /\ declared[i].name = name
                  /\ declared[i].type \in DOMAIN KindOf
                  /\ \A j \in DOMAIN declared : declared[j].name = name => i <= j}}}

\* Of two bindings of one name the later wins, as in any object literal; one
\* of a type that is not served makes no calls, its methods throw.
EnvObject(name) ==
    {KindOf[d.type] :
        d \in {declared[i] : i \in {i \in DOMAIN declared :
                  /\ declared[i].name = name
                  /\ declared[i].type \in DOMAIN KindOf
                  /\ \A j \in DOMAIN declared : declared[j].name = name => j <= i}}}

Names == {declared[i].name : i \in DOMAIN declared}

----------------------------------------------------------------------------
(* The script.  JavaScript runs only while no answer is awaited.           *)

\* `fits`: whether serde takes the parameters.
Request(kind, name, body) ==
    [kind |-> kind, name |-> name, body |-> body, fits |-> TRUE, call |-> {}, end |-> {}]

Make(request) ==
    /\ inflight = {}
    /\ Len(requests) < MaxRequests
    /\ requests' = Append(requests, request)
    /\ UNCHANGED <<clockVars, wired, declared, asked, future>>

\* The native call, made for `request`.
Called(request) == [request EXCEPT !.call = {nextCall}]

\* fetch(): an aborted signal rejects; a request without a body is called for
\* at once, one with a body when that has been read.  The signal is looked at
\* here and nowhere else: aborting it while the body is read, or while the call
\* waits to be polled, changes nothing.
Fetch ==
    \E body \in BOOLEAN :
        LET request == Request("http", {}, body) IN
        \/ Make([request EXCEPT !.end = {AbortError}]) /\ UNCHANGED bindingVars
        \/ body /\ Make(request) /\ UNCHANGED bindingVars
        \/ ~body /\ Make(Called(request)) /\ Call

IsReading(r) == r.kind = "http" /\ r.call = {} /\ r.end = {}

\* `await request.arrayBuffer()` is over.
BodyRead ==
    \E i \in DOMAIN requests :
        /\ IsReading(requests[i])
        /\ requests' = [requests EXCEPT ![i] = Called(@)]
        /\ Call
        /\ UNCHANGED <<clockVars, wired, declared, asked, future>>

BodyUnreadable ==
    \E i \in DOMAIN requests :
        /\ inflight = {}
        /\ IsReading(requests[i])
        /\ requests' = [requests EXCEPT ![i].end = {Rejected}]
        /\ UNCHANGED <<clockVars, bindingVars, wired, declared, asked, future>>

\* env.<NAME>.fetch(), which sends no body whatever the request has, .query() and
\* .invoke(), with parameters JSON can carry.  They may still be none the host can
\* read: a method that is no string, params that are no Vec<SqlParam>, arguments
\* nested too deep.
EnvCall ==
    \E name \in Names : \E kind \in EnvObject(name), fits \in BOOLEAN :
        /\ Make(Called([Request(kind, {name}, FALSE) EXCEPT !.fits = fits]))
        /\ Call

\* Mutant of RefusedByScript: the error of JSON.stringify goes nowhere.
RefusedInSilence ==
    \E name \in Names : \E kind \in EnvObject(name) :
        /\ Make(Request(kind, {name}, FALSE))
        /\ CallThrows

\* Parameters JSON.stringify refuses, or a command that is no string.
RefusedByScript ==
    \E name \in Names : \E kind \in EnvObject(name) :
        /\ Make([Request(kind, {name}, FALSE) EXCEPT !.end = {Rejected}])
        /\ CallThrows \/ (kind = "invoke" /\ UNCHANGED bindingVars)

----------------------------------------------------------------------------
(* The future of a call (bindings.rs), while the drain awaits it.          *)

InFlight(r) == r.call # {} /\ r.call = inflight

\* answer(): the operation of the handler, with what the parameters held.
Asking(r) ==
    [call |-> r.call, kind |-> r.kind, name |-> r.name, body |-> r.body,
     status |-> {}, sent |-> 0, closed |-> FALSE]

\* The drain pops the call and polls it for the first time.  Without a handle,
\* or with parameters that do not parse, it is ready with an error.
Poll ==
    /\ PopBinding
    /\ \E i \in DOMAIN requests :
         /\ requests[i].call = inflight'
         /\ IF wired /\ requests[i].fits
            THEN future' = "asked" /\ asked' = Append(asked, Asking(requests[i]))
            ELSE future' = "refused" /\ asked' = asked
    /\ UNCHANGED <<clockVars, wired, declared, requests>>

\* settle_binding(), and what the script's side makes of the payload: the
\* promise of the call ends so, or not at all ({}).
Settle(end) ==
    /\ SettleBinding
    /\ requests' = [i \in DOMAIN requests |->
                      IF InFlight(requests[i]) THEN [requests[i] EXCEPT !.end = end]
                                               ELSE requests[i]]
    /\ future' = "none"
    /\ UNCHANGED <<clockVars, wired, declared>>

SettleRefused ==
    /\ future = "refused"
    /\ Settle({Rejected})
    /\ asked' = asked

\* Of the call in flight: what the embedder was asked.
Current == asked[Len(asked)]
Answers(record) == asked' = [asked EXCEPT ![Len(asked)] = record]

\* Mutant of Fails: an error in the middle of a body is taken for its end.
FailsAsEnd ==
    \/ future = "asked" /\ Settle({Rejected}) /\ asked' = asked
    \/ future = "collecting" /\ Settle({Answered(Current.sent)}) /\ asked' = asked

\* The handler answers with an error, or a chunk of the body is one.
Fails ==
    /\ future \in {"asked", "collecting"}
    /\ Settle({Rejected})
    /\ asked' = asked

\* handle_binding_database() and handle_binding_invoke() answer at once; rows
\* that are no JSON are lost on the script's side, where JSON.parse throws.
Value ==
    /\ future = "asked"
    /\ Current.kind \in {"query", "invoke"}
    /\ \/ Settle({Answered(0)})
       \/ Current.kind = "query" /\ Settle({})
    /\ Answers([Current EXCEPT !.closed = TRUE])

\* handle_fetch() and handle_binding_fetch() answer with a status; collect()
\* reads the body.
Respond ==
    /\ future = "asked"
    /\ Current.kind \in {"http", "fetch"}
    /\ \E status \in Statuses : Answers([Current EXCEPT !.status = {status}])
    /\ future' = "collecting"
    /\ UNCHANGED <<clockVars, bindingVars, wired, declared, requests>>

Chunk ==
    /\ future = "collecting"
    /\ Current.sent < MaxChunks
    /\ Answers([Current EXCEPT !.sent = @ + 1])
    /\ UNCHANGED <<clockVars, bindingVars, wired, declared, requests, future>>

\* `new Response(body, init)` on the script's side: it throws for a status
\* outside of its range, and for a body with a status that has none.  fetch()
\* passes null then, the binding does not.
ResponseOf(kind, status, chunks) ==
    CASE status = "full" -> Answered(chunks)
      [] status = "outside" -> Rejected
      [] status = "bodiless" -> IF kind = "http" THEN Answered(0) ELSE Rejected

Ends ==
    /\ future = "collecting"
    /\ \E status \in Current.status :
         Settle({ResponseOf(Current.kind, status, Current.sent)})
    /\ Answers([Current EXCEPT !.closed = TRUE])

\* Mutant of Suspended: once there is a status the body is waited for.
SuspendedAsking == future = "asked"

\* Both suspension points of the future; `timeout` polls it before the clock.
Suspended == future \in {"asked", "collecting"}

\* Mutant of TimesOut: the call is put back, to be asked for again.
TimesOutAndRetries ==
    /\ Suspended
    /\ inflight # {} /\ Elapsed
    /\ inflight' = {}
    /\ bindings' \in {Append(bindings, id) : id \in inflight}
    /\ future' = "none"
    /\ UNCHANGED <<clockVars, pending, nextCall, wired, declared, requests, asked>>

\* Mutant of TimesOut: the future is not dropped.
TimesOutHalfway ==
    /\ Suspended
    /\ TimeoutBinding
    /\ UNCHANGED <<clockVars, callVars>>

TimesOut ==
    /\ Suspended
    /\ TimeoutBinding
    /\ future' = "none"
    /\ UNCHANGED <<clockVars, wired, declared, requests, asked>>

Abandons ==
    /\ Suspended
    /\ AbandonBinding
    /\ future' = "none"
    /\ UNCHANGED <<clockVars, wired, declared, requests, asked>>

----------------------------------------------------------------------------

CallsInit ==
    /\ BindingsInit
    /\ wired \in BOOLEAN
    /\ declared \in Declarations
    /\ requests = <<>>
    /\ asked = <<>>
    /\ future = "none"

ScriptStep ==
    \/ Fetch \/ BodyRead \/ BodyUnreadable \/ EnvCall \/ RefusedByScript

EmbedderAnswers == Fails \/ Value \/ Respond \/ Chunk \/ Ends

NewDrain == inflight = {} /\ StartDrain /\ UNCHANGED <<bindingVars, callVars>>
TimePasses == Tick(AnswerDue) /\ UNCHANGED <<bindingVars, callVars>>

CallsNext ==
    \/ ScriptStep
    \/ Poll \/ SettleRefused \/ EmbedderAnswers \/ TimesOut \/ Abandons
    \/ NewDrain \/ TimePasses

CallsSpec == CallsInit /\ [][CallsNext]_vars

\* While a call is awaited its future is polled and time passes.  That the
\* embedder answers, that a body it streams ever ends, or that anybody drains
\* again, is not assumed.
CallsFairness ==
    /\ WF_vars(SettleRefused)
    /\ WF_vars(TimesOut)
    /\ WF_vars(TimePasses)

FairCallsSpec == CallsSpec /\ CallsFairness

----------------------------------------------------------------------------
(* Properties.                                                             *)

AllNames == UNION {{d[i].name : i \in DOMAIN d} : d \in Declarations}

RequestTypes ==
    [kind : Kinds, name : SUBSET AllNames, body : BOOLEAN, fits : BOOLEAN,
     call : SUBSET Nat,
     end : SUBSET [is : {"answer", "error", "abort"}, chunks : 0..MaxChunks]]

AskedTypes ==
    [call : SUBSET Nat, kind : Kinds, name : SUBSET AllNames, body : BOOLEAN,
     status : SUBSET Statuses, sent : 0..MaxChunks, closed : BOOLEAN]

\* What a script's operation and the embedder's side of it can look like: an
\* operation has one call at most, its resolvers are forgotten when its promise
\* has ended, so nothing can settle that again, and a future is in flight
\* exactly when it got somewhere.
CallsTypeOK ==
    /\ BindingsTypeOK
    /\ wired \in BOOLEAN
    /\ declared \in Declarations
    /\ requests \in Seq(RequestTypes)
    /\ asked \in Seq(AskedTypes)
    /\ future \in {"none", "refused", "asked", "collecting"}
    /\ future = "none" <=> inflight = {}
    /\ \A i \in DOMAIN requests :
         /\ requests[i].call \in {{}} \cup {{id} : id \in 1..nextCall - 1}
         /\ requests[i].end # {} => requests[i].call \cap pending = {}

\* No call reaches the embedder twice, whether it answered, failed or timed
\* out, in this drain or in a later one.
AskedOnce == \A i, j \in DOMAIN asked : asked[i].call = asked[j].call => i = j

\* What the embedder is asked is what the script asked for: the operation of a
\* binding that was declared, as the last of its name, with the type of that
\* operation, and the body of the request if it goes to the network.
AsksAsDeclared ==
    \A i \in DOMAIN asked :
        /\ \E j \in DOMAIN requests :
             /\ requests[j].call = asked[i].call
             /\ requests[j].kind = asked[i].kind
             /\ requests[j].name = asked[i].name
             /\ requests[j].body = asked[i].body
        /\ \A name \in asked[i].name :
             \E j \in DOMAIN declared :
                 /\ declared[j].name = name
                 /\ \A k \in DOMAIN declared : declared[k].name = name => k <= j
                 /\ declared[j].type \in DOMAIN KindOf /\ KindOf[declared[j].type] = asked[i].kind

\* A promise is fulfilled with the whole answer the embedder gave to that very
\* call, never with a part of a body that broke off or was cut by a timeout.
WholeAnswer ==
    \A i \in DOMAIN requests : \A end \in requests[i].end :
        end.is = "answer" =>
            \E j \in DOMAIN asked :
                /\ asked[j].call = requests[i].call
                /\ asked[j].closed
                /\ end.chunks = IF asked[j].status \subseteq {"full"} THEN asked[j].sent ELSE 0

\* Operations whose promise stays pending for good: no end, no body that is read
\* still, and no call in the host's hands.
Forgotten ==
    {i \in DOMAIN requests :
        /\ requests[i].end = {}
        /\ ~IsReading(requests[i])
        /\ requests[i].call \cap HostCalls = {}}

\* A promise is left pending in three ways only: the call the drain awaited, and
\* no other, timed out or was dropped while the embedder had it, or the rows it
\* answered were no JSON.  Parameters that throw, a call the host refuses, the
\* other calls of a drain that ends early: none of them costs a promise its end.
ForgottenOnlyByFailure ==
    [][\A i \in Forgotten' \ Forgotten :
          /\ i \in DOMAIN requests
          /\ requests[i].call = inflight
          /\ future \in {"asked", "collecting"}
          /\ \/ pending' = pending
             \/ requests[i].kind = "query" /\ asked'[Len(asked)].closed]_vars

\* bindings.js:75 says of 204, 205 and 304: "These statuses have no body, and a
\* Response refuses one"; an answer with one of them is still an answer.
BodilessIsAnswered ==
    \A i \in DOMAIN requests : \A j \in DOMAIN asked :
        /\ asked[j].call = requests[i].call
        /\ asked[j].closed
        /\ asked[j].status = {"bodiless"}
        => Rejected \notin requests[i].end

=============================================================================
