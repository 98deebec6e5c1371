------------------------------ MODULE Dispatch ------------------------------
(***************************************************************************)
(* One event on its way through the guest's handlers (bootstrap.js,        *)
(* __ow_dispatch and __ow_dispatch_task): the async function that awaits   *)
(* the listeners one after the other, then what respondWith() was given,   *)
(* the body, and the waitUntil() promises, and settles the promise of the  *)
(* event.  Worker.tla has only that promise and when it settles.           *)
(*                                                                         *)
(* Everything the function awaits is a promise of the guest's; a value     *)
(* that is none is one that is fulfilled already, a throw one rejected.    *)
(***************************************************************************)
EXTENDS Naturals, Sequences

CONSTANTS Promises,      \* promises of the guest's
          MaxListeners   \* bound: listeners of the event's type

ASSUME DispatchAssumption == MaxListeners \in Nat

VARIABLES kind,        \* "fetch" or "task"
          listeners,   \* how many there are in fetchHandlers or taskHandlers
          promise,     \* what has become of each promise
          at,          \* which await the function is in
          called,      \* how many handlers it called
          awaited,     \* the promise it awaits, {} at Promise.all
          given,       \* _response; responseValue, {} until responded
          answer,      \* `response` of a fetch, the value in `result` of a task
          background,  \* the promises waitUntil() was given
          settled,     \* the promise of the event: {}, or how it settled
          inTime       \* history: what respondWith() was last given by a handler's end

vars == <<kind, listeners, promise, at, called, awaited, given, answer, background, settled,
          inTime>>

\* What a promise is fulfilled with, as the function tells values apart: "good";
\* "none", no response at all; "failed", a task's {success: false}; "bad",
\* which throws when it is read (a status out of range, a getter).
Values == IF kind = "fetch" THEN {"good", "none", "bad"} ELSE {"good", "failed", "bad", "bad mute"}

\* What it is rejected with: an error, or one whose message cannot be read (its
\* getter throws, String() refuses it).  That of a fetch is for settle() to
\* read, so Worker.tla has the difference there ("lost").
Rejections == IF kind = "fetch" THEN {"rejected"} ELSE {"rejected", "mute"}

Pending(p) == promise[p] = "pending"
Rejected(p) == promise[p] \in Rejections
Bad(p) == promise[p] \in {"bad", "bad mute"}
Mute(p) == promise[p] \in {"mute", "bad mute"}
Fulfilled(p) == promise[p] \in Values

DispatchTypeOK ==
    /\ kind \in {"fetch", "task"}
    /\ listeners \in 0..MaxListeners
    /\ promise \in [Promises -> {"pending"} \cup Rejections \cup Values]
    /\ at \in {"start", "listener", "module", "answer", "body", "background", "over"}
    /\ called \in 0..(IF listeners = 0 THEN 1 ELSE listeners)
    /\ awaited \subseteq Promises /\ given \subseteq Promises /\ answer \subseteq Promises
    /\ inTime \subseteq Promises
    /\ background \subseteq Promises
    /\ settled \subseteq {"value", "failure", "error"}
    /\ (at = "over") = (settled # {})
    /\ at = "body" => kind = "fetch"

Init ==
    /\ kind \in {"fetch", "task"}
    /\ listeners \in 0..MaxListeners
    /\ promise = [p \in Promises |-> "pending"]
    /\ at = "start"
    /\ called = 0
    /\ awaited = {} /\ given = {} /\ answer = {} /\ background = {}
    /\ settled = {}
    /\ inTime = {}

----------------------------------------------------------------------------
(* The guest, from a handler, a job or a timer.                            *)

\* Any promise of the guest's settles, those nobody awaits too.
SettlePromise ==
    /\ at # "over"
    /\ \E p \in Promises : \E to \in Values \cup Rejections :
         /\ Pending(p)
         /\ promise' = [promise EXCEPT ![p] = to]
    /\ UNCHANGED <<kind, listeners, at, called, awaited, given, answer, background, settled,
                   inTime>>

\* A listener may register another one for the same event.
AddEventListener ==
    /\ at = "listener"
    /\ listeners < MaxListeners
    /\ listeners' = listeners + 1
    /\ UNCHANGED <<kind, promise, at, called, awaited, given, answer, background, settled,
                   inTime>>

\* A module's fetch() never sees the event.  The latest call counts; one that
\* comes once the last handler is done is not read any more.
RespondWith ==
    /\ at \notin {"start", "over"}
    /\ listeners = 0 => kind = "task"
    /\ \E p \in Promises :
         /\ given' = {p}
         /\ inTime' = IF at \in {"listener", "module"} THEN {p} ELSE inTime
    /\ UNCHANGED <<kind, listeners, promise, at, called, awaited, answer, background, settled>>

\* Promise.all() does not see what comes after it was called.
WaitUntil ==
    /\ at # "start"
    /\ \E p \in Promises :
         background' = IF at \in {"background", "over"} THEN background ELSE background \cup {p}
    /\ UNCHANGED <<kind, listeners, promise, at, called, awaited, given, answer, settled, inTime>>

----------------------------------------------------------------------------
(* The async function, which goes on when what it awaits has settled.      *)

Settle(how) == at' = "over" /\ settled' = {how}

\* Mutant of Throw: the function of a task rejects as that of a fetch does.
ThrowOut(p) == Settle("error")

\* An await of p, or a look at its value, throws.  A task that throws is a failed
\* task, if the error gives its message to the `catch`, which throws itself
\* otherwise; a fetch that does rejects.
Throw(p) == Settle(IF kind = "task" /\ ~Mute(p) THEN "failure" ELSE "error")

\* No response: an error of the platform's own, for a fetch alone.
ThrowNoResponse == Settle("error")

\* What it awaits was rejected: the await throws.
AwaitThrows ==
    /\ at # "over"
    /\ \E p \in awaited : Rejected(p) /\ Throw(p)
    /\ UNCHANGED <<kind, listeners, promise, called, awaited, given, answer, background, inTime>>

\* A handler is called, and what it returns is awaited.
CallHandler ==
    /\ called' = called + 1
    /\ \E p \in Promises : awaited' = {p}
    /\ UNCHANGED settled

\* Nobody to call is an error, in front of the `try` of a task too.
Begin ==
    /\ at = "start"
    /\ \/ listeners > 0 /\ at' = "listener" /\ CallHandler
       \/ listeners = 0 /\ at' = "module" /\ CallHandler
       \/ listeners = 0 /\ Settle("error") /\ UNCHANGED <<called, awaited>>
    /\ UNCHANGED <<kind, listeners, promise, given, answer, background, inTime>>

\* Mutant of MoreListeners: one too many.
MoreThanListeners == called <= listeners

\* The loop looks at the array each time round.
MoreListeners == called < listeners

NextListener ==
    /\ at = "listener"
    /\ \E p \in awaited : Fulfilled(p)
    /\ MoreListeners
    /\ CallHandler
    /\ UNCHANGED <<kind, listeners, promise, at, given, answer, background, inTime>>

\* Promise.all() over the waitUntil() promises so far.
PromiseAll == at' = "background" /\ awaited' = {}

\* toTaskResult(): the value is read at once, and may throw.
ToTaskResult(p) ==
    /\ answer' = {p}
    /\ IF Bad(p) THEN Throw(p) /\ UNCHANGED awaited
                 ELSE PromiseAll /\ UNCHANGED settled

\* What the handlers returned: nothing, for the listeners of a fetch.
Returned == IF kind = "fetch" /\ at = "listener" THEN {} ELSE awaited

\* The last handler is done.  What respondWith() was given comes first; the
\* value a fetch returned is awaited once more, the value of a task is not.
HandlersDone ==
    /\ at \in {"listener", "module"}
    /\ \E p \in awaited : Fulfilled(p)
    /\ at = "listener" => ~MoreListeners
    /\ \/ /\ given # {} \/ kind = "fetch"
          /\ awaited' = IF given = {} THEN Returned ELSE given
          /\ IF awaited' = {} THEN ThrowNoResponse ELSE at' = "answer" /\ UNCHANGED settled
          /\ UNCHANGED answer
       \/ given = {} /\ kind = "task" /\ \E p \in Returned : ToTaskResult(p)
    /\ UNCHANGED <<kind, listeners, promise, called, given, background, inTime>>

\* The answer of a task is there.
TaskAnswer ==
    /\ at = "answer" /\ kind = "task"
    /\ \E p \in awaited : Fulfilled(p) /\ ToTaskResult(p)
    /\ UNCHANGED <<kind, listeners, promise, called, given, background, inTime>>

\* Mutant of FetchAnswer: the event is asked for its response again.
FetchAnswerReread ==
    /\ at = "answer" /\ kind = "fetch"
    /\ \E p \in awaited :
         /\ Fulfilled(p) /\ promise[p] # "none"
         /\ answer' = IF given = {} THEN {p} ELSE given
         /\ at' = "body"
         /\ \E body \in Promises : awaited' = {body}
    /\ UNCHANGED <<kind, listeners, promise, called, given, background, settled, inTime>>

\* The response is there, or none: its body is asked for.
FetchAnswer ==
    /\ at = "answer" /\ kind = "fetch"
    /\ \E p \in awaited :
         /\ Fulfilled(p)
         /\ \/ promise[p] = "none" /\ ThrowNoResponse /\ UNCHANGED <<awaited, answer>>
            \/ /\ promise[p] # "none"
               /\ answer' = {p}
               /\ at' = "body" /\ UNCHANGED settled
               /\ \E body \in Promises : awaited' = {body}
    /\ UNCHANGED <<kind, listeners, promise, called, given, background, inTime>>

BodyRead ==
    /\ at = "body"
    /\ \E p \in awaited : Fulfilled(p)
    /\ PromiseAll
    /\ UNCHANGED <<kind, listeners, promise, called, given, answer, background, settled, inTime>>

\* Mutants of BackgroundDone: nothing is waited for; a rejection is not noticed.
BackgroundIgnored == TRUE
BackgroundFulfilled == \A p \in background : Fulfilled(p)

\* Promise.all(): all of them fulfilled, or one rejected, which is caught.
BackgroundDone ==
    (\A p \in background : Fulfilled(p)) \/ (\E p \in background : Rejected(p))

\* Mutant of Deliver: the rejection of a background promise is not caught.
DeliverUncaught ==
    IF \E p \in background : Rejected(p) THEN \E p \in background : Rejected(p) /\ Throw(p)
    ELSE \E p \in answer : Settle(IF promise[p] = "failed" THEN "failure" ELSE "value")

\* A task returns its result; a fetch reads the status and the headers now.
Deliver ==
    \E p \in answer :
        \/ promise[p] = "good" /\ Settle("value")
        \/ promise[p] = "failed" /\ Settle("failure")
        \/ Bad(p) /\ Throw(p)

Finish ==
    /\ at = "background"
    /\ BackgroundDone
    /\ Deliver
    /\ UNCHANGED <<kind, listeners, promise, called, awaited, given, answer, background, inTime>>

----------------------------------------------------------------------------

Guest == SettlePromise \/ AddEventListener \/ RespondWith \/ WaitUntil

Glue ==
    \/ Begin \/ AwaitThrows \/ NextListener \/ HandlersDone
    \/ TaskAnswer \/ FetchAnswer \/ BodyRead \/ Finish

Next == Guest \/ Glue

\* A promise that settles queues the job that goes on with the function, and
\* the drain runs jobs until none is left.
Spec == Init /\ [][Next]_vars /\ WF_vars(Glue)

----------------------------------------------------------------------------
(* Properties.                                                             *)

\* An event whose promises all settle gets an answer, whatever was given or
\* handed to waitUntil() meanwhile, and with listeners registered up to the
\* bound.  (What never settles at all, or listeners that register others
\* without end, are the drain's to stop and to report.)
EventSettles == (\A p \in Promises : <>(~Pending(p))) => <>(at = "over")

\* README.md:113: "`waitUntil` promises are awaited before the result is
\* delivered", unless one is rejected, when Promise.all() stops waiting.
BackgroundAwaited ==
    settled = {"value"} =>
        (\A p \in background : ~Pending(p)) \/ (\E p \in background : Rejected(p))

\* README.md:114: "a rejected one does not sink a result already produced".
\* When an event fails, it is for what a handler, the answer or its body did.
FailureHasCause ==
    settled \cap {"failure", "error"} # {} =>
        \/ called = 0
        \/ awaited = {} /\ answer = {}
        \/ \E p \in awaited : Rejected(p) \/ promise[p] = "none"
        \/ \E p \in answer : Bad(p) \/ promise[p] = "failed"

\* README.md:78: a task that throws "becomes a failed `TaskResult`".  It does
\* from any of the awaits, but for an error that has no message to record, when
\* the `catch` throws itself (bootstrap.js:313); and one that nobody handles
\* fails the dispatch.
TaskErrorsAreResults ==
    kind = "task" /\ settled = {"error"} =>
        called = 0 \/ \E p \in awaited \cup answer : Mute(p)

\* An event is answered with what respondWith() was last given before the last
\* handler was done: not with what it was given first, or what a handler
\* returned, and however often it is called while the answer, its body or the
\* background promises are awaited.
LastRespondCounts == answer # {} /\ inTime # {} => answer = inTime

=============================================================================
