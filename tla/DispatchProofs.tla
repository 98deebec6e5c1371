--------------------------- MODULE DispatchProofs ---------------------------
(* Theorems of Dispatch, for any number of promises and listeners.           *)
EXTENDS Dispatch, TLAPS

\* Types alone are not inductive: the function begins with nobody called, and
\* has no answer before it is past the await of one.
DispatchInv ==
    /\ DispatchTypeOK
    /\ at = "start" => called = 0
    /\ at \in {"start", "listener", "module", "answer"} => answer = {}

LEMMA DispatchInitInv == Init => DispatchInv
BY DispatchAssumption DEF Init, DispatchInv, DispatchTypeOK, Values, Rejections

LEMMA GuestInv == DispatchInv /\ Guest => DispatchInv'
<1> SUFFICES ASSUME DispatchInv, Guest PROVE DispatchInv'
  OBVIOUS
<1> USE DispatchAssumption
<1>1. CASE SettlePromise
  BY <1>1 DEF SettlePromise, DispatchInv, DispatchTypeOK, Values, Rejections
<1>2. CASE AddEventListener
  <2>1. called' \in 0..(IF listeners' = 0 THEN 1 ELSE listeners') /\ listeners' \in 0..MaxListeners
    BY <1>2 DEF AddEventListener, DispatchInv, DispatchTypeOK
  <2>2. QED BY <1>2, <2>1 DEF AddEventListener, DispatchInv, DispatchTypeOK, Values, Rejections
<1>3. CASE RespondWith
  BY <1>3 DEF RespondWith, DispatchInv, DispatchTypeOK, Values, Rejections
<1>4. CASE WaitUntil
  BY <1>4 DEF WaitUntil, DispatchInv, DispatchTypeOK, Values, Rejections
<1>5. QED BY <1>1, <1>2, <1>3, <1>4 DEF Guest

LEMMA GlueInv == DispatchInv /\ Glue => DispatchInv'
<1> SUFFICES ASSUME DispatchInv, Glue PROVE DispatchInv'
  OBVIOUS
<1>0. ASSUME Begin \/ NextListener
      PROVE  called' \in 0..(IF listeners' = 0 THEN 1 ELSE listeners')
  BY <1>0, DispatchAssumption DEF Begin, NextListener, CallHandler, MoreListeners, Settle, DispatchInv,
     DispatchTypeOK
<1> USE DispatchAssumption DEF DispatchInv, DispatchTypeOK, Values, Rejections, Settle, Throw,
           ThrowNoResponse, PromiseAll
<1>1. CASE Begin
  BY <1>0, <1>1 DEF Begin, CallHandler
<1>2. CASE AwaitThrows
  BY <1>2 DEF AwaitThrows
<1>3. CASE NextListener
  BY <1>0, <1>3 DEF NextListener, CallHandler, MoreListeners
<1>4. CASE HandlersDone
  BY <1>4 DEF HandlersDone, Returned, ToTaskResult
<1>5. CASE TaskAnswer
  BY <1>5 DEF TaskAnswer, ToTaskResult
<1>6. CASE FetchAnswer
  BY <1>6 DEF FetchAnswer
<1>7. CASE BodyRead
  BY <1>7 DEF BodyRead
<1>8. CASE Finish
  BY <1>8 DEF Finish, Deliver
<1>9. QED BY <1>1, <1>2, <1>3, <1>4, <1>5, <1>6, <1>7, <1>8 DEF Glue

LEMMA DispatchNextInv == DispatchInv /\ [Next]_vars => DispatchInv'
<1> SUFFICES ASSUME DispatchInv, [Next]_vars PROVE DispatchInv'
  OBVIOUS
<1>1. CASE UNCHANGED vars
  BY <1>1 DEF vars, DispatchInv, DispatchTypeOK, Values, Rejections
<1>2. QED BY <1>1, GuestInv, GlueInv DEF Next

\* The variables of an event keep their types, and no listener is called twice.
THEOREM DispatchTypeCorrect == Spec => []DispatchTypeOK
<1>1. DispatchInv => DispatchTypeOK
  BY DEF DispatchInv
<1>2. QED BY <1>1, DispatchInitInv, DispatchNextInv, PTL DEF Spec

-----------------------------------------------------------------------------
(* Once the promise of the event is settled, nothing of the event changes:    *)
(* what holds at the step that settles it holds from then on.                 *)

LEMMA OverStays ==
    DispatchInv /\ at = "over" /\ [Next]_vars =>
        UNCHANGED <<kind, promise, at, called, awaited, answer, background, settled, inTime>>
<1> SUFFICES ASSUME DispatchInv, at = "over", [Next]_vars
             PROVE  UNCHANGED <<kind, promise, at, called, awaited, answer, background, settled, inTime>>
  OBVIOUS
<1>1. CASE Guest
  BY <1>1 DEF Guest, SettlePromise, AddEventListener, RespondWith, WaitUntil
<1>2. ~Glue
  BY DEF Glue, Begin, AwaitThrows, NextListener, HandlersDone, TaskAnswer, FetchAnswer,
         BodyRead, Finish
<1>3. CASE UNCHANGED vars
  BY <1>3 DEF vars
<1>4. QED BY <1>1, <1>2, <1>3 DEF Next

\* Before that, only a step of the function settles it.
LEMMA GuestSettlesNothing ==
    DispatchInv /\ at # "over" /\ (Guest \/ UNCHANGED vars) => settled' = {}
BY DEF DispatchInv, DispatchTypeOK, Guest, SettlePromise, AddEventListener, RespondWith,
       WaitUntil, vars

LEMMA BackgroundKept == DispatchInv /\ BackgroundAwaited /\ [Next]_vars => BackgroundAwaited'
<1> SUFFICES ASSUME DispatchInv, BackgroundAwaited, [Next]_vars PROVE BackgroundAwaited'
  OBVIOUS
<1>1. CASE at = "over"
  BY <1>1, OverStays DEF BackgroundAwaited, Pending, Rejected, Rejections
<1>2. CASE at # "over" /\ (Guest \/ UNCHANGED vars)
  BY <1>2, GuestSettlesNothing DEF BackgroundAwaited
<1>3. CASE at # "over" /\ Glue
  <2>1. CASE Finish
    BY <2>1 DEF Finish, BackgroundDone, BackgroundAwaited, Pending, Rejected, Rejections, Fulfilled, Values
  <2>2. CASE Glue /\ ~Finish
    BY <1>3, <2>2 DEF Glue, Begin, AwaitThrows, NextListener, HandlersDone, TaskAnswer,
       FetchAnswer, BodyRead, CallHandler, ToTaskResult, PromiseAll, Throw, ThrowNoResponse, Settle,
       BackgroundAwaited, DispatchInv, DispatchTypeOK
  <2>3. QED BY <1>3, <2>1, <2>2
<1>4. QED BY <1>1, <1>2, <1>3 DEF Next

\* An event answered with a value waited for every promise handed to
\* waitUntil() in time, unless one of them was rejected.
THEOREM DispatchBackgroundAwaited == Spec => []BackgroundAwaited
<1>1. Init => BackgroundAwaited
  BY DEF Init, BackgroundAwaited
<1>2. QED BY <1>1, DispatchInitInv, DispatchNextInv, BackgroundKept, PTL DEF Spec

LEMMA CauseKept == DispatchInv /\ FailureHasCause /\ [Next]_vars => FailureHasCause'
<1> SUFFICES ASSUME DispatchInv, FailureHasCause, [Next]_vars PROVE FailureHasCause'
  OBVIOUS
<1>1. CASE at = "over"
  BY <1>1, OverStays DEF FailureHasCause, Rejected, Rejections, Bad
<1>2. CASE at # "over" /\ (Guest \/ UNCHANGED vars)
  BY <1>2, GuestSettlesNothing DEF FailureHasCause
<1>3. CASE at # "over" /\ Glue
  <2> USE DEF FailureHasCause, DispatchInv, DispatchTypeOK, Settle, Throw,
           ThrowNoResponse, PromiseAll, Rejected, Rejections, Bad, Values
  <2>1. CASE Begin
    BY <2>1 DEF Begin, CallHandler
  <2>2. CASE AwaitThrows
    BY <2>2 DEF AwaitThrows
  <2>3. CASE NextListener
    BY <2>3 DEF NextListener, CallHandler
  <2>4. CASE HandlersDone
    <3>1. CASE given # {} \/ kind = "fetch"
      BY <2>4, <3>1 DEF HandlersDone
    <3>2. CASE given = {} /\ kind = "task"
      BY <2>4, <3>2 DEF HandlersDone, ToTaskResult
    <3>3. QED BY <3>1, <3>2
  <2>5. CASE TaskAnswer
    BY <2>5 DEF TaskAnswer, ToTaskResult
  <2>6. CASE FetchAnswer
    BY <2>6 DEF FetchAnswer
  <2>7. CASE BodyRead
    BY <2>7 DEF BodyRead
  <2>8. CASE Finish
    BY <2>8 DEF Finish, Deliver
  <2>9. QED BY <1>3, <2>1, <2>2, <2>3, <2>4, <2>5, <2>6, <2>7, <2>8 DEF Glue
<1>4. QED BY <1>1, <1>2, <1>3 DEF Next

\* A background promise never makes an event fail.
THEOREM DispatchFailureHasCause == Spec => []FailureHasCause
<1>1. Init => FailureHasCause
  BY DEF Init, FailureHasCause
<1>2. QED BY <1>1, DispatchInitInv, DispatchNextInv, CauseKept, PTL DEF Spec

LEMMA TaskErrorsKept ==
    DispatchInv /\ TaskErrorsAreResults /\ [Next]_vars => TaskErrorsAreResults'
<1> SUFFICES ASSUME DispatchInv, TaskErrorsAreResults, [Next]_vars PROVE TaskErrorsAreResults'
  OBVIOUS
<1>1. CASE at = "over"
  BY <1>1, OverStays DEF TaskErrorsAreResults, Mute
<1>2. CASE at # "over" /\ (Guest \/ UNCHANGED vars)
  BY <1>2, GuestSettlesNothing DEF TaskErrorsAreResults
<1>3. CASE at # "over" /\ Glue
  BY <1>3 DEF Glue, Begin, AwaitThrows, NextListener, HandlersDone, TaskAnswer, FetchAnswer,
     BodyRead, Finish, CallHandler, Returned, ToTaskResult, PromiseAll, Throw, ThrowNoResponse, Settle,
     Deliver, Mute, TaskErrorsAreResults, DispatchInv, DispatchTypeOK
<1>4. QED BY <1>1, <1>2, <1>3 DEF Next

\* A task whose handler was called fails its dispatch only by an error that has
\* no message.
THEOREM DispatchTaskErrors == Spec => []TaskErrorsAreResults
<1>1. Init => TaskErrorsAreResults
  BY DEF Init, TaskErrorsAreResults
<1>2. QED BY <1>1, DispatchInitInv, DispatchNextInv, TaskErrorsKept, PTL DEF Spec

-----------------------------------------------------------------------------
(* The answer, and what respondWith() was given.                              *)

\* While handlers run the last call is what `given` says; once they are done the
\* function awaits that, and then has it for its answer.
RespondInv ==
    /\ at = "start" => inTime = {} /\ given = {}
    /\ at \in {"listener", "module"} => inTime = given
    /\ at = "answer" /\ inTime # {} => awaited = inTime
    /\ inTime # {} => \E p \in Promises : inTime = {p}
    /\ LastRespondCounts

LEMMA RespondKept == DispatchInv /\ RespondInv /\ [Next]_vars => RespondInv'
<1> SUFFICES ASSUME DispatchInv, RespondInv, [Next]_vars PROVE RespondInv'
  OBVIOUS
<1> USE DEF DispatchInv, DispatchTypeOK, RespondInv, LastRespondCounts
<1>1. CASE Guest \/ UNCHANGED vars
  BY <1>1 DEF Guest, SettlePromise, AddEventListener, RespondWith, WaitUntil, vars
<1>2. CASE Begin
  BY <1>2 DEF Begin, CallHandler, Settle
<1>3. CASE AwaitThrows
  BY <1>3 DEF AwaitThrows, Throw, Settle
<1>4. CASE NextListener
  BY <1>4 DEF NextListener, CallHandler
<1>5. CASE HandlersDone
  <2>1. CASE given # {} \/ kind = "fetch"
    BY <1>5, <2>1 DEF HandlersDone, ThrowNoResponse, Settle
  <2>2. CASE given = {} /\ kind = "task"
    BY <1>5, <2>2 DEF HandlersDone, ToTaskResult, Throw, PromiseAll, Settle
  <2>3. QED BY <2>1, <2>2
<1>6. CASE TaskAnswer
  BY <1>6 DEF TaskAnswer, ToTaskResult, Throw, PromiseAll, Settle
<1>7. CASE FetchAnswer
  BY <1>7 DEF FetchAnswer, ThrowNoResponse, Settle
<1>8. CASE BodyRead \/ Finish
  BY <1>8 DEF BodyRead, Finish, Deliver, Throw, PromiseAll, Settle
<1>9. QED BY <1>1, <1>2, <1>3, <1>4, <1>5, <1>6, <1>7, <1>8 DEF Next, Glue

\* The answer is what respondWith() was last given before the handlers were done.
THEOREM DispatchLastRespond == Spec => []LastRespondCounts
<1>1. Init => RespondInv
  BY DEF Init, RespondInv, LastRespondCounts
<1>2. RespondInv => LastRespondCounts
  BY DEF RespondInv
<1>3. QED BY <1>1, <1>2, DispatchInitInv, DispatchNextInv, RespondKept, PTL DEF Spec

=============================================================================
