------------------------------ MODULE Bindings ------------------------------
(***************************************************************************)
(* Binding calls (env.<NAME>.query(), fetch(), ...): a promise of the      *)
(* guest that the host settles later.  bindings.js keeps the resolvers in  *)
(* a Map, the host keeps a Vec of futures.  A future is lazy: nothing of a *)
(* call happens before the drain pops it and waits for it, the latest call *)
(* first.  While the drain waits no JavaScript runs.                       *)
(***************************************************************************)
EXTENDS Clock, Sequences, SequencesExt

CONSTANTS MaxCalls,  \* bound: how many calls scripts make
          BadParams  \* whether scripts pass parameters JSON.stringify refuses

ASSUME BindingsAssumption ==
    /\ MaxCalls \in Nat
    /\ BadParams \in BOOLEAN

VARIABLES pending,   \* bindings.js `pending`: ids whose resolvers are kept
          nextCall,  \* bindings.js `next`
          bindings,  \* HostSlots::bindings: ids of the futures not polled yet
          inflight   \* the call popped by drain(), whose answer it awaits

bindingVars == <<pending, nextCall, bindings, inflight>>

BindingsTypeOK ==
    /\ ClockTypeOK
    /\ pending \subseteq Nat \ {0}
    /\ nextCall \in Nat \ {0}
    /\ bindings \in Seq(Nat)
    /\ inflight \subseteq Nat \ {0}

BindingsInit ==
    /\ ClockInit
    /\ pending = {}
    /\ nextCall = 1
    /\ bindings = <<>>
    /\ inflight = {}

----------------------------------------------------------------------------
(* The guest's side.                                                       *)

\* call() up to the native call: the resolvers are kept first.
MintCall ==
    /\ inflight = {}
    /\ nextCall <= MaxCalls
    /\ pending' = pending \cup {nextCall}
    /\ nextCall' = nextCall + 1

Call ==
    /\ MintCall
    /\ bindings' = Append(bindings, nextCall)
    /\ UNCHANGED inflight

\* JSON.stringify(params) throws: the executor of the promise rejects it, the
\* resolvers stay in the Map and the host never hears of the call.
CallThrows ==
    /\ BadParams
    /\ MintCall
    /\ UNCHANGED <<bindings, inflight>>

----------------------------------------------------------------------------
(* The host's side: the binding half of drain().                           *)

PopBinding ==
    /\ inflight = {}
    /\ bindings # <<>>
    /\ inflight' = {Last(bindings)}
    /\ bindings' = Front(bindings)
    /\ UNCHANGED <<pending, nextCall>>

\* The answer is there, perhaps past the deadline: `timeout` polls it before
\* the clock.  __ow_settle_binding forgets the resolvers, then parses the
\* payload, so one that is no JSON is spent without settling the promise.
SettleBinding ==
    /\ inflight # {}
    /\ pending' = pending \ inflight
    /\ inflight' = {}
    /\ UNCHANGED <<nextCall, bindings>>

\* The budget ran out first: the future is dropped, nobody tells the guest.
TimeoutBinding ==
    /\ inflight # {}
    /\ Elapsed
    /\ inflight' = {}
    /\ UNCHANGED <<pending, nextCall, bindings>>

\* The embedder drops the future of exec() during the wait.
AbandonBinding ==
    /\ inflight # {}
    /\ inflight' = {}
    /\ UNCHANGED <<pending, nextCall, bindings>>

----------------------------------------------------------------------------

GuestBindingStep == Call \/ CallThrows

HostBindingStep ==
    PopBinding \/ SettleBinding \/ TimeoutBinding

\* Time the drain waits for: the deadline, while a call is in flight.
AnswerDue == IF inflight = {} THEN {} ELSE deadline

BindingsNext ==
    \/ (GuestBindingStep \/ HostBindingStep \/ AbandonBinding) /\ UNCHANGED clockVars
    \/ inflight = {} /\ StartDrain /\ UNCHANGED bindingVars
    \/ Tick(AnswerDue) /\ UNCHANGED bindingVars

BindingsSpec == BindingsInit /\ [][BindingsNext]_<<clockVars, bindingVars>>

----------------------------------------------------------------------------
(* Properties.                                                             *)

HostCalls == ToSet(bindings) \cup inflight

\* Each call the host holds is held once and still has its resolvers: its
\* answer reaches the promise it is for, and no promise is settled twice.
CallsBacked ==
    /\ \A i, j \in 1..Len(bindings) : bindings[i] = bindings[j] => i = j
    /\ ToSet(bindings) \cap inflight = {}
    /\ HostCalls \subseteq pending

\* A promise loses the call that would settle it in four ways only: its
\* parameters threw (and rejected it), the payload was no JSON, the budget ran
\* out, or the embedder dropped the drain; each costs the one call concerned.
CallsLostOneByOne ==
    [][HostCalls \ HostCalls' \subseteq inflight]_<<clockVars, bindingVars>>

\* With a wall clock no wait for an answer hangs, and nothing is assumed of
\* the host that should answer.
NoWaitHangs == inflight # {} ~> inflight = {}

=============================================================================
