--------------------------- MODULE WorkerService ---------------------------
(***************************************************************************)
(* What a worker promises to the embedder (openworkers_core::Worker as     *)
(* worker.rs implements it), with nothing of how: it is built or it is     *)
(* not; it takes one event at a time; every event it takes has one end, a  *)
(* return of exec() and at most one message through the event's channel,   *)
(* and both are about that event.                                          *)
(***************************************************************************)
EXTENDS Naturals

CONSTANTS Kinds,     \* "fetch" and "task"
          Failures   \* what exec() may fail with once the event is dispatched

VARIABLES state,     \* "building", "ready", "busy" or "closed"
          taken,     \* how many events were dispatched
          kind,      \* of the event being served, {} when none is
          aborted,   \* whether abort() was called
          answer     \* the last end of an exec() or of the build, {} while one runs

serviceVars == <<state, taken, kind, aborted, answer>>

End(of, ret, sent) == {[of |-> of, ret |-> ret, sent |-> sent]}

ServiceInit ==
    /\ state = "building"
    /\ taken = 0
    /\ kind = {}
    /\ aborted = FALSE
    /\ answer = {}

Built ==
    /\ state = "building"
    /\ state' = "ready"
    /\ answer' = End(0, "Ok", {})
    /\ UNCHANGED <<taken, kind, aborted>>

Take ==
    /\ state = "ready"
    /\ ~aborted
    /\ state' = "busy"
    /\ taken' = taken + 1
    /\ \E k \in Kinds : kind' = {k}
    /\ answer' = {}
    /\ UNCHANGED aborted

Serve(ret, sent) ==
    /\ state = "busy"
    /\ state' = "ready"
    /\ kind' = {}
    /\ answer' = End(taken, ret, sent)
    /\ UNCHANGED <<taken, aborted>>

Succeed == Serve("Ok", {[of |-> taken, is |-> "value"]})

\* A fetch that fails closes its channel; a task that fails says so.
Fails ==
    \E reason \in Failures :
        Serve(reason, {[of |-> taken, is |-> "failure"] : k \in kind \cap {"task"}})

\* The embedder dropped the future of exec(), and the channel with it.
Dropped == Serve("Cancelled", {})

Refuse ==
    /\ state = "ready"
    /\ answer' = End(0, IF aborted THEN "Aborted" ELSE "Other", {})
    /\ UNCHANGED <<state, taken, kind, aborted>>

Abort ==
    /\ state = "ready"
    /\ aborted' = TRUE
    /\ UNCHANGED <<state, taken, kind, answer>>

\* The build fails, or the embedder drops the worker.
Close ==
    /\ state \in {"building", "ready"}
    /\ state' = "closed"
    /\ UNCHANGED <<taken, kind, aborted, answer>>

ServiceNext == Built \/ Take \/ Succeed \/ Fails \/ Dropped \/ Refuse \/ Abort \/ Close

ServiceSpec == ServiceInit /\ [][ServiceNext]_serviceVars

\* Every event taken gets its end, whatever the guest does.
ServiceFairness == WF_serviceVars(Succeed \/ Fails \/ Dropped)

FairServiceSpec == ServiceSpec /\ ServiceFairness

=============================================================================
