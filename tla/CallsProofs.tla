----------------------------- MODULE CallsProofs -----------------------------
(* Theorems of Calls, for every declaration, budget and number of calls.     *)
EXTENDS Calls, WaitsProofs

\* The binding this name stands for serves this kind of call.
Serves(kind, name) ==
    \E j \in DOMAIN declared :
        /\ declared[j].name = name
        /\ \A k \in DOMAIN declared : declared[k].name = name => k <= j
        /\ declared[j].type \in DOMAIN KindOf /\ KindOf[declared[j].type] = kind

\* An operation of the script between two steps.
RequestOK(r) ==
    /\ r \in RequestTypes
    /\ r.call = {} \/ \E id \in 1..nextCall - 1 : r.call = {id}
    /\ r.end # {} => r.call \cap pending = {}
    /\ \A name \in r.name : Serves(r.kind, name)

\* What was asked for the request of that call.
AskedFor(a, r) == a.call = r.call /\ a.kind = r.kind /\ a.name = r.name /\ a.body = r.body

\* What reached the embedder: only the last of it can still be in flight.
AskedOK(j) ==
    /\ \E id \in 1..nextCall - 1 :
         /\ asked[j].call = {id}
         /\ id \notin ToSet(bindings)
         /\ id \in inflight => j = Len(asked) /\ future \in {"asked", "collecting"}
    /\ \E i \in 1..Len(requests) : AskedFor(asked[j], requests[i])

\* An answer delivered is the whole of the answer given.
Delivered(a, r) ==
    \A end \in r.end :
        end.is = "answer" =>
            /\ a.call = r.call
            /\ a.closed
            /\ end.chunks = IF a.status \subseteq {"full"} THEN a.sent ELSE 0

\* No two operations have one call.
OwnCalls(rs) ==
    \A i, j \in 1..Len(rs) : rs[i].call # {} /\ rs[i].call = rs[j].call => i = j

HasAnswer(r) == \E end \in r.end : end.is = "answer"

OneCallEach(as) == \A i, j \in 1..Len(as) : as[i].call = as[j].call => i = j

AllDelivered(as, rs) ==
    \A i \in 1..Len(rs) : HasAnswer(rs[i]) => \E j \in 1..Len(as) : Delivered(as[j], rs[i])

CallsInv ==
    /\ BindingsInv
    /\ wired \in BOOLEAN /\ declared \in Declarations
    /\ requests \in Seq(RequestTypes) /\ asked \in Seq(AskedTypes)
    /\ future \in {"none", "refused", "asked", "collecting"}
    /\ future = "none" <=> inflight = {}
    /\ \A i \in 1..Len(requests) : RequestOK(requests[i])
    /\ OwnCalls(requests)
    /\ \A j \in 1..Len(asked) : AskedOK(j)
    /\ \A i, j \in 1..Len(asked) : asked[i].call = asked[j].call => i = j
    /\ future \in {"asked", "collecting"} =>
         /\ Len(asked) > 0 /\ Current.call = inflight
         /\ future = "asked" => Current.status = {} /\ Current.sent = 0
         /\ future = "collecting" => \E status \in Statuses : Current.status = {status}
    /\ \A i \in 1..Len(requests) :
         HasAnswer(requests[i]) => \E j \in 1..Len(asked) : Delivered(asked[j], requests[i])

----------------------------------------------------------------------------
(* For the transport a call with all it carries is a call like any other.  *)

LEMMA ScriptStepMaps ==
    ASSUME ScriptStep
    PROVE  [BindingsNext]_<<clockVars, bindingVars>>
<1>1. UNCHANGED clockVars
  BY DEF ScriptStep, Fetch, BodyRead, BodyUnreadable, EnvCall, RefusedByScript, Make
<1>2. Call \/ CallThrows \/ UNCHANGED bindingVars
  BY DEF ScriptStep, Fetch, BodyRead, BodyUnreadable, EnvCall, RefusedByScript
<1>3. QED BY <1>1, <1>2 DEF BindingsNext, GuestBindingStep

LEMMA HostStepMaps ==
    ASSUME Poll \/ SettleRefused \/ EmbedderAnswers \/ TimesOut \/ Abandons
    PROVE  /\ UNCHANGED clockVars
           /\ \/ PopBinding \/ SettleBinding \/ TimeoutBinding \/ AbandonBinding
              \/ UNCHANGED bindingVars
BY DEF Poll, SettleRefused, EmbedderAnswers, TimesOut, Abandons, Fails, Value, Respond, Chunk,
       Ends, Settle

LEMMA CallsStepMaps == [CallsNext]_vars => [BindingsNext]_<<clockVars, bindingVars>>
<1> SUFFICES ASSUME [CallsNext]_vars
             PROVE  [BindingsNext]_<<clockVars, bindingVars>>
  OBVIOUS
<1>1. CASE ScriptStep
  BY <1>1, ScriptStepMaps
<1>2. CASE Poll \/ SettleRefused \/ EmbedderAnswers \/ TimesOut \/ Abandons
  BY <1>2, HostStepMaps DEF BindingsNext, HostBindingStep
<1>3. CASE NewDrain \/ TimePasses
  BY <1>3 DEF NewDrain, TimePasses, BindingsNext
<1>4. CASE UNCHANGED vars
  BY <1>4 DEF vars
<1>5. QED BY <1>1, <1>2, <1>3, <1>4 DEF CallsNext

----------------------------------------------------------------------------
(* The transport's sets under its steps.                                   *)

\* The calls the host holds have ids the counter gave out.
LEMMA HostCallsMinted ==
    ASSUME BindingsInv
    PROVE  /\ nextCall \in Nat \ {0} /\ HostCalls \subseteq 1..nextCall - 1
           /\ bindings \in Seq(Nat)
<1>1. pending \subseteq Nat \ {0} /\ nextCall \in Nat \ {0} /\ bindings \in Seq(Nat)
  BY DEF BindingsInv, BindingsTypeOK
<1>2. HostCalls \subseteq pending /\ \A id \in pending : id < nextCall
  BY DEF BindingsInv, CallsBacked
<1>3. \A id \in HostCalls : id \in 1..nextCall - 1
  BY <1>1, <1>2
<1>4. QED BY <1>1, <1>3

\* A new call joins the calls the host holds.
LEMMA CallJoins ==
    ASSUME BindingsInv, Call
    PROVE  /\ ToSet(bindings') = ToSet(bindings) \cup {nextCall}
           /\ HostCalls' = HostCalls \cup {nextCall}
           /\ nextCall' = nextCall + 1 /\ inflight = {} /\ inflight' = {}
           /\ pending' = pending \cup {nextCall}
<1>1. /\ bindings \in Seq(Nat) /\ nextCall \in Nat
      /\ bindings' = Append(bindings, nextCall) /\ pending' = pending \cup {nextCall}
      /\ nextCall' = nextCall + 1 /\ inflight = {} /\ inflight' = {}
  BY DEF Call, MintCall, BindingsInv, BindingsTypeOK
<1>2. ToSet(bindings') = ToSet(bindings) \cup {nextCall}
  BY <1>1 DEF ToSet
<1>3. QED BY <1>1, <1>2 DEF HostCalls

\* Popping moves a call from one place to the other.
LEMMA PopMoves ==
    ASSUME BindingsInv, PopBinding
    PROVE  /\ ToSet(bindings) = ToSet(bindings') \cup inflight'
           /\ ToSet(bindings') \cap inflight' = {}
           /\ HostCalls' = HostCalls /\ inflight = {}
           /\ nextCall' = nextCall /\ pending' = pending
           /\ \E id \in 1..nextCall - 1 : inflight' = {id}
<1>1. /\ bindings \in Seq(Nat) /\ bindings # <<>>
      /\ inflight = {} /\ inflight' = {Last(bindings)}
      /\ bindings' = Front(bindings) /\ nextCall' = nextCall /\ pending' = pending
  BY DEF PopBinding, BindingsInv, BindingsTypeOK
<1>2. PICK n \in Nat : n = Len(bindings) /\ n > 0
  BY <1>1
<1>3. /\ bindings' \in Seq(Nat) /\ Len(bindings') = n - 1
      /\ \A i \in 1..n - 1 : bindings'[i] = bindings[i]
      /\ Last(bindings) = bindings[n]
      /\ ToSet(bindings) = ToSet(bindings') \cup inflight'
  BY <1>1, <1>2, PopSplits
<1>4. \A i, j \in 1..n : bindings[i] = bindings[j] => i = j
  BY <1>2 DEF BindingsInv, CallsBacked
<1>5. Last(bindings) \notin ToSet(bindings')
  BY <1>2, <1>3, <1>4, ToSetByIndex
<1>6. Last(bindings) \in HostCalls
  BY <1>1, <1>3 DEF HostCalls
<1>7. Last(bindings) \in 1..nextCall - 1
  BY <1>6, HostCallsMinted
<1>8. QED BY <1>1, <1>3, <1>5, <1>7 DEF HostCalls

----------------------------------------------------------------------------
(* The script's steps.                                                     *)

LEMMA CallsInitInv == CallsInit => CallsInv
<1> SUFFICES ASSUME CallsInit PROVE CallsInv
  OBVIOUS
<1>1. BindingsInv
  BY BindingsInitInv DEF CallsInit
<1>2. Len(requests) = 0 /\ Len(asked) = 0 /\ requests \in Seq(RequestTypes)
      /\ asked \in Seq(AskedTypes)
  BY DEF CallsInit
<1>3. QED BY <1>1, <1>2 DEF CallsInit, BindingsInit, CallsInv, OwnCalls

\* The ids minted stay minted.
LEMMA StillMinted ==
    ASSUME NEW m \in Nat, NEW n \in Nat, m <= n
    PROVE  \A id \in 1..m - 1 : id \in 1..n - 1 /\ id # m
OBVIOUS

\* An operation stays right as long as no call of its own is taken up again.
LEMMA RequestKept ==
    ASSUME NEW r, RequestOK(r), declared' = declared,
           nextCall \in Nat, nextCall' \in Nat, nextCall <= nextCall',
           pending' \subseteq pending \cup {nextCall}
    PROVE  RequestOK(r)'
<1>1. r.call = {} \/ \E id \in 1..nextCall' - 1 : r.call = {id}
  <2>1. \A id \in 1..nextCall - 1 : id \in 1..nextCall' - 1
    BY StillMinted
  <2>2. QED BY <2>1 DEF RequestOK
<1>2. r.call \cap pending = {} => r.call \cap pending' = {}
  BY DEF RequestOK
<1>3. r.end # {} => r.call \cap pending' = {}
  BY <1>2 DEF RequestOK
<1>4. \A name \in r.name : Serves(r.kind, name)'
  BY DEF RequestOK, Serves
<1>5. QED BY <1>1, <1>3, <1>4 DEF RequestOK

\* The script makes or changes an operation that was not called for yet.
LEMMA ScriptInv ==
    ASSUME CallsInv, BindingsInv', inflight = {}, inflight' = {},
           UNCHANGED <<wired, declared, asked, future>>,
           nextCall \in Nat, nextCall' \in Nat, nextCall <= nextCall',
           ToSet(bindings') \subseteq ToSet(bindings) \cup {nextCall},
           pending' \subseteq pending \cup {nextCall}, OwnCalls(requests'),
           requests' \in Seq(RequestTypes), Len(requests) <= Len(requests'),
           \A i \in 1..Len(requests) :
              requests'[i] = requests[i] \/ requests[i].call = {},
           \A i \in 1..Len(requests') :
              \/ i \in 1..Len(requests) /\ requests'[i] = requests[i]
              \/ \A r : r = requests'[i] => RequestOK(r)' /\ ~HasAnswer(r)
    PROVE  CallsInv'
<1>2. ASSUME NEW i \in 1..Len(requests'), NEW r, r = requests'[i]
      PROVE  RequestOK(r)'
  <2>1. CASE i \in 1..Len(requests) /\ requests'[i] = requests[i]
    <3>1. RequestOK(r)
      BY <1>2, <2>1 DEF CallsInv
    <3>2. QED BY <3>1, RequestKept
  <2>2. QED BY <1>2, <2>1
<1>3. ASSUME NEW j \in 1..Len(asked)
      PROVE  AskedOK(j)'
  <2>1. PICK id \in 1..nextCall - 1 : asked[j].call = {id} /\ id \notin ToSet(bindings)
    BY DEF CallsInv, AskedOK
  <2>2. PICK i \in 1..Len(requests) : AskedFor(asked[j], requests[i])
    BY DEF CallsInv, AskedOK
  <2>3. requests'[i] = requests[i] /\ i \in 1..Len(requests')
    <3>1. Len(requests') \in Nat /\ Len(requests) \in Nat
      BY DEF CallsInv
    <3>2. requests[i].call # {}
      BY <2>1, <2>2 DEF AskedFor
    <3>3. requests'[i] = requests[i]
      BY <3>2
    <3>4. i \in 1..Len(requests')
      BY <3>1
    <3>5. QED BY <3>3, <3>4
  <2>4. id \in 1..nextCall' - 1 /\ id \notin ToSet(bindings')
    <3>1. id \in 1..nextCall' - 1 /\ id # nextCall
      BY StillMinted
    <3>2. QED BY <2>1, <3>1
  <2>5. AskedFor(asked[j], requests[i])'
    BY <2>2, <2>3 DEF AskedFor
  <2>6. asked'[j].call = {id} /\ id \notin inflight'
    BY <2>1
  <2>7. QED BY <2>3, <2>4, <2>5, <2>6 DEF AskedOK
<1>4. ASSUME NEW i \in 1..Len(requests'), HasAnswer(requests'[i])
      PROVE  \E j \in 1..Len(asked) : Delivered(asked[j], requests'[i])
  BY <1>4 DEF CallsInv
<1>5. future = "none"
  BY DEF CallsInv
<1>6. \A i \in 1..Len(requests') : RequestOK(requests[i])'
  BY <1>2
<1>7. \A j \in 1..Len(asked') : AskedOK(j)'
  BY <1>3
<1>8. (\A i \in 1..Len(requests) :
         HasAnswer(requests[i]) => \E j \in 1..Len(asked) : Delivered(asked[j], requests[i]))'
  BY <1>4 DEF HasAnswer, Delivered
<1>9. (\A i, j \in 1..Len(asked) : asked[i].call = asked[j].call => i = j)'
  BY DEF CallsInv
<1>10. /\ wired' \in BOOLEAN /\ declared' \in Declarations /\ asked' \in Seq(AskedTypes)
       /\ future' = "none"
  BY <1>5 DEF CallsInv
<1>11. QED
  BY <1>6, <1>7, <1>8, <1>9, <1>10 DEF CallsInv

\* What a step of the script does to the transport.
LEMMA GuestEffects ==
    ASSUME BindingsInv, inflight = {}, Call \/ CallThrows \/ UNCHANGED bindingVars
    PROVE  /\ nextCall \in Nat /\ nextCall' \in Nat /\ nextCall <= nextCall'
           /\ Call => nextCall' = nextCall + 1
           /\ inflight' = {}
           /\ ToSet(bindings') \subseteq ToSet(bindings) \cup {nextCall}
           /\ pending' \subseteq pending \cup {nextCall}
           /\ HostCalls \subseteq HostCalls' /\ (Call => nextCall \in HostCalls')
<1>1. nextCall \in Nat
  BY HostCallsMinted
<1>2. CASE Call
  BY <1>1, <1>2, CallJoins
<1>3. CASE CallThrows
  BY <1>1, <1>3 DEF CallThrows, MintCall, Call, HostCalls
<1>4. CASE UNCHANGED bindingVars /\ ~Call
  BY <1>1, <1>4 DEF bindingVars, HostCalls
<1>5. QED BY <1>2, <1>3, <1>4

\* An operation as the script makes it: called for now, or not at all.
Fresh(r) ==
    /\ r \in RequestTypes
    /\ r.call = {} \/ (Call /\ r.call = {nextCall})
    /\ r.end # {} => r.call = {}
    /\ \A name \in r.name : Serves(r.kind, name)
    /\ r.call = {} /\ r.end = {} => r.kind = "http"
    /\ ~HasAnswer(r)

\* No operation is left pending for good by this step.
NothingForgotten == Forgotten' \subseteq Forgotten

LEMMA FreshIsOK ==
    ASSUME CallsInv, inflight = {}, Call \/ CallThrows \/ UNCHANGED bindingVars,
           declared' = declared, NEW r, Fresh(r)
    PROVE  RequestOK(r)'
<1>1. BindingsInv
  BY DEF CallsInv
<1>2. nextCall \in Nat \ {0} /\ nextCall' \in Nat /\ (Call => nextCall' = nextCall + 1)
  BY <1>1, GuestEffects, HostCallsMinted
<1>3. r.call = {} \/ \E id \in 1..nextCall' - 1 : r.call = {id}
  <2>1. Call => nextCall \in 1..nextCall' - 1
    BY <1>2
  <2>2. r.call = {} \/ (Call /\ r.call = {nextCall})
    BY DEF Fresh
  <2>3. QED BY <2>1, <2>2
<1>4. r.end # {} => r.call \cap pending' = {}
  BY DEF Fresh
<1>5. QED BY <1>3, <1>4 DEF Fresh, RequestOK, Serves

\* An operation the script has just made or called for is not forgotten.
LEMMA FreshNotForgotten ==
    ASSUME CallsInv, inflight = {}, Call \/ CallThrows \/ UNCHANGED bindingVars,
           NEW r, Fresh(r)
    PROVE  r.end # {} \/ IsReading(r) \/ r.call \cap HostCalls' # {}
<1>1. Call => nextCall \in HostCalls'
  BY GuestEffects DEF CallsInv
<1>2. QED BY <1>1 DEF Fresh, IsReading

\* The new call is nobody's yet.
LEMMA CallIsNew ==
    ASSUME CallsInv, NEW i \in 1..Len(requests)
    PROVE  requests[i].call # {nextCall}
<1>1. nextCall \in Nat /\ RequestOK(requests[i])
  BY HostCallsMinted DEF CallsInv
<1>2. QED BY <1>1 DEF RequestOK

\* The script makes an operation.
LEMMA MakesInv ==
    ASSUME CallsInv, BindingsInv', NEW r, Make(r),
           Call \/ CallThrows \/ UNCHANGED bindingVars, Fresh(r)
    PROVE  CallsInv' /\ NothingForgotten
<1>1. /\ inflight = {} /\ requests' = Append(requests, r)
      /\ UNCHANGED <<wired, declared, asked, future>>
      /\ requests \in Seq(RequestTypes) /\ r \in RequestTypes /\ BindingsInv
  BY DEF Make, CallsInv, Fresh
<1>2. /\ requests' \in Seq(RequestTypes)
      /\ Len(requests') = Len(requests) + 1 /\ Len(requests) \in Nat
      /\ \A i \in 1..Len(requests) : requests'[i] = requests[i]
      /\ requests'[Len(requests) + 1] = r
  BY <1>1, AppendProperties
<1>3. RequestOK(r)' /\ ~HasAnswer(r)
  BY <1>1, FreshIsOK DEF Fresh
<1>4. /\ nextCall \in Nat /\ nextCall' \in Nat /\ nextCall <= nextCall'
      /\ inflight' = {}
      /\ ToSet(bindings') \subseteq ToSet(bindings) \cup {nextCall}
      /\ pending' \subseteq pending \cup {nextCall} /\ HostCalls \subseteq HostCalls'
  BY <1>1, GuestEffects
<1>5. \A i \in 1..Len(requests') :
        \/ i \in 1..Len(requests) /\ requests'[i] = requests[i]
        \/ \A s : s = requests'[i] => RequestOK(s)' /\ ~HasAnswer(s)
  <2> SUFFICES ASSUME NEW i \in 1..Len(requests'), i \notin 1..Len(requests),
                      NEW s, s = requests'[i]
               PROVE  RequestOK(s)' /\ ~HasAnswer(s)
    BY <1>2
  <2>1. i = Len(requests) + 1
    BY <1>2
  <2>2. s = r
    BY <1>2, <2>1
  <2>3. QED BY <1>3, <2>2
<1>6. Len(requests) <= Len(requests')
  BY <1>2
<1>7. OwnCalls(requests')
  <2>1. \A i \in 1..Len(requests) : r.call # {} => requests[i].call # r.call
    BY CallIsNew DEF Fresh
  <2>2. \A i \in 1..Len(requests') : i \in 1..Len(requests) \/ i = Len(requests) + 1
    BY <1>2
  <2>3. OwnCalls(requests)
    BY DEF CallsInv
  <2>4. QED BY <1>2, <2>1, <2>2, <2>3 DEF OwnCalls
<1>8. CallsInv'
  BY <1>1, <1>2, <1>4, <1>5, <1>6, <1>7, ScriptInv
<1>9. NothingForgotten
  <2> SUFFICES ASSUME NEW i \in DOMAIN requests', i \in Forgotten'
               PROVE  i \in Forgotten
    BY DEF NothingForgotten, Forgotten
  <2>1. /\ requests'[i].end = {} /\ ~IsReading(requests'[i])
        /\ requests'[i].call \cap HostCalls' = {}
    BY DEF Forgotten, IsReading
  <2>2. requests'[i] # r
    BY <1>1, <2>1, FreshNotForgotten
  <2>3. i \in 1..Len(requests') /\ i # Len(requests) + 1
    BY <1>2, <2>2
  <2>4. i \in 1..Len(requests) /\ requests'[i] = requests[i]
    BY <1>2, <2>3
  <2>5. i \in DOMAIN requests
    BY <1>1, <2>4
  <2>6. QED BY <1>4, <2>1, <2>4, <2>5 DEF Forgotten
<1>10. QED BY <1>8, <1>9

\* The script goes on with an operation whose body it reads.
LEMMA ChangesInv ==
    ASSUME CallsInv, BindingsInv', NEW i \in DOMAIN requests, NEW r,
           requests' = [requests EXCEPT ![i] = r], requests[i].call = {},
           inflight = {}, UNCHANGED <<wired, declared, asked, future>>,
           Call \/ CallThrows \/ UNCHANGED bindingVars, Fresh(r)
    PROVE  CallsInv' /\ NothingForgotten
<1>1. requests \in Seq(RequestTypes) /\ r \in RequestTypes /\ BindingsInv
  BY DEF CallsInv, Fresh
<1>2. /\ requests' \in Seq(RequestTypes) /\ Len(requests') = Len(requests)
      /\ Len(requests) \in Nat /\ i \in 1..Len(requests)
      /\ \A j \in 1..Len(requests) : requests'[j] = IF j = i THEN r ELSE requests[j]
  BY <1>1, ExceptSeq
<1>3. RequestOK(r)' /\ ~HasAnswer(r)
  BY <1>1, FreshIsOK DEF Fresh
<1>4. /\ nextCall \in Nat /\ nextCall' \in Nat /\ nextCall <= nextCall'
      /\ inflight' = {}
      /\ ToSet(bindings') \subseteq ToSet(bindings) \cup {nextCall}
      /\ pending' \subseteq pending \cup {nextCall} /\ HostCalls \subseteq HostCalls'
  BY <1>1, GuestEffects
<1>5. \A j \in 1..Len(requests') :
        \/ j \in 1..Len(requests) /\ requests'[j] = requests[j]
        \/ \A s : s = requests'[j] => RequestOK(s)' /\ ~HasAnswer(s)
  <2> SUFFICES ASSUME NEW j \in 1..Len(requests'), requests'[j] # requests[j],
                      NEW s, s = requests'[j]
               PROVE  RequestOK(s)' /\ ~HasAnswer(s)
    BY <1>2
  <2>1. s = r
    BY <1>2
  <2>2. QED BY <1>3, <2>1
<1>6. /\ Len(requests) <= Len(requests')
      /\ \A j \in 1..Len(requests) : requests'[j] = requests[j] \/ requests[j].call = {}
  BY <1>2
<1>7. OwnCalls(requests')
  <2>1. \A j \in 1..Len(requests) : r.call # {} => requests[j].call # r.call
    BY CallIsNew DEF Fresh
  <2>2. OwnCalls(requests)
    BY DEF CallsInv
  <2>3. QED BY <1>2, <2>1, <2>2 DEF OwnCalls
<1>8. CallsInv'
  BY <1>1, <1>2, <1>4, <1>5, <1>6, <1>7, ScriptInv
<1>9. NothingForgotten
  <2> SUFFICES ASSUME NEW j \in DOMAIN requests', j \in Forgotten'
               PROVE  j \in Forgotten
    BY DEF NothingForgotten, Forgotten
  <2>1. /\ requests'[j].end = {} /\ ~IsReading(requests'[j])
        /\ requests'[j].call \cap HostCalls' = {}
    BY DEF Forgotten, IsReading
  <2>2. requests'[j] # r
    BY <1>1, <2>1, FreshNotForgotten
  <2>3. j \in 1..Len(requests) /\ requests'[j] = requests[j]
    BY <1>2, <2>2
  <2>4. j \in DOMAIN requests
    BY <1>1, <2>3
  <2>5. QED BY <1>4, <2>1, <2>3, <2>4 DEF Forgotten
<1>10. QED BY <1>8, <1>9

----------------------------------------------------------------------------

\* How an operation that fails or is answered ends.
LEMMA EndTypes ==
    /\ Rejected \in [is : {"answer", "error", "abort"}, chunks : 0..MaxChunks]
    /\ AbortError \in [is : {"answer", "error", "abort"}, chunks : 0..MaxChunks]
    /\ \A n \in 0..MaxChunks :
         Answered(n) \in [is : {"answer", "error", "abort"}, chunks : 0..MaxChunks]
    /\ Rejected.is = "error" /\ AbortError.is = "abort"
BY CallsAssumption DEF Rejected, AbortError, Answered

\* An operation that is called for.
LEMMA CalledIsFresh ==
    ASSUME CallsInv, Call, NEW r \in RequestTypes,
           r.end = {}, \A name \in r.name : Serves(r.kind, name)
    PROVE  Fresh(Called(r))
<1>1. nextCall \in Nat
  BY HostCallsMinted DEF CallsInv
<1>2. /\ Called(r) \in RequestTypes /\ Called(r).call = {nextCall} /\ Called(r).end = {}
      /\ Called(r).kind = r.kind /\ Called(r).name = r.name /\ Called(r).body = r.body
  BY <1>1 DEF Called, RequestTypes
<1>3. QED BY <1>2 DEF Fresh, HasAnswer

LEMMA FetchInv ==
    ASSUME CallsInv, BindingsInv', Fetch
    PROVE  CallsInv' /\ NothingForgotten
<1>1. PICK body \in BOOLEAN :
        LET request == Request("http", {}, body) IN
        \/ Make([request EXCEPT !.end = {AbortError}]) /\ UNCHANGED bindingVars
        \/ body /\ Make(request) /\ UNCHANGED bindingVars
        \/ ~body /\ Make(Called(request)) /\ Call
  BY DEF Fetch
<1> DEFINE request == Request("http", {}, body)
<1>2. /\ request \in RequestTypes
      /\ request.kind = "http" /\ request.name = {}
      /\ request.call = {} /\ request.end = {}
  BY DEF Request, RequestTypes, Kinds
<1>3. \/ Make([request EXCEPT !.end = {AbortError}]) /\ UNCHANGED bindingVars
      \/ body /\ Make(request) /\ UNCHANGED bindingVars
      \/ ~body /\ Make(Called(request)) /\ Call
  BY <1>1
<1> HIDE DEF request
<1>4. CASE Make([request EXCEPT !.end = {AbortError}]) /\ UNCHANGED bindingVars
  <2> DEFINE r == [request EXCEPT !.end = {AbortError}]
  <2>1. r \in RequestTypes /\ r.kind = "http" /\ r.name = {}
        /\ r.call = {} /\ r.end = {AbortError}
    BY <1>2, EndTypes DEF RequestTypes
  <2> HIDE DEF r
  <2>2. Fresh(r)
    BY <2>1, EndTypes DEF Fresh, HasAnswer
  <2>3. Make(r)
    BY <1>4 DEF r
  <2>4. QED BY <1>4, <2>2, <2>3, MakesInv
<1>5. CASE Make(request) /\ UNCHANGED bindingVars
  <2>1. Fresh(request)
    BY <1>2 DEF Fresh, HasAnswer
  <2>2. QED BY <1>5, <2>1, MakesInv
<1>6. CASE Make(Called(request)) /\ Call
  <2>1. Fresh(Called(request))
    BY <1>2, <1>6, CalledIsFresh
  <2>2. QED BY <1>6, <2>1, MakesInv
<1>7. QED BY <1>3, <1>4, <1>5, <1>6

LEMMA BodyInv ==
    ASSUME CallsInv, BindingsInv', BodyRead \/ BodyUnreadable
    PROVE  CallsInv' /\ NothingForgotten
<1>1. PICK i \in DOMAIN requests :
        /\ IsReading(requests[i]) /\ inflight = {}
        /\ UNCHANGED <<wired, declared, asked, future>>
        /\ \/ requests' = [requests EXCEPT ![i] = Called(@)] /\ Call
           \/ requests' = [requests EXCEPT ![i].end = {Rejected}] /\ UNCHANGED bindingVars
  BY DEF BodyRead, BodyUnreadable, Call, MintCall
<1> DEFINE r == requests[i]
<1>2. /\ r \in RequestTypes /\ r.kind = "http" /\ r.call = {} /\ r.end = {}
      /\ \A name \in r.name : Serves(r.kind, name)
  BY <1>1 DEF CallsInv, RequestOK, IsReading
<1>3. CASE requests' = [requests EXCEPT ![i] = Called(@)] /\ Call
  <2>1. Fresh(Called(r))
    BY <1>2, <1>3, CalledIsFresh
  <2>2. requests' = [requests EXCEPT ![i] = Called(r)]
    BY <1>3
  <2>3. QED BY <1>1, <1>2, <1>3, <2>1, <2>2, ChangesInv
<1>4. CASE requests' = [requests EXCEPT ![i].end = {Rejected}] /\ UNCHANGED bindingVars
  <2> DEFINE s == [r EXCEPT !.end = {Rejected}]
  <2>1. requests' = [requests EXCEPT ![i] = s]
    BY <1>4
  <2>2. /\ s \in RequestTypes /\ s.kind = r.kind /\ s.name = r.name
        /\ s.call = r.call /\ s.end = {Rejected}
    BY <1>2, EndTypes DEF RequestTypes
  <2> HIDE DEF s, r
  <2>3. Fresh(s)
    BY <1>2, <2>2, EndTypes DEF Fresh, HasAnswer
  <2>4. requests[i].call = {}
    BY <1>2 DEF r
  <2>5. QED BY <1>1, <1>4, <2>1, <2>3, <2>4, ChangesInv
<1>5. QED BY <1>1, <1>3, <1>4

\* What EnvObject gives a name is served under it.
LEMMA EnvServes ==
    ASSUME CallsInv, NEW name \in Names, NEW kind \in EnvObject(name)
    PROVE  Serves(kind, name) /\ kind \in {"fetch", "query", "invoke"} /\ name \in AllNames
<1>1. PICK i \in DOMAIN declared :
        /\ declared[i].name = name /\ declared[i].type \in DOMAIN KindOf
        /\ kind = KindOf[declared[i].type]
        /\ \A j \in DOMAIN declared : declared[j].name = name => j <= i
  BY DEF EnvObject
<1>2. kind \in {"fetch", "query", "invoke"}
  BY <1>1 DEF KindOf
<1>3. name \in AllNames
  BY DEF Names, AllNames, CallsInv
<1>4. QED BY <1>1, <1>2, <1>3 DEF Serves

LEMMA EnvCallsInv ==
    ASSUME CallsInv, BindingsInv', EnvCall \/ RefusedByScript
    PROVE  CallsInv' /\ NothingForgotten
<1>0. PICK name \in Names : \E kind \in EnvObject(name), fits \in BOOLEAN :
        \/ /\ Make(Called([Request(kind, {name}, FALSE) EXCEPT !.fits = fits]))
           /\ Call
        \/ /\ Make([Request(kind, {name}, FALSE) EXCEPT !.end = {Rejected}])
           /\ CallThrows \/ UNCHANGED bindingVars
  <2>1. CASE EnvCall
    BY <2>1 DEF EnvCall
  <2>2. CASE RefusedByScript
    BY <2>2 DEF RefusedByScript
  <2>3. QED BY <2>1, <2>2
<1>1. PICK kind \in EnvObject(name), fits \in BOOLEAN :
        \/ /\ Make(Called([Request(kind, {name}, FALSE) EXCEPT !.fits = fits]))
           /\ Call
        \/ /\ Make([Request(kind, {name}, FALSE) EXCEPT !.end = {Rejected}])
           /\ CallThrows \/ UNCHANGED bindingVars
  BY <1>0
<1>2. Serves(kind, name) /\ kind \in {"fetch", "query", "invoke"} /\ name \in AllNames
  BY EnvServes
<1> DEFINE plain == Request(kind, {name}, FALSE)
           fitted == [plain EXCEPT !.fits = fits]
           refused == [plain EXCEPT !.end = {Rejected}]
<1>3. /\ fitted \in RequestTypes /\ fitted.kind = kind /\ fitted.name = {name}
      /\ fitted.call = {} /\ fitted.end = {}
  BY <1>2 DEF Request, RequestTypes, Kinds
<1>4. /\ refused \in RequestTypes /\ refused.kind = kind /\ refused.name = {name}
      /\ refused.call = {} /\ refused.end = {Rejected}
  BY <1>2, EndTypes DEF Request, RequestTypes, Kinds
<1>5. \/ Make(Called(fitted)) /\ Call
      \/ Make(refused) /\ (CallThrows \/ UNCHANGED bindingVars)
  BY <1>1
<1> HIDE DEF plain, fitted, refused
<1>6. \A n \in {name} : Serves(kind, n)
  BY <1>2
<1>7. CASE Make(Called(fitted)) /\ Call
  <2>1. Fresh(Called(fitted))
    BY <1>2, <1>3, <1>6, <1>7, CalledIsFresh
  <2>2. QED BY <1>7, <2>1, MakesInv
<1>8. CASE Make(refused) /\ (CallThrows \/ UNCHANGED bindingVars)
  <2>1. Fresh(refused)
    BY <1>2, <1>4, <1>6, EndTypes DEF Fresh, HasAnswer
  <2>2. QED BY <1>8, <2>1, MakesInv
<1>9. QED BY <1>5, <1>7, <1>8

----------------------------------------------------------------------------
(* The host's steps.                                                       *)

\* The step of a future in flight.  It may answer the call asked last, and it
\* may end the operation of that call, which the host then lets go.
AnsweredAs(a, b) ==
    /\ future \in {"asked", "collecting"}
    /\ b.call = a.call /\ b.kind = a.kind /\ b.name = a.name /\ b.body = a.body

EndsAs(r, s) ==
    /\ r.call = inflight /\ inflight' = {} /\ pending' = pending \ inflight
    /\ s.kind = r.kind /\ s.name = r.name /\ s.body = r.body
    /\ s.call = r.call

LEMMA FutureInv ==
    ASSUME CallsInv, BindingsInv', inflight # {}, inflight' = inflight \/ inflight' = {},
           UNCHANGED <<wired, declared, nextCall, bindings>>, pending' \subseteq pending,
           asked' \in Seq(AskedTypes), Len(asked') = Len(asked),
           \A j \in 1..Len(asked) :
              \/ asked'[j] = asked[j]
              \/ j = Len(asked) /\ AnsweredAs(asked[j], asked'[j]),
           requests' \in Seq(RequestTypes), Len(requests') = Len(requests),
           \A i \in 1..Len(requests) :
              \/ requests'[i] = requests[i]
              \/ /\ EndsAs(requests[i], requests'[i])
                 /\ HasAnswer(requests'[i]) =>
                      \E j \in 1..Len(asked) : Delivered(asked'[j], requests'[i]),
           future' \in {"none", "collecting"}, future' = "none" <=> inflight' = {},
           future' = "collecting" =>
              /\ future \in {"asked", "collecting"}
              /\ \E status \in Statuses : asked'[Len(asked)].status = {status}
    PROVE  CallsInv'
<1>1. nextCall \in Nat
  BY HostCallsMinted DEF CallsInv
<1>2. inflight \subseteq pending
  BY DEF CallsInv, BindingsInv, CallsBacked, HostCalls
<1>3. ASSUME NEW i \in 1..Len(requests')
      PROVE  RequestOK(requests[i])'
  <2>1. RequestOK(requests[i])
    BY <1>3 DEF CallsInv
  <2>2. CASE requests'[i] = requests[i]
    BY <1>1, <2>1, <2>2 DEF RequestOK, Serves
  <2>3. CASE EndsAs(requests[i], requests'[i])
    <3>1. requests'[i].call \cap pending' = {}
      BY <2>3 DEF EndsAs
    <3>2. requests'[i] \in RequestTypes
      BY <1>3
    <3>3. requests[i].call # {}
      BY <2>3 DEF EndsAs
    <3>4. QED BY <2>1, <2>3, <3>1, <3>2, <3>3 DEF RequestOK, EndsAs, Serves
  <2>4. QED BY <1>3, <2>2, <2>3
<1>4. ASSUME NEW j \in 1..Len(asked')
      PROVE  AskedOK(j)'
  <2>1. AskedOK(j)
    BY <1>4 DEF CallsInv
  <2>2. asked'[j].call = asked[j].call /\ asked'[j].kind = asked[j].kind
        /\ asked'[j].name = asked[j].name /\ asked'[j].body = asked[j].body
    BY <1>4 DEF AnsweredAs
  <2>3. PICK id \in 1..nextCall - 1 :
          /\ asked[j].call = {id} /\ id \notin ToSet(bindings)
          /\ id \in inflight => j = Len(asked) /\ future \in {"asked", "collecting"}
    BY <2>1 DEF AskedOK
  <2>4. id \in inflight' => future' \in {"asked", "collecting"}
    OBVIOUS
  <2>5. PICK i \in 1..Len(requests) : AskedFor(asked[j], requests[i])
    BY <2>1 DEF AskedOK
  <2>6. AskedFor(asked'[j], requests'[i])
    BY <2>2, <2>5 DEF AskedFor, EndsAs
  <2>7. QED BY <2>2, <2>3, <2>4, <2>5, <2>6 DEF AskedOK, AskedFor
<1>5. \A i, j \in 1..Len(asked') : asked'[i].call = asked'[j].call => i = j
  BY DEF CallsInv, AnsweredAs
<1>6. ASSUME NEW i \in 1..Len(requests'), HasAnswer(requests'[i])
      PROVE  \E j \in 1..Len(asked') : Delivered(asked'[j], requests'[i])
  <2>1. CASE requests'[i] = requests[i]
    <3>1. PICK j \in 1..Len(asked) : Delivered(asked[j], requests[i])
      BY <1>6, <2>1 DEF CallsInv
    <3>2. asked[j].call = requests[i].call /\ requests[i].end # {}
      BY <1>6, <2>1, <3>1 DEF Delivered, HasAnswer
    <3>3. requests[i].call \cap inflight = {}
      BY <1>2, <1>6, <3>2 DEF CallsInv, RequestOK
    <3>4. ~AnsweredAs(asked[j], asked'[j]) \/ j # Len(asked)
      BY <3>2, <3>3 DEF AnsweredAs, CallsInv, Current
    <3>5. QED BY <2>1, <3>1, <3>4
  <2>2. QED BY <1>6, <2>1
<1>7. future' \in {"asked", "collecting"} =>
        /\ Len(asked') > 0 /\ asked'[Len(asked')].call = inflight'
        /\ future' # "asked"
        /\ \E status \in Statuses : asked'[Len(asked')].status = {status}
  <2> SUFFICES ASSUME future' = "collecting"
               PROVE  Len(asked') > 0 /\ asked'[Len(asked')].call = inflight'
    OBVIOUS
  <2>1. /\ Len(asked) > 0 /\ asked[Len(asked)].call = inflight /\ inflight' = inflight
        /\ asked \in Seq(AskedTypes)
    BY DEF CallsInv, Current
  <2>2. Len(asked) \in 1..Len(asked)
    BY <2>1
  <2>3. asked'[Len(asked)].call = asked[Len(asked)].call
    BY <2>2 DEF AnsweredAs
  <2>4. QED BY <2>1, <2>3
<1>8. wired' \in BOOLEAN /\ declared' \in Declarations
  BY DEF CallsInv
<1>9. (\A i \in 1..Len(requests) :
         HasAnswer(requests[i]) => \E j \in 1..Len(asked) : Delivered(asked[j], requests[i]))'
  BY <1>6 DEF HasAnswer, Delivered
<1>10. \A i \in 1..Len(requests') : RequestOK(requests[i])'
  BY <1>3
<1>11. \A j \in 1..Len(asked') : AskedOK(j)'
  BY <1>4
<1>12. OwnCalls(requests')
  <2>1. \A i \in 1..Len(requests) : requests'[i].call = requests[i].call
    BY DEF EndsAs
  <2>2. OwnCalls(requests)
    BY DEF CallsInv
  <2>3. QED BY <2>1, <2>2 DEF OwnCalls
<1>13. QED
  BY <1>5, <1>7, <1>8, <1>9, <1>10, <1>11, <1>12 DEF CallsInv, Current

LEMMA PollInv ==
    ASSUME CallsInv, BindingsInv', Poll
    PROVE  CallsInv'
<1>1. PICK i \in DOMAIN requests :
        /\ PopBinding
        /\ requests[i].call = inflight'
        /\ \/ future' = "asked" /\ asked' = Append(asked, Asking(requests[i]))
           \/ future' = "refused" /\ asked' = asked
        /\ UNCHANGED <<wired, declared, requests>>
  BY DEF Poll
<1>2. /\ ToSet(bindings) = ToSet(bindings') \cup inflight'
      /\ ToSet(bindings') \cap inflight' = {}
      /\ HostCalls' = HostCalls /\ inflight = {}
      /\ nextCall' = nextCall /\ pending' = pending
      /\ \E id \in 1..nextCall - 1 : inflight' = {id}
  BY <1>1, PopMoves DEF CallsInv
<1>3. \A k \in 1..Len(requests') : RequestOK(requests[k])'
  <2> SUFFICES ASSUME NEW k \in 1..Len(requests)
               PROVE  RequestOK(requests[k])'
    BY <1>1
  <2>1. RequestOK(requests[k]) /\ nextCall \in Nat
    BY HostCallsMinted DEF CallsInv
  <2>2. QED BY <1>1, <1>2, <2>1 DEF RequestOK, Serves
<1>4. ASSUME NEW j \in 1..Len(asked)
      PROVE  /\ \E id \in 1..nextCall' - 1 :
                  asked[j].call = {id} /\ id \notin ToSet(bindings') /\ id \notin inflight'
             /\ \E k \in 1..Len(requests') : AskedFor(asked[j], requests'[k])
  <2>1. PICK id \in 1..nextCall - 1 : asked[j].call = {id} /\ id \notin ToSet(bindings)
    BY <1>4 DEF CallsInv, AskedOK
  <2>2. \E k \in 1..Len(requests') : AskedFor(asked[j], requests'[k])
    BY <1>1, <1>4 DEF CallsInv, AskedOK
  <2>3. QED BY <1>2, <2>1, <2>2
<1>5. (/\ wired \in BOOLEAN /\ declared \in Declarations
       /\ requests \in Seq(RequestTypes)
       /\ future \in {"refused", "asked"}
       /\ OwnCalls(requests)
       /\ inflight # {})'
  BY <1>1, <1>2 DEF CallsInv, OwnCalls
<1>6. CASE future' = "refused" /\ asked' = asked
  <2>1. \A j \in 1..Len(asked') : AskedOK(j)'
    BY <1>4, <1>6 DEF AskedOK, AskedFor
  <2>2. AllDelivered(asked, requests) /\ OneCallEach(asked) /\ asked \in Seq(AskedTypes)
    BY DEF CallsInv, AllDelivered, OneCallEach
  <2>3. AllDelivered(asked', requests') /\ OneCallEach(asked') /\ asked' \in Seq(AskedTypes)
    BY <1>1, <1>6, <2>2
  <2>4. QED BY <1>3, <1>5, <1>6, <2>1, <2>3 DEF CallsInv, AllDelivered, OneCallEach
<1>7. CASE future' = "asked" /\ asked' = Append(asked, Asking(requests[i]))
  <2> DEFINE new == Asking(requests[i])
  <2>1. requests[i] \in RequestTypes /\ i \in 1..Len(requests) /\ asked \in Seq(AskedTypes)
    BY DEF CallsInv
  <2>2. /\ new \in AskedTypes /\ new.call = inflight' /\ new.status = {} /\ new.sent = 0
        /\ AskedFor(new, requests[i])
    BY <1>1, <2>1, CallsAssumption DEF Asking, AskedTypes, RequestTypes, AskedFor
  <2>3. asked' = Append(asked, new)
    BY <1>7
  <2> HIDE DEF new
  <2>4. PICK n \in Nat : n = Len(asked) + 1
    BY <2>1
  <2>5. /\ asked' \in Seq(AskedTypes) /\ Len(asked') = n /\ asked'[n] = new
        /\ \A j \in 1..Len(asked) : asked'[j] = asked[j]
        /\ \A j \in 1..n : j = n \/ j \in 1..Len(asked)
        /\ n \in 1..n
    BY <2>1, <2>2, <2>3, <2>4, AppendProperties
  <2>6. ASSUME NEW j \in 1..n
        PROVE  AskedOK(j)'
    <3>1. CASE j = n
      <4>1. PICK id \in 1..nextCall' - 1 : inflight' = {id}
        BY <1>2
      <4>2. asked'[j].call = {id} /\ id \notin ToSet(bindings')
        BY <1>2, <2>2, <2>5, <3>1, <4>1
      <4>3. j = Len(asked')
        BY <2>5, <3>1
      <4>4. AskedFor(asked'[j], requests'[i]) /\ i \in 1..Len(requests')
        BY <1>1, <2>1, <2>2, <2>5, <3>1
      <4>5. (\E k \in 1..nextCall - 1 :
               /\ asked[j].call = {k} /\ k \notin ToSet(bindings)
               /\ k \in inflight => j = Len(asked) /\ future \in {"asked", "collecting"})'
        BY <1>7, <4>1, <4>2, <4>3
      <4>6. (\E k \in 1..Len(requests) : AskedFor(asked[j], requests[k]))'
        BY <4>4 DEF AskedFor
      <4>7. QED BY <4>5, <4>6 DEF AskedOK
    <3>2. CASE j \in 1..Len(asked)
      <4>1. PICK id \in 1..nextCall' - 1 :
              asked[j].call = {id} /\ id \notin ToSet(bindings') /\ id \notin inflight'
        BY <1>4, <3>2
      <4>2. PICK k \in 1..Len(requests') : AskedFor(asked[j], requests'[k])
        BY <1>4, <3>2
      <4>3. asked'[j] = asked[j]
        BY <2>5, <3>2
      <4>4. (\E m \in 1..nextCall - 1 :
               /\ asked[j].call = {m} /\ m \notin ToSet(bindings)
               /\ m \in inflight => j = Len(asked) /\ future \in {"asked", "collecting"})'
        BY <4>1, <4>3
      <4>5. (\E m \in 1..Len(requests) : AskedFor(asked[j], requests[m]))'
        BY <4>2, <4>3 DEF AskedFor
      <4>6. QED BY <4>4, <4>5 DEF AskedOK
    <3>3. QED BY <2>5, <3>1, <3>2
  <2>7. ASSUME NEW j \in 1..Len(asked)
        PROVE  asked'[j].call # asked'[n].call
    <3>1. PICK id \in 1..nextCall' - 1 : asked[j].call = {id} /\ id \notin inflight'
      BY <1>4
    <3>2. asked'[j].call = {id} /\ asked'[n].call = inflight'
      BY <2>2, <2>5, <3>1
    <3>3. QED BY <3>1, <3>2
  <2>8. OneCallEach(asked')
    BY <2>5, <2>7 DEF CallsInv, OneCallEach
  <2>9. AllDelivered(asked', requests')
    <3> SUFFICES ASSUME NEW k \in 1..Len(requests), HasAnswer(requests[k])
                 PROVE  \E j \in 1..Len(asked') : Delivered(asked'[j], requests[k])
      BY <1>1 DEF AllDelivered
    <3>1. PICK j \in 1..Len(asked) : Delivered(asked[j], requests[k])
      BY DEF CallsInv
    <3>2. j \in 1..Len(asked') /\ asked'[j] = asked[j]
      BY <2>1, <2>4, <2>5
    <3>3. QED BY <3>1, <3>2
  <2>10. (Len(asked) > 0 /\ Current.call = inflight /\ Current.status = {} /\ Current.sent = 0)'
    BY <2>2, <2>4, <2>5 DEF Current
  <2>11. \A j \in 1..Len(asked') : AskedOK(j)'
    BY <2>5, <2>6
  <2>12. QED
    BY <1>3, <1>5, <1>7, <2>5, <2>8, <2>9, <2>10, <2>11 DEF CallsInv, AllDelivered, OneCallEach
<1>8. QED BY <1>1, <1>6, <1>7

----------------------------------------------------------------------------
(* The steps of a future in flight.                                        *)

EndRecords == [is : {"answer", "error", "abort"}, chunks : 0..MaxChunks]

LEMMA FunctionIsSeq ==
    ASSUME NEW S, NEW n \in Nat, NEW f \in [1..n -> S]
    PROVE  f \in Seq(S) /\ Len(f) = n
OBVIOUS

\* What settling makes of the operations: that of the call in flight ends.
LEMMA SettledRequests ==
    ASSUME CallsInv, NEW E \in SUBSET EndRecords, inflight # {}, inflight' = {},
           pending' = pending \ inflight,
           requests' = [i \in DOMAIN requests |->
                          IF InFlight(requests[i]) THEN [requests[i] EXCEPT !.end = E]
                                                   ELSE requests[i]]
    PROVE  /\ requests' \in Seq(RequestTypes) /\ Len(requests') = Len(requests)
           /\ \A i \in 1..Len(requests) :
                \/ requests'[i] = requests[i]
                \/ EndsAs(requests[i], requests'[i]) /\ requests'[i].end = E
<1>1. requests \in Seq(RequestTypes)
  BY DEF CallsInv
<1>2. PICK n \in Nat : n = Len(requests) /\ DOMAIN requests = 1..n
  BY <1>1
<1>3. ASSUME NEW i \in 1..n
      PROVE  /\ requests'[i] \in RequestTypes
             /\ \/ requests'[i] = requests[i]
                \/ EndsAs(requests[i], requests'[i]) /\ requests'[i].end = E
  <2>1. requests[i] \in RequestTypes
    BY <1>1, <1>2
  <2>2. CASE InFlight(requests[i])
    <3> DEFINE r == requests[i]
               s == [r EXCEPT !.end = E]
    <3>1. requests'[i] = s
      BY <1>2, <2>2
    <3>2. r \in RequestTypes /\ r.call = inflight
      BY <2>1, <2>2 DEF InFlight
    <3> HIDE DEF r
    <3>3. /\ s \in RequestTypes /\ s.kind = r.kind /\ s.name = r.name /\ s.body = r.body
          /\ s.call = r.call /\ s.end = E
      BY <3>2 DEF RequestTypes, EndRecords
    <3> HIDE DEF s
    <3>4. EndsAs(r, s)
      BY <3>2, <3>3 DEF EndsAs
    <3>5. requests[i] = r
      BY DEF r
    <3>6. QED BY <3>1, <3>3, <3>4, <3>5
  <2>3. CASE ~InFlight(requests[i])
    BY <1>2, <2>1, <2>3
  <2>4. QED BY <2>2, <2>3
<1>4. requests' \in [1..n -> RequestTypes]
  BY <1>2, <1>3
<1>5. requests' \in Seq(RequestTypes) /\ Len(requests') = n
  BY <1>4, FunctionIsSeq
<1>6. QED BY <1>2, <1>3, <1>5

\* The embedder's answer is noted of the call asked last.
LEMMA AnswersLast ==
    ASSUME CallsInv, future \in {"asked", "collecting"}, NEW a \in AskedTypes,
           a.call = Current.call, a.kind = Current.kind, a.name = Current.name,
           a.body = Current.body, Answers(a)
    PROVE  /\ asked' \in Seq(AskedTypes) /\ Len(asked') = Len(asked)
           /\ Len(asked) \in 1..Len(asked) /\ asked'[Len(asked)] = a
           /\ \A j \in 1..Len(asked) :
                \/ asked'[j] = asked[j]
                \/ j = Len(asked) /\ AnsweredAs(asked[j], asked'[j])
<1>1. PICK n \in Nat : n = Len(asked) /\ n > 0 /\ asked \in Seq(AskedTypes)
  BY DEF CallsInv
<1>2. asked' = [asked EXCEPT ![n] = a] /\ n \in DOMAIN asked
  BY <1>1 DEF Answers
<1>3. /\ asked' \in Seq(AskedTypes) /\ Len(asked') = n
      /\ \A j \in 1..n : asked'[j] = IF j = n THEN a ELSE asked[j]
  BY <1>1, <1>2, ExceptSeq
<1>4. AnsweredAs(asked[n], a)
  BY <1>1 DEF AnsweredAs, Current
<1>5. QED BY <1>1, <1>3, <1>4

\* A future is ready, and with what it holds the operation ends.
LEMMA SettleInv ==
    ASSUME CallsInv, BindingsInv', NEW E \in SUBSET EndRecords, Settle(E),
           asked' \in Seq(AskedTypes), Len(asked') = Len(asked),
           \A j \in 1..Len(asked) :
              \/ asked'[j] = asked[j]
              \/ j = Len(asked) /\ AnsweredAs(asked[j], asked'[j]),
           (\E end \in E : end.is = "answer") =>
              \E j \in 1..Len(asked) :
                 /\ asked'[j].call = inflight /\ asked'[j].closed
                 /\ \A end \in E :
                      end.chunks = IF asked'[j].status \subseteq {"full"}
                                   THEN asked'[j].sent ELSE 0
    PROVE  CallsInv'
<1>1. /\ inflight # {} /\ inflight' = {} /\ future' = "none"
      /\ pending' = pending \ inflight
      /\ UNCHANGED <<wired, declared, nextCall, bindings>>
  BY DEF Settle, SettleBinding
<1>2. /\ requests' \in Seq(RequestTypes) /\ Len(requests') = Len(requests)
      /\ \A i \in 1..Len(requests) :
           \/ requests'[i] = requests[i]
           \/ EndsAs(requests[i], requests'[i]) /\ requests'[i].end = E
  BY <1>1, SettledRequests DEF Settle
<1>3. ASSUME NEW i \in 1..Len(requests), EndsAs(requests[i], requests'[i]),
             requests'[i].end = E, HasAnswer(requests'[i])
      PROVE  \E j \in 1..Len(asked) : Delivered(asked'[j], requests'[i])
  <2>1. PICK j \in 1..Len(asked) :
          /\ asked'[j].call = inflight /\ asked'[j].closed
          /\ \A end \in E :
               end.chunks = IF asked'[j].status \subseteq {"full"}
                            THEN asked'[j].sent ELSE 0
    BY <1>3 DEF HasAnswer
  <2>2. requests'[i].call = inflight
    BY <1>3 DEF EndsAs
  <2>3. Delivered(asked'[j], requests'[i])
    BY <1>3, <2>1, <2>2 DEF Delivered
  <2>4. QED BY <2>3
<1>4. \A i \in 1..Len(requests) :
        \/ requests'[i] = requests[i]
        \/ /\ EndsAs(requests[i], requests'[i])
           /\ HasAnswer(requests'[i]) =>
                \E j \in 1..Len(asked) : Delivered(asked'[j], requests'[i])
  BY <1>2, <1>3
<1>5. QED BY <1>1, <1>2, <1>4, FutureInv

\* A future that ends without an answer: refused, failed, out of time, dropped.
LEMMA RefusedInv ==
    ASSUME CallsInv, BindingsInv', SettleRefused \/ Fails
    PROVE  CallsInv'
<1>1. Settle({Rejected}) /\ asked' = asked
  BY DEF SettleRefused, Fails
<1>2. {Rejected} \in SUBSET EndRecords /\ \A end \in {Rejected} : end.is # "answer"
  BY EndTypes DEF EndRecords
<1>3. asked' \in Seq(AskedTypes) /\ Len(asked') = Len(asked)
      /\ \A j \in 1..Len(asked) : asked'[j] = asked[j]
  BY <1>1 DEF CallsInv
<1>4. QED BY <1>1, <1>2, <1>3, SettleInv

LEMMA DroppedInv ==
    ASSUME CallsInv, BindingsInv', TimesOut \/ Abandons
    PROVE  CallsInv'
<1>1. /\ inflight # {} /\ inflight' = {} /\ future' = "none"
      /\ UNCHANGED <<wired, declared, nextCall, bindings, pending, requests, asked>>
  BY DEF TimesOut, Abandons, TimeoutBinding, AbandonBinding
<1>2. requests \in Seq(RequestTypes) /\ asked \in Seq(AskedTypes)
  BY DEF CallsInv
<1>3. QED BY <1>1, <1>2, FutureInv

\* Of a future in flight there is the record of what was asked.
LEMMA CurrentTypes ==
    ASSUME CallsInv, future \in {"asked", "collecting"}
    PROVE  Current \in AskedTypes /\ inflight # {} /\ Current.call = inflight
<1>1. asked \in Seq(AskedTypes) /\ Len(asked) > 0
  BY DEF CallsInv
<1>2. asked[Len(asked)] \in AskedTypes
  BY <1>1
<1>3. QED BY <1>2 DEF CallsInv, Current

\* A future that answers in one value.
LEMMA ValueInv ==
    ASSUME CallsInv, BindingsInv', Value
    PROVE  CallsInv'
<1>1. future = "asked" /\ Answers([Current EXCEPT !.closed = TRUE])
      /\ (Settle({Answered(0)}) \/ Settle({}))
  BY DEF Value
<1>2. Current \in AskedTypes /\ inflight # {} /\ Current.call = inflight
      /\ Current.status = {} /\ Current.sent = 0
  BY <1>1, CurrentTypes DEF CallsInv
<1> DEFINE a == [Current EXCEPT !.closed = TRUE]
<1>3. /\ a \in AskedTypes /\ a.call = Current.call /\ a.kind = Current.kind
      /\ a.name = Current.name /\ a.body = Current.body
      /\ a.closed /\ a.status = {} /\ a.sent = 0
  BY <1>2 DEF AskedTypes
<1>4. Answers(a)
  BY <1>1
<1> HIDE DEF a
<1>5. /\ asked' \in Seq(AskedTypes) /\ Len(asked') = Len(asked)
      /\ Len(asked) \in 1..Len(asked) /\ asked'[Len(asked)] = a
      /\ \A j \in 1..Len(asked) :
           \/ asked'[j] = asked[j]
           \/ j = Len(asked) /\ AnsweredAs(asked[j], asked'[j])
  BY <1>1, <1>3, <1>4, AnswersLast
<1>6. {Answered(0)} \in SUBSET EndRecords /\ Answered(0).chunks = 0
  BY EndTypes, CallsAssumption DEF EndRecords, Answered
<1>7. ASSUME NEW E \in SUBSET EndRecords, Settle(E), \A end \in E : end.chunks = 0
      PROVE  CallsInv'
  <2>1. /\ asked'[Len(asked)].call = inflight /\ asked'[Len(asked)].closed
        /\ \A end \in E :
             end.chunks = IF asked'[Len(asked)].status \subseteq {"full"}
                          THEN asked'[Len(asked)].sent ELSE 0
    BY <1>2, <1>3, <1>5, <1>7
  <2>2. QED BY <1>5, <1>7, <2>1, SettleInv
<1>8. CASE Settle({Answered(0)})
  BY <1>6, <1>7, <1>8
<1>9. CASE Settle({})
  BY <1>7, <1>9
<1>10. QED BY <1>1, <1>8, <1>9

\* A future that goes on: the answer begins, or a chunk of it comes.
LEMMA GoesOnInv ==
    ASSUME CallsInv, BindingsInv', Respond \/ Chunk
    PROVE  CallsInv'
<1>1. /\ future \in {"asked", "collecting"} /\ future' = "collecting"
      /\ UNCHANGED <<inflight, nextCall, bindings, pending, wired, declared, requests>>
  BY DEF Respond, Chunk, bindingVars
<1>2. Current \in AskedTypes /\ inflight # {} /\ Current.call = inflight
  BY <1>1, CurrentTypes
<1>3. PICK a \in AskedTypes :
        /\ a.call = Current.call /\ a.kind = Current.kind
        /\ a.name = Current.name /\ a.body = Current.body
        /\ \E status \in Statuses : a.status = {status}
        /\ Answers(a)
  <2>1. CASE Respond
    <3>1. PICK status \in Statuses : Answers([Current EXCEPT !.status = {status}])
      BY <2>1 DEF Respond
    <3> DEFINE a == [Current EXCEPT !.status = {status}]
    <3>2. /\ a \in AskedTypes /\ a.call = Current.call /\ a.kind = Current.kind
          /\ a.name = Current.name /\ a.body = Current.body /\ a.status = {status}
      BY <1>2 DEF AskedTypes
    <3>3. QED BY <3>1, <3>2
  <2>2. CASE Chunk
    <3>1. future = "collecting" /\ Current.sent < MaxChunks
          /\ Answers([Current EXCEPT !.sent = @ + 1])
      BY <2>2 DEF Chunk
    <3> DEFINE a == [Current EXCEPT !.sent = @ + 1]
    <3>2. /\ a \in AskedTypes /\ a.call = Current.call /\ a.kind = Current.kind
          /\ a.name = Current.name /\ a.body = Current.body /\ a.status = Current.status
      BY <1>2, <3>1, CallsAssumption DEF AskedTypes
    <3>3. \E status \in Statuses : Current.status = {status}
      BY <3>1 DEF CallsInv
    <3>4. QED BY <3>1, <3>2, <3>3
  <2>3. QED BY <2>1, <2>2
<1>4. /\ asked' \in Seq(AskedTypes) /\ Len(asked') = Len(asked)
      /\ asked'[Len(asked)] = a
      /\ \A j \in 1..Len(asked) :
           \/ asked'[j] = asked[j]
           \/ j = Len(asked) /\ AnsweredAs(asked[j], asked'[j])
  BY <1>1, <1>3, AnswersLast
<1>5. \E status \in Statuses : asked'[Len(asked)].status = {status}
  BY <1>3, <1>4
<1>6. requests \in Seq(RequestTypes)
  BY DEF CallsInv
<1>7. inflight' # {} /\ future' # "none"
  BY <1>1, <1>2
<1>8. QED BY <1>1, <1>2, <1>4, <1>5, <1>6, <1>7, FutureInv

\* A body that has come to its end.
LEMMA EndsInv ==
    ASSUME CallsInv, BindingsInv', Ends
    PROVE  CallsInv'
<1>1. PICK status \in Current.status :
        /\ future = "collecting"
        /\ Settle({ResponseOf(Current.kind, status, Current.sent)})
        /\ Answers([Current EXCEPT !.closed = TRUE])
  BY DEF Ends
<1>2. Current \in AskedTypes /\ inflight # {} /\ Current.call = inflight
      /\ Current.status = {status} /\ status \in Statuses
  BY <1>1, CurrentTypes DEF CallsInv
<1> DEFINE a == [Current EXCEPT !.closed = TRUE]
           end == ResponseOf(Current.kind, status, Current.sent)
<1>3. /\ a \in AskedTypes /\ a.call = Current.call /\ a.kind = Current.kind
      /\ a.name = Current.name /\ a.body = Current.body
      /\ a.closed /\ a.status = {status} /\ a.sent = Current.sent
  BY <1>2 DEF AskedTypes
<1>4. Current.sent \in 0..MaxChunks /\ 0 \in 0..MaxChunks
  BY <1>2, CallsAssumption DEF AskedTypes
<1>5. /\ end \in EndRecords
      /\ end.is = "answer" =>
           end.chunks = IF {status} \subseteq {"full"} THEN Current.sent ELSE 0
  <2>1. CASE status = "full"
    BY <1>4, <2>1, EndTypes DEF ResponseOf, EndRecords, Answered
  <2>2. CASE status = "outside"
    BY <2>2, EndTypes DEF ResponseOf, EndRecords
  <2>3. CASE status = "bodiless"
    <3>1. end = Answered(0) \/ end = Rejected
      BY <2>3 DEF ResponseOf
    <3>2. QED BY <1>4, <2>3, <3>1, EndTypes DEF EndRecords, Answered
  <2>4. QED BY <1>2, <2>1, <2>2, <2>3 DEF Statuses
<1>6. Answers(a) /\ Settle({end})
  BY <1>1
<1> HIDE DEF a, end
<1>7. /\ asked' \in Seq(AskedTypes) /\ Len(asked') = Len(asked)
      /\ Len(asked) \in 1..Len(asked) /\ asked'[Len(asked)] = a
      /\ \A j \in 1..Len(asked) :
           \/ asked'[j] = asked[j]
           \/ j = Len(asked) /\ AnsweredAs(asked[j], asked'[j])
  BY <1>1, <1>3, <1>6, AnswersLast
<1>8. {end} \in SUBSET EndRecords
  BY <1>5
<1>9. end.is = "answer" =>
        \E j \in 1..Len(asked) :
           /\ asked'[j].call = inflight /\ asked'[j].closed
           /\ \A e \in {end} :
                e.chunks = IF asked'[j].status \subseteq {"full"} THEN asked'[j].sent ELSE 0
  BY <1>2, <1>3, <1>5, <1>7
<1>10. QED BY <1>6, <1>7, <1>8, <1>9, SettleInv

LEMMA ClockStepInv ==
    ASSUME CallsInv, BindingsInv', UNCHANGED <<bindingVars, callVars>>
    PROVE  CallsInv'
<1>1. /\ UNCHANGED <<nextCall, bindings, pending, inflight, wired, declared, requests, asked, future>>
      /\ HostCalls' = HostCalls
  BY DEF bindingVars, callVars, HostCalls
<1>2. ASSUME NEW i \in 1..Len(requests)
      PROVE  RequestOK(requests[i])'
  <2>1. RequestOK(requests[i])
    BY DEF CallsInv
  <2>2. QED BY <1>1, <2>1 DEF RequestOK, Serves
<1>3. ASSUME NEW j \in 1..Len(asked)
      PROVE  AskedOK(j)'
  <2>1. AskedOK(j)
    BY DEF CallsInv
  <2>2. QED BY <1>1, <2>1 DEF AskedOK, AskedFor
<1>4. AllDelivered(asked, requests) /\ OneCallEach(asked)
  BY DEF CallsInv, AllDelivered, OneCallEach
<1>5. AllDelivered(asked', requests') /\ OneCallEach(asked')
  BY <1>1, <1>4
<1>6. (/\ wired \in BOOLEAN /\ declared \in Declarations
       /\ requests \in Seq(RequestTypes) /\ asked \in Seq(AskedTypes)
       /\ future \in {"none", "refused", "asked", "collecting"}
       /\ future = "none" <=> inflight = {}
       /\ OwnCalls(requests)
       /\ future \in {"asked", "collecting"} =>
            /\ Len(asked) > 0 /\ Current.call = inflight
            /\ future = "asked" => Current.status = {} /\ Current.sent = 0
            /\ future = "collecting" => \E status \in Statuses : Current.status = {status})'
  BY <1>1 DEF CallsInv, Current, OwnCalls
<1>7. QED BY <1>1, <1>2, <1>3, <1>5, <1>6 DEF CallsInv, AllDelivered, OneCallEach

LEMMA CallsNextInv == CallsInv /\ [CallsNext]_vars => CallsInv'
<1> SUFFICES ASSUME CallsInv, [CallsNext]_vars
             PROVE  CallsInv'
  OBVIOUS
<1>1. BindingsInv'
  BY CallsStepMaps, BindingsNextInv DEF CallsInv
<1>2. CASE ScriptStep
  BY <1>1, <1>2, FetchInv, BodyInv, EnvCallsInv DEF ScriptStep
<1>3. CASE Poll \/ SettleRefused \/ EmbedderAnswers \/ TimesOut \/ Abandons
  BY <1>1, <1>3, PollInv, RefusedInv, DroppedInv, ValueInv, GoesOnInv, EndsInv
     DEF EmbedderAnswers
<1>4. CASE NewDrain \/ TimePasses \/ UNCHANGED vars
  <2>1. UNCHANGED <<bindingVars, callVars>>
    BY <1>4 DEF NewDrain, TimePasses, vars
  <2>2. QED BY <1>1, <2>1, ClockStepInv
<1>5. QED BY <1>2, <1>3, <1>4 DEF CallsNext

----------------------------------------------------------------------------
(* The theorems.                                                           *)

LEMMA CallsInvTypes == CallsInv => CallsTypeOK
<1> SUFFICES ASSUME CallsInv PROVE CallsTypeOK
  OBVIOUS
<1>1. BindingsTypeOK
  BY DEF CallsInv, BindingsInv
<1>2. ASSUME NEW i \in DOMAIN requests
      PROVE  /\ requests[i].call \in {{}} \cup {{id} : id \in 1..nextCall - 1}
             /\ requests[i].end # {} => requests[i].call \cap pending = {}
  <2>1. RequestOK(requests[i])
    BY DEF CallsInv
  <2>2. QED BY <2>1 DEF RequestOK
<1>3. QED BY <1>1, <1>2 DEF CallsInv, CallsTypeOK

LEMMA CallsInvAsks == CallsInv => AsksAsDeclared
<1> SUFFICES ASSUME CallsInv, NEW i \in DOMAIN asked
             PROVE  /\ \E j \in DOMAIN requests :
                         /\ requests[j].call = asked[i].call
                         /\ requests[j].kind = asked[i].kind
                         /\ requests[j].name = asked[i].name
                         /\ requests[j].body = asked[i].body
                    /\ \A name \in asked[i].name :
                         \E j \in DOMAIN declared :
                             /\ declared[j].name = name
                             /\ \A k \in DOMAIN declared : declared[k].name = name => k <= j
                             /\ declared[j].type \in DOMAIN KindOf
                             /\ KindOf[declared[j].type] = asked[i].kind
  BY DEF AsksAsDeclared
<1>1. AskedOK(i)
  BY DEF CallsInv
<1>2. PICK j \in 1..Len(requests) : AskedFor(asked[i], requests[j])
  BY <1>1 DEF AskedOK
<1>3. RequestOK(requests[j]) /\ j \in DOMAIN requests
  BY DEF CallsInv
<1>4. \A name \in asked[i].name : Serves(asked[i].kind, name)
  BY <1>2, <1>3 DEF AskedFor, RequestOK
<1>5. QED BY <1>2, <1>3, <1>4 DEF AskedFor, Serves

LEMMA CallsInvWhole == CallsInv => WholeAnswer
<1> SUFFICES ASSUME CallsInv, NEW i \in DOMAIN requests, NEW end \in requests[i].end,
                    end.is = "answer"
             PROVE  \E j \in DOMAIN asked :
                      /\ asked[j].call = requests[i].call
                      /\ asked[j].closed
                      /\ end.chunks = IF asked[j].status \subseteq {"full"}
                                      THEN asked[j].sent ELSE 0
  BY DEF WholeAnswer
<1>1. i \in 1..Len(requests) /\ HasAnswer(requests[i])
  BY DEF CallsInv, HasAnswer
<1>2. PICK j \in 1..Len(asked) : Delivered(asked[j], requests[i])
  BY <1>1 DEF CallsInv
<1>3. j \in DOMAIN asked
  BY DEF CallsInv
<1>4. QED BY <1>2, <1>3 DEF Delivered

LEMMA CallsInvOnce == CallsInv => AskedOnce
BY DEF CallsInv, AskedOnce

----------------------------------------------------------------------------
(* What a step forgets.                                                    *)

\* What a step may forget, and how.
ForgetsByFailure ==
    \A i \in Forgotten' \ Forgotten :
        /\ i \in DOMAIN requests
        /\ requests[i].call = inflight
        /\ future \in {"asked", "collecting"}
        /\ \/ pending' = pending
           \/ requests[i].kind = "query" /\ asked'[Len(asked)].closed

\* An operation that is kept as it is and loses its call is the one of the call
\* in flight.
LEMMA LosesOwnCall ==
    ASSUME CallsInv, bindings' = bindings, NEW i \in DOMAIN requests,
           requests[i].end = {}, ~IsReading(requests[i]), i \notin Forgotten,
           requests[i].call \cap HostCalls' = {}
    PROVE  requests[i].call = inflight
<1>1. PICK id \in requests[i].call : id \in HostCalls
  BY DEF Forgotten
<1>2. id \in inflight
  BY <1>1 DEF HostCalls
<1>3. requests[i].call = {id}
  BY <1>1 DEF CallsInv, RequestOK
<1>4. inflight = {id}
  BY <1>2 DEF CallsInv, BindingsInv
<1>5. QED BY <1>3, <1>4

\* Settling with an end forgets nothing.
LEMMA EndForgetsNothing ==
    ASSUME CallsInv, NEW end \in EndRecords, Settle({end})
    PROVE  NothingForgotten
<1>1. /\ bindings' = bindings
      /\ requests' = [i \in DOMAIN requests |->
                        IF InFlight(requests[i]) THEN [requests[i] EXCEPT !.end = {end}]
                                                 ELSE requests[i]]
  BY DEF Settle, SettleBinding
<1>2. ASSUME NEW i \in DOMAIN requests, i \in Forgotten'
      PROVE  i \in Forgotten
  <2>1. requests'[i].end = {} /\ ~IsReading(requests'[i]) /\ requests'[i].call \cap HostCalls' = {}
    BY <1>2 DEF Forgotten, IsReading
  <2>2. requests[i] \in RequestTypes
    BY DEF CallsInv
  <2>3. ~InFlight(requests[i])
    <3>1. SUFFICES ASSUME InFlight(requests[i]) PROVE requests'[i].end = {end}
      BY <2>1
    <3>2. requests'[i] = [requests[i] EXCEPT !.end = {end}]
      BY <1>1, <3>1
    <3>3. QED BY <2>2, <3>2 DEF RequestTypes
  <2>4. requests'[i] = requests[i]
    BY <1>1, <2>3
  <2>5. ASSUME i \notin Forgotten
        PROVE  FALSE
    <3>1. requests[i].call = inflight
      BY <1>1, <2>1, <2>4, <2>5, LosesOwnCall
    <3>2. requests[i].call # {}
      BY <2>1, <2>4, <2>5 DEF Forgotten
    <3>3. QED BY <2>3, <3>1, <3>2 DEF InFlight
  <2>6. QED BY <2>5
<1>3. DOMAIN requests' = DOMAIN requests
  BY <1>1
<1>4. QED BY <1>2, <1>3 DEF NothingForgotten, Forgotten

\* Of the call in flight the embedder was asked what its operation is.
LEMMA CurrentIsOfItsOwn ==
    ASSUME CallsInv, future \in {"asked", "collecting"}, NEW i \in 1..Len(requests),
           requests[i].call = inflight
    PROVE  requests[i].kind = Current.kind
<1>1. Len(asked) \in 1..Len(asked) /\ Current.call = inflight /\ inflight # {}
  BY DEF CallsInv
<1>2. PICK k \in 1..Len(requests) : AskedFor(Current, requests[k])
  BY <1>1 DEF CallsInv, AskedOK, Current
<1>3. requests[k].call = requests[i].call /\ requests[i].call # {}
  BY <1>1, <1>2 DEF AskedFor
<1>4. k = i
  BY <1>3 DEF CallsInv, OwnCalls
<1>5. QED BY <1>2, <1>4 DEF AskedFor

\* Rows that are no JSON: the operation in flight is forgotten, a query.
LEMMA LostRowsForget ==
    ASSUME CallsInv, future = "asked", Current.kind = "query", Settle({}),
           Answers([Current EXCEPT !.closed = TRUE])
    PROVE  ForgetsByFailure
<1>1. /\ bindings' = bindings
      /\ requests' = [i \in DOMAIN requests |->
                        IF InFlight(requests[i]) THEN [requests[i] EXCEPT !.end = {}]
                                                 ELSE requests[i]]
  BY DEF Settle, SettleBinding
<1>2. asked'[Len(asked)].closed
  <2>1. Current \in AskedTypes
    BY CurrentTypes
  <2> DEFINE a == [Current EXCEPT !.closed = TRUE]
  <2>2. /\ a \in AskedTypes /\ a.call = Current.call /\ a.kind = Current.kind
        /\ a.name = Current.name /\ a.body = Current.body /\ a.closed
    BY <2>1 DEF AskedTypes
  <2>3. Answers(a)
    OBVIOUS
  <2> HIDE DEF a
  <2>4. asked'[Len(asked)] = a
    BY <2>2, <2>3, AnswersLast
  <2>5. QED BY <2>2, <2>4
<1>3. ASSUME NEW i \in DOMAIN requests, i \in Forgotten', i \notin Forgotten
      PROVE  requests[i].call = inflight
  <2>1. requests'[i].end = {} /\ ~IsReading(requests'[i]) /\ requests'[i].call \cap HostCalls' = {}
    BY <1>3 DEF Forgotten, IsReading
  <2>2. CASE InFlight(requests[i])
    BY <2>2 DEF InFlight
  <2>3. CASE ~InFlight(requests[i])
    <3>1. requests'[i] = requests[i]
      BY <1>1, <2>3
    <3>2. QED BY <1>1, <1>3, <2>1, <3>1, LosesOwnCall
  <2>4. QED BY <2>2, <2>3
<1>4. ASSUME NEW i \in DOMAIN requests, requests[i].call = inflight
      PROVE  requests[i].kind = "query"
  <2>1. i \in 1..Len(requests)
    BY DEF CallsInv
  <2>2. QED BY <1>4, <2>1, CurrentIsOfItsOwn
<1>5. \A i \in Forgotten' : i \in DOMAIN requests
  BY <1>1 DEF Forgotten
<1>6. QED BY <1>2, <1>3, <1>4, <1>5 DEF ForgetsByFailure

\* A future that is dropped: its operation is forgotten, its resolvers stay.
LEMMA DroppedForgets ==
    ASSUME CallsInv, TimesOut \/ Abandons
    PROVE  ForgetsByFailure
<1>1. /\ future \in {"asked", "collecting"}
      /\ UNCHANGED <<bindings, pending, requests>>
  BY DEF TimesOut, Abandons, Suspended, TimeoutBinding, AbandonBinding
<1>2. ASSUME NEW i \in Forgotten', i \notin Forgotten
      PROVE  i \in DOMAIN requests /\ requests[i].call = inflight
  <2>1. /\ i \in DOMAIN requests /\ requests[i].end = {} /\ ~IsReading(requests[i])
        /\ requests[i].call \cap HostCalls' = {}
    BY <1>1, <1>2 DEF Forgotten, IsReading
  <2>2. QED BY <1>1, <1>2, <2>1, LosesOwnCall
<1>3. QED BY <1>1, <1>2 DEF ForgetsByFailure

\* Where the operations and the host's calls stay, nothing is forgotten.
LEMMA SameForgetsNothing ==
    ASSUME requests' = requests, HostCalls' = HostCalls
    PROVE  NothingForgotten
BY DEF NothingForgotten, Forgotten, IsReading

LEMMA NextForgets ==
    ASSUME CallsInv, CallsInv', [CallsNext]_vars
    PROVE  ForgetsByFailure
<1>1. NothingForgotten => ForgetsByFailure
  BY DEF NothingForgotten, ForgetsByFailure
<1>2. BindingsInv'
  BY DEF CallsInv
<1>3. CASE ScriptStep
  BY <1>1, <1>2, <1>3, FetchInv, BodyInv, EnvCallsInv DEF ScriptStep
<1>4. CASE Poll
  <2>1. requests' = requests /\ HostCalls' = HostCalls
    BY <1>4, PopMoves DEF Poll, CallsInv
  <2>2. QED BY <1>1, <2>1, SameForgetsNothing
<1>5. CASE SettleRefused \/ Fails
  <2>1. Settle({Rejected}) /\ Rejected \in EndRecords
    BY <1>5, EndTypes DEF SettleRefused, Fails, EndRecords
  <2>2. QED BY <1>1, <2>1, EndForgetsNothing
<1>6. CASE Value
  <2>1. CASE Settle({Answered(0)})
    <3>1. Answered(0) \in EndRecords
      BY EndTypes, CallsAssumption DEF EndRecords
    <3>2. QED BY <1>1, <2>1, <3>1, EndForgetsNothing
  <2>2. CASE Current.kind = "query" /\ Settle({})
    BY <1>6, <2>2, LostRowsForget DEF Value
  <2>3. QED BY <1>6, <2>1, <2>2 DEF Value
<1>7. CASE Respond \/ Chunk
  <2>1. requests' = requests /\ HostCalls' = HostCalls
    BY <1>7 DEF Respond, Chunk, bindingVars, HostCalls
  <2>2. QED BY <1>1, <2>1, SameForgetsNothing
<1>8. CASE Ends
  <2>1. PICK status \in Current.status :
          future = "collecting" /\ Settle({ResponseOf(Current.kind, status, Current.sent)})
    BY <1>8 DEF Ends
  <2>2. Current \in AskedTypes
    BY <2>1, CurrentTypes
  <2>3. Current.sent \in 0..MaxChunks /\ 0 \in 0..MaxChunks /\ status \in Statuses
    BY <2>1, <2>2, CallsAssumption DEF AskedTypes
  <2>4. ResponseOf(Current.kind, status, Current.sent) \in
          {Rejected, Answered(0), Answered(Current.sent)}
    BY <2>3 DEF ResponseOf, Statuses
  <2>5. ResponseOf(Current.kind, status, Current.sent) \in EndRecords
    BY <2>3, <2>4, EndTypes DEF EndRecords
  <2>6. QED BY <1>1, <2>1, <2>5, EndForgetsNothing
<1>9. CASE TimesOut \/ Abandons
  BY <1>9, DroppedForgets
<1>10. CASE NewDrain \/ TimePasses \/ UNCHANGED vars
  <2>1. requests' = requests /\ HostCalls' = HostCalls
    BY <1>10 DEF NewDrain, TimePasses, vars, bindingVars, callVars, HostCalls
  <2>2. QED BY <1>1, <2>1, SameForgetsNothing
<1>11. QED
  BY <1>3, <1>4, <1>5, <1>6, <1>7, <1>8, <1>9, <1>10 DEF CallsNext, EmbedderAnswers

LEMMA CallsAlways == CallsSpec => []CallsInv
<1>1. QED BY CallsInitInv, CallsNextInv, PTL DEF CallsSpec

\* The types of the calls, on both sides of the bridge.
THEOREM CallsTypeCorrect == CallsSpec => []CallsTypeOK
<1>1. QED BY CallsAlways, CallsInvTypes, PTL

\* The embedder is asked at most once for each call.
THEOREM NothingIsAskedTwice == CallsSpec => []AskedOnce
<1>1. QED BY CallsAlways, CallsInvOnce, PTL

\* The embedder is asked what the script asked, of a binding declared for it.
THEOREM AskedAsDeclared == CallsSpec => []AsksAsDeclared
<1>1. QED BY CallsAlways, CallsInvAsks, PTL

\* A promise is fulfilled with the whole of an answer or not at all.
THEOREM AnswersAreWhole == CallsSpec => []WholeAnswer
<1>1. QED BY CallsAlways, CallsInvWhole, PTL

\* A promise is left pending in three ways only: its call timed out or was
\* dropped while the embedder had it, or its rows were no JSON; and only that of
\* the one call the drain awaited (drain, and settle in bindings.js).
THEOREM ForgottenOnlySo == CallsSpec => ForgottenOnlyByFailure
<1>1. CallsInv /\ CallsInv' /\ [CallsNext]_vars => ForgetsByFailure
  BY NextForgets
<1>2. QED
  BY <1>1, CallsAlways, PTL DEF CallsSpec, ForgottenOnlyByFailure, ForgetsByFailure

=============================================================================
