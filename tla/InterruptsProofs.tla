-------------------------- MODULE InterruptsProofs --------------------------
(***************************************************************************)
(* What the pending requests, their callbacks and the cache of owners keep *)
(* for any number of clients, requests, sessions and identities, and for   *)
(* any times to live.                                                      *)
(***************************************************************************)
EXTENDS Interrupts, FiniteSetTheorems, TLAPS

-----------------------------------------------------------------------------
(* The operators the steps are built from.                                 *)

\* A lookup forgets at most the request that is looked up, and only when it has expired.
LEMMA LookupForgets ==
    ASSUME InterruptsTypeOK, NEW k \in Requests
    PROVE  /\ AfterLookup(k) \in [Requests -> PendingRecords \cup {None}]
           /\ \A j \in Requests :
                  \/ AfterLookup(k)[j] = pending[j]
                  \/ /\ j = k /\ AfterLookup(k)[j] = None
                     /\ pending[k] # None /\ IsExpired(pending[k].created)
  BY DEF AfterLookup, Status, Discard, InterruptsTypeOK

\* What a callback is told names the state of the request.
LEMMA RefusalMeans ==
    ASSUME InterruptsTypeOK, NEW k \in Requests, NEW kind \in Kinds
    PROVE  \/ Refusal(k, kind) = "not found" /\ pending[k] = None
           \/ /\ Refusal(k, kind) = "expired"
              /\ pending[k] # None /\ IsExpired(pending[k].created)
           \/ /\ Refusal(k, kind) = "type mismatch"
              /\ pending[k] # None /\ pending[k].kind # kind
           \/ Refusal(k, kind) = None /\ pending[k] # None
  BY DEF Refusal, Status

\* A well-formed callback names a request, and a kind.
LEMMA ValidNames ==
    ASSUME NEW method \in Methods, NEW params \in Params, ValidParams(method, params)
    PROVE  params.request \in Requests /\ ExpectedKind(method) \in Kinds
  BY DEF Params, ValidParams, ExpectedKind, Kinds

\* One that may go on names a request that is pending.
LEMMA NotRefused ==
    ASSUME InterruptsTypeOK, NEW k \in Requests, NEW kind \in Kinds, Refusal(k, kind) = None
    PROVE  pending[k] # None
  BY RefusalMeans, NoneAssumption DEF Outcomes

LEMMA IdleAt == Idle.at = "idle"
  BY DEF Idle

\* A callback that is on its way has a record.
LEMMA OnItsWay ==
    ASSUME InterruptsTypeOK, NEW c \in Callbacks,
           callback[c].at \in {"checking", "waiting", "writing"}
    PROVE  callback[c] \in CallbackRecords
<1>1. callback[c] = Idle \/ callback[c] \in CallbackRecords
  BY DEF InterruptsTypeOK
<1>2. QED  BY <1>1, IdleAt

\* Reading an owner keeps the type of the cache.
LEMMA GetTypes ==
    ASSUME InterruptsTypeOK, NEW s \in Sessions
    PROVE  AfterGet(owners, s, clock) \in [Sessions -> OwnerRecords \cup {None}]
<1> USE CacheAssumption DEF InterruptsTypeOK, OwnerRecords
<1>1. s \in KeysOf(owners) => owners[s] \in OwnerRecords
  BY DEF KeysOf
<1>2. Without(owners, {s}) \in [Sessions -> OwnerRecords \cup {None}]
  BY DEF Without
<1>3. clock + TTL \in Nat
  BY InterruptsAssumption
<1>4. s \in KeysOf(owners) =>
        [owners EXCEPT ![s].expires = clock + TTL] \in [Sessions -> OwnerRecords \cup {None}]
  BY <1>1, <1>3
<1>5. QED  BY <1>2, <1>4 DEF AfterGet

\* So does recording one.
LEMMA SetTypes ==
    ASSUME InterruptsTypeOK, NEW s \in Sessions, NEW i \in Identities,
           NEW o \in AfterSet(owners, s, i, clock)
    PROVE  o \in [Sessions -> OwnerRecords \cup {None}]
<1> DEFINE put == [owners EXCEPT ![s] = Entry(i, clock)]
<1>1. Entry(i, clock) \in OwnerRecords
  BY CacheAssumption, InterruptsAssumption DEF Entry, OwnerRecords, InterruptsTypeOK
<1>2. put \in [Sessions -> OwnerRecords \cup {None}]
  BY <1>1 DEF InterruptsTypeOK
<1> HIDE DEF put
<1>3. \A gone : Without(put, gone) \in [Sessions -> OwnerRecords \cup {None}]
  BY <1>2 DEF Without
<1> DEFINE unexpired == Without(put, Expired(put, clock))
<1>4. \A gone : Without(unexpired, gone) \in [Sessions -> OwnerRecords \cup {None}]
  BY <1>3 DEF Without
<1>5. CASE InUse
  <2>1. o \in Evicted(put, s, clock)
    BY <1>5 DEF AfterSet, put
  <2>2. o = put \/ o = unexpired \/ \E gone : o = Without(unexpired, gone)
    BY <2>1 DEF Evicted
  <2>3. QED  BY <2>2, <1>2, <1>3, <1>4
<1>6. CASE ~InUse
  BY <1>6 DEF AfterSet, InterruptsTypeOK
<1>7. QED  BY <1>5, <1>6

-----------------------------------------------------------------------------
(* Types.                                                                  *)

\* Every variable keeps its type under every step.
LEMMA NextTypes == InterruptsTypeOK /\ [InterruptsNext]_interruptVars => InterruptsTypeOK'
<1> SUFFICES ASSUME InterruptsTypeOK, [InterruptsNext]_interruptVars PROVE InterruptsTypeOK'
    OBVIOUS
<1> USE DEF requestVars
<1>1. CASE UNCHANGED interruptVars
  BY <1>1 DEF InterruptsTypeOK, interruptVars
<1>2. ASSUME NEW k \in Requests, NEW kind \in Kinds, ServerRequest(k, kind)
      PROVE  InterruptsTypeOK'
  <2>1. [kind |-> kind, at |-> clock] \in RequestRecords
    BY DEF InterruptsTypeOK, RequestRecords
  <2>2. [kind |-> kind, created |-> clock] \in PendingRecords
    BY DEF InterruptsTypeOK, PendingRecords
  <2>3. QED  BY <1>2, <2>1, <2>2 DEF ServerRequest, InterruptsTypeOK
<1>3. ASSUME NEW c \in Callbacks, NEW method \in Methods, NEW params \in Params,
             Callback(c, method, params)
      PROVE  InterruptsTypeOK'
  <2> DEFINE k == params.request
             kind == ExpectedKind(method)
  <2>1. k \in Requests /\ kind \in Kinds
    BY <1>3, ValidNames DEF Callback
  <2>2. At("checking", k, kind) \in CallbackRecords
    BY <2>1 DEF At, CallbackRecords
  <2>3. callback' \in [Callbacks -> {Idle} \cup CallbackRecords]
    BY <1>3, <2>2 DEF Callback, InterruptsTypeOK, CallbackRecords
  <2>4. told' \in Outcomes \cup {None}
    BY <1>3, <2>1, RefusalMeans DEF Callback, InterruptsTypeOK, Outcomes
  <2>5. pending' \in [Requests -> PendingRecords \cup {None}]
    BY <1>3, <2>1, LookupForgets DEF Callback
  <2>6. QED  BY <1>3, <2>3, <2>4, <2>5 DEF Callback, InterruptsTypeOK, CallbackRecords
<1>4. ASSUME NEW c \in Callbacks, InvalidCallback(c) PROVE InterruptsTypeOK'
  BY <1>4 DEF InvalidCallback, InterruptsTypeOK, Outcomes
<1>5. ASSUME NEW c \in Callbacks, OwnerChecked(c) PROVE InterruptsTypeOK'
  <2>1. callback[c] \in CallbackRecords
    BY <1>5, OnItsWay DEF OwnerChecked
  <2>2. callback[c].request \in Requests /\ callback[c].kind \in Kinds
    BY <2>1 DEF CallbackRecords
  <2>3. [callback[c] EXCEPT !.at = "waiting"] \in CallbackRecords
    BY <2>1 DEF CallbackRecords
  <2>4. callback' \in [Callbacks -> {Idle} \cup CallbackRecords]
    BY <1>5, <2>3 DEF OwnerChecked, Ended, InterruptsTypeOK, CallbackRecords
  <2>5. told' \in Outcomes \cup {None}
    BY <1>5, <2>2, RefusalMeans DEF OwnerChecked, Ended, InterruptsTypeOK, Outcomes
  <2>6. pending' \in [Requests -> PendingRecords \cup {None}]
    BY <1>5, <2>2, LookupForgets DEF OwnerChecked, InterruptsTypeOK
  <2>7. owners' \in [Sessions -> OwnerRecords \cup {None}]
    BY <1>5, GetTypes, InterruptsAssumption DEF OwnerChecked, InterruptsTypeOK
  <2>8. QED  BY <1>5, <2>4, <2>5, <2>6, <2>7 DEF OwnerChecked, InterruptsTypeOK, CallbackRecords
<1>6. ASSUME NEW c \in Callbacks, Write(c) PROVE InterruptsTypeOK'
  <2>1. callback[c] \in CallbackRecords
    BY <1>6, OnItsWay DEF Write
  <2>2. [callback[c] EXCEPT !.at = "writing"] \in CallbackRecords
    BY <2>1 DEF CallbackRecords
  <2>3. callback' \in [Callbacks -> {Idle} \cup CallbackRecords]
    BY <1>6, <2>2 DEF Write, InterruptsTypeOK, CallbackRecords
  <2>4. answers' \in [Requests -> Nat]
    <3>1. callback[c].request \in Requests
      BY <2>1 DEF CallbackRecords
    <3>2. QED  BY <1>6, <3>1 DEF Write, InterruptsTypeOK
  <2>5. QED  BY <1>6, <2>3, <2>4 DEF Write, InterruptsTypeOK, CallbackRecords
<1>7. ASSUME NEW c \in Callbacks, Drained(c) PROVE InterruptsTypeOK'
  BY <1>7 DEF Drained, Ended, Discard, InterruptsTypeOK, Outcomes
<1>8. ASSUME NEW c \in Callbacks, DrainFails(c) PROVE InterruptsTypeOK'
  BY <1>8 DEF DrainFails, Ended, InterruptsTypeOK, Outcomes
<1>9. ASSUME NEW s \in Sessions, NEW i \in Identities, OwnerSaved(s, i)
      PROVE  InterruptsTypeOK'
  BY <1>9, SetTypes DEF OwnerSaved, InterruptsTypeOK
<1>10. CASE Tick
  BY <1>10, InterruptsAssumption DEF Tick, InterruptsTypeOK
<1>11. CASE PipeBreaks
  BY <1>11 DEF PipeBreaks, InterruptsTypeOK
<1>12. QED
  BY <1>1, <1>2, <1>3, <1>4, <1>5, <1>6, <1>7, <1>8, <1>9, <1>10, <1>11 DEF InterruptsNext

\* They have their types at the start.
LEMMA InitTypes == InterruptsInit => InterruptsTypeOK
<1> SUFFICES ASSUME InterruptsInit PROVE InterruptsTypeOK
    OBVIOUS
<1>1. clock \in 0 .. MaxClock
  BY InterruptsAssumption DEF InterruptsInit
<1>2. callback \in [Callbacks -> {Idle} \cup CallbackRecords]
  <2> HIDE DEF Idle
  <2> QED  BY DEF InterruptsInit
<1>3. broken \in BOOLEAN
  BY DEF InterruptsInit
<1>4. QED  BY <1>1, <1>2, <1>3 DEF InterruptsInit, InterruptsTypeOK

\* Requests, callbacks and owners are what they are taken for, whatever clients send.
THEOREM InterruptsTypeCorrect == InterruptsSpec => []InterruptsTypeOK
  BY InitTypes, NextTypes, PTL DEF InterruptsSpec

-----------------------------------------------------------------------------
(* The inductive invariant.                                                *)

Writes(c) == callback[c].at = "writing"

\* What is pending, answered or called back is a request Codex has made, and a pending
\* entry says of it what Codex said.
NamesARequest ==
    /\ \A k \in Requests : answers[k] > 0 => requests[k] # None
    /\ \A k \in Requests : pending[k] # None =>
           /\ requests[k] # None
           /\ pending[k].kind = requests[k].kind
           /\ pending[k].created = requests[k].at
    /\ \A c \in Callbacks : callback[c] # Idle => requests[callback[c].request] # None

OneWriter == \A c, d \in Callbacks : Writes(c) /\ Writes(d) => c = d

\* An answer that is being written has reached the pipe.
WritersAnswer == \A c \in Callbacks : Writes(c) /\ ~broken => answers[callback[c].request] > 0

\* An answered request stays pending only while its answer is being written.
AnsweredIsOver ==
    \A k \in Requests : answers[k] > 0 /\ ~broken =>
        pending[k] = None \/ \E c \in Callbacks : Writes(c) /\ callback[c].request = k

Inv ==
    /\ InterruptsTypeOK
    /\ NamesARequest
    /\ OneWriter
    /\ WritersAnswer
    /\ AnsweredIsOver
    /\ OpenIsPending

\* A lookup keeps what the invariant says of the pending requests.
LEMMA LookupKeeps ==
    ASSUME Inv, NEW k \in Requests, pending' = AfterLookup(k),
           UNCHANGED <<requests, answers, clock>>
    PROVE  /\ \A j \in Requests : pending'[j] # None =>
                  /\ requests'[j] # None
                  /\ pending'[j].kind = requests'[j].kind
                  /\ pending'[j].created = requests'[j].at
           /\ \A j \in Requests : pending[j] = None => pending'[j] = None
           /\ OpenIsPending'
<1>1. InterruptsTypeOK
  BY DEF Inv
<1>2. \A j \in Requests :
         \/ pending'[j] = pending[j]
         \/ /\ j = k /\ pending'[j] = None
            /\ pending[k] # None /\ IsExpired(pending[k].created)
  BY <1>1, LookupForgets
<1>3. \A j \in Requests : pending'[j] # None => pending'[j] = pending[j]
  BY <1>2
<1>4. pending'[k] # pending[k] => IsExpired(requests[k].at)
  BY <1>2 DEF Inv, NamesARequest
<1>5. OpenIsPending'
  BY <1>2, <1>4 DEF Inv, OpenIsPending, IsExpired
<1>6. QED  BY <1>2, <1>3, <1>5 DEF Inv, NamesARequest

\* The invariant is kept by a step that leaves the requests and the callbacks alone.
LEMMA OthersKeep ==
    ASSUME Inv, InterruptsTypeOK', UNCHANGED <<requestVars, callback>>,
           broken => broken', clock' \in {clock, clock + 1}
    PROVE  Inv'
<1>1. \A t \in Nat : IsExpired(t) => IsExpired(t)'
  BY InterruptsAssumption DEF IsExpired, Inv, InterruptsTypeOK
<1>2. OpenIsPending'
  <2> SUFFICES ASSUME NEW k \in Requests, requests[k] # None, answers[k] = 0,
                      ~IsExpired(requests[k].at)'
               PROVE  pending[k] # None
    BY DEF OpenIsPending, requestVars
  <2>1. requests[k].at \in Nat
    BY InterruptsAssumption DEF Inv, InterruptsTypeOK, RequestRecords
  <2>2. ~IsExpired(requests[k].at)
    BY <1>1, <2>1 DEF IsExpired, requestVars
  <2>3. QED  BY <2>2 DEF Inv, OpenIsPending
<1>3. QED
  BY <1>2 DEF Inv, NamesARequest, OneWriter, WritersAnswer, AnsweredIsOver, Writes, requestVars

\* Every step keeps the invariant.
LEMMA NextInv == Inv /\ [InterruptsNext]_interruptVars => Inv'
<1> SUFFICES ASSUME Inv, [InterruptsNext]_interruptVars PROVE Inv'
    OBVIOUS
<1> USE DEF requestVars
<1>0. InterruptsTypeOK /\ InterruptsTypeOK'
  BY NextTypes DEF Inv
<1>1. CASE UNCHANGED interruptVars
  BY <1>0, <1>1, OthersKeep DEF interruptVars
<1>2. ASSUME NEW k \in Requests, NEW kind \in Kinds, ServerRequest(k, kind)
      PROVE  Inv'
  <2>1. /\ requests'[k] = [kind |-> kind, at |-> clock]
        /\ pending'[k] = [kind |-> kind, created |-> clock]
        /\ \A j \in Requests \ {k} : requests'[j] = requests[j] /\ pending'[j] = pending[j]
    BY <1>0, <1>2 DEF ServerRequest, InterruptsTypeOK
  <2>2. requests'[k] # None /\ pending'[k] # None
    BY <1>0, <2>1, NoneAssumption DEF InterruptsTypeOK, RequestRecords, PendingRecords
  <2>3. answers[k] = 0
    BY <1>0, <1>2 DEF ServerRequest, Inv, NamesARequest, InterruptsTypeOK
  <2>4. NamesARequest'
    BY <1>0, <1>2, <2>1, <2>2 DEF ServerRequest, Inv, NamesARequest
  <2>5. AnsweredIsOver'
    BY <1>2, <2>1, <2>3 DEF ServerRequest, Inv, AnsweredIsOver, Writes
  <2>6. OpenIsPending'
    BY <1>2, <2>1, <2>2 DEF ServerRequest, Inv, OpenIsPending, IsExpired
  <2>7. OneWriter' /\ WritersAnswer'
    BY <1>2 DEF ServerRequest, Inv, OneWriter, WritersAnswer, Writes
  <2>8. QED  BY <1>0, <2>4, <2>5, <2>6, <2>7 DEF Inv
<1>3. ASSUME NEW c \in Callbacks, NEW method \in Methods, NEW params \in Params,
             Callback(c, method, params)
      PROVE  Inv'
  <2> DEFINE k == params.request
             kind == ExpectedKind(method)
  <2>1. k \in Requests /\ kind \in Kinds
    BY <1>3, ValidNames DEF Callback
  <2>2. /\ pending' = AfterLookup(k)
        /\ UNCHANGED <<requests, answers, broken, clock>>
    BY <1>3 DEF Callback
  <2> HIDE DEF k, kind
  <2>3. \/ callback' = callback
        \/ callback' = [callback EXCEPT ![c] = At("checking", k, kind)] /\ pending[k] # None
    <3>1. CASE Refusal(k, kind) = None
      <4>1. pending[k] # None
        BY <1>0, <2>1, <3>1, NotRefused
      <4>2. QED  BY <1>3, <3>1, <4>1 DEF Callback, k, kind
    <3>2. CASE Refusal(k, kind) # None
      BY <1>3, <3>2 DEF Callback, k, kind
    <3>3. QED  BY <3>1, <3>2
  <2>4. \A d \in Callbacks :
           \/ callback'[d] = callback[d]
           \/ d = c /\ callback'[d] = At("checking", k, kind) /\ pending[k] # None
    BY <1>0, <2>3 DEF InterruptsTypeOK
  <2>5. \A d \in Callbacks : Writes(d)' <=> Writes(d)
    <3>1. callback[c] = Idle
      BY <1>3 DEF Callback
    <3>2. At("checking", k, kind).at = "checking"
      BY DEF At
    <3>3. QED  BY <2>4, <3>1, <3>2, IdleAt DEF Writes
  <2>6. \A d \in Callbacks : Writes(d) => callback'[d] = callback[d]
    <3>1. callback[c] = Idle
      BY <1>3 DEF Callback
    <3>2. QED  BY <2>4, <3>1, IdleAt DEF Writes
  <2>7. NamesARequest'
    <3>1. \A d \in Callbacks : callback'[d] # Idle => requests[callback'[d].request] # None
      BY <2>1, <2>4 DEF Inv, NamesARequest, At
    <3>2. QED  BY <2>1, <2>2, <3>1, LookupKeeps DEF Inv, NamesARequest
  <2>8. OneWriter' /\ WritersAnswer'
    BY <2>2, <2>5, <2>6 DEF Inv, OneWriter, WritersAnswer
  <2>9. AnsweredIsOver'
    BY <2>1, <2>2, <2>5, <2>6, LookupKeeps DEF Inv, AnsweredIsOver
  <2>10. OpenIsPending'
    BY <2>1, <2>2, LookupKeeps
  <2>11. QED  BY <1>0, <2>7, <2>8, <2>9, <2>10 DEF Inv
<1>4. ASSUME NEW c \in Callbacks, InvalidCallback(c) PROVE Inv'
  BY <1>0, <1>4, OthersKeep DEF InvalidCallback
<1>5. ASSUME NEW c \in Callbacks, OwnerChecked(c) PROVE Inv'
  <2> DEFINE k == callback[c].request
  <2>1. callback[c] \in CallbackRecords
    BY <1>0, <1>5, OnItsWay DEF OwnerChecked
  <2>2. k \in Requests
    BY <2>1 DEF CallbackRecords
  <2>3. UNCHANGED <<requests, answers, broken, clock>>
    BY <1>5 DEF OwnerChecked
  <2>4. pending' = pending \/ pending' = AfterLookup(k)
    BY <1>5 DEF OwnerChecked
  <2>5. /\ \A j \in Requests : pending'[j] # None =>
               /\ requests'[j] # None
               /\ pending'[j].kind = requests'[j].kind
               /\ pending'[j].created = requests'[j].at
        /\ \A j \in Requests : pending[j] = None => pending'[j] = None
        /\ OpenIsPending'
    <3>1. CASE pending' = pending
      BY <2>3, <3>1 DEF Inv, NamesARequest, OpenIsPending, IsExpired
    <3>2. CASE pending' = AfterLookup(k)
      BY <2>2, <2>3, <3>2, LookupKeeps
    <3>3. QED  BY <2>4, <3>1, <3>2
  <2>6. callback[c].at = "checking"
    BY <1>5 DEF OwnerChecked
  <2>7. /\ \A d \in Callbacks \ {c} : callback'[d] = callback[d]
        /\ callback'[c] = Idle \/ callback'[c] = [callback[c] EXCEPT !.at = "waiting"]
    BY <1>0, <1>5 DEF OwnerChecked, Ended, InterruptsTypeOK
  <2>8. \A d \in Callbacks :
           /\ Writes(d)' <=> Writes(d)
           /\ Writes(d) => callback'[d] = callback[d]
    BY <2>1, <2>6, <2>7, IdleAt DEF Writes, CallbackRecords
  <2>9. NamesARequest'
    <3>1. callback[c] # Idle
      BY <2>6, IdleAt
    <3>2. callback'[c] # Idle => callback'[c].request = callback[c].request
      BY <2>1, <2>7 DEF CallbackRecords
    <3>3. \A d \in Callbacks : callback'[d] # Idle => requests[callback'[d].request] # None
      BY <2>7, <3>1, <3>2 DEF Inv, NamesARequest
    <3>4. QED  BY <2>3, <2>5, <3>3 DEF Inv, NamesARequest
  <2>10. OneWriter' /\ WritersAnswer'
    BY <2>3, <2>8 DEF Inv, OneWriter, WritersAnswer
  <2>11. AnsweredIsOver'
    BY <2>3, <2>5, <2>8 DEF Inv, AnsweredIsOver
  <2>12. QED  BY <1>0, <2>5, <2>9, <2>10, <2>11 DEF Inv
<1>6. ASSUME NEW c \in Callbacks, Write(c) PROVE Inv'
  <2> DEFINE k == callback[c].request
  <2>1. callback[c] \in CallbackRecords
    BY <1>0, <1>6, OnItsWay DEF Write
  <2>2. k \in Requests
    BY <2>1 DEF CallbackRecords
  <2>3. /\ \A d \in Callbacks : ~Writes(d)
        /\ UNCHANGED <<requests, pending, broken, clock>>
    BY <1>6 DEF Write, Writes
  <2>4. /\ \A d \in Callbacks \ {c} : callback'[d] = callback[d]
        /\ callback'[c].at = "writing" /\ callback'[c].request = k
    BY <1>0, <1>6, <2>1 DEF Write, InterruptsTypeOK, CallbackRecords
  <2>5. \A d \in Callbacks : Writes(d)' <=> d = c
    BY <2>3, <2>4 DEF Writes
  <2>6. /\ \A j \in Requests \ {k} : answers'[j] = answers[j]
        /\ broken => answers' = answers
        /\ ~broken => answers'[k] > 0
        /\ answers[k] > 0 => answers'[k] > 0
    BY <1>0, <1>6, <2>2 DEF Write, InterruptsTypeOK
  <2>7. requests[k] # None
    <3>1. callback[c] # Idle
      BY <1>6, IdleAt DEF Write
    <3>2. QED  BY <3>1 DEF Inv, NamesARequest
  <2>8. NamesARequest'
    <3>1. \A d \in Callbacks : callback'[d] # Idle => requests[callback'[d].request] # None
      BY <2>4, <2>7 DEF Inv, NamesARequest
    <3>2. QED  BY <2>3, <2>6, <2>7, <3>1 DEF Inv, NamesARequest
  <2>9. OneWriter' /\ WritersAnswer'
    BY <2>3, <2>4, <2>5, <2>6 DEF OneWriter, WritersAnswer
  <2>10. AnsweredIsOver'
    <3> SUFFICES ASSUME NEW j \in Requests, answers'[j] > 0, ~broken
                 PROVE  pending[j] = None \/ \E d \in Callbacks : Writes(d)' /\ callback'[d].request = j
      BY <2>3 DEF AnsweredIsOver
    <3>1. CASE j = k
      BY <2>4, <2>5, <3>1
    <3>2. CASE j # k
      BY <2>3, <2>6, <3>2 DEF Inv, AnsweredIsOver
    <3>3. QED  BY <3>1, <3>2
  <2>11. OpenIsPending'
    <3>1. \A j \in Requests : answers'[j] = 0 => answers[j] = 0
      BY <1>0, <2>6 DEF InterruptsTypeOK
    <3>2. QED  BY <2>3, <3>1 DEF Inv, OpenIsPending, IsExpired
  <2>12. QED  BY <1>0, <2>8, <2>9, <2>10, <2>11 DEF Inv
<1>7. ASSUME NEW c \in Callbacks, Drained(c) PROVE Inv'
  <2> DEFINE k == callback[c].request
  <2>1. callback[c] \in CallbackRecords
    BY <1>0, <1>7, OnItsWay DEF Drained
  <2>2. k \in Requests
    BY <2>1 DEF CallbackRecords
  <2>3. /\ Writes(c) /\ ~broken
        /\ UNCHANGED <<requests, answers, broken, clock>>
    BY <1>7 DEF Drained, Writes
  <2>4. /\ pending'[k] = None
        /\ \A j \in Requests \ {k} : pending'[j] = pending[j]
    BY <1>0, <1>7, <2>2 DEF Drained, Discard, InterruptsTypeOK
  <2>5. /\ \A d \in Callbacks \ {c} : callback'[d] = callback[d]
        /\ callback'[c] = Idle
    BY <1>0, <1>7 DEF Drained, Ended, InterruptsTypeOK
  <2>6. answers[k] > 0
    BY <2>3 DEF Inv, WritersAnswer
  <2>7. NamesARequest'
    BY <2>3, <2>4, <2>5 DEF Inv, NamesARequest
  <2>8. OneWriter' /\ WritersAnswer'
    BY <2>3, <2>5, IdleAt DEF Inv, OneWriter, WritersAnswer, Writes
  <2>9. AnsweredIsOver'
    <3> SUFFICES ASSUME NEW j \in Requests, answers[j] > 0
                 PROVE  pending'[j] = None \/ \E d \in Callbacks : Writes(d)' /\ callback'[d].request = j
      BY <2>3 DEF AnsweredIsOver
    <3>1. CASE j = k
      BY <2>4, <3>1
    <3>2. CASE j # k
      BY <2>3, <2>4, <2>5, <3>2 DEF Inv, AnsweredIsOver, OneWriter, Writes
    <3>3. QED  BY <3>1, <3>2
  <2>10. OpenIsPending'
    BY <2>3, <2>4, <2>6 DEF Inv, OpenIsPending, IsExpired
  <2>11. QED  BY <1>0, <2>7, <2>8, <2>9, <2>10 DEF Inv
<1>8. ASSUME NEW c \in Callbacks, DrainFails(c) PROVE Inv'
  <2>1. /\ \A d \in Callbacks \ {c} : callback'[d] = callback[d]
        /\ callback'[c] = Idle
    BY <1>0, <1>8 DEF DrainFails, Ended, InterruptsTypeOK
  <2>2. broken /\ UNCHANGED <<requests, answers, pending, broken, clock>>
    BY <1>8 DEF DrainFails
  <2>3. NamesARequest'
    BY <2>1, <2>2 DEF Inv, NamesARequest
  <2>4. OneWriter' /\ WritersAnswer' /\ AnsweredIsOver'
    BY <2>1, <2>2, IdleAt DEF Inv, OneWriter, WritersAnswer, AnsweredIsOver, Writes
  <2>5. OpenIsPending'
    BY <2>2 DEF Inv, OpenIsPending, IsExpired
  <2>6. QED  BY <1>0, <2>3, <2>4, <2>5 DEF Inv
<1>9. ASSUME NEW s \in Sessions, NEW i \in Identities, OwnerSaved(s, i) PROVE Inv'
  BY <1>0, <1>9, OthersKeep DEF OwnerSaved
<1>10. CASE Tick
  BY <1>0, <1>10, OthersKeep DEF Tick
<1>11. CASE PipeBreaks
  BY <1>0, <1>11, OthersKeep DEF PipeBreaks
<1>12. QED
  BY <1>1, <1>2, <1>3, <1>4, <1>5, <1>6, <1>7, <1>8, <1>9, <1>10, <1>11 DEF InterruptsNext

\* The invariant holds in every state.
THEOREM InvHolds == InterruptsSpec => []Inv
<1>1. InterruptsInit => Inv
  <2> SUFFICES ASSUME InterruptsInit PROVE Inv
    OBVIOUS
  <2>1. \A c \in Callbacks : callback[c] = Idle
    BY DEF InterruptsInit
  <2>2. \A k \in Requests : requests[k] = None /\ answers[k] = 0 /\ pending[k] = None
    BY DEF InterruptsInit
  <2>3. InterruptsTypeOK
    BY InitTypes
  <2>4. NamesARequest /\ AnsweredIsOver /\ OpenIsPending
    BY <2>1, <2>2 DEF NamesARequest, AnsweredIsOver, OpenIsPending
  <2>5. OneWriter /\ WritersAnswer
    BY <2>1, IdleAt DEF OneWriter, WritersAnswer, Writes
  <2>6. QED  BY <2>3, <2>4, <2>5 DEF Inv
<1>2. QED  BY <1>1, NextInv, PTL DEF InterruptsSpec

\* No request Codex still waits for is lost by a callback that is refused, mistaken or
\* late.
THEOREM NoneIsLost == InterruptsSpec => []OpenIsPending
<1>1. Inv => OpenIsPending
  BY DEF Inv
<1>2. QED  BY <1>1, InvHolds, PTL

-----------------------------------------------------------------------------
(* The callbacks.                                                          *)

\* A callback is moved only by its own steps.
LEMMA OwnSteps ==
    ASSUME InterruptsTypeOK, [InterruptsNext]_interruptVars,
           NEW c \in Callbacks, callback'[c] # callback[c]
    PROVE  \/ \E method \in Methods, params \in Params : Callback(c, method, params)
           \/ OwnerChecked(c) \/ Write(c) \/ Drained(c) \/ DrainFails(c)
<1> USE DEF InterruptsTypeOK
<1>1. CASE UNCHANGED interruptVars
  BY <1>1 DEF interruptVars
<1>2. ASSUME NEW k \in Requests, NEW kind \in Kinds, ServerRequest(k, kind) PROVE FALSE
  BY <1>2 DEF ServerRequest
<1>3. ASSUME NEW d \in Callbacks, NEW method \in Methods, NEW params \in Params,
             Callback(d, method, params)
      PROVE  d = c
  BY <1>3 DEF Callback
<1>4. ASSUME NEW d \in Callbacks, InvalidCallback(d) PROVE FALSE
  BY <1>4 DEF InvalidCallback
<1>5. ASSUME NEW d \in Callbacks, OwnerChecked(d) PROVE d = c
  BY <1>5 DEF OwnerChecked, Ended
<1>6. ASSUME NEW d \in Callbacks, Write(d) PROVE d = c
  BY <1>6 DEF Write
<1>7. ASSUME NEW d \in Callbacks, Drained(d) PROVE d = c
  BY <1>7 DEF Drained, Ended
<1>8. ASSUME NEW d \in Callbacks, DrainFails(d) PROVE d = c
  BY <1>8 DEF DrainFails, Ended
<1>9. ASSUME NEW s \in Sessions, NEW i \in Identities, OwnerSaved(s, i) PROVE FALSE
  BY <1>9 DEF OwnerSaved
<1>10. ~Tick /\ ~PipeBreaks
  BY DEF Tick, PipeBreaks
<1>11. QED
  BY <1>1, <1>2, <1>3, <1>4, <1>5, <1>6, <1>7, <1>8, <1>9, <1>10 DEF InterruptsNext

\* A callback that is checked goes on with a request that is pending, or ends.
LEMMA CheckedMeans ==
    ASSUME Inv, NEW c \in Callbacks, OwnerChecked(c)
    PROVE  \/ /\ callback'[c] = Idle
              /\ told' = IF MayAnswer(c) THEN Refusal(callback[c].request, callback[c].kind)
                                       ELSE "not found"
              /\ told' # None
           \/ /\ callback'[c].request = callback[c].request
              /\ pending[callback[c].request] # None
<1>1. InterruptsTypeOK
  BY DEF Inv
<1>2. callback[c] \in CallbackRecords
  BY <1>1, OnItsWay DEF OwnerChecked
<1> DEFINE k == callback[c].request
           kind == callback[c].kind
           outcome == IF MayAnswer(c) THEN Refusal(k, kind) ELSE "not found"
<1>3. k \in Requests /\ kind \in Kinds
  BY <1>2 DEF CallbackRecords
<1>4. CASE outcome = None
  <2>1. MayAnswer(c)
    BY <1>4, NoneAssumption DEF Outcomes
  <2>2. pending[k] # None
    BY <1>1, <1>3, <1>4, <2>1, NotRefused
  <2>3. callback' = [callback EXCEPT ![c].at = "waiting"]
    BY <1>4 DEF OwnerChecked
  <2>4. callback'[c].request = k
    BY <1>1, <1>2, <2>3 DEF InterruptsTypeOK, CallbackRecords
  <2>5. QED  BY <2>2, <2>4
<1>5. CASE outcome # None
  <2>1. Ended(c, outcome)
    BY <1>5 DEF OwnerChecked
  <2>2. QED  BY <1>1, <1>5, <2>1 DEF Ended, InterruptsTypeOK
<1>6. QED  BY <1>4, <1>5

\* However many clients answer a request, none of them is let through once an answer is
\* with Codex.
THEOREM AnsweredOnce == InterruptsSpec => AnsweredIsGone
<1>1. Inv /\ [InterruptsNext]_interruptVars => [AcceptsOpenOnly]_interruptVars
  <2> SUFFICES ASSUME Inv, [InterruptsNext]_interruptVars, NEW c \in Callbacks,
                      callback[c].at = "checking", callback'[c].at = "waiting",
                      answers[callback'[c].request] > 0, ~broken
               PROVE  IsBeingAnswered(callback'[c].request)
    BY DEF AcceptsOpenOnly
  <2>1. InterruptsTypeOK
    BY DEF Inv
  <2>2. OwnerChecked(c)
    <3>1. callback[c] # Idle
      BY IdleAt
    <3>2. QED  BY <2>1, <3>1, OwnSteps DEF Callback, Write, Drained, DrainFails
  <2>3. callback[c].request \in Requests
    BY <2>1, OnItsWay DEF CallbackRecords
  <2>4. callback'[c].request = callback[c].request /\ pending[callback[c].request] # None
    BY <2>2, CheckedMeans, IdleAt
  <2>5. QED  BY <2>3, <2>4 DEF Inv, AnsweredIsOver, Writes, IsBeingAnswered
<1>2. QED  BY <1>1, InvHolds, PTL DEF InterruptsSpec, AnsweredIsGone

\* A refusal is justified by the request.
LEMMA RefusalIsTrue ==
    ASSUME Inv, NEW k \in Requests, NEW kind \in Kinds, Refusal(k, kind) # None
    PROVE  Justified(Refusal(k, kind), k, kind)
<1> DEFINE outcome == Refusal(k, kind)
<1>1. InterruptsTypeOK
  BY DEF Inv
<1>2. answers[k] = 0 \/ answers[k] > 0
  BY <1>1 DEF InterruptsTypeOK
<1>3. CASE outcome = "not found" /\ pending[k] = None
  BY <1>2, <1>3 DEF Justified, Inv, OpenIsPending
<1>4. CASE outcome = "expired" /\ pending[k] # None /\ IsExpired(pending[k].created)
  BY <1>4 DEF Justified, Inv, NamesARequest
<1>5. CASE outcome = "type mismatch" /\ pending[k] # None /\ pending[k].kind # kind
  BY <1>5 DEF Justified, Inv, NamesARequest
<1>6. QED  BY <1>1, <1>3, <1>4, <1>5, RefusalMeans

\* Whatever happens between its two looks at a request, a callback is told the truth.
THEOREM TruthIsTold == InterruptsSpec => RepliesAreTrue
<1>1. Inv /\ [InterruptsNext]_interruptVars => [TellsTheTruth]_interruptVars
  <2> SUFFICES ASSUME Inv, [InterruptsNext]_interruptVars PROVE TellsTheTruth
    OBVIOUS
  <2>1. InterruptsTypeOK
    BY DEF Inv
  <2>2. ASSUME told' # told, NEW c \in Callbacks, NEW method \in Methods, NEW params \in Params,
               Callback(c, method, params)
        PROVE  Justified(told', params.request, ExpectedKind(method))
    <3>1. params.request \in Requests /\ ExpectedKind(method) \in Kinds
      BY <2>2, ValidNames DEF Callback
    <3>2. /\ told' = Refusal(params.request, ExpectedKind(method))
          /\ Refusal(params.request, ExpectedKind(method)) # None
      BY <2>2 DEF Callback
    <3>3. QED  BY <3>1, <3>2, RefusalIsTrue
  <2>3. ASSUME NEW c \in Callbacks, callback[c] # Idle, callback'[c] = Idle
        PROVE  \/ Justified(told', callback[c].request, callback[c].kind)
               \/ told' = "not found" /\ ~MayAnswer(c)
    <3>1. callback[c] \in CallbackRecords
      BY <2>1, <2>3 DEF InterruptsTypeOK
    <3>2. callback[c].request \in Requests /\ callback[c].kind \in Kinds
      BY <3>1 DEF CallbackRecords
    <3>3. OwnerChecked(c) \/ Drained(c) \/ DrainFails(c)
      <4>1. \A method \in Methods, params \in Params : ~Callback(c, method, params)
        BY <2>3 DEF Callback
      <4>2. ~Write(c)
        <5> SUFFICES ASSUME Write(c) PROVE FALSE
          OBVIOUS
        <5>1. callback'[c].at = "writing"
          BY <2>1, <3>1 DEF Write, InterruptsTypeOK, CallbackRecords
        <5>2. QED  BY <2>3, <5>1, IdleAt
      <4>3. QED  BY <2>1, <2>3, <4>1, <4>2, OwnSteps
    <3>4. CASE OwnerChecked(c)
      <4>1. CASE callback'[c].request = callback[c].request
        <5>1. Idle.request = 0
          BY DEF Idle
        <5>2. 0 \notin Requests
          BY InterruptsAssumption DEF Requests
        <5>3. QED  BY <2>3, <3>2, <4>1, <5>1, <5>2
      <4>2. CASE MayAnswer(c) /\ callback'[c].request # callback[c].request
        BY <3>2, <3>4, <4>2, CheckedMeans, RefusalIsTrue
      <4>3. CASE ~MayAnswer(c) /\ callback'[c].request # callback[c].request
        BY <3>4, <4>3, CheckedMeans
      <4>4. QED  BY <4>1, <4>2, <4>3
    <3>5. CASE Drained(c)
      <4>1. answers[callback[c].request] > 0
        BY <3>5 DEF Drained, Inv, WritersAnswer, Writes
      <4>2. told' = "ok"
        BY <3>5 DEF Drained, Ended
      <4>3. QED  BY <4>1, <4>2 DEF Justified
    <3>6. CASE DrainFails(c)
      BY <3>6 DEF DrainFails, Ended, Justified
    <3>7. QED  BY <3>3, <3>4, <3>5, <3>6
  <2>4. QED  BY <2>2, <2>3 DEF TellsTheTruth
<1>2. QED  BY <1>1, InvHolds, PTL DEF InterruptsSpec, RepliesAreTrue

-----------------------------------------------------------------------------
(* The cache of owners.                                                    *)

Owners == [Sessions -> OwnerRecords \cup {None}]

\* What is read of a session is its entry, unless that has expired.
LEMMA GetIs ==
    ASSUME NEW o \in Owners, NEW s \in Sessions, NEW now
    PROVE  Get(o, s, now) = IF InUse /\ o[s] # None /\ ~(o[s].expires <= now)
                            THEN o[s].value ELSE None
  BY DEF Get, KeysOf, Expired, Owners

\* What recording an owner leaves: the new entry, and of the others some.
LEMMA SetKeeps ==
    ASSUME InterruptsTypeOK, NEW s \in Sessions, NEW i \in Identities,
           NEW o \in AfterSet(owners, s, i, clock), InUse
    PROVE  /\ o \in Owners
           /\ o[s] = Entry(i, clock)
           /\ \A j \in Sessions \ {s} : o[j] \in {owners[j], None}
<1> DEFINE put == [owners EXCEPT ![s] = Entry(i, clock)]
           unexpired == Without(put, Expired(put, clock))
<1>1. o \in Owners
  BY SetTypes DEF Owners
<1>2. /\ DOMAIN put = Sessions
      /\ put[s] = Entry(i, clock)
      /\ \A j \in Sessions \ {s} : put[j] = owners[j]
  BY DEF InterruptsTypeOK
<1>3. s \notin Expired(put, clock)
  <2>1. ~(clock + TTL <= clock)
    BY CacheAssumption, InterruptsAssumption DEF InUse, InterruptsTypeOK
  <2>2. put[s].expires = clock + TTL
    BY <1>2 DEF Entry
  <2>3. QED  BY <2>1, <2>2 DEF Expired
<1> HIDE DEF put
<1>4. /\ DOMAIN unexpired = Sessions
      /\ unexpired[s] = Entry(i, clock)
      /\ \A j \in Sessions \ {s} : unexpired[j] \in {owners[j], None}
  BY <1>2, <1>3 DEF Without
<1> HIDE DEF unexpired
<1>5. o \in Evicted(put, s, clock)
  BY DEF AfterSet, put
<1>6. \/ o = put \/ o = unexpired
      \/ \E gone \in Overflows(unexpired, s) : o = Without(unexpired, gone)
  BY <1>5 DEF Evicted, unexpired
<1>7. ASSUME NEW gone \in Overflows(unexpired, s), o = Without(unexpired, gone)
      PROVE  o[s] = Entry(i, clock) /\ \A j \in Sessions \ {s} : o[j] \in {owners[j], None}
  <2>1. s \notin gone
    BY DEF Overflows
  <2>2. QED  BY <1>4, <1>7, <2>1 DEF Without
<1>8. QED  BY <1>1, <1>2, <1>4, <1>6, <1>7

\* Read again, the session has its new owner, and no other session has a new one.
LEMMA SetIsPut ==
    ASSUME InterruptsTypeOK, NEW s \in Sessions, NEW i \in Identities, InUse,
           OwnerSaved(s, i)
    PROVE  OwnersMap!Put(s, i)
<1>1. owners \in Owners
  BY DEF InterruptsTypeOK, Owners
<1>2. /\ owners' \in Owners
      /\ owners'[s] = Entry(i, clock)
      /\ \A j \in Sessions \ {s} : owners'[j] \in {owners[j], None}
  BY SetKeeps DEF OwnerSaved
<1>3. clock' = clock
  BY DEF OwnerSaved
<1>4. Get(owners', s, clock') = i
  <2>1. owners'[s] # None
    BY <1>2, NoneAssumption, CacheAssumption, InterruptsAssumption
       DEF Entry, OwnerRecords, InterruptsTypeOK
  <2>2. ~(owners'[s].expires <= clock)
    BY <1>2, CacheAssumption, InterruptsAssumption DEF InUse, Entry, InterruptsTypeOK
  <2>3. owners'[s].value = i
    BY <1>2 DEF Entry
  <2>4. QED  BY <1>2, <1>3, <2>1, <2>2, <2>3, GetIs
<1>5. \A j \in Sessions \ {s} :
         Get(owners', j, clock') \in {Get(owners, j, clock), None}
  BY <1>1, <1>2, <1>3, GetIs
<1>6. QED  BY <1>4, <1>5 DEF OwnersMap!Put

\* A step that keeps what the cache has, and time, keeps what is read or forgets it.
LEMMA KeptIsForget ==
    ASSUME InterruptsTypeOK, owners' = owners, clock' \in {clock, clock + 1}
    PROVE  OwnersMap!Forget
<1>1. owners \in Owners
  BY DEF InterruptsTypeOK, Owners
<1>2. \A s \in Sessions : owners[s] # None => owners[s].expires \in Nat
  BY <1>1 DEF Owners, OwnerRecords
<1>3. clock \in Nat
  BY InterruptsAssumption DEF InterruptsTypeOK
<1>4. \A s \in Sessions : Get(owners', s, clock') \in {Get(owners, s, clock), None}
  <2> TAKE s \in Sessions
  <2>1. owners[s] # None => (owners[s].expires <= clock => owners[s].expires <= clock')
    BY <1>2, <1>3
  <2>2. QED  BY <1>1, <2>1, GetIs
<1>5. QED  BY <1>4 DEF OwnersMap!Forget

\* Reading an owner changes nothing that is read.
LEMMA GetIsForget ==
    ASSUME InterruptsTypeOK, NEW s \in Sessions,
           owners' = AfterGet(owners, s, clock), clock' = clock
    PROVE  OwnersMap!Forget
<1>1. owners \in Owners /\ owners' \in Owners
  BY GetTypes DEF InterruptsTypeOK, Owners
<1>2. CASE owners' = owners
  BY <1>2, KeptIsForget
<1>3. CASE owners' = Without(owners, {s})
  <2>1. \A j \in Sessions : owners'[j] \in {owners[j], None}
    BY <1>1, <1>3 DEF Without, Owners
  <2>2. \A j \in Sessions : Get(owners', j, clock') \in {Get(owners, j, clock), None}
    BY <1>1, <2>1, GetIs
  <2>3. QED  BY <2>2 DEF OwnersMap!Forget
<1>4. CASE /\ owners' = [owners EXCEPT ![s].expires = clock + TTL]
           /\ s \in KeysOf(owners) \ Expired(owners, clock)
  <2>1. owners[s] # None /\ ~(owners[s].expires <= clock) /\ owners[s] \in OwnerRecords
    BY <1>1, <1>4 DEF KeysOf, Expired, Owners
  <2>2. owners'[s].value = owners[s].value
    BY <1>1, <1>4, <2>1 DEF Owners, OwnerRecords
  <2>3. \A j \in Sessions \ {s} : owners'[j] = owners[j]
    BY <1>1, <1>4 DEF Owners
  <2>4. Get(owners', s, clock') \in {Get(owners, s, clock), None}
    BY <1>1, <2>1, <2>2, GetIs
  <2>5. \A j \in Sessions \ {s} : Get(owners', j, clock') = Get(owners, j, clock)
    BY <1>1, <2>3, GetIs
  <2>6. QED  BY <2>4, <2>5 DEF OwnersMap!Forget
<1>5. QED  BY <1>2, <1>3, <1>4 DEF AfterGet

\* Every step but a recording forgets at most.
LEMMA StepsForget ==
    ASSUME InterruptsTypeOK, [InterruptsNext]_interruptVars
    PROVE  OwnersMap!Forget \/ Records
<1>1. ASSUME owners' = owners, clock' = clock PROVE OwnersMap!Forget
  BY <1>1, KeptIsForget
<1>2. CASE UNCHANGED interruptVars
  BY <1>1, <1>2 DEF interruptVars
<1>3. ASSUME NEW k \in Requests, NEW kind \in Kinds, ServerRequest(k, kind)
      PROVE  OwnersMap!Forget
  BY <1>1, <1>3 DEF ServerRequest
<1>4. ASSUME NEW c \in Callbacks, NEW method \in Methods, NEW params \in Params,
             Callback(c, method, params)
      PROVE  OwnersMap!Forget
  BY <1>1, <1>4 DEF Callback
<1>5. ASSUME NEW c \in Callbacks, OwnerChecked(c) PROVE OwnersMap!Forget
  BY <1>1, <1>5, GetIsForget, InterruptsAssumption DEF OwnerChecked
<1>6. ASSUME NEW c \in Callbacks,
             InvalidCallback(c) \/ Write(c) \/ Drained(c) \/ DrainFails(c)
      PROVE  OwnersMap!Forget
  BY <1>1, <1>6 DEF InvalidCallback, Write, Drained, DrainFails
<1>7. CASE Tick
  BY <1>7, KeptIsForget DEF Tick
<1>8. CASE PipeBreaks
  BY <1>1, <1>8 DEF PipeBreaks
<1>9. QED
  BY <1>2, <1>3, <1>4, <1>5, <1>6, <1>7, <1>8 DEF InterruptsNext, Records

\* The owners callbacks see are those executions recorded, for any capacity and time to
\* live: an entry that is read does not come back from the dead, and none is evicted by
\* its own recording.
THEOREM OwnersAreKept == InterruptsSpec => OwnersAreLossyMap
<1>1. InterruptsTypeOK /\ [InterruptsNext]_interruptVars => [RecordsAreKept]_interruptVars
  BY SetIsPut, StepsForget DEF RecordsAreKept
<1>2. QED
  BY <1>1, InterruptsTypeCorrect, PTL DEF InterruptsSpec, OwnersAreLossyMap

\* The cache, with its expiry and its eviction, implements the map that may forget.
THEOREM CacheImplementsMap == InterruptsSpec => OwnersMap!Spec
<1>1. InterruptsInit => OwnersMap!Init
  <2> SUFFICES ASSUME InterruptsInit PROVE OwnersMap!Init
    OBVIOUS
  <2>1. \A s \in Sessions : Get(owners, s, clock) = None
    BY DEF InterruptsInit, Get, KeysOf
  <2>2. QED  BY <2>1 DEF OwnersMap!Init
<1>2. InterruptsTypeOK /\ InterruptsTypeOK' /\ [InterruptsNext]_interruptVars => OwnersMap!Next
  <2> SUFFICES ASSUME InterruptsTypeOK, InterruptsTypeOK', [InterruptsNext]_interruptVars
               PROVE  OwnersMap!Next
    OBVIOUS
  <2>1. [s \in Sessions |-> Get(owners, s, clock)]' \in [Sessions -> Identities \cup {None}]
    <3>1. owners' \in Owners
      BY DEF InterruptsTypeOK, Owners
    <3>2. \A s \in Sessions : Get(owners', s, clock') \in Identities \cup {None}
      BY <3>1, GetIs DEF Owners, OwnerRecords
    <3>3. QED  BY <3>2
  <2>2. ASSUME Records, ~OwnersMap!Forget
        PROVE  \E s \in Sessions, i \in Identities : OwnersMap!Put(s, i)
    <3>1. InUse
      BY <2>2, KeptIsForget DEF Records, OwnerSaved, AfterSet
    <3>2. QED  BY <2>2, <3>1, SetIsPut DEF Records
  <2>3. QED  BY <2>1, <2>2, StepsForget DEF OwnersMap!Next
<1>3. QED
  BY <1>1, <1>2, InterruptsTypeCorrect, PTL DEF InterruptsSpec, OwnersMap!Spec

\* The entries an update of the cache drops leave the others.
LEMMA WithoutKeys ==
    ASSUME NEW o, NEW gone
    PROVE  KeysOf(Without(o, gone)) = KeysOf(o) \ gone
  BY DEF KeysOf, Without

Bounded(o) == IsFiniteSet(KeysOf(o)) /\ Cardinality(KeysOf(o)) <= MaxSize

\* Reading adds no entry.
LEMMA GetIsBounded ==
    ASSUME Bounded(owners), NEW s, owners \in Owners
    PROVE  Bounded(AfterGet(owners, s, clock))
<1>1. KeysOf(AfterGet(owners, s, clock)) \subseteq KeysOf(owners)
  <2>1. KeysOf(Without(owners, {s})) \subseteq KeysOf(owners)
    BY WithoutKeys
  <2>2. KeysOf([owners EXCEPT ![s].expires = clock + TTL]) \subseteq KeysOf(owners)
        \/ s \notin KeysOf(owners)
    BY DEF KeysOf
  <2>3. QED  BY <2>1, <2>2 DEF AfterGet
<1>2. /\ IsFiniteSet(KeysOf(AfterGet(owners, s, clock)))
      /\ Cardinality(KeysOf(AfterGet(owners, s, clock))) <= Cardinality(KeysOf(owners))
  BY <1>1, FS_Subset DEF Bounded
<1>3. /\ Cardinality(KeysOf(AfterGet(owners, s, clock))) \in Nat
      /\ Cardinality(KeysOf(owners)) \in Nat
  BY <1>2, FS_CardinalityType DEF Bounded
<1>4. QED  BY <1>2, <1>3, CacheAssumption DEF Bounded

\* Recording evicts what is too much.
LEMMA SetIsBounded ==
    ASSUME Bounded(owners), NEW s, NEW i, owners \in Owners,
           NEW o \in AfterSet(owners, s, i, clock)
    PROVE  Bounded(o)
<1> DEFINE put == [owners EXCEPT ![s] = Entry(i, clock)]
           unexpired == Without(put, Expired(put, clock))
<1>1. IsFiniteSet(KeysOf(put))
  <2>1. KeysOf(put) \subseteq KeysOf(owners) \cup {s}
    BY DEF KeysOf
  <2>2. QED  BY <2>1, FS_AddElement, FS_Subset DEF Bounded
<1> HIDE DEF put
<1>2. IsFiniteSet(KeysOf(unexpired))
  <2>1. KeysOf(unexpired) \subseteq KeysOf(put)
    BY WithoutKeys
  <2>2. QED  BY <1>1, <2>1, FS_Subset
<1> HIDE DEF unexpired
<1>3. CASE ~InUse
  BY <1>3 DEF AfterSet
<1>4. CASE InUse
  <2>1. o \in Evicted(put, s, clock)
    BY <1>4 DEF AfterSet, put
  <2>2. CASE o = put /\ Cardinality(KeysOf(put)) <= MaxSize
    BY <1>1, <2>2 DEF Bounded
  <2>3. CASE o = unexpired /\ Cardinality(KeysOf(unexpired)) <= MaxSize
    BY <1>2, <2>3 DEF Bounded
  <2>4. CASE \E gone \in Overflows(unexpired, s) : o = Without(unexpired, gone)
    <3>1. PICK gone \in Overflows(unexpired, s) : o = Without(unexpired, gone)
      BY <2>4
    <3>2. /\ gone \subseteq KeysOf(unexpired)
          /\ Cardinality(gone) = Cardinality(KeysOf(unexpired)) - MaxSize
      BY DEF Overflows
    <3>3. KeysOf(o) = KeysOf(unexpired) \ gone
      BY <3>1, WithoutKeys
    <3>4. KeysOf(unexpired) \cap gone = gone
      BY <3>2
    <3>5. /\ IsFiniteSet(KeysOf(o))
          /\ Cardinality(KeysOf(o)) = Cardinality(KeysOf(unexpired)) - Cardinality(gone)
      BY <1>2, <3>3, <3>4, FS_Difference
    <3>6. Cardinality(KeysOf(unexpired)) \in Nat
      BY <1>2, FS_CardinalityType
    <3>7. QED  BY <3>2, <3>5, <3>6, CacheAssumption DEF Bounded
  <2>5. QED  BY <2>1, <2>2, <2>3, <2>4 DEF Evicted, unexpired
<1>5. QED  BY <1>3, <1>4

\* However many sessions have turns, the cache keeps at most MaxSize owners.
THEOREM CacheStaysBounded == InterruptsSpec => []CacheIsBounded
<1>1. InterruptsInit => Bounded(owners)
  <2> SUFFICES ASSUME InterruptsInit PROVE Bounded(owners)
    OBVIOUS
  <2>1. KeysOf(owners) = {}
    BY DEF InterruptsInit, KeysOf
  <2>2. QED  BY <2>1, FS_EmptySet, CacheAssumption DEF Bounded
<1>2. InterruptsTypeOK /\ Bounded(owners) /\ [InterruptsNext]_interruptVars => Bounded(owners)'
  <2> SUFFICES ASSUME InterruptsTypeOK, Bounded(owners), [InterruptsNext]_interruptVars
               PROVE  Bounded(owners')
    BY DEF Bounded, KeysOf
  <2>1. owners \in Owners
    BY DEF InterruptsTypeOK, Owners
  <2>2. \/ owners' = owners
        \/ owners' = AfterGet(owners, Session, clock)
        \/ \E s \in Sessions, i \in Identities : owners' \in AfterSet(owners, s, i, clock)
    BY DEF InterruptsNext, interruptVars, ServerRequest, Callback, InvalidCallback,
           OwnerChecked, Write, Drained, DrainFails, OwnerSaved, Tick, PipeBreaks
  <2>3. QED  BY <2>1, <2>2, GetIsBounded, SetIsBounded
<1>3. Bounded(owners) => CacheIsBounded
  BY DEF Bounded, CacheIsBounded
<1>4. QED  BY <1>1, <1>2, <1>3, InterruptsTypeCorrect, PTL DEF InterruptsSpec

=============================================================================
