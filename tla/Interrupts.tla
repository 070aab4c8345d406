----------------------------- MODULE Interrupts -----------------------------
(***************************************************************************)
(* Approvals and questions of Codex (the pending requests of               *)
(* upstream/client.py) and the callbacks that answer them                  *)
(* (jsonrpc/interrupts.py, jsonrpc/interrupt_lifecycle.py), with the cache *)
(* of session owners they consult.                                         *)
(*                                                                         *)
(* A callback runs alone until it awaits:                                  *)
(*   checking  the owner of the session (the registry's lock)              *)
(*   waiting   the lock on the pipe to Codex                               *)
(*   writing   the pipe to drain, its answer being in it                   *)
(***************************************************************************)
EXTENDS TTLCache

CONSTANTS
    Callbacks,      \* clients that answer
    Identities,
    IdentityOf,     \* the identity of each, None if it is not known
    Sessions,
    Session,        \* the session whose turn asks
    Claim,          \* who has a claim on it that is not final yet, None if nobody has
    MaxRequests,    \* bound: how many requests Codex makes in the turn
    RequestTTL,     \* interrupt_request_ttl_seconds
    MaxClock        \* bound: how far the clock runs

ASSUME InterruptsAssumption ==
    /\ IdentityOf \in [Callbacks -> Identities \cup {None}]
    /\ Session \in Sessions
    /\ Claim \in Identities \cup {None}
    /\ MaxRequests \in Nat /\ RequestTTL \in Nat /\ MaxClock \in Nat

VARIABLES
    requests,   \* what Codex asked, and when; None for a request it has not made
    answers,    \* how many answers it got to each
    pending,    \* _pending_server_requests
    callback,   \* where each callback is, and of which request
    told,       \* what the last callback to end was told
    broken,     \* the pipe to Codex is broken
    owners,     \* _session_owners
    clock

requestVars == <<requests, answers, pending>>
interruptVars == <<requestVars, callback, told, broken, owners, clock>>

Requests == 1 .. MaxRequests
Kinds == {"permission", "question"}

Methods == {"permission.reply", "question.reply", "question.reject"}

ExpectedKind(method) == IF method = "permission.reply" THEN "permission" ELSE "question"

\* What a callback names, and what it says: something well formed or not, or nothing.
Params == [request : Requests \cup {None}, answer : {"valid", "not valid", None}]

ValidParams(method, params) ==
    /\ params.request # None
    /\ params.answer = IF method = "question.reject" THEN None ELSE "valid"

InvalidParams == {p \in Methods \X Params : ~ValidParams(p[1], p[2])}

Outcomes == {"ok", "not found", "expired", "type mismatch", "invalid params", "error"}

\* What the variables hold when they do not hold None.
RequestRecords == [kind : Kinds, at : 0 .. MaxClock]
PendingRecords == [kind : Kinds, created : 0 .. MaxClock]
OwnerRecords == [value : Identities, expires : Nat]

ASSUME NoneAssumption ==
    /\ None \notin Outcomes
    /\ None \notin RequestRecords
    /\ None \notin PendingRecords
    /\ None \notin OwnerRecords

Idle == [at |-> "idle", request |-> 0, kind |-> ""]
CallbackRecords == [at : {"checking", "waiting", "writing"}, request : Requests, kind : Kinds]
At(place, k, kind) == [at |-> place, request |-> k, kind |-> kind]

InterruptsTypeOK ==
    /\ requests \in [Requests -> RequestRecords \cup {None}]
    /\ answers \in [Requests -> Nat]
    /\ pending \in [Requests -> PendingRecords \cup {None}]
    /\ callback \in [Callbacks -> {Idle} \cup CallbackRecords]
    /\ told \in Outcomes \cup {None}
    /\ broken \in BOOLEAN
    /\ owners \in [Sessions -> OwnerRecords \cup {None}]
    /\ clock \in 0 .. MaxClock

InterruptsInit ==
    /\ requests = [k \in Requests |-> None]
    /\ answers = [k \in Requests |-> 0]
    /\ pending = [k \in Requests |-> None]
    /\ callback = [c \in Callbacks |-> Idle]
    /\ told = None
    /\ broken = FALSE
    /\ owners = [s \in Sessions |-> None]
    /\ clock = 0

-----------------------------------------------------------------------------
(* The pending requests.                                                   *)

Discard(k) == [pending EXCEPT ![k] = None]

\* An entry is as old as the request it was made for.
IsExpired(created) == created + RequestTTL <= clock

Status(k) ==
    CASE pending[k] = None -> "missing"
      [] pending[k] # None /\ IsExpired(pending[k].created) -> "expired"
      [] OTHER -> "active"

\* Mutant: looking a request up takes it.
AfterLookupTaking(k) == Discard(k)

\* resolve_interrupt_request: an expired request is forgotten when it is looked up.
AfterLookup(k) == IF Status(k) = "expired" THEN Discard(k) ELSE pending

\* What a callback of a kind is told that names the request, None if it may go on.
Refusal(k, kind) ==
    CASE Status(k) = "missing" -> "not found"
      [] Status(k) = "expired" -> "expired"
      [] Status(k) = "active" /\ pending[k].kind # kind -> "type mismatch"
      [] OTHER -> None

\* item/.../requestApproval, item/tool/requestUserInput.
ServerRequest(k, kind) ==
    /\ requests[k] = None
    /\ \A j \in 1 .. k - 1 : requests[j] # None
    /\ requests' = [requests EXCEPT ![k] = [kind |-> kind, at |-> clock]]
    /\ pending' = [pending EXCEPT ![k] = [kind |-> kind, created |-> clock]]
    /\ UNCHANGED <<answers, callback, told, broken, owners, clock>>

-----------------------------------------------------------------------------
(* The callbacks.                                                          *)

\* A callback the parameters of which are refused.
InvalidCallback(c) ==
    /\ callback[c] = Idle
    /\ InvalidParams # {}
    /\ told' = "invalid params"
    /\ UNCHANGED <<requestVars, callback, broken, owners, clock>>

\* The handler looks the request up and goes on if it is of the kind it is for.
Callback(c, method, params) ==
    LET k == params.request
        kind == ExpectedKind(method)
        outcome == Refusal(k, kind)
    IN  /\ callback[c] = Idle
        /\ ValidParams(method, params)
        /\ pending' = AfterLookup(k)
        /\ IF outcome = None
           THEN callback' = [callback EXCEPT ![c] = At("checking", k, kind)] /\ UNCHANGED told
           ELSE told' = outcome /\ UNCHANGED callback
        /\ UNCHANGED <<requests, answers, broken, owners, clock>>

\* session_owner_matches: by the owner, else by the claim; None if nobody has the session.
OwnerMatches(i) ==
    LET owner == Get(owners, Session, clock)
        known == IF owner # None THEN owner ELSE Claim
    IN  IF known = None THEN None ELSE known = i

\* Without an identity, or without an owner, nobody is refused.
MayAnswer(c) == IdentityOf[c] = None \/ OwnerMatches(IdentityOf[c]) # FALSE

\* A callback ends.
Ended(c, outcome) ==
    /\ callback' = [callback EXCEPT ![c] = Idle]
    /\ told' = outcome

\* validate_interrupt_owner, and what runs with it: the client looks the request up again.
OwnerChecked(c) ==
    LET k == callback[c].request
        kind == callback[c].kind
        outcome == IF MayAnswer(c) THEN Refusal(k, kind) ELSE "not found"
    IN  /\ callback[c].at = "checking"
        /\ owners' = IF IdentityOf[c] = None THEN owners ELSE AfterGet(owners, Session, clock)
        /\ IF outcome = None
           THEN callback' = [callback EXCEPT ![c].at = "waiting"] /\ UNCHANGED told
           ELSE Ended(c, outcome)
        /\ pending' = IF MayAnswer(c) THEN AfterLookup(k) ELSE pending
        /\ UNCHANGED <<requests, answers, broken, clock>>

\* The answer is written when no other one is draining.  From a broken pipe Codex has
\* nothing.
Write(c) ==
    LET k == callback[c].request
    IN  /\ callback[c].at = "waiting"
        /\ \A d \in Callbacks : callback[d].at # "writing"
        /\ answers' = IF broken THEN answers ELSE [answers EXCEPT ![k] = @ + 1]
        /\ callback' = [callback EXCEPT ![c].at = "writing"]
        /\ UNCHANGED <<requests, pending, told, broken, owners, clock>>

\* Mutant: an answered request stays pending.
DrainedKeeping(c) ==
    /\ callback[c].at = "writing"
    /\ ~broken
    /\ Ended(c, "ok")
    /\ UNCHANGED <<requestVars, broken, owners, clock>>

\* Mutant: a callback that has ended still names its request.
DrainedNaming(c) ==
    /\ callback[c].at = "writing"
    /\ ~broken
    /\ pending' = Discard(callback[c].request)
    /\ callback' = [callback EXCEPT ![c].at = "idle"]
    /\ told' = "ok"
    /\ UNCHANGED <<requests, answers, broken, owners, clock>>

\* It has been drained: the request is discarded.
Drained(c) ==
    /\ callback[c].at = "writing"
    /\ ~broken
    /\ pending' = Discard(callback[c].request)
    /\ Ended(c, "ok")
    /\ UNCHANGED <<requests, answers, broken, owners, clock>>

\* Mutant: the error is not noticed.
DrainFailsUnnoticed(c) ==
    /\ callback[c].at = "writing"
    /\ broken
    /\ Ended(c, "ok")
    /\ UNCHANGED <<requestVars, broken, owners, clock>>

\* drain raises: the callback is told of an error, and the request stays.
DrainFails(c) ==
    /\ callback[c].at = "writing"
    /\ broken
    /\ Ended(c, "error")
    /\ UNCHANGED <<requestVars, broken, owners, clock>>

-----------------------------------------------------------------------------
(* The rest of the server, the pipe, and time.                             *)

\* An execution records the owner of its session.
OwnerSaved(s, i) ==
    /\ UNCHANGED <<requestVars, callback, told, broken, clock>>
    /\ owners' \in AfterSet(owners, s, i, clock)

Tick ==
    /\ clock < MaxClock
    /\ clock' = clock + 1
    /\ UNCHANGED <<requestVars, callback, told, broken, owners>>

PipeBreaks ==
    /\ ~broken
    /\ broken' = TRUE
    /\ UNCHANGED <<requestVars, callback, told, owners, clock>>

InterruptsNext ==
    \/ \E k \in Requests, kind \in Kinds : ServerRequest(k, kind)
    \/ \E c \in Callbacks, method \in Methods, params \in Params : Callback(c, method, params)
    \/ \E c \in Callbacks :
           InvalidCallback(c) \/ OwnerChecked(c) \/ Write(c) \/ Drained(c) \/ DrainFails(c)
    \/ \E s \in Sessions, i \in Identities : OwnerSaved(s, i)
    \/ Tick \/ PipeBreaks

InterruptsSpec == InterruptsInit /\ [][InterruptsNext]_interruptVars

-----------------------------------------------------------------------------
(* What must be true.                                                      *)

\* A request Codex waits for can be answered until it is too old: no refused, mistaken
\* or expired callback loses one (resolve_interrupt_request, discard_interrupt_request).
OpenIsPending ==
    \A k \in Requests :
        requests[k] # None /\ answers[k] = 0 /\ ~IsExpired(requests[k].at) => pending[k] # None

\* The owners a callback sees.
OwnersMap == INSTANCE LossyMap WITH
    Keys <- Sessions,
    Values <- Identities,
    map <- [s \in Sessions |-> Get(owners, s, clock)]

Records == \E s \in Sessions, i \in Identities : OwnerSaved(s, i)
RecordsAreKept ==
    /\ \A s \in Sessions, i \in Identities : OwnerSaved(s, i) /\ InUse => OwnersMap!Put(s, i)
    /\ OwnersMap!Forget \/ Records

\* They are a map that may forget: an owner that is recorded is there, the eviction its
\* own recording causes does not take it, and nothing but a recording adds or changes
\* one, so an owner that has expired does not come back by being read (TTLCache).
OwnersAreLossyMap == [][RecordsAreKept]_interruptVars

\* The cache never grows beyond its capacity, whatever is recorded, read and expires.
CacheIsBounded == Cardinality(KeysOf(owners)) <= MaxSize

IsBeingAnswered(k) == \E d \in Callbacks : callback[d].at = "writing" /\ callback[d].request = k
AcceptsOpenOnly ==
    \A c \in Callbacks :
        LET k == callback'[c].request
        IN  callback[c].at = "checking" /\ callback'[c].at = "waiting" /\ answers[k] > 0
                => broken \/ IsBeingAnswered(k)

\* A callback for a request that has its answer is accepted only while that answer is
\* still being written: once it is through, the request is gone, unless the pipe broke
\* on it (_reply_to_server_request).
AnsweredIsGone == [][AcceptsOpenOnly]_interruptVars

\* The reasons there are for telling a client that about its callback.
Justified(outcome, k, kind) ==
    CASE outcome = "ok" -> answers[k] > 0
      [] outcome = "expired" -> IsExpired(requests[k].at)
      [] outcome = "type mismatch" -> requests[k].kind # kind
      [] outcome = "not found" ->
            requests[k] = None \/ answers[k] > 0 \/ IsExpired(requests[k].at)
      [] OTHER -> TRUE

TellsTheTruth ==
    /\ told' # told /\ callback' = callback =>
          \A c \in Callbacks, method \in Methods, params \in Params :
              Callback(c, method, params) => Justified(told', params.request, ExpectedKind(method))
    /\ \A c \in Callbacks :
          callback[c] # Idle /\ callback'[c] = Idle
              => \/ Justified(told', callback[c].request, callback[c].kind)
                 \/ told' = "not found" /\ ~MayAnswer(c)

\* Clients are told the truth, although a callback is looked at twice and much may happen
\* in between: "ok" if Codex has an answer, a refusal for what is so of the request.  Only
\* somebody who does not own the session is told that there is no request when there is
\* (handle_interrupt_callback_request).
RepliesAreTrue == [][TellsTheTruth]_interruptVars
=============================================================================
