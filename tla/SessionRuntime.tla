--------------------------- MODULE SessionRuntime ---------------------------
(***************************************************************************)
(* The registry behind every request: which identity owns which Codex      *)
(* session, who is claiming one, which session a conversation is bound to, *)
(* which session is being created and which request is running             *)
(* (execution/session_runtime.py).                                         *)
(*                                                                         *)
(* Each method of the class runs under one asyncio lock and awaits nothing *)
(* inside it, so each is one step.  The modules that extend this one       *)
(* compose these steps into the handlers that call them.                   *)
(***************************************************************************)
CONSTANTS
    Identities,   \* authenticated callers
    Contexts,     \* A2A context ids (conversations)
    Tasks,        \* A2A task ids
    Sessions,     \* Codex thread ids, those not created yet included
    Requests,     \* executions of the agent (asyncio tasks)
    None          \* Python's None

ASSUME NoneAssumption ==
    None \notin Identities \cup Sessions \cup Requests

VARIABLES
    sessionOwner,   \* _session_owners: session -> identity, entries may expire
    pendingClaim,   \* _pending_session_claims: session -> identity
    binding,        \* _sessions: (identity, context) -> session, entries may expire
    inflight,       \* _inflight_session_creates: (identity, context) -> the create task
    running,        \* _running_*: (task, context) -> the execution registered there
    forgotten       \* history: sessions whose owner entry was once lost

ownership == <<sessionOwner, pendingClaim, binding>>
runtimeVars == <<sessionOwner, pendingClaim, binding, inflight, running, forgotten>>

BindingKeys == Identities \X Contexts
RunKeys == Tasks \X Contexts

Optional(S) == S \cup {None}

RuntimeTypeOK ==
    /\ sessionOwner \in [Sessions -> Optional(Identities)]
    /\ pendingClaim \in [Sessions -> Optional(Identities)]
    /\ binding \in [BindingKeys -> Optional(Sessions)]
    /\ inflight \in [BindingKeys -> Optional(Requests)]
    /\ running \in [RunKeys -> Optional(Requests)]
    /\ forgotten \subseteq Sessions

RuntimeInit ==
    /\ sessionOwner = [s \in Sessions |-> None]
    /\ pendingClaim = [s \in Sessions |-> None]
    /\ binding = [k \in BindingKeys |-> None]
    /\ inflight = [k \in BindingKeys |-> None]
    /\ running = [k \in RunKeys |-> None]
    /\ forgotten = {}

-----------------------------------------------------------------------------
(* Ownership: every method first asserts that the session is claimable.    *)

\* Mutant: only the pending claim is asserted.
ClaimableIfUnclaimed(s, i, pendingOwner) == pendingOwner \in {None, i}

Claimable(s, i, pendingOwner) ==
    /\ sessionOwner[s] \in {None, i}
    /\ pendingOwner \in {None, i}

\* get_or_create_session with a session id of the caller's: it is already hers ...
ReusePreferred(i, c, s) ==
    /\ Claimable(s, i, pendingClaim[s])
    /\ sessionOwner[s] = i
    /\ binding' = [binding EXCEPT ![<<i, c>>] = s]
    /\ UNCHANGED <<sessionOwner, pendingClaim>>

\* ... or she claims it until her turn has succeeded.
ClaimSession(i, s) ==
    /\ Claimable(s, i, pendingClaim[s])
    /\ sessionOwner[s] # i
    /\ pendingClaim' = [pendingClaim EXCEPT ![s] = i]
    /\ UNCHANGED <<sessionOwner, binding>>

\* Mutant: the session is bound without asserting that it is claimable.
BindCreatedUnasserted(i, c, s) ==
    /\ binding' = [binding EXCEPT ![<<i, c>>] = s]
    /\ sessionOwner' = [sessionOwner EXCEPT ![s] = IF @ = None THEN i ELSE @]
    /\ UNCHANGED pendingClaim

\* The tail of get_or_create_session: the create task returned s.  Claims of
\* others are not looked at here.
BindCreated(i, c, s) ==
    /\ Claimable(s, i, None)
    /\ binding' = [binding EXCEPT ![<<i, c>>] = s]
    /\ sessionOwner' = [sessionOwner EXCEPT ![s] = i]
    /\ UNCHANGED pendingClaim

DropClaimOf(i, s) ==
    pendingClaim' = [pendingClaim EXCEPT ![s] = IF @ = i THEN None ELSE @]

\* Mutant: the claim is dropped and the owner not recorded.
FinalizePreferredUnowned(i, c, s) ==
    /\ Claimable(s, i, pendingClaim[s])
    /\ binding' = [binding EXCEPT ![<<i, c>>] = s]
    /\ DropClaimOf(i, s)
    /\ UNCHANGED sessionOwner

FinalizePreferredBinding(i, c, s) ==
    /\ Claimable(s, i, pendingClaim[s])
    /\ sessionOwner' = [sessionOwner EXCEPT ![s] = i]
    /\ binding' = [binding EXCEPT ![<<i, c>>] = s]
    /\ DropClaimOf(i, s)

FinalizeSessionClaim(i, s) ==
    /\ Claimable(s, i, pendingClaim[s])
    /\ sessionOwner' = [sessionOwner EXCEPT ![s] = i]
    /\ DropClaimOf(i, s)
    /\ UNCHANGED binding

ReleaseClaim(i, s) ==
    /\ DropClaimOf(i, s)
    /\ UNCHANGED <<sessionOwner, binding>>

-----------------------------------------------------------------------------
(* The table of running executions and of session creations.               *)

Track(k, r) == running' = [running EXCEPT ![k] = r]

\* By key: whatever execution is registered there is dropped.
Untrack(k) == running' = [running EXCEPT ![k] = None]

\* Mutant: whatever create task is registered is dropped.
ForgetAnyCreate(b, t) == inflight' = [inflight EXCEPT ![b] = None]

\* The create task t of key b has ended in front of a caller that handles it.
ForgetCreate(b, t) ==
    inflight' = [inflight EXCEPT ![b] = IF @ = t THEN None ELSE @]

-----------------------------------------------------------------------------
(* TTLCache: an entry is gone once its time to live has passed or once the *)
(* cache overflows.  Time and capacity are abstracted to "at any time".    *)

OwnerLost ==
    \E s \in Sessions :
        /\ sessionOwner[s] # None
        /\ sessionOwner' = [sessionOwner EXCEPT ![s] = None]
        /\ forgotten' = forgotten \cup {s}
        /\ UNCHANGED <<pendingClaim, binding, inflight, running>>

BindingLost ==
    \E k \in BindingKeys :
        /\ binding[k] # None
        /\ binding' = [binding EXCEPT ![k] = None]
        /\ UNCHANGED <<sessionOwner, pendingClaim, inflight, running, forgotten>>

CacheLoss == OwnerLost \/ BindingLost
=============================================================================
