------------------------------ MODULE Executor ------------------------------
(***************************************************************************)
(* CodexAgentExecutor.execute and cancel (execution/executor.py).          *)
(*                                                                         *)
(* An execution is an asyncio task.  It runs alone until it awaits         *)
(* something that is not ready, so a step of this module is the code       *)
(* between two such awaits:                                                *)
(*   creating   awaiting the create task shared by the conversation        *)
(*   waiting    in the wait queue of the session's lock                    *)
(*   sending    send_message: Codex runs the turn                          *)
(*   draining   the turn is over, the stream task delivers what is left    *)
(*   unwinding  in `finally`, awaiting the cancelled stream task           *)
(* The stream task exists exactly while a streaming execution is sending,  *)
(* draining or unwinding; what it delivers is the business of another      *)
(* module.                                                                 *)
(***************************************************************************)
EXTENDS SessionRuntime, Naturals, Sequences, FiniteSets, SequencesExt

CONSTANTS
    Calls,         \* the calls that may arrive
    OldThreads     \* the sessions Codex already has when the server starts

\* A call: who, in which conversation, on which task, bound to which session.
Call == [id : Identities, ctx : Contexts, task : Tasks,
         bound : Optional(Sessions), stream : BOOLEAN]

ASSUME CallsAssumption == Calls \subseteq Call /\ None \notin Calls
ASSUME OldThreadsAssumption == OldThreads \subseteq Sessions

VARIABLES
    pc, call,      \* where each execution is, and what it was called with
    session,       \* the session get_or_create_session returned to it
    claiming,      \* executions whose pending_preferred_claim is set
    joined,        \* the create task an execution awaits
    create,        \* state of the create task each execution may start
    created,       \* the session a create task returned
    threads,       \* the sessions that exist in Codex
    locked,        \* asyncio.Lock of each session: _locked ...
    waiters,       \* ... and _waiters, in arrival order
    woken,         \* executions whose wait the lock has resolved
    cancelled,     \* executions whose task was cancelled
    answer,        \* the final event an execution put on its queue
    canceledTasks, \* (task, context) pairs whose final event was "canceled"
    stolen         \* history: sessions whose lock one released without holding it

execVars == <<pc, call, session, claiming, joined, create, created, threads,
              locked, waiters, woken, cancelled, answer, canceledTasks, stolen>>
coreVars == <<runtimeVars, execVars>>

Suspended == {"creating", "waiting", "sending", "draining", "unwinding"}
Holding == {"sending", "draining", "unwinding"}

ExecTypeOK ==
    /\ pc \in [Requests -> Suspended \cup {"idle", "done"}]
    /\ call \in [Requests -> Optional(Calls)]
    /\ session \in [Requests -> Optional(Sessions)]
    /\ claiming \subseteq Requests
    /\ joined \in [Requests -> Optional(Requests)]
    /\ create \in [Requests -> {"none", "running", "ok", "failed", "cancelled"}]
    /\ created \in [Requests -> Optional(Sessions)]
    /\ threads \subseteq Sessions
    /\ locked \in [Sessions -> BOOLEAN]
    /\ waiters \in [Sessions -> Seq(Requests)]
    /\ woken \subseteq Requests
    /\ cancelled \subseteq Requests
    /\ answer \in [Requests -> {"none", "input_required", "failed"}]
    /\ canceledTasks \subseteq RunKeys
    /\ stolen \subseteq Sessions

ExecInit ==
    /\ pc = [r \in Requests |-> "idle"]
    /\ call = [r \in Requests |-> None]
    /\ session = [r \in Requests |-> None]
    /\ claiming = {}
    /\ joined = [r \in Requests |-> None]
    /\ create = [r \in Requests |-> "none"]
    /\ created = [r \in Requests |-> None]
    /\ threads = OldThreads
    /\ locked = [s \in Sessions |-> FALSE]
    /\ waiters = [s \in Sessions |-> <<>>]
    /\ woken = {}
    /\ cancelled = {}
    /\ answer = [r \in Requests |-> "none"]
    /\ canceledTasks = {}
    /\ stolen = {}

RunKey(r) == <<call[r].task, call[r].ctx>>
BindKey(r) == <<call[r].id, call[r].ctx>>

-----------------------------------------------------------------------------
(* The session lock.  Its wait futures: woken holds those resolved, those  *)
(* of a cancelled execution are cancelled unless they were resolved first. *)

\* Mutant: a newcomer ignores the queue.
LockIsFreeDespiteQueue(s) == ~locked[s]

LockIsFree(s) ==
    /\ ~locked[s]
    /\ \A i \in DOMAIN waiters[s] : waiters[s][i] \in cancelled \ woken

\* _wake_up_first
ToWake(q) == IF q # <<>> /\ Head(q) \notin cancelled THEN {Head(q)} ELSE {}

LocksUnchanged == UNCHANGED <<locked, waiters, woken, stolen>>

\* The session is known: take its lock and start the turn, or join the queue.
AcquireOrWait(r, s) ==
    /\ session' = [session EXCEPT ![r] = s]
    /\ IF LockIsFree(s)
       THEN /\ pc' = [pc EXCEPT ![r] = "sending"]
            /\ locked' = [locked EXCEPT ![s] = TRUE]
            /\ UNCHANGED waiters
       ELSE /\ pc' = [pc EXCEPT ![r] = "waiting"]
            /\ waiters' = [waiters EXCEPT ![s] = Append(@, r)]
            /\ UNCHANGED locked
    /\ UNCHANGED <<woken, stolen>>

\* Mutant: the lock is unlocked and nobody is woken.
ReleaseLockSilently(s) ==
    /\ locked' = [locked EXCEPT ![s] = FALSE]
    /\ UNCHANGED <<waiters, woken, stolen>>

\* `if session_lock and session_lock.locked(): session_lock.release()`
ReleaseLock(s) ==
    /\ locked' = [locked EXCEPT ![s] = FALSE]
    /\ woken' = IF locked[s] THEN woken \cup ToWake(waiters[s]) ELSE woken
    /\ UNCHANGED <<waiters, stolen>>

-----------------------------------------------------------------------------
(* Ways to end.                                                            *)

\* Mutant: an execution that ends before its turn stays registered.
EndUnlockedTracked(r, c, final) ==
    /\ pc' = [pc EXCEPT ![r] = "done"]
    /\ answer' = [answer EXCEPT ![r] = final]
    /\ UNCHANGED <<session, running>>
    /\ LocksUnchanged

\* Before there is a lock to release.
EndUnlocked(r, c, final) ==
    /\ pc' = [pc EXCEPT ![r] = "done"]
    /\ answer' = [answer EXCEPT ![r] = final]
    /\ Untrack(<<c.task, c.ctx>>)
    /\ UNCHANGED session
    /\ LocksUnchanged

\* Mutant: `finally` forgets the lock.
FinishLocked(r, final) ==
    /\ pc' = [pc EXCEPT ![r] = "done"]
    /\ answer' = [answer EXCEPT ![r] = final]
    /\ LocksUnchanged
    /\ Untrack(RunKey(r))

\* The end of `finally`.
Finish(r, final) ==
    /\ pc' = [pc EXCEPT ![r] = "done"]
    /\ answer' = [answer EXCEPT ![r] = final]
    /\ ReleaseLock(session[r])
    /\ Untrack(RunKey(r))

DropPendingClaim(r) ==
    /\ claiming' = claiming \ {r}
    /\ IF r \in claiming THEN ReleaseClaim(call[r].id, session[r])
                         ELSE UNCHANGED ownership

\* An exception or a cancellation while the lock is held: an error is answered
\* at once, a live stream task is awaited before the lock is released.
Abandon(r, final) ==
    /\ DropPendingClaim(r)
    /\ IF call[r].stream
       THEN /\ pc' = [pc EXCEPT ![r] = "unwinding"]
            /\ answer' = [answer EXCEPT ![r] = final]
            /\ LocksUnchanged
            /\ UNCHANGED running
       ELSE Finish(r, final)

-----------------------------------------------------------------------------
(* Arrival of a call: everything up to the first await that suspends.      *)

\* The SDK accepts no message for a task whose state is terminal.
TaskOpen(k) ==
    /\ k \notin canceledTasks
    /\ \A r \in Requests :
           call[r] # None /\ RunKey(r) = k => answer[r] # "failed"

Arrives(r, c) ==
    /\ pc[r] = "idle"
    /\ c.bound \in Optional(threads)
    /\ TaskOpen(<<c.task, c.ctx>>)
    /\ call' = [call EXCEPT ![r] = c]
    /\ UNCHANGED <<created, threads, cancelled, canceledTasks, forgotten>>

\* Missing ids, bad metadata or directory, no text: answered and not tracked.
Reject(r) ==
    /\ pc[r] = "idle"
    /\ pc' = [pc EXCEPT ![r] = "done"]
    /\ answer' = [answer EXCEPT ![r] = "failed"]
    /\ LocksUnchanged
    /\ UNCHANGED <<runtimeVars, call, session, claiming, joined, create, created,
                   threads, cancelled, canceledTasks>>

\* The caller names the session.
BeginBound(r) ==
    \E c \in Calls :
        /\ c.bound # None
        /\ Arrives(r, c)
        /\ \/ /\ ReusePreferred(c.id, c.ctx, c.bound)
              /\ AcquireOrWait(r, c.bound)
              /\ Track(<<c.task, c.ctx>>, r)
              /\ UNCHANGED <<claiming, answer>>
           \/ /\ ClaimSession(c.id, c.bound)
              /\ claiming' = claiming \cup {r}
              /\ AcquireOrWait(r, c.bound)
              /\ Track(<<c.task, c.ctx>>, r)
              /\ UNCHANGED answer
           \/ /\ ~Claimable(c.bound, c.id, pendingClaim[c.bound])
              /\ EndUnlocked(r, c, "failed")
              /\ UNCHANGED <<ownership, claiming>>
        /\ UNCHANGED <<inflight, joined, create>>

\* What awaiting the ended create task t gives: a session, which is bound and
\* owned, the session of someone else, its exception, or its cancellation, which
\* no handler on the way catches.  `table` is the table of running executions
\* when the execution goes on.
CreateResolved(r, c, t, table) ==
    /\ \/ /\ create[t] = "ok"
          /\ BindCreated(c.id, c.ctx, created[t])
          /\ ForgetCreate(<<c.id, c.ctx>>, t)
          /\ AcquireOrWait(r, created[t])
          /\ running' = table
          /\ UNCHANGED answer
       \/ /\ create[t] = "ok"
          /\ ~Claimable(created[t], c.id, None)
          /\ EndUnlocked(r, c, "failed")
          /\ UNCHANGED <<ownership, inflight>>
       \/ /\ create[t] = "failed"
          /\ ForgetCreate(<<c.id, c.ctx>>, t)
          /\ EndUnlocked(r, c, "failed")
          /\ UNCHANGED ownership
       \/ /\ create[t] = "cancelled"
          /\ EndUnlocked(r, c, "none")
          /\ UNCHANGED <<ownership, inflight>>
    /\ UNCHANGED <<claiming, joined, create>>

\* No session named: the bound one, the one being created, or a new one.
BeginUnbound(r) ==
    \E c \in Calls :
        LET b == <<c.id, c.ctx>>
            k == <<c.task, c.ctx>>
            t == inflight[b]
            Await(task) == /\ joined' = [joined EXCEPT ![r] = task]
                           /\ pc' = [pc EXCEPT ![r] = "creating"]
                           /\ Track(k, r)
                           /\ LocksUnchanged
                           /\ UNCHANGED <<ownership, session, claiming, answer>>
        IN  /\ c.bound = None
            /\ Arrives(r, c)
            /\ \/ /\ binding[b] # None
                  /\ AcquireOrWait(r, binding[b])
                  /\ Track(k, r)
                  /\ UNCHANGED <<ownership, inflight, claiming, joined, create, answer>>
               \/ /\ binding[b] = None
                  /\ t = None
                  /\ create' = [create EXCEPT ![r] = "running"]
                  /\ inflight' = [inflight EXCEPT ![b] = r]
                  /\ Await(r)
               \/ /\ binding[b] = None
                  /\ t # None
                  /\ create[t] = "running"
                  /\ Await(t)
                  /\ UNCHANGED <<inflight, create>>
               \/ /\ binding[b] = None
                  /\ t # None
                  /\ CreateResolved(r, c, t, [running EXCEPT ![k] = r])

-----------------------------------------------------------------------------
(* The create task.                                                        *)

CreateReturns(t) ==
    /\ create[t] = "running"
    /\ \E s \in Sessions \ threads :
           /\ threads' = threads \cup {s}
           /\ created' = [created EXCEPT ![t] = s]
    /\ create' = [create EXCEPT ![t] = "ok"]
    /\ LocksUnchanged
    /\ UNCHANGED <<runtimeVars, pc, call, session, claiming, joined, cancelled, answer,
                   canceledTasks>>

CreateFails(t) ==
    /\ create[t] = "running"
    /\ create' = [create EXCEPT ![t] = "failed"]
    /\ LocksUnchanged
    /\ UNCHANGED <<runtimeVars, pc, call, session, claiming, joined, created, threads,
                   cancelled, answer, canceledTasks>>

ResumeCreate(r) ==
    /\ pc[r] = "creating"
    /\ r \notin cancelled
    /\ CreateResolved(r, call[r], joined[r], running)
    /\ UNCHANGED <<call, created, threads, cancelled, canceledTasks, forgotten>>

\* Cancelled: `except Exception` does not see it, the create task stays in inflight.
AbortCreate(r) ==
    /\ pc[r] = "creating"
    /\ r \in cancelled
    /\ EndUnlocked(r, call[r], "none")
    /\ UNCHANGED <<ownership, inflight, forgotten, call, claiming, joined, create, created,
                   threads, cancelled, canceledTasks>>

-----------------------------------------------------------------------------
(* The turn.                                                               *)

registryRest == <<inflight, forgotten, call, session, joined, create, created, threads,
                  cancelled, canceledTasks>>

WakeUp(r) ==
    LET s == session[r] IN
    /\ pc[r] = "waiting"
    /\ r \in woken \ cancelled
    /\ waiters' = [waiters EXCEPT ![s] = RemoveFirst(@, r)]
    /\ woken' = woken \ {r}
    /\ locked' = [locked EXCEPT ![s] = TRUE]
    /\ pc' = [pc EXCEPT ![r] = "sending"]
    /\ UNCHANGED <<registryRest, ownership, running, claiming, answer, stolen>>

\* Mutant: a cancelled waiter releases nothing and keeps the wake-up it was given.
LeaveQueueWithWakeup(r) ==
    LET s == session[r] IN
    /\ pc[r] = "waiting"
    /\ r \in cancelled
    /\ waiters' = [waiters EXCEPT ![s] = RemoveFirst(@, r)]
    /\ woken' = woken \ {r}
    /\ pc' = [pc EXCEPT ![r] = "done"]
    /\ DropPendingClaim(r)
    /\ Untrack(RunKey(r))
    /\ UNCHANGED <<registryRest, answer, locked, stolen>>

\* A waiter is cancelled.  The lock's own handler passes an unused wake-up on;
\* `finally` then releases the lock if it is locked, whoever holds it.
LeaveQueue(r) ==
    LET s == session[r]
        rest == RemoveFirst(waiters[s], r)
    IN  /\ pc[r] = "waiting"
        /\ r \in cancelled
        /\ waiters' = [waiters EXCEPT ![s] = rest]
        /\ locked' = [locked EXCEPT ![s] = FALSE]
        /\ woken' = (woken \ {r}) \cup ToWake(rest)
        /\ stolen' = IF locked[s] THEN stolen \cup {s} ELSE stolen
        /\ pc' = [pc EXCEPT ![r] = "done"]
        /\ DropPendingClaim(r)
        /\ Untrack(RunKey(r))
        /\ UNCHANGED <<registryRest, answer>>

SendReturns(r) ==
    /\ pc[r] = "sending"
    /\ r \notin cancelled
    /\ claiming' = claiming \ {r}
    /\ IF r \in claiming
       THEN FinalizePreferredBinding(call[r].id, call[r].ctx, session[r])
       ELSE UNCHANGED ownership
    /\ IF call[r].stream
       THEN /\ pc' = [pc EXCEPT ![r] = "draining"]
            /\ LocksUnchanged
            /\ UNCHANGED <<answer, running>>
       ELSE Finish(r, "input_required")
    /\ UNCHANGED registryRest

\* The turn was run, and then the session turned out to be someone else's.
FinalizeRefused(r) ==
    /\ pc[r] = "sending"
    /\ r \in claiming \ cancelled
    /\ ~Claimable(session[r], call[r].id, pendingClaim[session[r]])
    /\ Abandon(r, "failed")
    /\ UNCHANGED registryRest

SendFails(r) ==
    /\ pc[r] = "sending"
    /\ r \notin cancelled
    /\ Abandon(r, "failed")
    /\ UNCHANGED registryRest

\* Mutant: the cancellation is handled like an error.
AbortSendAsFailure(r) ==
    /\ pc[r] = "sending"
    /\ r \in cancelled
    /\ Abandon(r, "failed")
    /\ UNCHANGED registryRest

AbortSend(r) ==
    /\ pc[r] = "sending"
    /\ r \in cancelled
    /\ Abandon(r, "none")
    /\ UNCHANGED registryRest

\* The stream task has delivered the rest.  An execution cancelled meanwhile says nothing,
\* unless the stream task was closing: it suppresses the cancellation that is handed on to it,
\* and the execution goes on as if there had been none.
Drained(r) ==
    /\ pc[r] = "draining"
    /\ \E final \in {"input_required", "none"} :
           /\ final = "none" => r \in cancelled
           /\ Finish(r, final)
    /\ UNCHANGED <<registryRest, ownership, claiming>>

\* `with suppress(CancelledError)`: a second cancellation changes nothing.
Unwound(r) ==
    /\ pc[r] = "unwinding"
    /\ Finish(r, answer[r])
    /\ UNCHANGED <<registryRest, ownership, claiming>>

-----------------------------------------------------------------------------
(* Cancellation.                                                           *)

\* asyncio: cancelling a task cancels what it awaits, here the shared create task.
AwaitedCreate(r) == IF pc[r] = "creating" THEN {joined[r]} ELSE {}

AbortCreates(ts) ==
    create' = [t \in Requests |-> IF t \in ts /\ create[t] = "running"
                                  THEN "cancelled" ELSE create[t]]

\* Mutant: the registered execution is cancelled without looking whether there is one.
CancelTaskUnchecked(k, i) ==
    LET r == running[k]
        b == <<IF r = None THEN i ELSE call[r].id, k[2]>>
    IN  /\ \E x \in Requests : call[x] # None /\ RunKey(x) = k
        /\ TaskOpen(k)
        /\ canceledTasks' = canceledTasks \cup {k}
        /\ binding' = [binding EXCEPT ![b] = None]
        /\ inflight' = [inflight EXCEPT ![b] = None]
        /\ cancelled' = cancelled \cup {r}
        /\ AbortCreates({inflight[b]} \cup (IF r = None THEN {} ELSE AwaitedCreate(r)))
        /\ LocksUnchanged
        /\ UNCHANGED <<sessionOwner, pendingClaim, running, forgotten, pc, call, session,
                       claiming, joined, created, threads, answer>>

\* tasks/cancel by identity i: "canceled" is emitted, then the conversation's
\* binding and create task are dropped and the registered execution is cancelled.
CancelTask(k, i) ==
    LET r == running[k]
        b == <<IF r = None THEN i ELSE call[r].id, k[2]>>
    IN  /\ \E x \in Requests : call[x] # None /\ RunKey(x) = k
        /\ TaskOpen(k)
        /\ canceledTasks' = canceledTasks \cup {k}
        /\ binding' = [binding EXCEPT ![b] = None]
        /\ inflight' = [inflight EXCEPT ![b] = None]
        /\ cancelled' = cancelled \cup ({r} \ {None})
        /\ AbortCreates({inflight[b]} \cup (IF r = None THEN {} ELSE AwaitedCreate(r)))
        /\ LocksUnchanged
        /\ UNCHANGED <<sessionOwner, pendingClaim, running, forgotten, pc, call, session,
                       claiming, joined, created, threads, answer>>

\* The client of a streaming request goes away: the producer task is cancelled.
Disconnect(r) ==
    /\ pc[r] \in Suspended
    /\ call[r].stream
    /\ r \notin cancelled
    /\ cancelled' = cancelled \cup {r}
    /\ AbortCreates(AwaitedCreate(r))
    /\ LocksUnchanged
    /\ UNCHANGED <<runtimeVars, pc, call, session, claiming, joined, created, threads,
                   answer, canceledTasks>>

-----------------------------------------------------------------------------
Arrival(r) == Reject(r) \/ BeginBound(r) \/ BeginUnbound(r)

Creation(t) == CreateReturns(t) \/ CreateFails(t)

\* What an execution does once it is resumed.
Resumption(r) ==
    \/ ResumeCreate(r) \/ AbortCreate(r)
    \/ WakeUp(r) \/ LeaveQueue(r)
    \/ Drained(r) \/ Unwound(r)

\* How the turn in Codex ends.
Turn(r) == SendReturns(r) \/ FinalizeRefused(r) \/ SendFails(r) \/ AbortSend(r)
=============================================================================
