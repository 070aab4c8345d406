------------------------------- MODULE System -------------------------------
(***************************************************************************)
(* The adapter's core: executions (Executor) and session control requests  *)
(* (SessionControl) over the shared registry (SessionRuntime), and what    *)
(* must be true of them together.                                          *)
(***************************************************************************)
EXTENDS Executor, SessionControl

vars == <<runtimeVars, execVars, ctlVars>>

Init == RuntimeInit /\ ExecInit /\ CtlInit

CallArrives(r) == Arrival(r) /\ UNCHANGED ctlVars
CreateEnds(r) == Creation(r) /\ UNCHANGED ctlVars
ExecutionResumes(r) == Resumption(r) /\ UNCHANGED ctlVars
TurnEnds(r) == Turn(r) /\ UNCHANGED ctlVars
TaskCancelled(k, i) == CancelTask(k, i) /\ UNCHANGED ctlVars
ClientDisconnects(r) == Disconnect(r) /\ UNCHANGED ctlVars
ControlArrives(d) ==
    /\ \E i \in Optional(Identities), s \in threads : CtlClaim(d, i, s)
    /\ UNCHANGED execVars
ControlEnds(d) == CtlEnd(d) /\ UNCHANGED execVars
CacheLoses == CacheLoss /\ UNCHANGED <<execVars, ctlVars>>

Next ==
    \/ \E r \in Requests :
           \/ CallArrives(r) \/ CreateEnds(r) \/ ExecutionResumes(r)
           \/ TurnEnds(r) \/ ClientDisconnects(r)
    \/ \E k \in RunKeys, i \in Identities : TaskCancelled(k, i)
    \/ \E d \in Controls : ControlArrives(d) \/ ControlEnds(d)
    \/ CacheLoses

Spec == Init /\ [][Next]_vars

\* asyncio runs every task that can run, and Codex ends every turn and every
\* thread/start one way or another.  Arrivals, cancellations and cache losses are free.
Fairness ==
    /\ \A r \in Requests : /\ WF_vars(CreateEnds(r))
                           /\ WF_vars(ExecutionResumes(r))
                           /\ WF_vars(TurnEnds(r))
    /\ \A d \in Controls : WF_vars(ControlEnds(d))

FairSpec == Spec /\ Fairness

-----------------------------------------------------------------------------
TypeOK == RuntimeTypeOK /\ ExecTypeOK /\ CtlTypeOK

Holders(s) == {r \in Requests : pc[r] \in Holding /\ session[r] = s}
Queued(s) == {r \in Requests : pc[r] = "waiting" /\ session[r] = s}

Turns == INSTANCE TurnQueue WITH
    queued <- [s \in Sessions |-> Queued(s)],
    turns <- [s \in Sessions |-> Holders(s)]

\* The executions, their locks and their wait queues implement the queue of turns
\* that TurnQueue promises.
TurnsAreQueued == Turns!Spec

\* Turns of one session are serialized, except in a session whose lock a cancelled
\* waiter released under its holder: until then the lock is locked exactly while one
\* execution holds it (execute's acquire/release around send_message).
SerializedUnlessStolen ==
    \A s \in Sessions \ stolen :
        /\ locked[s] <=> Holders(s) # {}
        /\ \A r, q \in Holders(s) : r = q

\* Even after such a theft no lock stays locked with nobody left to release it.
LockedHasHolder == \A s \in Sessions : locked[s] => Holders(s) # {}

\* No wake-up is lost: a session whose lock is free while executions wait for it has
\* one among them that will run, resolved by the lock or being cancelled.
NoLostWakeup ==
    \A s \in Sessions :
        ~locked[s] /\ Queued(s) # {} => \E r \in Queued(s) : r \in woken \cup cancelled

\* The wait queue of a session's lock holds exactly the executions that wait for the
\* session, once each, and a wake-up goes to the head of the queue of a free lock: it is
\* neither given twice nor overtaken by a newcomer (asyncio.Lock as execute uses it).
QueuesAreExact ==
    /\ \A s \in Sessions : IsInjective(waiters[s]) /\ ToSet(waiters[s]) = Queued(s)
    /\ \A r \in woken : /\ pc[r] = "waiting"
                        /\ ~locked[session[r]]
                        /\ Head(waiters[session[r]]) = r

\* What executions and control requests carry fits where they are: the part of the
\* inductive invariant that says so of execute's local variables.
CoherentExecution(r) ==
    /\ pc[r] = "idle" => call[r] = None /\ create[r] = "none" /\ r \notin cancelled
    /\ pc[r] \in Suspended => call[r] \in Calls
    /\ pc[r] = "creating" => joined[r] \in Requests
    /\ pc[r] \in {"waiting"} \cup Holding => session[r] \in Sessions
    /\ pc[r] \notin {"unwinding", "done"} => answer[r] = "none"
    /\ create[r] = "ok" => created[r] \in Sessions
    /\ create[r] # "none" => call[r] \in Calls
    /\ r \in claiming => pc[r] \in {"waiting", "sending"}

CoherentControl(d) ==
    /\ ctlPc[d] = "calling" => ctlSession[d] \in Sessions
    /\ d \in ctlClaiming => ctlPc[d] = "calling" /\ ctlBy[d] \in Identities

Coherent ==
    /\ \A r \in Requests : CoherentExecution(r)
    /\ \A d \in Controls : CoherentControl(d)

\* Session creation is single-flight per conversation: a running create task is the one
\* registered for its conversation (get_or_create_session, cancel_running_request).
SingleFlightCreate ==
    \A t \in Requests : create[t] = "running" => inflight[BindKey(t)] = t

\* A conversation is bound only to a session of its caller, as long as the owner entry
\* of that session has not been lost to expiry or eviction.
BoundIsOwned ==
    \A i \in Identities, c \in Contexts :
        \A s \in Sessions \ forgotten : binding[<<i, c>>] = s => sessionOwner[s] = i

\* A turn runs in a session of its caller or in one its execution is claiming.
TurnIsAuthorised ==
    \A r \in Requests :
        pc[r] \in Holding /\ session[r] \notin forgotten
            => \/ sessionOwner[session[r]] = call[r].id
               \/ r \in claiming
               \/ pc[r] = "unwinding"

\* No claim is left behind: somebody of that identity is still going to finalize or
\* release it.  A leftover would lock every other caller out of the session.
ClaimHasClaimant ==
    \A s \in Sessions :
        pendingClaim[s] # None =>
            \/ \E r \in claiming : session[r] = s /\ call[r].id = pendingClaim[s]
            \/ \E d \in ctlClaiming : ctlSession[d] = s /\ ctlBy[d] = pendingClaim[s]

\* What is registered as running runs, under the key it is registered with; and an
\* execution is out of tasks/cancel's reach only if another one took its key.
TrackingIsAccurate ==
    /\ \A k \in RunKeys :
           running[k] # None => pc[running[k]] \in Suspended /\ RunKey(running[k]) = k
    /\ \A r \in Requests :
           pc[r] \in Suspended /\ running[RunKey(r)] # r =>
               \E q \in Requests \ {r} : call[q] # None /\ RunKey(q) = RunKey(r)

\* Ownership is never handed over: an owner is replaced only after its entry was lost.
OwnerNeverReplaced ==
    [][\A s \in Sessions :
           sessionOwner[s] # None => sessionOwner'[s] \in {sessionOwner[s], None}]_vars

\* Once an execution's task is cancelled it starts no turn, even if the lock has already been
\* handed to it, and no turn of it completes.  The one final event it may still put on its
\* queue completes a turn that was over before and whose stream was draining; a failure it
\* never reports (acquire, send_message, `await stream_task` and `except Exception`).
StopsWhenCancelled ==
    [][\A r \in cancelled :
           /\ pc'[r] \in {"sending", "draining"} => pc'[r] = pc[r]
           /\ answer'[r] # answer[r] => pc[r] = "draining" /\ answer'[r] = "input_required"]_vars

-----------------------------------------------------------------------------
\* Every accepted call ends, however executions and cancellations interleave, if Codex
\* ends every turn.
EveryExecutionEnds ==
    \A r \in Requests : pc[r] \in Suspended ~> pc[r] = "done"

-----------------------------------------------------------------------------
(* What the repository says and the code does not do.                      *)

\* tests/execution/test_streaming_output_contract.py asserts that the turns of one
\* session are serialized: max_in_flight_send == 1.
OneTurnPerSession ==
    \A s \in Sessions : Cardinality({r \in Holders(s) : pc[r] = "sending"}) <= 1

\* docs/guide.md: on internal errors the service attempts to return standard failure
\* events.  An execution nobody cancelled must not end without a final event.
AnsweredUnlessCancelled ==
    \A r \in Requests : pc[r] = "done" /\ answer[r] = "none" => r \in cancelled

\* tests/execution/test_session_ownership.py: a pending claim blocks other identities,
\* until its turn has ended.
ClaimHeldUntilFinalized ==
    \A r \in claiming :
        \A j \in Identities \ {call[r].id} :
            ~Claimable(session[r], j, pendingClaim[session[r]])
=============================================================================
