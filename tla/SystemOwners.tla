---------------------------- MODULE SystemOwners ----------------------------
(***************************************************************************)
(* The proofs about ownership: who may be bound to a session, who may run  *)
(* a turn in it, and that nobody takes a session over; and about what      *)
(* requests leave behind: claims, creations in flight, and the final event *)
(* of a cancelled execution.                                               *)
(***************************************************************************)
EXTENDS SystemTypes

-----------------------------------------------------------------------------
(* What a step does to the owners and bindings.                            *)

BindingOp(i, c, s) ==
    ReusePreferred(i, c, s) \/ BindCreated(i, c, s) \/ FinalizePreferredBinding(i, c, s)

ClaimOp(i, s) == ClaimSession(i, s) \/ FinalizeSessionClaim(i, s) \/ ReleaseClaim(i, s)

OwnerStep ==
    \/ /\ UNCHANGED forgotten
       /\ \/ UNCHANGED ownership
          \/ \E i \in Identities, c \in Contexts, s \in Sessions : BindingOp(i, c, s)
          \/ \E i \in Identities, s \in Sessions : ClaimOp(i, s)
          \/ /\ \E b \in BindingKeys : binding' = [binding EXCEPT ![b] = None]
             /\ UNCHANGED <<sessionOwner, pendingClaim>>
    \/ OwnerLost

\* An awaited create task changes the registry only by binding the created session.
LEMMA CreateResolvedOwners ==
    ASSUME IInv, NEW r \in Requests, NEW c \in Calls, NEW t \in Requests, NEW table,
           CreateResolved(r, c, t, table)
    PROVE  \/ UNCHANGED ownership
           \/ created[t] \in Sessions /\ BindCreated(c.id, c.ctx, created[t])
  BY DEF CreateResolved, IInv, Coherent, CoherentExecution

\* What an arriving call does to the registry.
LEMMA ArrivalOwners ==
    ASSUME IInv, NEW r \in Requests, Arrival(r)
    PROVE  OwnerStep
  <1>1. CASE Reject(r)
    BY <1>1 DEF Reject, runtimeVars, ownership, OwnerStep
  <1>2. CASE BeginBound(r)
    <2>1. PICK c \in Calls :
              /\ c.bound # None
              /\ UNCHANGED forgotten
              /\ \/ ReusePreferred(c.id, c.ctx, c.bound)
                 \/ ClaimSession(c.id, c.bound)
                 \/ UNCHANGED ownership
      BY <1>2 DEF BeginBound, Arrives
    <2>2. c.id \in Identities /\ c.ctx \in Contexts /\ c.bound \in Sessions
      BY <2>1, CallFields DEF Optional
    <2> QED
      BY <2>1, <2>2 DEF OwnerStep, BindingOp, ClaimOp
  <1>3. CASE BeginUnbound(r)
    <2>1. PICK c \in Calls :
              /\ UNCHANGED forgotten
              /\ \/ UNCHANGED ownership
                 \/ /\ inflight[<<c.id, c.ctx>>] # None
                    /\ CreateResolved(r, c, inflight[<<c.id, c.ctx>>],
                                      [running EXCEPT ![<<c.task, c.ctx>>] = r])
      BY <1>3 DEF BeginUnbound, Arrives
    <2>2. /\ c.id \in Identities /\ c.ctx \in Contexts
          /\ inflight[<<c.id, c.ctx>>] \in Optional(Requests)
      BY CallFields DEF IInv, TypeOK, RuntimeTypeOK
    <2>3. \/ UNCHANGED ownership
          \/ \E s \in Sessions : BindCreated(c.id, c.ctx, s)
      BY <2>1, <2>2, CreateResolvedOwners DEF Optional
    <2> QED
      BY <2>1, <2>2, <2>3 DEF OwnerStep, BindingOp, ClaimOp
  <1> QED
    BY <1>1, <1>2, <1>3 DEF Arrival

\* What a resumed execution or the end of a turn does to the registry.
LEMMA ResumptionOwners ==
    ASSUME IInv, NEW r \in Requests, Resumption(r) \/ Turn(r)
    PROVE  OwnerStep
  <1>1. /\ UNCHANGED forgotten /\ pc[r] \in Suspended
        /\ \/ UNCHANGED ownership
           \/ joined[r] \in Requests /\ CreateResolved(r, call[r], joined[r], running)
           \/ session[r] \in Sessions /\ ReleaseClaim(call[r].id, session[r])
           \/ session[r] \in Sessions
              /\ FinalizePreferredBinding(call[r].id, call[r].ctx, session[r])
    BY DEF Resumption, ResumeCreate, AbortCreate, WakeUp, LeaveQueue, Drained, Unwound, Turn,
       SendReturns, FinalizeRefused, SendFails, AbortSend, Abandon, DropPendingClaim, registryRest,
       IInv, Coherent, CoherentExecution, Suspended, Holding
  <1>2. call[r] \in Calls /\ call[r].id \in Identities /\ call[r].ctx \in Contexts
    BY <1>1, CallFields DEF IInv, Coherent, CoherentExecution
  <1>3. \/ UNCHANGED ownership
        \/ \E s \in Sessions : \/ BindingOp(call[r].id, call[r].ctx, s)
                              \/ ClaimOp(call[r].id, s)
    BY <1>1, <1>2, CreateResolvedOwners DEF BindingOp, ClaimOp
  <1> QED
    BY <1>1, <1>2, <1>3 DEF OwnerStep

\* What a session control request does to the registry.
LEMMA ControlOwners ==
    ASSUME IInv, NEW d \in Controls, ControlArrives(d) \/ ControlEnds(d)
    PROVE  OwnerStep
  <1>1. ASSUME NEW i \in Optional(Identities), NEW s \in Sessions, CtlClaim(d, i, s)
        PROVE  /\ UNCHANGED forgotten
               /\ \/ UNCHANGED ownership
                  \/ i \in Identities /\ ClaimOp(i, s)
    BY <1>1 DEF CtlClaim, Optional, registryFrame, ClaimOp
  <1>2. ASSUME CtlEnd(d)
        PROVE  /\ UNCHANGED forgotten
               /\ \/ UNCHANGED ownership
                  \/ /\ ctlBy[d] \in Identities /\ ctlSession[d] \in Sessions
                     /\ ClaimOp(ctlBy[d], ctlSession[d])
    BY <1>2 DEF CtlEnd, CtlReturns, CtlFinalizeRefused, CtlFails, CtlGiveUp, registryFrame,
       IInv, Coherent, CoherentControl, ClaimOp
  <1>3. threads \subseteq Sessions
    BY DEF IInv, TypeOK, ExecTypeOK
  <1>4. CASE ControlArrives(d)
    BY <1>1, <1>3, <1>4 DEF ControlArrives, OwnerStep
  <1>5. CASE ControlEnds(d)
    BY <1>2, <1>5 DEF ControlEnds, OwnerStep
  <1> QED
    BY <1>4, <1>5

\* Every step changes owners and bindings by one method of the registry or by a loss.
LEMMA NextOwners ==
    ASSUME IInv, [Next]_vars
    PROVE  OwnerStep
  <1>1. ASSUME NEW r \in Requests, CallArrives(r) \/ ExecutionResumes(r) \/ TurnEnds(r)
        PROVE  OwnerStep
    BY <1>1, ArrivalOwners, ResumptionOwners DEF CallArrives, ExecutionResumes, TurnEnds
  <1>2. ASSUME NEW r \in Requests, CreateEnds(r) \/ ClientDisconnects(r)
        PROVE  OwnerStep
    BY <1>2 DEF CreateEnds, Creation, CreateReturns, CreateFails, ClientDisconnects, Disconnect,
       runtimeVars, ownership, OwnerStep
  <1>3. ASSUME NEW k \in RunKeys, NEW i \in Identities, TaskCancelled(k, i)
        PROVE  OwnerStep
    <2> DEFINE b == <<IF running[k] = None THEN i ELSE call[running[k]].id, k[2]>>
    <2>1. b \in BindingKeys
      <3>1. k[2] \in Contexts
        BY DEF RunKeys
      <3>2. running[k] # None => call[running[k]].id \in Identities
        BY CallFields
           DEF IInv, TypeOK, RuntimeTypeOK, Coherent, CoherentExecution, TrackingIsAccurate,
               Optional
      <3> QED
        BY <3>1, <3>2 DEF BindingKeys
    <2>2. binding' = [binding EXCEPT ![b] = None]
          /\ UNCHANGED <<sessionOwner, pendingClaim, forgotten>>
      BY <1>3 DEF TaskCancelled, CancelTask
    <2> HIDE DEF b
    <2> QED
      BY <2>1, <2>2 DEF OwnerStep
  <1>4. CASE CacheLoses
    BY <1>4 DEF CacheLoses, CacheLoss, BindingLost, OwnerStep
  <1>5. CASE UNCHANGED vars
    BY <1>5 DEF vars, runtimeVars, ownership, OwnerStep
  <1> QED
    BY <1>1, <1>2, <1>3, <1>4, <1>5, ControlOwners DEF Next

-----------------------------------------------------------------------------
(* Ownership.                                                              *)

\* Every path that writes an owner first asserts that the session is claimable.
LEMMA OwnerKept ==
    ASSUME IInv, OwnerStep
    PROVE  \A s \in Sessions :
               sessionOwner[s] # None =>
                   \/ sessionOwner'[s] = sessionOwner[s]
                   \/ sessionOwner'[s] = None /\ s \in forgotten'
  BY DEF OwnerStep, BindingOp, ClaimOp, OwnerLost, ReusePreferred, ClaimSession, BindCreated,
     FinalizePreferredBinding, FinalizeSessionClaim, ReleaseClaim, Claimable, ownership,
     IInv, TypeOK, RuntimeTypeOK

\* No such change binds a conversation to the session of another identity.
LEMMA BoundIsOwnedStep ==
    ASSUME IInv, BoundIsOwned, OwnerStep
    PROVE  BoundIsOwned'
  <1>1. /\ binding \in [BindingKeys -> Optional(Sessions)]
        /\ sessionOwner \in [Sessions -> Optional(Identities)]
        /\ None \notin Identities /\ None \notin Sessions /\ forgotten \subseteq forgotten'
    BY NoneAssumption DEF IInv, TypeOK, RuntimeTypeOK, OwnerStep, OwnerLost
  <1>2. ASSUME NEW i \in Identities, NEW c \in Contexts, NEW s \in Sessions \ forgotten',
               binding'[<<i, c>>] = s
        PROVE  sessionOwner'[s] = i
    <2>1. CASE binding[<<i, c>>] = s
      <3>1. sessionOwner[s] = i /\ i # None
        BY <1>1, <2>1 DEF BoundIsOwned
      <3> QED
        BY <3>1, OwnerKept
    <2>2. CASE binding[<<i, c>>] # s
      <3>1. BindingOp(i, c, s)
        BY <1>1, <1>2, <2>2
           DEF OwnerStep, BindingOp, ClaimOp, OwnerLost, ownership, ClaimSession,
               FinalizeSessionClaim, ReleaseClaim, ReusePreferred, BindCreated,
               FinalizePreferredBinding, BindingKeys, Optional
      <3> QED
        BY <1>1, <3>1 DEF BindingOp, ReusePreferred, BindCreated, FinalizePreferredBinding
    <2> QED
      BY <2>1, <2>2
  <1> QED
    BY <1>2 DEF BoundIsOwned

\* An owner is never replaced by another identity: only the loss of its entry ends an
\* ownership, in every behaviour of executions, control requests and cancellations.
THEOREM SpecOwnerNeverReplaced == Spec => OwnerNeverReplaced
  <1>1. IInv /\ [Next]_vars =>
            \A s \in Sessions :
                sessionOwner[s] # None => sessionOwner'[s] \in {sessionOwner[s], None}
    BY NextOwners, OwnerKept
  <1> QED
    BY <1>1, SpecIInv, PTL DEF Spec, OwnerNeverReplaced

\* A conversation is bound only to sessions its caller owns, unless an owner entry was lost.
THEOREM SpecBoundIsOwned == Spec => []BoundIsOwned
  <1>1. Init => BoundIsOwned
    BY NoneAssumption DEF Init, RuntimeInit, BoundIsOwned, BindingKeys
  <1>2. IInv /\ BoundIsOwned /\ [Next]_vars => BoundIsOwned'
    BY NextOwners, BoundIsOwnedStep
  <1> QED
    BY <1>1, <1>2, SpecIInv, PTL DEF Spec

-----------------------------------------------------------------------------
(* Who may take a turn.                                                    *)

\* One execution moves, with its own session, call and claim.
Moves(r) ==
    /\ \E place : pc' = [pc EXCEPT ![r] = place]
    /\ session' = session \/ \E s : session' = [session EXCEPT ![r] = s]
    /\ call' = call \/ \E c : call' = [call EXCEPT ![r] = c]
    /\ claiming' \in {claiming, claiming \cup {r}, claiming \ {r}}

\* Where an execution can be after its create task, and with what session.
LEMMA CreateResolvedMoves ==
    ASSUME NEW r, NEW c, NEW t, NEW table, CreateResolved(r, c, t, table)
    PROVE  /\ \E place : pc' = [pc EXCEPT ![r] = place]
           /\ session' = session \/ \E s : session' = [session EXCEPT ![r] = s]
           /\ UNCHANGED claiming
  BY DEF CreateResolved, AcquireOrWait, EndUnlocked

\* An arriving call moves one execution only.
LEMMA ArrivalMoves ==
    ASSUME NEW r \in Requests, Arrival(r)
    PROVE  Moves(r)
  <1>1. CASE Reject(r)
    BY <1>1 DEF Reject, Moves
  <1>2. CASE BeginBound(r)
    BY <1>2 DEF BeginBound, Arrives, AcquireOrWait, EndUnlocked, Moves
  <1>3. CASE BeginUnbound(r)
    BY <1>3, CreateResolvedMoves DEF BeginUnbound, Arrives, AcquireOrWait, Moves
  <1> QED
    BY <1>1, <1>2, <1>3 DEF Arrival

\* A resumed execution moves only itself.
LEMMA ResumptionMoves ==
    ASSUME NEW r \in Requests, Resumption(r)
    PROVE  Moves(r)
  <1>1. CASE ResumeCreate(r)
    BY <1>1, CreateResolvedMoves DEF ResumeCreate, Moves
  <1>2. CASE AbortCreate(r)
    BY <1>2 DEF AbortCreate, EndUnlocked, Moves
  <1>3. CASE WakeUp(r) \/ LeaveQueue(r)
    BY <1>3 DEF WakeUp, LeaveQueue, DropPendingClaim, registryRest, Moves
  <1>4. CASE Drained(r) \/ Unwound(r)
    BY <1>4 DEF Drained, Unwound, Finish, registryRest, Moves
  <1> QED
    BY <1>1, <1>2, <1>3, <1>4 DEF Resumption

\* The end of a turn moves only its execution.
LEMMA TurnMoves ==
    ASSUME NEW r \in Requests, Turn(r)
    PROVE  Moves(r)
  <1>1. UNCHANGED <<call, session>> /\ claiming' = claiming \ {r}
    BY DEF Turn, SendReturns, FinalizeRefused, SendFails, AbortSend, Abandon, DropPendingClaim,
       registryRest
  <1>2. \E place : pc' = [pc EXCEPT ![r] = place]
    BY DEF Turn, SendReturns, FinalizeRefused, SendFails, AbortSend, Abandon, Finish
  <1> QED
    BY <1>1, <1>2 DEF Moves

\* Every other step leaves the executions where they are.
LEMMA OthersRest ==
    ASSUME [Next]_vars,
           ~ \E r \in Requests : CallArrives(r) \/ ExecutionResumes(r) \/ TurnEnds(r)
    PROVE  UNCHANGED <<pc, session, call, claiming, answer>>
  BY DEF Next, vars, CreateEnds, Creation, CreateReturns, CreateFails, ClientDisconnects,
     Disconnect, TaskCancelled, CancelTask, ControlArrives, ControlEnds, CacheLoses, execVars

Authorised(r) ==
    pc[r] \in {"waiting", "sending", "draining"} /\ session[r] \notin forgotten =>
        sessionOwner[session[r]] = call[r].id \/ r \in claiming

AuthInv == BoundIsOwned /\ \A r \in Requests : Authorised(r)

\* Whoever rests keeps her right to the session.
LEMMA AuthorisedKept ==
    ASSUME IInv, OwnerStep, NEW q \in Requests, Authorised(q),
           pc'[q] = pc[q], session'[q] = session[q], call'[q] = call[q],
           q \in claiming' <=> q \in claiming
    PROVE  Authorised(q)'
  <1>1. forgotten \subseteq forgotten'
    BY DEF OwnerStep, OwnerLost
  <1>2. SUFFICES ASSUME pc[q] \in {"waiting", "sending", "draining"}, session[q] \notin forgotten',
                        q \notin claiming
                 PROVE  sessionOwner'[session[q]] = call[q].id
    BY DEF Authorised
  <1>3. session[q] \in Sessions /\ call[q] \in Calls
    BY <1>2 DEF IInv, Coherent, CoherentExecution, Suspended, Holding
  <1>4. sessionOwner[session[q]] = call[q].id /\ call[q].id # None
    BY <1>1, <1>2, <1>3, CallFields, NoneAssumption DEF Authorised
  <1> QED
    BY <1>2, <1>3, <1>4, OwnerKept

\* An execution that gets the lock at once is authorised.
LEMMA ArrivalAuthorised ==
    ASSUME IInv, AuthInv, NEW r \in Requests, Arrival(r)
    PROVE  Authorised(r)'
  <1>1. /\ pc \in [Requests -> Suspended \cup {"idle", "done"}]
        /\ session \in [Requests -> Optional(Sessions)]
        /\ call \in [Requests -> Optional(Calls)]
        /\ sessionOwner \in [Sessions -> Optional(Identities)]
        /\ binding \in [BindingKeys -> Optional(Sessions)]
    BY DEF IInv, TypeOK, ExecTypeOK, RuntimeTypeOK
  <1>2. CASE Reject(r)
    BY <1>1, <1>2 DEF Reject, Authorised
  <1>3. CASE BeginBound(r)
    <2>1. PICK c \in Calls :
              /\ call' = [call EXCEPT ![r] = c]
              /\ \/ /\ sessionOwner[c.bound] = c.id /\ UNCHANGED sessionOwner
                    /\ session' = [session EXCEPT ![r] = c.bound]
                 \/ claiming' = claiming \cup {r}
                 \/ pc' = [pc EXCEPT ![r] = "done"]
      BY <1>3 DEF BeginBound, Arrives, ReusePreferred, AcquireOrWait, EndUnlocked
    <2> QED
      BY <1>1, <2>1 DEF Authorised
  <1>4. CASE BeginUnbound(r)
    <2>1. PICK c \in Calls :
              /\ call' = [call EXCEPT ![r] = c]
              /\ UNCHANGED forgotten
              /\ \/ /\ binding[<<c.id, c.ctx>>] # None
                    /\ AcquireOrWait(r, binding[<<c.id, c.ctx>>])
                    /\ UNCHANGED ownership
                 \/ pc' = [pc EXCEPT ![r] = "creating"]
                 \/ /\ inflight[<<c.id, c.ctx>>] # None
                    /\ CreateResolved(r, c, inflight[<<c.id, c.ctx>>],
                                      [running EXCEPT ![<<c.task, c.ctx>>] = r])
      BY <1>4 DEF BeginUnbound, Arrives
    <2>2. c.id \in Identities /\ c.ctx \in Contexts
      BY CallFields
    <2>3. CASE /\ binding[<<c.id, c.ctx>>] # None
               /\ AcquireOrWait(r, binding[<<c.id, c.ctx>>])
               /\ UNCHANGED ownership
      <3>1. binding[<<c.id, c.ctx>>] \in Sessions
        BY <1>1, <2>2, <2>3 DEF BindingKeys, Optional
      <3>2. binding[<<c.id, c.ctx>>] \notin forgotten =>
                sessionOwner[binding[<<c.id, c.ctx>>]] = c.id
        BY <2>2, <3>1 DEF AuthInv, BoundIsOwned
      <3>3. session'[r] = binding[<<c.id, c.ctx>>] /\ call'[r] = c
        BY <1>1, <2>1, <2>3 DEF AcquireOrWait
      <3> QED
        BY <2>1, <2>3, <3>2, <3>3 DEF Authorised, ownership
    <2>4. CASE pc' = [pc EXCEPT ![r] = "creating"]
      BY <1>1, <2>4 DEF Authorised
    <2>5. CASE /\ inflight[<<c.id, c.ctx>>] # None
               /\ CreateResolved(r, c, inflight[<<c.id, c.ctx>>],
                                 [running EXCEPT ![<<c.task, c.ctx>>] = r])
      <3>1. \/ \E s : BindCreated(c.id, c.ctx, s) /\ AcquireOrWait(r, s)
            \/ pc' = [pc EXCEPT ![r] = "done"]
        BY <2>5 DEF CreateResolved, EndUnlocked
      <3>2. ASSUME NEW s, BindCreated(c.id, c.ctx, s), AcquireOrWait(r, s), s \in Sessions
            PROVE  Authorised(r)'
        BY <1>1, <2>1, <3>2 DEF BindCreated, AcquireOrWait, Authorised
      <3>3. inflight[<<c.id, c.ctx>>] \in Requests
        BY <2>2, <2>5 DEF IInv, TypeOK, RuntimeTypeOK, BindingKeys, Optional
      <3>4. \/ \E s \in Sessions : BindCreated(c.id, c.ctx, s) /\ AcquireOrWait(r, s)
            \/ pc' = [pc EXCEPT ![r] = "done"]
        BY <2>5, <3>3 DEF CreateResolved, EndUnlocked, IInv, Coherent, CoherentExecution
      <3> QED
        BY <1>1, <3>2, <3>4 DEF Authorised
    <2> QED
      BY <2>1, <2>3, <2>4, <2>5
  <1> QED
    BY <1>2, <1>3, <1>4 DEF Arrival

\* An execution stays authorised when it goes on.
LEMMA ResumptionAuthorised ==
    ASSUME IInv, AuthInv, OwnerStep, NEW r \in Requests, Resumption(r) \/ Turn(r)
    PROVE  Authorised(r)'
  <1>1. /\ pc \in [Requests -> Suspended \cup {"idle", "done"}]
        /\ session \in [Requests -> Optional(Sessions)]
        /\ sessionOwner \in [Sessions -> Optional(Identities)]
        /\ pc[r] \in Suspended => call[r] \in Calls
        /\ Authorised(r)
    BY DEF IInv, TypeOK, ExecTypeOK, RuntimeTypeOK, Coherent, CoherentExecution, AuthInv
  <1>2. CASE ResumeCreate(r)
    <2>1. /\ pc[r] = "creating" /\ joined[r] \in Requests /\ UNCHANGED call
          /\ CreateResolved(r, call[r], joined[r], running)
      BY <1>2 DEF ResumeCreate, IInv, Coherent, CoherentExecution
    <2>2. \/ \E s \in Sessions : BindCreated(call[r].id, call[r].ctx, s) /\ AcquireOrWait(r, s)
          \/ pc' = [pc EXCEPT ![r] = "done"]
      BY <2>1 DEF CreateResolved, EndUnlocked, IInv, Coherent, CoherentExecution
    <2> QED
      BY <1>1, <2>1, <2>2 DEF BindCreated, AcquireOrWait, Authorised
  <1>3. CASE \E place \in {"done", "unwinding"} : pc' = [pc EXCEPT ![r] = place]
    BY <1>1, <1>3 DEF Authorised
  <1>4. CASE WakeUp(r)
    <2>1. /\ pc[r] = "waiting" /\ UNCHANGED <<session, call, claiming, forgotten, sessionOwner>>
      BY <1>4 DEF WakeUp, registryRest, ownership
    <2> QED
      BY <1>1, <2>1 DEF Authorised
  <1>5. CASE SendReturns(r) /\ call[r].stream
    <2>1. /\ pc[r] = "sending" /\ UNCHANGED <<session, call, forgotten>>
          /\ \/ r \in claiming /\ FinalizePreferredBinding(call[r].id, call[r].ctx, session[r])
             \/ r \notin claiming /\ UNCHANGED sessionOwner
      BY <1>5 DEF SendReturns, registryRest, ownership
    <2>2. session[r] \in Sessions
      BY <2>1 DEF IInv, Coherent, CoherentExecution, Holding
    <2> QED
      BY <1>1, <2>1, <2>2 DEF Authorised, FinalizePreferredBinding
  <1>6. CASE SendReturns(r) /\ ~call[r].stream
    BY <1>3, <1>6 DEF SendReturns, Finish
  <1>7. CASE AbortCreate(r) \/ LeaveQueue(r) \/ Drained(r) \/ Unwound(r)
    BY <1>3, <1>7 DEF AbortCreate, EndUnlocked, LeaveQueue, Drained, Unwound, Finish
  <1>8. CASE FinalizeRefused(r) \/ SendFails(r) \/ AbortSend(r)
    BY <1>3, <1>8 DEF FinalizeRefused, SendFails, AbortSend, Abandon, Finish
  <1> QED
    BY <1>2, <1>4, <1>5, <1>6, <1>7, <1>8 DEF Resumption, Turn

\* Every step keeps every execution that queues for or has a session authorised.
LEMMA NextAuthInv ==
    ASSUME IInv, AuthInv, [Next]_vars
    PROVE  AuthInv'
  <1>1. OwnerStep
    BY NextOwners
  <1>2. BoundIsOwned'
    BY <1>1, BoundIsOwnedStep DEF AuthInv
  <1>3. ASSUME NEW r \in Requests, CallArrives(r) \/ ExecutionResumes(r) \/ TurnEnds(r)
        PROVE  \A q \in Requests : Authorised(q)'
    <2>1. Moves(r) /\ Authorised(r)'
      BY <1>1, <1>3, ArrivalMoves, ResumptionMoves, TurnMoves, ArrivalAuthorised,
         ResumptionAuthorised DEF CallArrives, ExecutionResumes, TurnEnds
    <2>2. ASSUME NEW q \in Requests \ {r}
          PROVE  /\ pc'[q] = pc[q] /\ session'[q] = session[q] /\ call'[q] = call[q]
                 /\ q \in claiming' <=> q \in claiming
      BY <2>1 DEF Moves, IInv, TypeOK, ExecTypeOK
    <2> QED
      BY <1>1, <2>1, <2>2, AuthorisedKept DEF AuthInv
  <1>4. CASE ~ \E r \in Requests : CallArrives(r) \/ ExecutionResumes(r) \/ TurnEnds(r)
    <2>1. UNCHANGED <<pc, session, call, claiming>>
      BY <1>4, OthersRest
    <2>2. \A q \in Requests : Authorised(q)'
      BY <1>1, <2>1, AuthorisedKept DEF AuthInv
    <2> QED
      BY <1>2, <2>2 DEF AuthInv
  <1>5. CASE \A q \in Requests : Authorised(q)'
    BY <1>2, <1>5 DEF AuthInv
  <1> QED
    BY <1>3, <1>4, <1>5

\* A turn runs only in a session its caller owns or is claiming, unless the owner entry of
\* that session was lost.
THEOREM SpecTurnIsAuthorised == Spec => []TurnIsAuthorised
  <1>1. Init => \A r \in Requests : Authorised(r)
    BY DEF Init, ExecInit, Authorised
  <1>2. Init => BoundIsOwned
    BY NoneAssumption DEF Init, RuntimeInit, BoundIsOwned, BindingKeys
  <1>3. Init => AuthInv
    BY <1>1, <1>2 DEF AuthInv
  <1>4. IInv /\ AuthInv /\ [Next]_vars => AuthInv'
    BY NextAuthInv
  <1>5. AuthInv => TurnIsAuthorised
    BY DEF AuthInv, Authorised, TurnIsAuthorised, Holding
  <1> QED
    BY <1>3, <1>4, <1>5, SpecIInv, PTL DEF Spec

-----------------------------------------------------------------------------
(* What a step does to the claims.                                         *)

\* An execution goes on as it was, ...
KeepsClaim(r) ==
    /\ UNCHANGED <<pendingClaim, claiming>>
    /\ r \in claiming => session'[r] = session[r] /\ call'[r] = call[r]

\* ... has claimed the session it asks for ...
Claims(r) ==
    /\ r \notin claiming
    /\ claiming' = claiming \cup {r}
    /\ pendingClaim' = [pendingClaim EXCEPT ![session'[r]] = call'[r].id]

\* ... or is done with its claim, and drops it.
GivesClaimUp(r) ==
    /\ claiming' = claiming \ {r}
    /\ IF r \in claiming THEN DropClaimOf(call[r].id, session[r]) ELSE UNCHANGED pendingClaim

\* Control requests claim and drop in the same way.
CtlStep(d) ==
    /\ UNCHANGED <<session, call, claiming>>
    /\ \A e \in Controls \ {d} :
           /\ ctlSession'[e] = ctlSession[e] /\ ctlBy'[e] = ctlBy[e]
           /\ e \in ctlClaiming' <=> e \in ctlClaiming
    /\ \/ /\ d \notin ctlClaiming /\ d \notin ctlClaiming' /\ UNCHANGED pendingClaim
       \/ /\ d \notin ctlClaiming /\ d \in ctlClaiming'
          /\ pendingClaim' = [pendingClaim EXCEPT ![ctlSession'[d]] = ctlBy'[d]]
       \/ /\ d \in ctlClaiming /\ d \notin ctlClaiming'
          /\ DropClaimOf(ctlBy[d], ctlSession[d])

\* An arriving call claims its session or leaves the claims alone.
LEMMA ArrivalClaims ==
    ASSUME IInv, NEW r \in Requests, Arrival(r)
    PROVE  KeepsClaim(r) \/ Claims(r)
  <1>1. /\ r \notin claiming
        /\ session \in [Requests -> Optional(Sessions)]
        /\ call \in [Requests -> Optional(Calls)]
    BY DEF Arrival, Reject, BeginBound, BeginUnbound, Arrives, IInv, TypeOK, ExecTypeOK, Coherent,
       CoherentExecution
  <1>2. CASE Reject(r)
    BY <1>1, <1>2 DEF Reject, runtimeVars, KeepsClaim
  <1>3. CASE BeginBound(r)
    <2>1. PICK c \in Calls :
              /\ call' = [call EXCEPT ![r] = c]
              /\ \/ UNCHANGED <<pendingClaim, claiming>>
                 \/ /\ ClaimSession(c.id, c.bound)
                    /\ claiming' = claiming \cup {r}
                    /\ AcquireOrWait(r, c.bound)
      BY <1>3 DEF BeginBound, Arrives, ReusePreferred, ownership
    <2> QED
      BY <1>1, <2>1 DEF ClaimSession, AcquireOrWait, KeepsClaim, Claims
  <1>4. CASE BeginUnbound(r)
    BY <1>1, <1>4 DEF BeginUnbound, CreateResolved, BindCreated, ownership, KeepsClaim
  <1> QED
    BY <1>2, <1>3, <1>4 DEF Arrival

\* An execution that goes on or ends keeps its claim or drops it.
LEMMA ResumptionClaims ==
    ASSUME IInv, NEW r \in Requests, Resumption(r) \/ Turn(r)
    PROVE  KeepsClaim(r) \/ (GivesClaimUp(r) /\ UNCHANGED <<session, call>>)
  <1>1. CASE ResumeCreate(r) \/ AbortCreate(r)
    <2>1. r \notin claiming /\ UNCHANGED <<pendingClaim, claiming>>
      BY <1>1 DEF ResumeCreate, AbortCreate, CreateResolved, BindCreated, ownership, IInv,
         Coherent, CoherentExecution
    <2> QED
      BY <2>1 DEF KeepsClaim
  <1>2. CASE WakeUp(r) \/ Drained(r) \/ Unwound(r)
    BY <1>2 DEF WakeUp, Drained, Unwound, registryRest, ownership, KeepsClaim
  <1>3. CASE LeaveQueue(r) \/ FinalizeRefused(r) \/ SendFails(r) \/ AbortSend(r)
    BY <1>3 DEF LeaveQueue, FinalizeRefused, SendFails, AbortSend, Abandon, DropPendingClaim,
       ReleaseClaim, registryRest, ownership, GivesClaimUp
  <1>4. CASE SendReturns(r)
    BY <1>4 DEF SendReturns, FinalizePreferredBinding, registryRest, ownership, GivesClaimUp
  <1> QED
    BY <1>1, <1>2, <1>3, <1>4 DEF Resumption, Turn

\* What a session control request does to the claims.
LEMMA ControlClaims ==
    ASSUME IInv, NEW d \in Controls, ControlArrives(d) \/ ControlEnds(d)
    PROVE  CtlStep(d)
  <1>1. /\ UNCHANGED <<session, call, claiming>>
        /\ ctlSession \in [Controls -> Optional(Sessions)]
        /\ ctlBy \in [Controls -> Optional(Identities)]
        /\ ctlClaiming \subseteq Controls
    BY DEF ControlArrives, ControlEnds, execVars, IInv, TypeOK, CtlTypeOK
  <1>2. ASSUME NEW i, NEW s, CtlClaim(d, i, s)
        PROVE  CtlStep(d)
    <2>1. d \notin ctlClaiming
      BY <1>2 DEF CtlClaim, IInv, Coherent, CoherentControl
    <2>2. ctlSession'[d] = s /\ ctlBy'[d] = i
      BY <1>1, <1>2 DEF CtlClaim
    <2>3. \A e \in Controls \ {d} : ctlSession'[e] = ctlSession[e] /\ ctlBy'[e] = ctlBy[e]
      BY <1>1, <1>2 DEF CtlClaim
    <2>4. \/ UNCHANGED <<pendingClaim, ctlClaiming>>
          \/ /\ pendingClaim' = [pendingClaim EXCEPT ![s] = i]
             /\ ctlClaiming' = ctlClaiming \cup {d}
      BY <1>2 DEF CtlClaim, ClaimSession, ownership
    <2> QED
      BY <1>1, <2>1, <2>2, <2>3, <2>4 DEF CtlStep
  <1>3. CASE CtlEnd(d)
    <2>1. /\ UNCHANGED <<ctlBy, ctlSession>> /\ ctlClaiming' = ctlClaiming \ {d}
          /\ IF d \in ctlClaiming THEN DropClaimOf(ctlBy[d], ctlSession[d])
                                  ELSE UNCHANGED pendingClaim
      BY <1>3 DEF CtlEnd, CtlReturns, CtlFinalizeRefused, CtlFails, CtlGiveUp, ReleaseClaim,
         FinalizeSessionClaim, ownership
    <2> QED
      BY <1>1, <2>1 DEF CtlStep
  <1> QED
    BY <1>2, <1>3 DEF ControlArrives, ControlEnds

\* The claims are left alone by every other step.
LEMMA OthersClaimNothing ==
    ASSUME [Next]_vars,
           ~ \E r \in Requests : CallArrives(r) \/ ExecutionResumes(r) \/ TurnEnds(r),
           ~ \E d \in Controls : ControlArrives(d) \/ ControlEnds(d)
    PROVE  UNCHANGED <<pendingClaim, session, call, claiming, ctlVars>>
  BY DEF Next, vars, CreateEnds, Creation, CreateReturns, CreateFails, ClientDisconnects,
     Disconnect, TaskCancelled, CancelTask, CacheLoses, CacheLoss, OwnerLost, BindingLost,
     execVars, runtimeVars

Claimed(s) ==
    pendingClaim[s] # None =>
        \/ \E r \in claiming : session[r] = s /\ call[r].id = pendingClaim[s]
        \/ \E d \in ctlClaiming : ctlSession[d] = s /\ ctlBy[d] = pendingClaim[s]

\* A claimant leaves no claim behind when it goes, and takes nobody else's with it that
\* still has one.
LEMMA NextClaimed ==
    ASSUME IInv, ClaimHasClaimant, [Next]_vars
    PROVE  ClaimHasClaimant'
  <1>0. /\ pendingClaim \in [Sessions -> Optional(Identities)]
        /\ claiming \subseteq Requests /\ ctlClaiming \subseteq Controls
        /\ \A s \in Sessions : Claimed(s)
    BY DEF IInv, TypeOK, RuntimeTypeOK, ExecTypeOK, CtlTypeOK, ClaimHasClaimant, Claimed
  <1>1. ASSUME NEW r \in Requests, CallArrives(r) \/ ExecutionResumes(r) \/ TurnEnds(r)
        PROVE  \A s \in Sessions : Claimed(s)'
    <2>1. /\ Moves(r) /\ UNCHANGED ctlVars
          /\ \/ KeepsClaim(r) \/ Claims(r)
             \/ GivesClaimUp(r) /\ UNCHANGED <<session, call>>
      BY <1>1, ArrivalMoves, ResumptionMoves, TurnMoves, ArrivalClaims, ResumptionClaims
         DEF CallArrives, ExecutionResumes, TurnEnds
    <2>2. /\ r \in DOMAIN session /\ r \in DOMAIN call
          /\ \A q \in Requests \ {r} : session'[q] = session[q] /\ call'[q] = call[q]
      BY <2>1 DEF Moves, IInv, TypeOK, ExecTypeOK
    <2> TAKE s \in Sessions
    <2>3. CASE KeepsClaim(r)
      <3>1. \A q \in claiming : session'[q] = session[q] /\ call'[q] = call[q]
        BY <1>0, <2>2, <2>3 DEF KeepsClaim
      <3> QED
        BY <1>0, <2>1, <2>3, <3>1 DEF KeepsClaim, Claimed, ctlVars
    <2>4. CASE Claims(r)
      <3>1. \A q \in claiming : session'[q] = session[q] /\ call'[q] = call[q]
        BY <1>0, <2>2, <2>4 DEF Claims
      <3>2. CASE s = session'[r]
        BY <1>0, <2>4, <3>2 DEF Claims, Claimed
      <3>3. CASE s # session'[r]
        BY <1>0, <2>1, <2>4, <3>1, <3>3 DEF Claims, Claimed, ctlVars
      <3> QED
        BY <3>2, <3>3
    <2>5. CASE GivesClaimUp(r) /\ UNCHANGED <<session, call>>
      BY <1>0, <2>1, <2>5 DEF GivesClaimUp, DropClaimOf, Claimed, ctlVars
    <2> QED
      BY <2>1, <2>3, <2>4, <2>5
  <1>2. ASSUME NEW d \in Controls, ControlArrives(d) \/ ControlEnds(d)
        PROVE  \A s \in Sessions : Claimed(s)'
    <2>1. CtlStep(d)
      BY <1>2, ControlClaims
    <2> TAKE s \in Sessions
    <2> QED
      BY <1>0, <2>1 DEF CtlStep, DropClaimOf, Claimed
  <1>3. CASE /\ ~ \E r \in Requests : CallArrives(r) \/ ExecutionResumes(r) \/ TurnEnds(r)
             /\ ~ \E d \in Controls : ControlArrives(d) \/ ControlEnds(d)
    <2>1. UNCHANGED <<pendingClaim, session, call, claiming, ctlVars>>
      BY <1>3, OthersClaimNothing
    <2> QED
      BY <2>1 DEF ClaimHasClaimant, ctlVars
  <1> QED
    BY <1>1, <1>2, <1>3 DEF ClaimHasClaimant, Claimed

\* No claim is left behind by any way an execution or a control request can end: whoever
\* could be locked out of a session by a claim is waiting for somebody who will drop it.
THEOREM SpecClaimHasClaimant == Spec => []ClaimHasClaimant
  <1>1. Init => ClaimHasClaimant
    BY DEF Init, RuntimeInit, ClaimHasClaimant
  <1>2. IInv /\ ClaimHasClaimant /\ [Next]_vars => ClaimHasClaimant'
    BY NextClaimed
  <1> QED
    BY <1>1, <1>2, SpecIInv, PTL DEF Spec

-----------------------------------------------------------------------------
(* Creations in flight.                                                    *)

\* A creation that is forgotten in front of its caller has ended.
LEMMA CreateResolvedInflight ==
    ASSUME NEW r \in Requests, NEW c \in Calls, NEW t \in Requests, NEW table,
           inflight \in [BindingKeys -> Optional(Requests)],
           CreateResolved(r, c, t, table)
    PROVE  /\ UNCHANGED create
           /\ \A q \in Requests, b \in BindingKeys :
                 create[q] = "running" /\ inflight[b] = q => inflight'[b] = q
  BY DEF CreateResolved, ForgetCreate

\* A call that arrives starts a creation only for a conversation that has none.
LEMMA ArrivalSingleFlight ==
    ASSUME IInv, SingleFlightCreate, NEW r \in Requests, Arrival(r)
    PROVE  SingleFlightCreate'
  <1>1. /\ create \in [Requests -> {"none", "running", "ok", "failed", "cancelled"}]
        /\ call \in [Requests -> Optional(Calls)]
        /\ inflight \in [BindingKeys -> Optional(Requests)]
        /\ create[r] = "none"
    BY DEF Arrival, Reject, BeginBound, BeginUnbound, Arrives, IInv, TypeOK, ExecTypeOK,
       RuntimeTypeOK, Coherent, CoherentExecution
  <1>2. \A t \in Requests : create[t] = "running" => call[t] \in Calls /\ BindKey(t) \in BindingKeys
    BY CallFields DEF BindKey, IInv, Coherent, CoherentExecution
  <1>3. CASE Reject(r) \/ BeginBound(r)
    <2>1. UNCHANGED <<create, inflight>> /\ \A t \in Requests \ {r} : call'[t] = call[t]
      BY <1>1, <1>3 DEF Reject, runtimeVars, BeginBound, Arrives
    <2> QED
      BY <1>1, <2>1 DEF SingleFlightCreate, BindKey
  <1>4. CASE BeginUnbound(r)
    <2>1. PICK c \in Calls :
              /\ call' = [call EXCEPT ![r] = c]
              /\ \/ UNCHANGED <<create, inflight>>
                 \/ /\ inflight[<<c.id, c.ctx>>] = None
                    /\ create' = [create EXCEPT ![r] = "running"]
                    /\ inflight' = [inflight EXCEPT ![<<c.id, c.ctx>>] = r]
                 \/ /\ inflight[<<c.id, c.ctx>>] # None
                    /\ CreateResolved(r, c, inflight[<<c.id, c.ctx>>],
                                      [running EXCEPT ![<<c.task, c.ctx>>] = r])
      BY <1>4 DEF BeginUnbound, Arrives
    <2>2. <<c.id, c.ctx>> \in BindingKeys
      BY CallFields
    <2>3. \A t \in Requests \ {r} : BindKey(t)' = BindKey(t)
      BY <1>1, <2>1 DEF BindKey
    <2>4. CASE UNCHANGED <<create, inflight>>
      BY <1>1, <2>3, <2>4 DEF SingleFlightCreate
    <2>5. CASE /\ inflight[<<c.id, c.ctx>>] = None
               /\ create' = [create EXCEPT ![r] = "running"]
               /\ inflight' = [inflight EXCEPT ![<<c.id, c.ctx>>] = r]
      <3>1. BindKey(r)' = <<c.id, c.ctx>>
        BY <1>1, <2>1 DEF BindKey
      <3>2. \A t \in Requests : create[t] = "running" => BindKey(t) # <<c.id, c.ctx>>
        BY <2>5, NoneAssumption DEF SingleFlightCreate
      <3>3. ASSUME NEW t \in Requests, create'[t] = "running"
            PROVE  inflight'[BindKey(t)'] = t
        <4>1. CASE t = r
          BY <1>1, <2>2, <2>5, <3>1, <4>1
        <4>2. CASE t # r
          BY <1>1, <1>2, <2>3, <2>5, <3>2, <3>3, <4>2 DEF SingleFlightCreate
        <4> QED
          BY <4>1, <4>2
      <3> QED
        BY <3>3 DEF SingleFlightCreate
    <2>6. CASE /\ inflight[<<c.id, c.ctx>>] # None
               /\ CreateResolved(r, c, inflight[<<c.id, c.ctx>>],
                                 [running EXCEPT ![<<c.task, c.ctx>>] = r])
      <3>1. inflight[<<c.id, c.ctx>>] \in Requests
        BY <1>1, <2>2, <2>6 DEF Optional
      <3>2. /\ UNCHANGED create
            /\ \A q \in Requests, b \in BindingKeys :
                  create[q] = "running" /\ inflight[b] = q => inflight'[b] = q
        BY <1>1, <2>6, <3>1, CreateResolvedInflight
      <3> QED
        BY <1>1, <1>2, <2>3, <3>2 DEF SingleFlightCreate
    <2> QED
      BY <2>1, <2>4, <2>5, <2>6
  <1> QED
    BY <1>3, <1>4 DEF Arrival

\* A tasks/cancel that drops the creation of a conversation cancels it.
LEMMA CancelSingleFlight ==
    ASSUME SingleFlightCreate, NEW k, NEW i, CancelTask(k, i),
           inflight \in [BindingKeys -> Optional(Requests)],
           \A t \in Requests : create[t] = "running" => BindKey(t) \in BindingKeys
    PROVE  SingleFlightCreate'
  <1> DEFINE b == <<IF running[k] = None THEN i ELSE call[running[k]].id, k[2]>>
  <1>1. /\ UNCHANGED call /\ inflight' = [inflight EXCEPT ![b] = None]
        /\ \A t \in Requests :
              create'[t] = "running" => create[t] = "running" /\ t # inflight[b]
    BY DEF CancelTask, AbortCreates
  <1> HIDE DEF b
  <1>2. \A t \in Requests : create'[t] = "running" => inflight[BindKey(t)] = t /\ BindKey(t) # b
    BY <1>1 DEF SingleFlightCreate
  <1> QED
    BY <1>1, <1>2 DEF SingleFlightCreate, BindKey

\* However calls, ends and cancellations of one conversation interleave, at most one
\* creation runs for it, and it is the one later calls will find.
THEOREM SpecSingleFlightCreate == Spec => []SingleFlightCreate
  <1>1. Init => SingleFlightCreate
    BY DEF Init, ExecInit, SingleFlightCreate
  <1>2. IInv /\ SingleFlightCreate /\ [Next]_vars => SingleFlightCreate'
    <2> SUFFICES ASSUME IInv, SingleFlightCreate, [Next]_vars PROVE SingleFlightCreate'
      OBVIOUS
    <2>1. /\ inflight \in [BindingKeys -> Optional(Requests)]
          /\ create \in [Requests -> {"none", "running", "ok", "failed", "cancelled"}]
          /\ \A t \in Requests : create[t] = "running" => BindKey(t) \in BindingKeys
      BY CallFields DEF BindKey, IInv, TypeOK, RuntimeTypeOK, ExecTypeOK, Coherent,
         CoherentExecution
    <2>2. ASSUME NEW r \in Requests, CallArrives(r)
          PROVE  SingleFlightCreate'
      BY <2>2, ArrivalSingleFlight DEF CallArrives
    <2>3. ASSUME UNCHANGED <<inflight, call>>,
                 \A t \in Requests : create'[t] = "running" => create[t] = "running"
          PROVE  SingleFlightCreate'
      BY <2>3 DEF SingleFlightCreate, BindKey
    <2>4. ASSUME NEW r \in Requests, CreateEnds(r) \/ ClientDisconnects(r)
          PROVE  SingleFlightCreate'
      BY <2>1, <2>3, <2>4 DEF CreateEnds, Creation, CreateReturns, CreateFails,
         ClientDisconnects, Disconnect, AbortCreates, runtimeVars
    <2>5. ASSUME NEW r \in Requests, ExecutionResumes(r) \/ TurnEnds(r), ~ResumeCreate(r)
          PROVE  SingleFlightCreate'
      BY <2>3, <2>5 DEF ExecutionResumes, TurnEnds, Resumption, Turn, AbortCreate, WakeUp,
         LeaveQueue, Drained, Unwound, SendReturns, FinalizeRefused, SendFails, AbortSend,
         registryRest
    <2>6. ASSUME NEW r \in Requests, ResumeCreate(r)
          PROVE  SingleFlightCreate'
      <3>1. joined[r] \in Requests /\ call[r] \in Calls /\ UNCHANGED call
        BY <2>6 DEF ResumeCreate, IInv, Coherent, CoherentExecution, Suspended
      <3>2. /\ UNCHANGED create
            /\ \A q \in Requests, b \in BindingKeys :
                  create[q] = "running" /\ inflight[b] = q => inflight'[b] = q
        BY <2>1, <2>6, <3>1, CreateResolvedInflight DEF ResumeCreate
      <3> QED
        BY <2>1, <3>1, <3>2 DEF SingleFlightCreate, BindKey
    <2>7. ASSUME NEW k \in RunKeys, NEW i \in Identities, TaskCancelled(k, i)
          PROVE  SingleFlightCreate'
      BY <2>1, <2>7, CancelSingleFlight DEF TaskCancelled
    <2>8. ASSUME NEW d \in Controls, ControlArrives(d) \/ ControlEnds(d)
          PROVE  SingleFlightCreate'
      BY <2>3, <2>8 DEF ControlArrives, ControlEnds, CtlClaim, CtlEnd, CtlReturns,
         CtlFinalizeRefused, CtlFails, CtlGiveUp, registryFrame, execVars
    <2>9. CASE CacheLoses \/ UNCHANGED vars
      BY <2>3, <2>9 DEF CacheLoses, CacheLoss, OwnerLost, BindingLost, vars, execVars, runtimeVars
    <2> QED
      BY <2>2, <2>4, <2>5, <2>6, <2>7, <2>8, <2>9 DEF Next
  <1> QED
    BY <1>1, <1>2, SpecIInv, PTL DEF Spec

-----------------------------------------------------------------------------
(* What a cancelled execution still does.                                  *)

\* Only the execution that moves changes its place and its answer, and none of its steps
\* starts or completes a turn once it is cancelled.
LEMMA CancelledStops ==
    ASSUME IInv, NEW r \in Requests, Arrival(r) \/ Resumption(r) \/ Turn(r)
    PROVE  \A q \in cancelled :
               /\ pc'[q] \in {"sending", "draining"} => pc'[q] = pc[q]
               /\ answer'[q] # answer[q] => pc[q] = "draining" /\ answer'[q] = "input_required"
  <1>1. /\ answer \in [Requests -> {"none", "input_required", "failed"}]
        /\ pc \in [Requests -> Suspended \cup {"idle", "done"}]
        /\ cancelled \subseteq Requests
        /\ pc[r] = "idle" => r \notin cancelled
        /\ pc[r] \in {"creating", "sending", "draining"} => answer[r] = "none"
    BY DEF IInv, TypeOK, ExecTypeOK, Coherent, CoherentExecution
  <1>2. \A q \in Requests \ {r} : pc'[q] = pc[q] /\ answer'[q] = answer[q]
    BY <1>1 DEF Arrival, Reject, BeginBound, BeginUnbound, AcquireOrWait, Resumption, ResumeCreate,
       AbortCreate, CreateResolved, WakeUp, LeaveQueue, Drained, Unwound, Turn, SendReturns,
       FinalizeRefused, SendFails, AbortSend, Abandon, Finish, EndUnlocked
  <1>3. CASE Arrival(r)
    BY <1>1, <1>2, <1>3 DEF Arrival, Reject, BeginBound, BeginUnbound, Arrives
  <1>4. CASE Resumption(r)
    BY <1>1, <1>2, <1>4 DEF Resumption, ResumeCreate, AbortCreate, EndUnlocked, WakeUp,
       LeaveQueue, Drained, Unwound, Finish
  <1>5. CASE Turn(r)
    BY <1>1, <1>2, <1>5 DEF Turn, SendReturns, FinalizeRefused, SendFails, AbortSend, Abandon,
       Finish
  <1> QED
    BY <1>3, <1>4, <1>5

\* After its cancellation an execution neither starts nor completes a turn and reports no
\* failure; all it may still do is complete the stream it was already draining.
THEOREM SpecStopsWhenCancelled == Spec => StopsWhenCancelled
  <1>1. IInv /\ [Next]_vars =>
            \A r \in cancelled :
                /\ pc'[r] \in {"sending", "draining"} => pc'[r] = pc[r]
                /\ answer'[r] # answer[r] => pc[r] = "draining" /\ answer'[r] = "input_required"
    BY CancelledStops, OthersRest DEF CallArrives, ExecutionResumes, TurnEnds
  <1> QED
    BY <1>1, SpecIInv, PTL DEF Spec, StopsWhenCancelled
=============================================================================
