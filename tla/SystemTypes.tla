---------------------------- MODULE SystemTypes -----------------------------
(***************************************************************************)
(* The proof that the system's variables keep their types.  What a step    *)
(* writes is well typed only because executions carry what their place     *)
(* says they carry (Coherent) and wait in the queue they leave             *)
(* (QueuesAreExact), so the three are proved together.                     *)
(***************************************************************************)
EXTENDS System, SequenceFacts

IInv == TypeOK /\ Coherent /\ QueuesAreExact /\ TrackingIsAccurate

-----------------------------------------------------------------------------
(* What a step does to the locks.  Every step of the system is one of the  *)
(* following, seen from the lock of a session.                             *)

turnVars == <<pc, session, locked, waiters, woken, stolen>>

\* An execution that has no lock yet moves on without one.
StaysOutside(r, place) ==
    /\ pc[r] \in {"idle", "creating"}
    /\ place \in {"creating", "done"}
    /\ pc' = [pc EXCEPT ![r] = place]
    /\ UNCHANGED session
    /\ LocksUnchanged

Enters(r, s) ==
    /\ pc[r] \in {"idle", "creating"}
    /\ AcquireOrWait(r, s)

KeepsLock(r, place) ==
    /\ pc[r] \in Holding
    /\ place \in Holding
    /\ pc' = [pc EXCEPT ![r] = place]
    /\ UNCHANGED session
    /\ LocksUnchanged

Releases(r) ==
    /\ pc[r] \in Holding
    /\ pc' = [pc EXCEPT ![r] = "done"]
    /\ UNCHANGED session
    /\ ReleaseLock(session[r])

IsWoken(r) ==
    /\ pc[r] = "waiting"
    /\ r \in woken \ cancelled
    /\ waiters' = [waiters EXCEPT ![session[r]] = RemoveFirst(@, r)]
    /\ woken' = woken \ {r}
    /\ locked' = [locked EXCEPT ![session[r]] = TRUE]
    /\ pc' = [pc EXCEPT ![r] = "sending"]
    /\ UNCHANGED <<session, stolen>>

Leaves(r) ==
    LET s == session[r]
        rest == RemoveFirst(waiters[s], r)
    IN  /\ pc[r] = "waiting"
        /\ r \in cancelled
        /\ waiters' = [waiters EXCEPT ![s] = rest]
        /\ locked' = [locked EXCEPT ![s] = FALSE]
        /\ woken' = (woken \ {r}) \cup ToWake(rest)
        /\ stolen' = IF locked[s] THEN stolen \cup {s} ELSE stolen
        /\ pc' = [pc EXCEPT ![r] = "done"]
        /\ UNCHANGED session

TurnStep(r) ==
    \/ \E place \in Suspended \cup {"done"} : StaysOutside(r, place) \/ KeepsLock(r, place)
    \/ \E s \in Sessions : Enters(r, s)
    \/ Releases(r) \/ IsWoken(r) \/ Leaves(r)

LockStep ==
    \/ UNCHANGED cancelled /\ \E r \in Requests : TurnStep(r)
    \/ cancelled \subseteq cancelled' /\ UNCHANGED turnVars

\* An arriving call gets no lock, takes a free one, or joins a wait queue.
LEMMA ArrivalIsLockStep ==
    ASSUME IInv, NEW r \in Requests, Arrival(r)
    PROVE  LockStep
  <1>1. CASE Reject(r)
    BY <1>1 DEF Reject, LockStep, TurnStep, StaysOutside, Suspended
  <1>2. CASE BeginBound(r)
    BY <1>2, CallsAssumption DEF BeginBound, Arrives, EndUnlocked, LockStep, TurnStep, StaysOutside,
       Enters, Call, Optional, Suspended
  <1>3. CASE BeginUnbound(r)
    BY <1>3, CallsAssumption DEF BeginUnbound, Arrives, EndUnlocked, LockStep, TurnStep,
       StaysOutside,
       Enters, Call, Optional, Suspended, CreateResolved, IInv, TypeOK, RuntimeTypeOK,
       ExecTypeOK, Coherent, CoherentExecution, BindingKeys
  <1> QED
    BY <1>1, <1>2, <1>3 DEF Arrival

\* The end of a create task touches no lock.
LEMMA CreationIsLockStep ==
    ASSUME NEW t \in Requests, Creation(t)
    PROVE  LockStep
  BY DEF Creation, CreateReturns, CreateFails, LocksUnchanged, LockStep, turnVars

\* A resumed execution moves on without a lock, takes one, or lets one go.
LEMMA ResumptionIsLockStep ==
    ASSUME IInv, NEW r \in Requests, Resumption(r)
    PROVE  LockStep
  <1>1. CASE ResumeCreate(r)
    BY <1>1 DEF ResumeCreate, CreateResolved, EndUnlocked, LockStep, TurnStep, StaysOutside,
       Enters, Suspended, IInv, TypeOK, ExecTypeOK, Coherent, CoherentExecution
  <1>2. CASE AbortCreate(r)
    BY <1>2 DEF AbortCreate, EndUnlocked, LockStep, TurnStep, StaysOutside, Suspended
  <1>3. CASE WakeUp(r)
    BY <1>3 DEF WakeUp, registryRest, LockStep, TurnStep, IsWoken
  <1>4. CASE LeaveQueue(r)
    BY <1>4 DEF LeaveQueue, registryRest, LockStep, TurnStep, Leaves
  <1>5. CASE Drained(r) \/ Unwound(r)
    BY <1>5 DEF Drained, Unwound, Finish, registryRest, LockStep, TurnStep, Releases, Holding
  <1> QED
    BY <1>1, <1>2, <1>3, <1>4, <1>5 DEF Resumption

\* The end of a turn keeps the lock or releases it.
LEMMA TurnIsLockStep ==
    ASSUME NEW r \in Requests, Turn(r)
    PROVE  LockStep
  <1>1. pc[r] = "sending" /\ UNCHANGED <<cancelled, session>>
    BY DEF Turn, SendReturns, FinalizeRefused, SendFails, AbortSend, registryRest
  <1>2. \/ \E final : Finish(r, final)
        \/ \E place \in Holding : pc' = [pc EXCEPT ![r] = place] /\ LocksUnchanged
    BY DEF Turn, SendReturns, FinalizeRefused, SendFails, AbortSend, Abandon, Holding
  <1> QED
    BY <1>1, <1>2 DEF Finish, LockStep, TurnStep, Releases, KeepsLock, Holding, Suspended

\* A cancellation touches no lock.
LEMMA CancellationIsLockStep ==
    ASSUME \/ \E k \in RunKeys, i \in Identities : CancelTask(k, i)
           \/ \E r \in Requests : Disconnect(r)
    PROVE  LockStep
  BY DEF CancelTask, Disconnect, LocksUnchanged, LockStep, turnVars

\* Every step of the system is one of those.
LEMMA NextIsLockStep ==
    ASSUME IInv, [Next]_vars
    PROVE  LockStep
  <1>1. ASSUME NEW r \in Requests,
               \/ CallArrives(r) \/ CreateEnds(r) \/ ExecutionResumes(r)
               \/ TurnEnds(r) \/ ClientDisconnects(r)
        PROVE  LockStep
    BY <1>1, ArrivalIsLockStep, CreationIsLockStep, ResumptionIsLockStep, TurnIsLockStep,
       CancellationIsLockStep
       DEF CallArrives, CreateEnds, ExecutionResumes, TurnEnds, ClientDisconnects
  <1>2. ASSUME NEW k \in RunKeys, NEW i \in Identities, TaskCancelled(k, i)
        PROVE  LockStep
    BY <1>2, CancellationIsLockStep DEF TaskCancelled
  <1>3. ASSUME UNCHANGED execVars
        PROVE  LockStep
    BY <1>3 DEF execVars, LockStep, turnVars
  <1> QED
    BY <1>1, <1>2, <1>3 DEF Next, vars, ControlArrives, ControlEnds, CacheLoses

-----------------------------------------------------------------------------
(* The wait queues.                                                        *)

\* The wait queues stay exact over every such step.
LEMMA QueuesStep ==
    ASSUME IInv, LockStep
    PROVE  QueuesAreExact' /\ waiters' \in [Sessions -> Seq(Requests)] /\ woken' \subseteq Requests
  <1> USE DEF IInv, TypeOK, ExecTypeOK
  <1>0. CASE cancelled \subseteq cancelled' /\ UNCHANGED turnVars
    BY <1>0 DEF turnVars, QueuesAreExact, Queued
  <1>1. ASSUME NEW r \in Requests, NEW place, StaysOutside(r, place) \/ KeepsLock(r, place)
        PROVE  QueuesAreExact' /\ UNCHANGED <<waiters, woken>>
    BY <1>1 DEF StaysOutside, KeepsLock, LocksUnchanged, Holding, QueuesAreExact, Queued
  <1>2. ASSUME NEW r \in Requests, NEW s \in Sessions, Enters(r, s)
        PROVE  QueuesAreExact' /\ waiters' \in [Sessions -> Seq(Requests)] /\ woken' = woken
    <2>1. CASE LockIsFree(s)
      <3>1. /\ UNCHANGED <<waiters, woken>>
            /\ \A x \in Sessions : Queued(x)' = Queued(x)
        BY <1>2, <2>1 DEF Enters, AcquireOrWait, Queued
      <3>2. ASSUME NEW w \in woken
            PROVE  /\ w # r /\ session[w] \in Sessions /\ session[w] # s
                   /\ pc'[w] = pc[w] /\ session'[w] = session[w]
                   /\ locked'[session[w]] = locked[session[w]]
        <4>1. w # r /\ w \in Requests /\ session[w] \in Sessions /\ w \in ToSet(waiters[session[w]])
          BY <1>2 DEF Enters, QueuesAreExact, Queued, Coherent, CoherentExecution
        <4>2. session[w] # s
          BY <4>1, <2>1 DEF LockIsFree, ToSet
        <4> QED
          BY <4>1, <4>2, <1>2, <2>1 DEF Enters, AcquireOrWait
      <3> QED
        BY <3>1, <3>2 DEF QueuesAreExact
    <2>2. CASE ~LockIsFree(s)
      <3>1. /\ waiters' = [waiters EXCEPT ![s] = Append(@, r)]
            /\ UNCHANGED <<woken, locked>>
            /\ pc' = [pc EXCEPT ![r] = "waiting"]
            /\ session' = [session EXCEPT ![r] = s]
            /\ pc[r] # "waiting"
        BY <1>2, <2>2 DEF Enters, AcquireOrWait
      <3>2. /\ Append(waiters[s], r) \in Seq(Requests)
            /\ IsInjective(Append(waiters[s], r))
            /\ ToSet(Append(waiters[s], r)) = ToSet(waiters[s]) \cup {r}
            /\ waiters[s] # <<>> => Head(Append(waiters[s], r)) = Head(waiters[s])
        <4>1. waiters[s] \in Seq(Requests) /\ IsInjective(waiters[s]) /\ r \notin ToSet(waiters[s])
          BY <3>1 DEF QueuesAreExact, Queued
        <4> QED
          BY <4>1, AppendToQueue
      <3>3. /\ Queued(s)' = Queued(s) \cup {r}
            /\ \A x \in Sessions \ {s} : Queued(x)' = Queued(x)
        BY <3>1 DEF Queued
      <3>4. ASSUME NEW w \in woken
            PROVE  /\ pc'[w] = "waiting" /\ ~locked'[session'[w]]
                   /\ Head(waiters'[session'[w]]) = w
        <4>1. /\ w # r /\ w \in Requests /\ session[w] \in Sessions
              /\ waiters[session[w]] # <<>>
          BY <3>1 DEF QueuesAreExact, Queued, Coherent, CoherentExecution, ToSet
        <4> QED
          BY <4>1, <3>1, <3>2 DEF QueuesAreExact
      <3>5. ASSUME NEW x \in Sessions
            PROVE  /\ IsInjective(waiters'[x]) /\ ToSet(waiters'[x]) = Queued(x)'
                   /\ waiters'[x] \in Seq(Requests)
        <4>1. CASE x = s
          <5>1. waiters'[x] = Append(waiters[s], r)
            BY <3>1, <4>1
          <5> QED
            BY <5>1, <4>1, <3>2, <3>3 DEF QueuesAreExact
        <4>2. CASE x # s
          <5>1. waiters'[x] = waiters[x] /\ Queued(x)' = Queued(x)
            BY <3>1, <3>3, <4>2
          <5> QED
            BY <5>1 DEF QueuesAreExact
        <4> QED
          BY <4>1, <4>2
      <3>6. waiters' \in [Sessions -> Seq(Requests)]
        BY <3>1, <3>2
      <3> QED
        BY <3>1, <3>4, <3>5, <3>6 DEF QueuesAreExact
    <2> QED
      BY <2>1, <2>2, <1>2 DEF Enters, AcquireOrWait
  <1>3. ASSUME NEW r \in Requests, Releases(r)
        PROVE  QueuesAreExact' /\ UNCHANGED waiters /\ woken' \subseteq Requests
    <2> DEFINE s == session[r]
    <2>1. /\ s \in Sessions
          /\ UNCHANGED <<waiters, session>>
          /\ pc' = [pc EXCEPT ![r] = "done"]
          /\ pc[r] # "waiting"
          /\ locked' = [locked EXCEPT ![s] = FALSE]
          /\ \A w \in woken' : w \in woken \/ w \in ToWake(waiters[s])
      BY <1>3 DEF Releases, ReleaseLock, Holding, Coherent, CoherentExecution
    <2>2. \A x \in Sessions : Queued(x)' = Queued(x)
      BY <2>1 DEF Queued
    <2>3. ASSUME NEW w \in woken'
          PROVE  /\ w \in Requests /\ pc'[w] = "waiting" /\ ~locked'[session'[w]]
                 /\ Head(waiters'[session'[w]]) = w
      <3>1. CASE w \in woken
        BY <3>1, <2>1 DEF QueuesAreExact
      <3>2. CASE w \in ToWake(waiters[s])
        <4>1. w = Head(waiters[s]) /\ w \in ToSet(waiters[s])
          BY <3>2, <2>1 DEF ToWake, ToSet
        <4>2. w \in Requests /\ pc[w] = "waiting" /\ session[w] = s
          BY <4>1, <2>1 DEF QueuesAreExact, Queued
        <4> QED
          BY <4>1, <4>2, <2>1
      <3> QED
        BY <3>1, <3>2, <2>1
    <2> QED
      BY <2>1, <2>2, <2>3 DEF QueuesAreExact
  <1>4. ASSUME NEW r \in Requests, r \in ToSet(waiters[session[r]]), pc[r] = "waiting",
               NEW place \in {"sending", "done"}, pc' = [pc EXCEPT ![r] = place], UNCHANGED session,
               waiters' = [waiters EXCEPT ![session[r]] = RemoveFirst(@, r)]
        PROVE  /\ \A x \in Sessions : IsInjective(waiters'[x]) /\ ToSet(waiters'[x]) = Queued(x)'
               /\ waiters' \in [Sessions -> Seq(Requests)]
    <2> DEFINE s == session[r]
               rest == RemoveFirst(waiters[s], r)
    <2>1. s \in Sessions
      BY <1>4 DEF Coherent, CoherentExecution
    <2>2. waiters[s] \in Seq(Requests) /\ IsInjective(waiters[s]) /\ ToSet(waiters[s]) = Queued(s)
      BY <2>1 DEF QueuesAreExact
    <2>3. rest \in Seq(Requests) /\ IsInjective(rest) /\ ToSet(rest) = Queued(s) \ {r}
      BY <1>4, <2>2, RemoveFromQueue
    <2>4. \A x \in Sessions \ {s} : Queued(x)' = Queued(x)
      BY <1>4 DEF Queued
    <2> HIDE DEF rest
    <2>5. waiters' = [waiters EXCEPT ![s] = rest]
      BY <1>4 DEF rest
    <2>6. ASSUME NEW x \in Sessions
          PROVE  /\ IsInjective(waiters'[x]) /\ ToSet(waiters'[x]) = Queued(x)'
                 /\ waiters'[x] \in Seq(Requests)
      <3>1. CASE x = s
        <4>1. waiters'[x] = rest
          BY <2>1, <2>5, <3>1
        <4>2. Queued(x)' = Queued(x) \ {r}
          BY <1>4, <3>1 DEF Queued
        <4> QED
          BY <4>1, <4>2, <3>1, <2>3
      <3>2. CASE x # s
        <4>1. waiters'[x] = waiters[x] /\ Queued(x)' = Queued(x)
          BY <2>4, <2>5, <3>2
        <4> QED
          BY <4>1 DEF QueuesAreExact
      <3> QED
        BY <3>1, <3>2
    <2>7. waiters' \in [Sessions -> Seq(Requests)]
      BY <2>1, <2>3, <2>5
    <2> QED
      BY <2>6, <2>7
  <1>5. ASSUME NEW r \in Requests, pc[r] = "waiting"
        PROVE  /\ session[r] \in Sessions
               /\ r \in ToSet(waiters[session[r]])
               /\ LET rest == RemoveFirst(waiters[session[r]], r)
                  IN  /\ Head(waiters[session[r]]) # r =>
                             rest # <<>> /\ Head(rest) = Head(waiters[session[r]])
                      /\ rest # <<>> => Head(rest) \in Queued(session[r]) \ {r}
    <2>1. session[r] \in Sessions
      BY <1>5 DEF Coherent, CoherentExecution
    <2>2. /\ waiters[session[r]] \in Seq(Requests) /\ IsInjective(waiters[session[r]])
          /\ ToSet(waiters[session[r]]) = Queued(session[r])
          /\ r \in Queued(session[r])
      BY <2>1, <1>5 DEF QueuesAreExact, Queued
    <2> QED
      BY <2>1, <2>2, RemoveFromQueue
  <1>6. ASSUME NEW r \in Requests, IsWoken(r)
        PROVE  QueuesAreExact' /\ waiters' \in [Sessions -> Seq(Requests)]
               /\ woken' \subseteq Requests
    <2>1. /\ \A x \in Sessions : IsInjective(waiters'[x]) /\ ToSet(waiters'[x]) = Queued(x)'
          /\ waiters' \in [Sessions -> Seq(Requests)]
      BY <1>4, <1>5, <1>6 DEF IsWoken
    <2>2. ASSUME NEW w \in woken'
          PROVE  /\ w \in Requests /\ pc'[w] = "waiting" /\ ~locked'[session'[w]]
                 /\ Head(waiters'[session'[w]]) = w
      <3>1. /\ w \in woken /\ w # r /\ w \in Requests /\ pc[w] = "waiting"
            /\ session[w] \in Sessions /\ session[r] \in Sessions
            /\ session[w] # session[r]
        BY <1>6 DEF IsWoken, QueuesAreExact, Coherent, CoherentExecution
      <3> QED
        BY <3>1, <1>6 DEF IsWoken, QueuesAreExact
    <2> QED
      BY <2>1, <2>2 DEF QueuesAreExact
  <1>7. ASSUME NEW r \in Requests, Leaves(r)
        PROVE  QueuesAreExact' /\ waiters' \in [Sessions -> Seq(Requests)]
               /\ woken' \subseteq Requests
    <2> DEFINE s == session[r]
               rest == RemoveFirst(waiters[s], r)
    <2>1. /\ \A x \in Sessions : IsInjective(waiters'[x]) /\ ToSet(waiters'[x]) = Queued(x)'
          /\ waiters' \in [Sessions -> Seq(Requests)]
      BY <1>4, <1>5, <1>7 DEF Leaves
    <2>2. /\ s \in Sessions
          /\ Head(waiters[s]) # r => rest # <<>> /\ Head(rest) = Head(waiters[s])
          /\ rest # <<>> => Head(rest) \in Queued(s) \ {r}
      BY <1>5, <1>7 DEF Leaves
    <2> HIDE DEF rest
    <2>3. /\ waiters' = [waiters EXCEPT ![s] = rest]
          /\ locked' = [locked EXCEPT ![s] = FALSE]
          /\ woken' = (woken \ {r}) \cup ToWake(rest)
          /\ pc' = [pc EXCEPT ![r] = "done"]
          /\ UNCHANGED session
      BY <1>7 DEF Leaves, rest
    <2>4. ASSUME NEW w \in woken'
          PROVE  /\ w \in Requests /\ pc'[w] = "waiting" /\ ~locked'[session'[w]]
                 /\ Head(waiters'[session'[w]]) = w
      <3>1. CASE w \in woken \ {r}
        <4>1. w \in Requests /\ pc[w] = "waiting" /\ session[w] \in Sessions
          BY <3>1 DEF QueuesAreExact, Coherent, CoherentExecution
        <4>2. Head(waiters[session[w]]) = w /\ ~locked[session[w]]
          BY <3>1 DEF QueuesAreExact
        <4>3. CASE session[w] = s
          BY <3>1, <4>1, <4>2, <4>3, <2>2, <2>3
        <4>4. CASE session[w] # s
          BY <3>1, <4>1, <4>2, <4>4, <2>2, <2>3
        <4> QED
          BY <4>3, <4>4
      <3>2. CASE w \in ToWake(rest)
        <4>1. w = Head(rest) /\ w \in Queued(s) \ {r}
          BY <3>2, <2>2 DEF ToWake
        <4> QED
          BY <4>1, <2>2, <2>3 DEF Queued
      <3> QED
        BY <3>1, <3>2, <2>3
    <2> QED
      BY <2>1, <2>4 DEF QueuesAreExact
  <1> QED
    BY <1>0, <1>1, <1>2, <1>3, <1>6, <1>7 DEF LockStep, TurnStep

-----------------------------------------------------------------------------
(* Types and local variables.                                              *)

OwnershipTypeOK ==
    /\ sessionOwner \in [Sessions -> Optional(Identities)]
    /\ pendingClaim \in [Sessions -> Optional(Identities)]
    /\ binding \in [BindingKeys -> Optional(Sessions)]

\* What the methods of the registry write to its tables is well typed.
LEMMA OwnershipTypes ==
    ASSUME OwnershipTypeOK, NEW i \in Identities, NEW c \in Contexts, NEW s \in Sessions,
           \/ ReusePreferred(i, c, s) \/ ClaimSession(i, s) \/ BindCreated(i, c, s)
           \/ FinalizePreferredBinding(i, c, s) \/ FinalizeSessionClaim(i, s)
           \/ ReleaseClaim(i, s) \/ UNCHANGED ownership
    PROVE  OwnershipTypeOK'
  BY DEF OwnershipTypeOK, Optional, ReusePreferred, ClaimSession, BindCreated, ownership,
     FinalizePreferredBinding, FinalizeSessionClaim, ReleaseClaim, DropClaimOf

\* The variables that say where an execution is.
PlaceTypeOK ==
    /\ pc \in [Requests -> Suspended \cup {"idle", "done"}]
    /\ session \in [Requests -> Optional(Sessions)]
    /\ running \in [RunKeys -> Optional(Requests)]
    /\ locked \in [Sessions -> BOOLEAN]
    /\ answer \in [Requests -> {"none", "input_required", "failed"}]
    /\ stolen \subseteq Sessions

\* One execution moves: what the others carry stays.
OnlyMoves(r) ==
    /\ \A q \in Requests \ {r} : /\ pc'[q] = pc[q]
                                 /\ session'[q] = session[q]
                                 /\ answer'[q] = answer[q]

Answers == {"none", "input_required", "failed"}

\* Ending without a lock keeps the types it touches.
LEMMA EndUnlockedTypes ==
    ASSUME PlaceTypeOK, NEW r \in Requests, NEW c \in Calls, NEW final \in Answers,
           EndUnlocked(r, c, final)
    PROVE  PlaceTypeOK' /\ OnlyMoves(r) /\ pc'[r] = "done"
  BY DEF PlaceTypeOK, OnlyMoves, Answers, Optional, EndUnlocked, Untrack, LocksUnchanged

\* Taking a lock or queueing for it keeps the types it touches.
LEMMA AcquireTypes ==
    ASSUME PlaceTypeOK, NEW r \in Requests, NEW s \in Sessions, AcquireOrWait(r, s),
           running' \in [RunKeys -> Optional(Requests)], UNCHANGED answer
    PROVE  PlaceTypeOK' /\ OnlyMoves(r) /\ pc'[r] \in {"waiting", "sending"} /\ session'[r] = s
  BY DEF PlaceTypeOK, OnlyMoves, Optional, AcquireOrWait, Suspended

\* Releasing the lock and ending keeps the types it touches.
LEMMA FinishTypes ==
    ASSUME PlaceTypeOK, NEW r \in Requests, NEW final \in Answers, Finish(r, final),
           UNCHANGED session
    PROVE  PlaceTypeOK' /\ OnlyMoves(r) /\ pc'[r] = "done"
  BY DEF PlaceTypeOK, OnlyMoves, Answers, Optional, Finish, ReleaseLock, Untrack

\* What is left of the type invariant and of coherence once the places, the owners and
\* the queues are known to be well typed.
RestTypeOK ==
    /\ inflight \in [BindingKeys -> Optional(Requests)]
    /\ forgotten \subseteq Sessions
    /\ call \in [Requests -> Optional(Calls)]
    /\ claiming \subseteq Requests
    /\ joined \in [Requests -> Optional(Requests)]
    /\ create \in [Requests -> {"none", "running", "ok", "failed", "cancelled"}]
    /\ created \in [Requests -> Optional(Sessions)]
    /\ threads \subseteq Sessions
    /\ cancelled \subseteq Requests
    /\ canceledTasks \subseteq RunKeys

QueuesTypeOK == waiters \in [Sessions -> Seq(Requests)] /\ woken \subseteq Requests

\* TypeOK of the next state, from the types of what a step writes.
LEMMA TypeOKParts ==
    TypeOK <=> OwnershipTypeOK /\ PlaceTypeOK /\ RestTypeOK /\ QueuesTypeOK /\ CtlTypeOK
  BY DEF TypeOK, RuntimeTypeOK, ExecTypeOK, OwnershipTypeOK, PlaceTypeOK, RestTypeOK,
     QueuesTypeOK

\* The other executions stay coherent when one moves, whatever becomes of its locals.
LEMMA OthersCoherent ==
    ASSUME Coherent, NEW r \in Requests, OnlyMoves(r), claiming' \ {r} = claiming \ {r},
           \A q \in Requests \ {r} :
               /\ call'[q] = call[q] /\ joined'[q] = joined[q]
               /\ create'[q] = create[q] /\ created'[q] = created[q],
           UNCHANGED cancelled
    PROVE  \A q \in Requests \ {r} : CoherentExecution(q)'
  BY DEF Coherent, CoherentExecution, OnlyMoves

\* The parts of a call have the types they are declared with.
LEMMA CallFields ==
    ASSUME NEW c \in Calls
    PROVE  /\ c.id \in Identities /\ c.ctx \in Contexts /\ c.task \in Tasks
           /\ c.bound \in Optional(Sessions) /\ c.stream \in BOOLEAN
           /\ <<c.id, c.ctx>> \in BindingKeys /\ <<c.task, c.ctx>> \in RunKeys
  BY CallsAssumption DEF Call, BindingKeys, RunKeys

\* The arrival of a call that names its session keeps types and coherence.
LEMMA BeginBoundTypes ==
    ASSUME IInv, NEW r \in Requests, BeginBound(r)
    PROVE  /\ OwnershipTypeOK' /\ PlaceTypeOK' /\ RestTypeOK'
           /\ \A q \in Requests : CoherentExecution(q)'
  <1>1. OwnershipTypeOK /\ PlaceTypeOK /\ RestTypeOK /\ Coherent
    BY TypeOKParts DEF IInv
  <1>2. PICK c \in Calls :
            /\ c.bound # None
            /\ Arrives(r, c)
            /\ \/ /\ ReusePreferred(c.id, c.ctx, c.bound)
                  /\ AcquireOrWait(r, c.bound)
                  /\ Track(<<c.task, c.ctx>>, r)
                  /\ UNCHANGED <<claiming, answer>>
               \/ /\ ClaimSession(c.id, c.bound)
                  /\ claiming' = claiming \cup {r}
                  /\ AcquireOrWait(r, c.bound)
                  /\ Track(<<c.task, c.ctx>>, r)
                  /\ UNCHANGED answer
               \/ /\ ~Claimable(c.bound, c.id, pendingClaim[c.bound])
                  /\ EndUnlocked(r, c, "failed")
                  /\ UNCHANGED <<ownership, claiming>>
            /\ UNCHANGED <<inflight, joined, create>>
    BY DEF BeginBound
  <1>3. /\ c.id \in Identities /\ c.ctx \in Contexts /\ c.bound \in Sessions
        /\ <<c.task, c.ctx>> \in RunKeys
    BY <1>2, CallFields DEF Optional
  <1>4. OwnershipTypeOK'
    BY <1>1, <1>2, <1>3, OwnershipTypes
  <1>5. /\ PlaceTypeOK' /\ OnlyMoves(r)
        /\ \/ /\ pc'[r] \in {"waiting", "sending"} /\ session'[r] = c.bound /\ answer' = answer
              /\ claiming' \in {claiming, claiming \cup {r}}
           \/ pc'[r] = "done" /\ claiming' = claiming
    <2>1. Track(<<c.task, c.ctx>>, r) => running' \in [RunKeys -> Optional(Requests)]
      BY <1>1, <1>3 DEF Track, PlaceTypeOK, Optional
    <2> QED
      BY <1>1, <1>2, <1>3, <2>1, AcquireTypes, EndUnlockedTypes DEF Answers
  <1>6. RestTypeOK' /\ call' = [call EXCEPT ![r] = c] /\ pc[r] = "idle" /\ UNCHANGED cancelled
    BY <1>1, <1>2 DEF RestTypeOK, Arrives, Optional
  <1>7. CoherentExecution(r)'
    BY <1>1, <1>2, <1>3, <1>5, <1>6 DEF Coherent, CoherentExecution, Arrives, Holding, Suspended,
       RestTypeOK
  <1>8. \A q \in Requests \ {r} : CoherentExecution(q)'
    BY <1>1, <1>2, <1>5, <1>6, OthersCoherent DEF Arrives
  <1> QED
    BY <1>4, <1>5, <1>6, <1>7, <1>8

\* What follows an awaited create task keeps types and coherence.
LEMMA CreateResolvedTypes ==
    ASSUME IInv, NEW r \in Requests, NEW c \in Calls, NEW t \in Requests,
           NEW table \in [RunKeys -> Optional(Requests)], CreateResolved(r, c, t, table)
    PROVE  /\ OwnershipTypeOK' /\ PlaceTypeOK' /\ OnlyMoves(r)
           /\ inflight' \in [BindingKeys -> Optional(Requests)]
           /\ \/ /\ pc'[r] \in {"waiting", "sending"} /\ session'[r] \in Sessions
                 /\ answer' = answer
              \/ pc'[r] = "done"
  <1>1. OwnershipTypeOK /\ PlaceTypeOK /\ RestTypeOK /\ Coherent
    BY TypeOKParts DEF IInv
  <1>2. c.id \in Identities /\ c.ctx \in Contexts
    BY CallFields
  <1>3. CASE /\ create[t] = "ok"
             /\ BindCreated(c.id, c.ctx, created[t])
             /\ ForgetCreate(<<c.id, c.ctx>>, t)
             /\ AcquireOrWait(r, created[t])
             /\ running' = table
             /\ UNCHANGED answer
    <2>1. created[t] \in Sessions
      BY <1>1, <1>3 DEF Coherent, CoherentExecution
    <2>2. OwnershipTypeOK'
      BY <1>1, <1>2, <1>3, <2>1, OwnershipTypes
    <2>3. inflight' \in [BindingKeys -> Optional(Requests)]
      BY <1>1, <1>3 DEF ForgetCreate, RestTypeOK, Optional
    <2>4. PlaceTypeOK' /\ OnlyMoves(r) /\ pc'[r] \in {"waiting", "sending"}
          /\ session'[r] = created[t]
      BY <1>1, <1>3, <2>1, AcquireTypes
    <2> QED
      BY <1>3, <2>1, <2>2, <2>3, <2>4
  <1>4. CASE /\ \E final \in Answers : EndUnlocked(r, c, final)
             /\ UNCHANGED ownership
             /\ UNCHANGED inflight \/ ForgetCreate(<<c.id, c.ctx>>, t)
    <2>1. OwnershipTypeOK'
      BY <1>1, <1>4 DEF ownership, OwnershipTypeOK
    <2>2. inflight' \in [BindingKeys -> Optional(Requests)]
      BY <1>1, <1>4 DEF ForgetCreate, RestTypeOK, Optional
    <2> QED
      BY <1>1, <1>4, <2>1, <2>2, EndUnlockedTypes
  <1> QED
    BY <1>3, <1>4 DEF CreateResolved, Answers

\* The arrival of a call that names no session keeps types and coherence.
LEMMA BeginUnboundTypes ==
    ASSUME IInv, NEW r \in Requests, BeginUnbound(r)
    PROVE  /\ OwnershipTypeOK' /\ PlaceTypeOK' /\ RestTypeOK'
           /\ \A q \in Requests : CoherentExecution(q)'
  <1>1. OwnershipTypeOK /\ PlaceTypeOK /\ RestTypeOK /\ Coherent
    BY TypeOKParts DEF IInv
  <1> DEFINE Await(c, t) == /\ joined' = [joined EXCEPT ![r] = t]
                            /\ pc' = [pc EXCEPT ![r] = "creating"]
                            /\ Track(<<c.task, c.ctx>>, r)
                            /\ LocksUnchanged
                            /\ UNCHANGED <<ownership, session, claiming, answer>>
  <1>2. PICK c \in Calls :
            LET b == <<c.id, c.ctx>>
                k == <<c.task, c.ctx>>
                t == inflight[b]
            IN  /\ Arrives(r, c)
                /\ \/ /\ binding[b] # None
                      /\ AcquireOrWait(r, binding[b])
                      /\ Track(k, r)
                      /\ UNCHANGED <<ownership, inflight, claiming, joined, create, answer>>
                   \/ /\ create' = [create EXCEPT ![r] = "running"]
                      /\ inflight' = [inflight EXCEPT ![b] = r]
                      /\ Await(c, r)
                   \/ /\ t # None
                      /\ Await(c, t)
                      /\ UNCHANGED <<inflight, create>>
                   \/ /\ t # None
                      /\ CreateResolved(r, c, t, [running EXCEPT ![k] = r])
    BY DEF BeginUnbound
  <1> DEFINE b == <<c.id, c.ctx>>
             k == <<c.task, c.ctx>>
             t == inflight[b]
             table == [running EXCEPT ![k] = r]
  <1>3. /\ c.id \in Identities /\ c.ctx \in Contexts /\ b \in BindingKeys /\ k \in RunKeys
        /\ t \in Optional(Requests) /\ table \in [RunKeys -> Optional(Requests)]
        /\ binding[b] \in Optional(Sessions)
    BY <1>1, CallFields DEF Optional, RestTypeOK, PlaceTypeOK, OwnershipTypeOK
  <1>4. /\ call' = [call EXCEPT ![r] = c] /\ pc[r] = "idle"
        /\ UNCHANGED <<created, threads, cancelled, canceledTasks, forgotten>>
    BY <1>2 DEF Arrives
  <1> HIDE DEF Await
  <1>5. CASE \/ /\ binding[b] # None
                /\ AcquireOrWait(r, binding[b])
                /\ Track(k, r)
                /\ UNCHANGED <<ownership, inflight, claiming, joined, create, answer>>
             \/ t # None /\ CreateResolved(r, c, t, table)
    <2>1. /\ OwnershipTypeOK' /\ PlaceTypeOK' /\ OnlyMoves(r)
          /\ inflight' \in [BindingKeys -> Optional(Requests)]
          /\ \/ /\ pc'[r] \in {"waiting", "sending"} /\ session'[r] \in Sessions
                /\ answer' = answer
             \/ pc'[r] = "done"
          /\ UNCHANGED <<claiming, joined, create>>
      <3>1. CASE /\ binding[b] # None
                 /\ AcquireOrWait(r, binding[b])
                 /\ Track(k, r)
                 /\ UNCHANGED <<ownership, inflight, claiming, joined, create, answer>>
        <4>1. binding[b] \in Sessions /\ running' = table
          BY <1>3, <3>1 DEF Optional, Track
        <4>2. OwnershipTypeOK' /\ inflight' \in [BindingKeys -> Optional(Requests)]
          BY <1>1, <3>1 DEF ownership, OwnershipTypeOK, RestTypeOK
        <4> HIDE DEF table, b
        <4> QED
          BY <1>1, <1>3, <3>1, <4>1, <4>2, AcquireTypes
      <3>2. CASE t # None /\ CreateResolved(r, c, t, table)
        <4>1. t \in Requests /\ UNCHANGED <<claiming, joined, create>>
          BY <1>3, <3>2 DEF Optional, CreateResolved
        <4> HIDE DEF table, t
        <4> QED
          BY <1>3, <3>2, <4>1, CreateResolvedTypes
      <3> QED
        BY <1>5, <3>1, <3>2
    <2>2. RestTypeOK'
      BY <1>1, <1>4, <2>1 DEF RestTypeOK, Optional
    <2>3. CoherentExecution(r)'
      BY <1>1, <1>4, <2>1 DEF Coherent, CoherentExecution, Holding, Suspended, RestTypeOK
    <2>4. \A q \in Requests \ {r} : CoherentExecution(q)'
      BY <1>1, <1>4, <2>1, OthersCoherent
    <2> QED
      BY <2>1, <2>2, <2>3, <2>4
  <1>6. CASE \E x \in Requests :
                /\ Await(c, x)
                /\ \/ /\ create' = [create EXCEPT ![r] = "running"]
                      /\ inflight' = [inflight EXCEPT ![b] = r]
                   \/ UNCHANGED <<inflight, create>>
    <2>1. PICK x \in Requests : Await(c, x)
      BY <1>6
    <2>2. OwnershipTypeOK' /\ PlaceTypeOK' /\ OnlyMoves(r) /\ pc'[r] = "creating"
          /\ UNCHANGED <<answer, claiming>>
      BY <1>1, <1>3, <2>1 DEF Await, ownership, OwnershipTypeOK, PlaceTypeOK, OnlyMoves,
         LocksUnchanged, Track, Suspended, Optional
    <2>3. joined' = [joined EXCEPT ![r] = x]
      BY <2>1 DEF Await
    <2>4. RestTypeOK'
      BY <1>1, <1>4, <1>6, <2>2, <2>3 DEF RestTypeOK, Optional
    <2>5. create' = [create EXCEPT ![r] = "running"] \/ create' = create
      BY <1>6
    <2>6. CoherentExecution(r)'
      BY <1>1, <1>4, <2>2, <2>3, <2>5 DEF Coherent, CoherentExecution, Holding, Suspended,
         RestTypeOK
    <2>7. \A q \in Requests \ {r} : CoherentExecution(q)'
      BY <1>1, <1>4, <2>2, <2>3, <2>5, OthersCoherent DEF RestTypeOK
    <2> QED
      BY <2>2, <2>4, <2>6, <2>7
  <1>7. t # None => t \in Requests
    BY <1>3 DEF Optional
  <1> QED
    BY <1>2, <1>5, <1>6, <1>7

\* The end of a create task keeps types and coherence.
LEMMA CreationTypes ==
    ASSUME IInv, NEW t \in Requests, Creation(t)
    PROVE  /\ OwnershipTypeOK' /\ PlaceTypeOK' /\ RestTypeOK'
           /\ \A q \in Requests : CoherentExecution(q)'
  <1>1. OwnershipTypeOK /\ PlaceTypeOK /\ RestTypeOK /\ Coherent
    BY TypeOKParts DEF IInv
  <1>2. /\ create[t] = "running"
        /\ \/ /\ create' = [create EXCEPT ![t] = "ok"]
              /\ \E s \in Sessions : /\ threads' = threads \cup {s}
                                     /\ created' = [created EXCEPT ![t] = s]
           \/ /\ create' = [create EXCEPT ![t] = "failed"]
              /\ UNCHANGED <<created, threads>>
        /\ LocksUnchanged
        /\ UNCHANGED <<runtimeVars, pc, call, session, claiming, joined, cancelled, answer,
                       canceledTasks>>
    BY DEF Creation, CreateReturns, CreateFails
  <1>3. OwnershipTypeOK' /\ PlaceTypeOK'
    BY <1>1, <1>2 DEF OwnershipTypeOK, PlaceTypeOK, runtimeVars, LocksUnchanged
  <1>4. RestTypeOK'
    BY <1>1, <1>2 DEF RestTypeOK, runtimeVars, Optional
  <1>5. \A q \in Requests : CoherentExecution(q)'
    BY <1>1, <1>2 DEF Coherent, CoherentExecution, RestTypeOK
  <1> QED
    BY <1>3, <1>4, <1>5

\* Going on after the create task keeps types and coherence.
LEMMA ResumeCreateTypes ==
    ASSUME IInv, NEW r \in Requests, ResumeCreate(r) \/ AbortCreate(r)
    PROVE  /\ OwnershipTypeOK' /\ PlaceTypeOK' /\ RestTypeOK'
           /\ \A q \in Requests : CoherentExecution(q)'
  <1>1. OwnershipTypeOK /\ PlaceTypeOK /\ RestTypeOK /\ Coherent
    BY TypeOKParts DEF IInv
  <1>2. /\ pc[r] = "creating" /\ call[r] \in Calls /\ joined[r] \in Requests
        /\ running \in [RunKeys -> Optional(Requests)]
    BY <1>1 DEF ResumeCreate, AbortCreate, Coherent, CoherentExecution, Suspended, PlaceTypeOK
  <1>3. /\ OwnershipTypeOK' /\ PlaceTypeOK' /\ OnlyMoves(r)
        /\ inflight' \in [BindingKeys -> Optional(Requests)]
        /\ \/ /\ pc'[r] \in {"waiting", "sending"} /\ session'[r] \in Sessions
              /\ answer' = answer
           \/ pc'[r] = "done"
    <2>1. CASE ResumeCreate(r)
      BY <1>2, <2>1, CreateResolvedTypes DEF ResumeCreate
    <2>2. CASE AbortCreate(r)
      <3>1. EndUnlocked(r, call[r], "none") /\ UNCHANGED <<ownership, inflight>>
        BY <2>2 DEF AbortCreate
      <3>2. PlaceTypeOK' /\ OnlyMoves(r) /\ pc'[r] = "done"
        BY <1>1, <1>2, <3>1, EndUnlockedTypes DEF Answers
      <3> QED
        BY <1>1, <3>1, <3>2 DEF ownership, OwnershipTypeOK, RestTypeOK
    <2> QED
      BY <2>1, <2>2
  <1>4. UNCHANGED <<claiming, joined, create, call, created, threads, cancelled, canceledTasks,
                    forgotten>>
    BY DEF ResumeCreate, CreateResolved, AbortCreate
  <1>5. RestTypeOK'
    BY <1>1, <1>3, <1>4 DEF RestTypeOK
  <1>6. CoherentExecution(r)'
    BY <1>1, <1>2, <1>3, <1>4 DEF Coherent, CoherentExecution, Holding, Suspended
  <1>7. \A q \in Requests \ {r} : CoherentExecution(q)'
    BY <1>1, <1>3, <1>4, OthersCoherent
  <1> QED
    BY <1>3, <1>5, <1>6, <1>7

\* A holder or a waiter moves on: its claim, its place and its answer may change.
MovesOn(r) ==
    /\ OwnershipTypeOK' /\ PlaceTypeOK' /\ OnlyMoves(r)
    /\ UNCHANGED registryRest
    /\ \/ claiming' = claiming \ {r} /\ pc'[r] \in {"draining", "unwinding", "done"}
       \/ claiming' = claiming /\ pc'[r] = "sending"
       \/ claiming' = claiming /\ pc'[r] = "done" /\ pc[r] \notin {"waiting", "sending"}
    /\ pc'[r] \in {"sending", "draining"} =>
           answer'[r] = answer[r] /\ pc[r] \in {"waiting", "sending"}
    /\ session' = session

\* One execution that only moves on keeps the coherence of all.
LEMMA MovesOnTypes ==
    ASSUME IInv, NEW r \in Requests, pc[r] \in {"waiting"} \cup Holding, MovesOn(r)
    PROVE  /\ OwnershipTypeOK' /\ PlaceTypeOK' /\ RestTypeOK'
           /\ \A q \in Requests : CoherentExecution(q)'
  <1>1. RestTypeOK /\ Coherent
    BY TypeOKParts DEF IInv
  <1>2. RestTypeOK'
    BY <1>1 DEF RestTypeOK, MovesOn, registryRest
  <1>3. CoherentExecution(r)'
    BY <1>1 DEF Coherent, CoherentExecution, Holding, Suspended, MovesOn, registryRest
  <1>4. \A q \in Requests \ {r} : CoherentExecution(q)'
    BY <1>1, OthersCoherent DEF MovesOn, registryRest
  <1> QED
    BY <1>2, <1>3, <1>4 DEF MovesOn

\* Releasing the claim of `finally` keeps the types it touches.
LEMMA DropPendingClaimTypes ==
    ASSUME OwnershipTypeOK, NEW r \in Requests, call[r] \in Calls, session[r] \in Sessions,
           DropPendingClaim(r)
    PROVE  OwnershipTypeOK' /\ claiming' = claiming \ {r}
  <1>1. call[r].id \in Identities /\ call[r].ctx \in Contexts
    BY CallFields
  <1> QED
    BY <1>1, OwnershipTypes DEF DropPendingClaim

\* A failed or cancelled turn keeps the types it touches.
LEMMA AbandonTypes ==
    ASSUME IInv, NEW r \in Requests, pc[r] = "sending", NEW final \in Answers,
           Abandon(r, final), UNCHANGED registryRest
    PROVE  MovesOn(r)
  <1>1. /\ OwnershipTypeOK /\ PlaceTypeOK
        /\ call[r] \in Calls /\ session[r] \in Sessions /\ session' = session
    BY TypeOKParts DEF IInv, Coherent, CoherentExecution, Suspended, Holding, registryRest
  <1>2. OwnershipTypeOK' /\ claiming' = claiming \ {r}
    BY <1>1, DropPendingClaimTypes DEF Abandon
  <1>3. CASE call[r].stream
    BY <1>1, <1>2, <1>3
       DEF Abandon, MovesOn, PlaceTypeOK, OnlyMoves, Answers, Suspended, LocksUnchanged
  <1>4. CASE ~call[r].stream
    BY <1>1, <1>2, <1>4, FinishTypes DEF Abandon, MovesOn
  <1> QED
    BY <1>3, <1>4

\* The end of a turn keeps types and coherence.
LEMMA TurnTypes ==
    ASSUME IInv, NEW r \in Requests, Turn(r)
    PROVE  /\ OwnershipTypeOK' /\ PlaceTypeOK' /\ RestTypeOK'
           /\ \A q \in Requests : CoherentExecution(q)'
  <1>1. CASE FinalizeRefused(r) \/ SendFails(r) \/ AbortSend(r)
    <2>1. /\ pc[r] = "sending"
          /\ \E final \in Answers : Abandon(r, final)
          /\ UNCHANGED registryRest
      BY <1>1 DEF FinalizeRefused, SendFails, AbortSend, Answers
    <2> QED
      BY <2>1, AbandonTypes, MovesOnTypes DEF Holding
  <1>2. CASE SendReturns(r)
    <2>1. /\ OwnershipTypeOK /\ PlaceTypeOK
          /\ pc[r] = "sending" /\ UNCHANGED registryRest /\ session' = session
          /\ call[r] \in Calls /\ session[r] \in Sessions
      BY <1>2, TypeOKParts
         DEF SendReturns, IInv, Coherent, CoherentExecution, Suspended, Holding, registryRest
    <2>2. call[r].id \in Identities /\ call[r].ctx \in Contexts
      BY <2>1, CallFields
    <2>3. OwnershipTypeOK' /\ claiming' = claiming \ {r}
      BY <1>2, <2>1, <2>2, OwnershipTypes DEF SendReturns
    <2>4. CASE call[r].stream
      <3>1. MovesOn(r)
        BY <1>2, <2>1, <2>3, <2>4
           DEF SendReturns, MovesOn, PlaceTypeOK, OnlyMoves, Suspended, LocksUnchanged
      <3> QED
        BY <2>1, <3>1, MovesOnTypes DEF Holding
    <2>5. CASE ~call[r].stream
      <3>1. Finish(r, "input_required")
        BY <1>2, <2>5 DEF SendReturns
      <3>2. MovesOn(r)
        BY <2>1, <2>3, <3>1, FinishTypes DEF MovesOn, Answers
      <3> QED
        BY <2>1, <3>2, MovesOnTypes DEF Holding
    <2> QED
      BY <2>4, <2>5
  <1> QED
    BY <1>1, <1>2 DEF Turn

\* Every resumption keeps types and coherence.
LEMMA ResumptionTypes ==
    ASSUME IInv, NEW r \in Requests, Resumption(r)
    PROVE  /\ OwnershipTypeOK' /\ PlaceTypeOK' /\ RestTypeOK'
           /\ \A q \in Requests : CoherentExecution(q)'
  <1>1. OwnershipTypeOK /\ PlaceTypeOK /\ Coherent
    BY TypeOKParts DEF IInv
  <1>2. CASE ResumeCreate(r) \/ AbortCreate(r)
    BY <1>2, ResumeCreateTypes
  <1>3. CASE WakeUp(r)
    <2>1. MovesOn(r)
      BY <1>1, <1>3 DEF WakeUp, MovesOn, registryRest, PlaceTypeOK, OwnershipTypeOK, ownership,
         OnlyMoves, Suspended
    <2> QED
      BY <1>3, <2>1, MovesOnTypes DEF WakeUp
  <1>4. CASE LeaveQueue(r)
    <2>1. pc[r] = "waiting" /\ call[r] \in Calls /\ session[r] \in Sessions
      BY <1>1, <1>4 DEF LeaveQueue, Coherent, CoherentExecution, Suspended
    <2>2. OwnershipTypeOK' /\ claiming' = claiming \ {r}
      BY <1>1, <1>4, <2>1, DropPendingClaimTypes DEF LeaveQueue
    <2>3. PlaceTypeOK' /\ OnlyMoves(r) /\ pc'[r] = "done" /\ UNCHANGED registryRest
          /\ session' = session
      BY <1>1, <1>4, <2>1 DEF LeaveQueue, registryRest, PlaceTypeOK, OnlyMoves, Untrack, Optional
    <2> QED
      BY <2>1, <2>2, <2>3, MovesOnTypes DEF MovesOn
  <1>5. CASE Drained(r) \/ Unwound(r)
    <2>1. /\ pc[r] \in {"draining", "unwinding"}
          /\ \E final \in Answers : Finish(r, final)
          /\ UNCHANGED <<registryRest, ownership, claiming>>
      BY <1>1, <1>5 DEF Drained, Unwound, Answers, PlaceTypeOK
    <2>2. session' = session
      BY <2>1 DEF registryRest
    <2>3. PlaceTypeOK' /\ OnlyMoves(r) /\ pc'[r] = "done"
      BY <1>1, <2>1, <2>2, FinishTypes
    <2>4. OwnershipTypeOK'
      BY <1>1, <2>1 DEF ownership, OwnershipTypeOK
    <2> QED
      BY <2>1, <2>2, <2>3, <2>4, MovesOnTypes DEF MovesOn, Holding
  <1> QED
    BY <1>2, <1>3, <1>4, <1>5 DEF Resumption

\* tasks/cancel and a disconnect keep types and coherence.
LEMMA CancellationTypes ==
    ASSUME IInv,
           \/ \E k \in RunKeys, i \in Identities : CancelTask(k, i)
           \/ \E r \in Requests : Disconnect(r)
    PROVE  /\ OwnershipTypeOK' /\ PlaceTypeOK' /\ RestTypeOK'
           /\ \A q \in Requests : CoherentExecution(q)'
  <1>1. OwnershipTypeOK /\ PlaceTypeOK /\ RestTypeOK /\ Coherent /\ TrackingIsAccurate
    BY TypeOKParts DEF IInv
  <1>2. /\ \E dropped : /\ cancelled' = cancelled \cup dropped
                        /\ dropped \subseteq {r \in Requests : pc[r] \in Suspended}
        /\ \E ts : AbortCreates(ts)
        /\ binding' = binding \/ \E b : binding' = [binding EXCEPT ![b] = None]
        /\ inflight' = inflight \/ \E b : inflight' = [inflight EXCEPT ![b] = None]
        /\ canceledTasks' \subseteq RunKeys
        /\ LocksUnchanged
        /\ UNCHANGED <<sessionOwner, pendingClaim, running, forgotten, pc, call, session, claiming,
                       joined, created, threads, answer>>
    <2>1. ASSUME NEW k \in RunKeys, NEW i \in Identities, CancelTask(k, i)
          PROVE  {running[k]} \ {None} \subseteq {r \in Requests : pc[r] \in Suspended}
      BY <1>1 DEF TrackingIsAccurate, PlaceTypeOK, Optional
    <2>2. CASE \E k \in RunKeys, i \in Identities : CancelTask(k, i)
      <3>1. PICK k \in RunKeys, i \in Identities : CancelTask(k, i)
        BY <2>2
      <3>2. canceledTasks' \subseteq RunKeys
        BY <1>1, <3>1 DEF CancelTask, RestTypeOK
      <3>3. /\ cancelled' = cancelled \cup ({running[k]} \ {None})
            /\ \E ts : AbortCreates(ts)
            /\ \E b : binding' = [binding EXCEPT ![b] = None]
            /\ \E b : inflight' = [inflight EXCEPT ![b] = None]
        BY <3>1 DEF CancelTask
      <3> QED
        <4>1. /\ LocksUnchanged
              /\ UNCHANGED <<sessionOwner, pendingClaim, running, forgotten, pc, call, session,
                             claiming, joined, created, threads, answer>>
          BY <3>1 DEF CancelTask
        <4>2. {running[k]} \ {None} \subseteq {r \in Requests : pc[r] \in Suspended}
          BY <2>1, <3>1
        <4> DEFINE gone == {running[k]} \ {None}
        <4>3. cancelled' = cancelled \cup gone
              /\ gone \subseteq {r \in Requests : pc[r] \in Suspended}
          BY <3>3, <4>2
        <4> HIDE DEF gone
        <4>4. \E dropped : /\ cancelled' = cancelled \cup dropped
                           /\ dropped \subseteq {r \in Requests : pc[r] \in Suspended}
          BY <4>3
        <4>5. /\ \E ts : AbortCreates(ts)
              /\ binding' = binding \/ \E b : binding' = [binding EXCEPT ![b] = None]
              /\ inflight' = inflight \/ \E b : inflight' = [inflight EXCEPT ![b] = None]
          BY <3>3, Zenon
        <4> QED
          BY <3>2, <4>1, <4>4, <4>5
    <2>3. CASE \E r \in Requests : Disconnect(r)
      <3>1. PICK r \in Requests : Disconnect(r)
        BY <2>3
      <3>2. \E dropped : /\ cancelled' = cancelled \cup dropped
                         /\ dropped \subseteq {x \in Requests : pc[x] \in Suspended}
        <4>1. cancelled' = cancelled \cup {r}
              /\ {r} \subseteq {x \in Requests : pc[x] \in Suspended}
          BY <3>1 DEF Disconnect
        <4> QED
          BY <4>1
      <3>3. \E ts : AbortCreates(ts)
        BY <3>1 DEF Disconnect
      <3>4. UNCHANGED <<runtimeVars, pc, call, session, claiming, joined, created, threads, answer,
                        canceledTasks>> /\ LocksUnchanged
        BY <3>1 DEF Disconnect
      <3> QED
        BY <1>1, <3>2, <3>3, <3>4 DEF RestTypeOK, runtimeVars
    <2> QED
      BY <2>2, <2>3
  <1>3. \A q \in Requests : create'[q] \in {create[q], "cancelled"}
        /\ (create[q] # "running" => create'[q] = create[q])
    BY <1>2 DEF AbortCreates
  <1>4. OwnershipTypeOK' /\ PlaceTypeOK'
    BY <1>1, <1>2 DEF OwnershipTypeOK, PlaceTypeOK, LocksUnchanged, Optional
  <1>5. RestTypeOK'
    BY <1>1, <1>2 DEF RestTypeOK, AbortCreates, Optional
  <1>6. \A q \in Requests : CoherentExecution(q)'
    BY <1>1, <1>2, <1>3 DEF Coherent, CoherentExecution, Suspended
  <1> QED
    BY <1>4, <1>5, <1>6

\* Session control requests keep types and coherence.
LEMMA ControlTypes ==
    ASSUME TypeOK, Coherent, NEW d \in Controls, ControlArrives(d) \/ ControlEnds(d)
    PROVE  OwnershipTypeOK' /\ CtlTypeOK' /\ (\A x \in Controls : CoherentControl(x)')
  <1>1. OwnershipTypeOK /\ CtlTypeOK /\ threads \subseteq Sessions
    BY TypeOKParts DEF RestTypeOK
  <1>2. ASSUME NEW i \in Optional(Identities), NEW s \in Sessions, CtlClaim(d, i, s)
        PROVE  OwnershipTypeOK' /\ CtlTypeOK' /\ (\A x \in Controls : CoherentControl(x)')
    <2>1. OwnershipTypeOK'
      BY <1>1, <1>2, OwnershipTypes
         DEF CtlClaim, OwnershipTypeOK, ownership, ClaimSession, Optional
    <2>2. CtlTypeOK'
      BY <1>1, <1>2 DEF CtlClaim, CtlTypeOK, CtlReply, Optional
    <2>3. \A x \in Controls : CoherentControl(x)'
      BY <1>1, <1>2 DEF Coherent, CoherentControl, CtlClaim, CtlTypeOK, CtlReply, Optional
    <2> QED
      BY <2>1, <2>2, <2>3
  <1>3. CASE CtlEnd(d)
    <2>1. /\ ctlPc[d] = "calling" /\ ctlSession[d] \in Sessions
          /\ d \in ctlClaiming => ctlBy[d] \in Identities
      BY <1>3 DEF CtlEnd, CtlReturns, CtlFinalizeRefused, CtlFails, Coherent, CoherentControl
    <2>2. /\ \/ /\ d \in ctlClaiming
                /\ \/ FinalizeSessionClaim(ctlBy[d], ctlSession[d])
                   \/ ReleaseClaim(ctlBy[d], ctlSession[d])
             \/ UNCHANGED ownership
          /\ ctlClaiming' = ctlClaiming \ {d}
          /\ \E reply \in {"result", "forbidden", "error"} : CtlReply(d, reply)
          /\ UNCHANGED <<ctlBy, ctlSession>>
      BY <1>3 DEF CtlEnd, CtlReturns, CtlFinalizeRefused, CtlFails, CtlGiveUp
    <2>3. OwnershipTypeOK'
      BY <1>1, <2>1, <2>2
         DEF OwnershipTypeOK, ownership, FinalizeSessionClaim, ReleaseClaim, DropClaimOf, Optional
    <2>4. CtlTypeOK'
      BY <1>1, <2>2 DEF CtlTypeOK, CtlReply
    <2>5. \A x \in Controls : CoherentControl(x)'
      BY <1>1, <2>2 DEF Coherent, CoherentControl, CtlTypeOK, CtlReply
    <2> QED
      BY <2>3, <2>4, <2>5
  <1> QED
    BY <1>1, <1>2, <1>3 DEF ControlArrives, ControlEnds

\* A lost cache entry keeps types and coherence.
LEMMA CacheLossTypes ==
    ASSUME TypeOK, CacheLoss
    PROVE  OwnershipTypeOK' /\ forgotten' \subseteq Sessions /\ UNCHANGED <<inflight, running>>
  BY DEF TypeOK, RuntimeTypeOK, CacheLoss, OwnerLost, BindingLost, OwnershipTypeOK, Optional

-----------------------------------------------------------------------------
(* The table of running executions.                                        *)

\* What a step does to the table and to the executions in it.
Starts(r, c) ==
    /\ pc[r] = "idle"
    /\ call' = [call EXCEPT ![r] = c]
    /\ \/ pc'[r] \in Suspended /\ Track(<<c.task, c.ctx>>, r)
       \/ pc'[r] = "done" /\ Untrack(<<c.task, c.ctx>>)

Continues(r) ==
    /\ pc[r] \in Suspended
    /\ UNCHANGED call
    /\ \/ pc'[r] \in Suspended /\ UNCHANGED running
       \/ pc'[r] = "done" /\ Untrack(RunKey(r))

TrackStep ==
    \/ \E r \in Requests :
           /\ \A q \in Requests \ {r} : pc'[q] = pc[q]
           /\ \/ \E c \in Calls : Starts(r, c)
              \/ Continues(r)
              \/ pc[r] = "idle" /\ pc'[r] = "done" /\ UNCHANGED <<call, running>>
    \/ UNCHANGED <<pc, call, running>>

\* What each kind of change of the running table does to TrackingIsAccurate.
LEMMA TrackingStep ==
    ASSUME TypeOK, Coherent, TrackingIsAccurate, TrackStep
    PROVE  TrackingIsAccurate'
  <1> DEFINE NewKey(q) == <<call'[q].task, call'[q].ctx>>
  <1>0. (\A x \in RunKeys : running'[x] # None =>
             pc'[running'[x]] \in Suspended /\ NewKey(running'[x]) = x)
        /\ (\A x \in Requests : pc'[x] \in Suspended /\ running'[NewKey(x)] # x =>
                \E q \in Requests \ {x} : call'[q] # None /\ NewKey(q) = NewKey(x))
        => TrackingIsAccurate'
    BY DEF TrackingIsAccurate, RunKey
  <1>1. /\ running \in [RunKeys -> Optional(Requests)]
        /\ call \in [Requests -> Optional(Calls)]
        /\ \A r \in Requests : /\ pc[r] \in Suspended => call[r] \in Calls
                               /\ pc[r] = "idle" => call[r] = None
        /\ None \notin Requests /\ None \notin Calls /\ "idle" \notin Suspended
           /\ "done" \notin Suspended
    BY NoneAssumption, CallsAssumption
       DEF TypeOK, RuntimeTypeOK, ExecTypeOK, Coherent, CoherentExecution, Suspended
  <1>2. CASE UNCHANGED <<pc, call, running>>
    BY <1>2 DEF TrackingIsAccurate, RunKey
  <1>3. ASSUME NEW r \in Requests, NEW c \in Calls, Starts(r, c),
               \A q \in Requests \ {r} : pc'[q] = pc[q]
        PROVE  TrackingIsAccurate'
    <2> DEFINE k == <<c.task, c.ctx>>
    <2>1. k \in RunKeys
      BY CallFields
    <2>2. /\ NewKey(r) = k /\ call'[r] = c
          /\ \A q \in Requests \ {r} : NewKey(q) = RunKey(q) /\ call'[q] = call[q]
      BY <1>1, <1>3 DEF Starts, RunKey, NewKey
    <2> HIDE DEF NewKey
    <2>3. running' \in {[running EXCEPT ![k] = r], [running EXCEPT ![k] = None]}
      BY <1>3 DEF Starts, Track, Untrack
    <2>4. \A x \in RunKeys : running[x] # r
      BY <1>1, <1>3 DEF Starts, TrackingIsAccurate
    <2>5. ASSUME NEW x \in RunKeys, running'[x] # None
          PROVE  pc'[running'[x]] \in Suspended /\ NewKey(running'[x]) = x
      <3>1. CASE x = k
        <4>1. running'[x] = r /\ pc'[r] \in Suspended
          BY <1>1, <1>3, <2>1, <2>5, <3>1 DEF Starts, Track, Untrack
        <4> QED
          BY <2>2, <3>1, <4>1
      <3>2. CASE x # k
        <4>1. running'[x] = running[x] /\ running[x] \in Requests \ {r}
          BY <1>1, <2>3, <2>4, <2>5, <3>2 DEF Optional
        <4> QED
          BY <1>3, <2>2, <2>5, <4>1 DEF TrackingIsAccurate
      <3> QED
        BY <3>1, <3>2
    <2>6. ASSUME NEW x \in Requests, pc'[x] \in Suspended, running'[NewKey(x)] # x
          PROVE  \E q \in Requests \ {x} : call'[q] # None /\ NewKey(q) = NewKey(x)
      <3>1. CASE x = r
        BY <1>1, <1>3, <2>1, <2>2, <2>6, <3>1 DEF Starts, Track
      <3>2. CASE x # r /\ RunKey(x) = k
        BY <1>1, <2>2, <3>2
      <3>3. CASE x # r /\ RunKey(x) # k
        <4>1. running[RunKey(x)] # x /\ pc[x] \in Suspended
          <5>1. pc[x] \in Suspended /\ NewKey(x) = RunKey(x)
            BY <1>3, <2>2, <2>6, <3>3
          <5>2. RunKey(x) \in RunKeys
            BY <1>1, <5>1, CallFields DEF RunKey
          <5> QED
            BY <1>1, <2>3, <2>6, <3>3, <5>1, <5>2
        <4>2. PICK q \in Requests \ {x} : call[q] # None /\ RunKey(q) = RunKey(x)
          BY <4>1 DEF TrackingIsAccurate
        <4>3. NewKey(x) = RunKey(x)
          BY <2>2, <3>3
        <4>4. q # r
          BY <1>1, <1>3, <4>2 DEF Starts
        <4> QED
          BY <2>2, <4>2, <4>3, <4>4
      <3> QED
        BY <3>1, <3>2, <3>3
    <2> QED
      BY <1>0, <2>5, <2>6
  <1>4. ASSUME NEW r \in Requests, Continues(r), \A q \in Requests \ {r} : pc'[q] = pc[q]
        PROVE  TrackingIsAccurate'
    <2>1. \A q \in Requests : NewKey(q) = RunKey(q) /\ call'[q] = call[q]
      BY <1>4 DEF Continues, RunKey
    <2>2. call[r] # None /\ RunKey(r) \in RunKeys
      BY <1>1, <1>4, CallFields DEF Continues, RunKey
    <2> HIDE DEF NewKey
    <2>3. ASSUME NEW x \in RunKeys, running'[x] # None
          PROVE  pc'[running'[x]] \in Suspended /\ NewKey(running'[x]) = x
      BY <1>1, <1>4, <2>1, <2>2, <2>3 DEF TrackingIsAccurate, Optional, Continues, Untrack
    <2>4. ASSUME NEW x \in Requests, pc'[x] \in Suspended, running'[NewKey(x)] # x
          PROVE  \E q \in Requests \ {x} : call'[q] # None /\ NewKey(q) = NewKey(x)
      <3>1. pc[x] \in Suspended
        BY <1>4, <2>4 DEF Continues
      <3>2. CASE running[RunKey(x)] # x
        <4>1. PICK q \in Requests \ {x} : call[q] # None /\ RunKey(q) = RunKey(x)
          BY <3>1, <3>2 DEF TrackingIsAccurate
        <4> QED
          BY <2>1, <4>1
      <3>3. CASE running[RunKey(x)] = x
        <4>0. RunKey(x) \in RunKeys /\ NewKey(x) = RunKey(x)
          BY <1>1, <2>1, <3>1, CallFields DEF RunKey
        <4>1. x # r /\ RunKey(x) = RunKey(r)
          BY <4>0, <1>1, <1>4, <2>1, <2>4, <3>3 DEF Continues, Untrack
        <4> QED
          BY <2>1, <2>2, <4>1
      <3> QED
        BY <3>2, <3>3
    <2> QED
      BY <1>0, <2>3, <2>4
  <1>5. ASSUME NEW r \in Requests, \A q \in Requests \ {r} : pc'[q] = pc[q],
               pc[r] = "idle", pc'[r] = "done", UNCHANGED <<call, running>>
        PROVE  TrackingIsAccurate'
    BY <1>1, <1>5 DEF TrackingIsAccurate, RunKey, Optional
  <1> QED
    BY <1>2, <1>3, <1>4, <1>5 DEF TrackStep

\* An arriving call is registered, or ends without having been.
LEMMA ArrivalIsTrackStep ==
    ASSUME IInv, NEW r \in Requests, Arrival(r)
    PROVE  TrackStep
  <1>1. PlaceTypeOK
    BY TypeOKParts DEF IInv
  <1>2. CASE Reject(r)
    BY <1>1, <1>2 DEF Reject, runtimeVars, TrackStep, PlaceTypeOK
  <1>3. CASE BeginBound(r)
    <2>1. PICK c \in Calls :
              /\ Arrives(r, c)
              /\ \/ AcquireOrWait(r, c.bound) /\ Track(<<c.task, c.ctx>>, r)
                 \/ EndUnlocked(r, c, "failed")
      BY <1>3 DEF BeginBound
    <2> QED
      BY <1>1, <2>1 DEF Arrives, AcquireOrWait, EndUnlocked, TrackStep, Starts, PlaceTypeOK,
         Suspended
  <1>4. CASE BeginUnbound(r)
    <2>1. PICK c \in Calls :
              /\ Arrives(r, c)
              /\ \/ /\ \/ \E s : AcquireOrWait(r, s)
                       \/ pc' = [pc EXCEPT ![r] = "creating"]
                    /\ Track(<<c.task, c.ctx>>, r)
                 \/ \E t : CreateResolved(r, c, t, [running EXCEPT ![<<c.task, c.ctx>>] = r])
      BY <1>4 DEF BeginUnbound
    <2>2. CASE /\ \/ \E s : AcquireOrWait(r, s)
                  \/ pc' = [pc EXCEPT ![r] = "creating"]
               /\ Track(<<c.task, c.ctx>>, r)
      BY <1>1, <2>1, <2>2 DEF Arrives, AcquireOrWait, TrackStep, Starts, PlaceTypeOK, Suspended
    <2>3. CASE \E t : CreateResolved(r, c, t, [running EXCEPT ![<<c.task, c.ctx>>] = r])
      <3>1. \/ /\ \E s : AcquireOrWait(r, s)
               /\ Track(<<c.task, c.ctx>>, r)
            \/ \E final : EndUnlocked(r, c, final)
        BY <2>3 DEF CreateResolved, Track
      <3> QED
        BY <1>1, <2>1, <3>1
           DEF Arrives, AcquireOrWait, EndUnlocked, TrackStep, Starts, PlaceTypeOK, Suspended
    <2> QED
      BY <2>1, <2>2, <2>3
  <1> QED
    BY <1>2, <1>3, <1>4 DEF Arrival

\* A resumed execution stays registered or ends and is dropped.
LEMMA ResumptionIsTrackStep ==
    ASSUME IInv, NEW r \in Requests, Resumption(r) \/ Turn(r)
    PROVE  TrackStep
  <1>1. PlaceTypeOK
    BY TypeOKParts DEF IInv
  <1>2. pc[r] \in Suspended /\ UNCHANGED call
    BY DEF Resumption, ResumeCreate, AbortCreate, WakeUp, LeaveQueue, Drained, Unwound, Turn,
       SendReturns, FinalizeRefused, SendFails, AbortSend, registryRest, Suspended
  <1>3. CASE \E final : EndUnlocked(r, call[r], final) \/ Finish(r, final)
    BY <1>1, <1>2, <1>3 DEF EndUnlocked, Finish, RunKey, TrackStep, Continues, PlaceTypeOK
  <1>4. CASE /\ \/ \E s : AcquireOrWait(r, s)
                \/ \E place \in Suspended : pc' = [pc EXCEPT ![r] = place]
             /\ UNCHANGED running
    BY <1>1, <1>2, <1>4 DEF AcquireOrWait, TrackStep, Continues, PlaceTypeOK, Suspended
  <1>5. CASE pc' = [pc EXCEPT ![r] = "done"] /\ Untrack(RunKey(r))
    BY <1>1, <1>2, <1>5 DEF TrackStep, Continues, PlaceTypeOK
  <1>6. CASE ResumeCreate(r)
    <2>1. \/ \E final : EndUnlocked(r, call[r], final)
          \/ (\E s : AcquireOrWait(r, s)) /\ UNCHANGED running
      BY <1>6 DEF ResumeCreate, CreateResolved
    <2> QED
      BY <1>3, <1>4, <2>1
  <1>7. CASE AbortCreate(r) \/ Drained(r) \/ Unwound(r)
    BY <1>3, <1>7 DEF AbortCreate, Drained, Unwound
  <1>8. CASE WakeUp(r)
    BY <1>4, <1>8 DEF WakeUp, Suspended
  <1>9. CASE LeaveQueue(r)
    BY <1>5, <1>9 DEF LeaveQueue
  <1>10. CASE Turn(r)
    <2>1. \/ \E final : Finish(r, final)
          \/ (\E place \in Suspended : pc' = [pc EXCEPT ![r] = place]) /\ UNCHANGED running
      BY <1>10 DEF Turn, SendReturns, FinalizeRefused, SendFails, AbortSend, Abandon, Suspended
    <2> QED
      BY <1>3, <1>4, <2>1
  <1> QED
    BY <1>6, <1>7, <1>8, <1>9, <1>10 DEF Resumption

\* Every step changes the running table in one of those ways.
LEMMA NextIsTrackStep ==
    ASSUME IInv, [Next]_vars
    PROVE  TrackStep
  <1>1. ASSUME NEW r \in Requests, CallArrives(r) \/ ExecutionResumes(r) \/ TurnEnds(r)
        PROVE  TrackStep
    BY <1>1, ArrivalIsTrackStep, ResumptionIsTrackStep
       DEF CallArrives, ExecutionResumes, TurnEnds
  <1>2. ASSUME NEW r \in Requests, CreateEnds(r) \/ ClientDisconnects(r)
        PROVE  TrackStep
    BY <1>2 DEF CreateEnds, Creation, CreateReturns, CreateFails, ClientDisconnects, Disconnect,
       runtimeVars, TrackStep
  <1>3. ASSUME NEW k \in RunKeys, NEW i \in Identities, TaskCancelled(k, i)
        PROVE  TrackStep
    BY <1>3 DEF TaskCancelled, CancelTask, TrackStep
  <1>4. ASSUME NEW d \in Controls, ControlArrives(d) \/ ControlEnds(d)
        PROVE  TrackStep
    BY <1>4 DEF ControlArrives, ControlEnds, execVars, CtlClaim, CtlEnd, CtlReturns, CtlGiveUp,
       CtlFinalizeRefused, CtlFails, registryFrame, TrackStep
  <1>5. CASE CacheLoses
    BY <1>5 DEF CacheLoses, CacheLoss, OwnerLost, BindingLost, execVars, TrackStep
  <1>6. CASE UNCHANGED vars
    BY <1>6 DEF vars, runtimeVars, execVars, TrackStep
  <1> QED
    BY <1>1, <1>2, <1>3, <1>4, <1>5, <1>6 DEF Next

-----------------------------------------------------------------------------
(* The induction.                                                          *)

\* The inductive invariant holds initially ...
LEMMA InitIInv == Init => IInv
  <1> SUFFICES ASSUME Init PROVE IInv
    OBVIOUS
  <1> USE DEF Init, RuntimeInit, ExecInit, CtlInit
  <1>1. TypeOK
    BY OldThreadsAssumption
       DEF TypeOK, RuntimeTypeOK, ExecTypeOK, CtlTypeOK, Optional, Suspended
  <1>2. Coherent
    BY DEF Coherent, CoherentExecution, CoherentControl, Suspended, Holding
  <1>3. QueuesAreExact
    BY DEF QueuesAreExact, IsInjective, ToSet, Queued
  <1>4. TrackingIsAccurate
    BY DEF TrackingIsAccurate, Suspended
  <1> QED
    BY <1>1, <1>2, <1>3, <1>4 DEF IInv

\* ... every step keeps its types and its coherence ...
LEMMA NextTypes ==
    ASSUME IInv, [Next]_vars, QueuesTypeOK'
    PROVE  TypeOK' /\ Coherent'
  <1>1. TypeOK /\ OwnershipTypeOK /\ PlaceTypeOK /\ RestTypeOK /\ CtlTypeOK /\ Coherent
    BY TypeOKParts DEF IInv
  <1>2. TypeOK' <=> OwnershipTypeOK' /\ PlaceTypeOK' /\ RestTypeOK' /\ QueuesTypeOK' /\ CtlTypeOK'
    BY TypeOKParts, PTL
  <1>3. UNCHANGED ctlVars => CtlTypeOK' /\ \A d \in Controls : CoherentControl(d)'
    BY <1>1 DEF ctlVars, CtlTypeOK, Coherent, CoherentControl
  <1>4. UNCHANGED execVars => \A q \in Requests : CoherentExecution(q)'
    BY <1>1 DEF execVars, Coherent, CoherentExecution
  <1>5. UNCHANGED execVars /\ running' = running => PlaceTypeOK'
    BY <1>1 DEF execVars, PlaceTypeOK
  <1>6. UNCHANGED execVars /\ inflight' = inflight /\ forgotten' \subseteq Sessions => RestTypeOK'
    BY <1>1 DEF execVars, RestTypeOK
  <1>7. ASSUME /\ OwnershipTypeOK' /\ PlaceTypeOK' /\ RestTypeOK'
               /\ \A q \in Requests : CoherentExecution(q)',
               UNCHANGED ctlVars
        PROVE  TypeOK' /\ Coherent'
    BY <1>2, <1>3, <1>7 DEF Coherent
  <1>8. ASSUME NEW r \in Requests,
               \/ CallArrives(r) \/ CreateEnds(r) \/ ExecutionResumes(r)
               \/ TurnEnds(r) \/ ClientDisconnects(r)
        PROVE  TypeOK' /\ Coherent'
    <2>1. CASE CallArrives(r)
      <3>1. CASE Reject(r)
        <4>1. /\ pc' = [pc EXCEPT ![r] = "done"] /\ answer' = [answer EXCEPT ![r] = "failed"]
              /\ LocksUnchanged
              /\ UNCHANGED <<runtimeVars, call, session, claiming, joined, create, created,
                             threads, cancelled, canceledTasks>>
              /\ pc[r] = "idle"
          BY <3>1 DEF Reject
        <4>2. OwnershipTypeOK' /\ PlaceTypeOK' /\ RestTypeOK'
          BY <1>1, <4>1 DEF OwnershipTypeOK, PlaceTypeOK, RestTypeOK, runtimeVars, LocksUnchanged
        <4>3. \A q \in Requests : CoherentExecution(q)'
          BY <1>1, <4>1 DEF Coherent, CoherentExecution, PlaceTypeOK, Suspended, Holding
        <4> QED
          BY <1>7, <2>1, <4>2, <4>3 DEF CallArrives
      <3>2. CASE BeginBound(r)
        BY <1>7, <2>1, <3>2, BeginBoundTypes DEF CallArrives
      <3>3. CASE BeginUnbound(r)
        BY <1>7, <2>1, <3>3, BeginUnboundTypes DEF CallArrives
      <3> QED
        BY <2>1, <3>1, <3>2, <3>3 DEF CallArrives, Arrival
    <2>2. CASE CreateEnds(r)
      BY <1>7, <2>2, CreationTypes DEF CreateEnds
    <2>3. CASE ExecutionResumes(r)
      BY <1>7, <2>3, ResumptionTypes DEF ExecutionResumes
    <2>4. CASE TurnEnds(r)
      BY <1>7, <2>4, TurnTypes DEF TurnEnds
    <2>5. CASE ClientDisconnects(r)
      BY <1>7, <2>5, CancellationTypes DEF ClientDisconnects
    <2> QED
      BY <1>8, <2>1, <2>2, <2>3, <2>4, <2>5
  <1>9. ASSUME NEW k \in RunKeys, NEW i \in Identities, TaskCancelled(k, i)
        PROVE  TypeOK' /\ Coherent'
    BY <1>7, <1>9, CancellationTypes DEF TaskCancelled
  <1>10. ASSUME NEW d \in Controls, ControlArrives(d) \/ ControlEnds(d)
         PROVE  TypeOK' /\ Coherent'
    <2>1. UNCHANGED execVars /\ UNCHANGED <<inflight, running, forgotten>>
      BY <1>10 DEF ControlArrives, ControlEnds, CtlClaim, CtlEnd, CtlReturns, CtlGiveUp,
         CtlFinalizeRefused, CtlFails, registryFrame
    <2>2. PlaceTypeOK' /\ RestTypeOK' /\ \A q \in Requests : CoherentExecution(q)'
      BY <1>1, <1>4, <1>5, <1>6, <2>1 DEF RestTypeOK
    <2> QED
      BY <1>1, <1>2, <1>10, <2>2, ControlTypes DEF Coherent
  <1>11. CASE CacheLoses
    <2>1. PlaceTypeOK' /\ RestTypeOK' /\ \A q \in Requests : CoherentExecution(q)'
      BY <1>1, <1>4, <1>5, <1>6, <1>11, CacheLossTypes DEF CacheLoses
    <2> QED
      BY <1>1, <1>7, <1>11, <2>1, CacheLossTypes DEF CacheLoses
  <1>12. CASE UNCHANGED vars
    <2>1. UNCHANGED <<runtimeVars, execVars, ctlVars>>
      BY <1>12 DEF vars
    <2>2. OwnershipTypeOK' /\ PlaceTypeOK' /\ RestTypeOK'
      BY <1>1, <1>5, <1>6, <2>1 DEF runtimeVars, OwnershipTypeOK, RestTypeOK
    <2> QED
      BY <1>4, <1>7, <2>1, <2>2
  <1> QED
    BY <1>8, <1>9, <1>10, <1>11, <1>12 DEF Next

\* ... and all of it.
LEMMA NextIInv == IInv /\ [Next]_vars => IInv'
  <1> SUFFICES ASSUME IInv, [Next]_vars PROVE IInv'
    OBVIOUS
  <1>1. QueuesAreExact' /\ QueuesTypeOK'
    BY NextIsLockStep, QueuesStep DEF QueuesTypeOK
  <1>2. TypeOK' /\ Coherent'
    BY <1>1, NextTypes
  <1>3. TrackingIsAccurate'
    BY NextIsTrackStep, TrackingStep DEF IInv
  <1> QED
    BY <1>1, <1>2, <1>3 DEF IInv

\* The inductive invariant all other proofs start from: types, coherent local variables of
\* execute, exact wait queues and an accurate table of running executions.
THEOREM SpecIInv == Spec => []IInv
  BY InitIInv, NextIInv, PTL DEF Spec

\* Every variable of the registry, of the executions, of the locks and of the control
\* requests keeps its type, in every behaviour and for every value of the constants.
THEOREM SpecTypeOK == Spec => []TypeOK
  <1>1. IInv => TypeOK
    BY DEF IInv
  <1> QED
    BY <1>1, SpecIInv, PTL

\* The wait queue of a session holds exactly the executions that wait for it and wake-ups go
\* to its head while the lock is free (asyncio.Lock as used by execute).
THEOREM SpecQueuesAreExact == Spec => []QueuesAreExact
  <1>1. IInv => QueuesAreExact
    BY DEF IInv
  <1> QED
    BY <1>1, SpecIInv, PTL

\* The table of running executions names only executions that run, and an execution is
\* missing from it only if another one was registered under its key (track and untrack).
THEOREM SpecTrackingIsAccurate == Spec => []TrackingIsAccurate
  <1>1. IInv => TrackingIsAccurate
    BY DEF IInv
  <1> QED
    BY <1>1, SpecIInv, PTL
=============================================================================
