----------------------------- MODULE SystemTurns ----------------------------
(***************************************************************************)
(* The proof that the session locks serialize turns as far as they do: the *)
(* lock invariants, and the refinement of TurnQueue.  It follows what a    *)
(* step does to the locks (LockStep), case by case.                        *)
(***************************************************************************)
EXTENDS SystemTypes

LockInv == SerializedUnlessStolen /\ LockedHasHolder /\ NoLostWakeup

\* Seen from the sessions: who holds, who queues, in every kind of step.
LEMMA OutsideStep ==
    ASSUME TypeOK, NEW r \in Requests, NEW place, StaysOutside(r, place) \/ KeepsLock(r, place)
    PROVE  /\ \A x \in Sessions : Holders(x)' = Holders(x) /\ Queued(x)' = Queued(x)
           /\ UNCHANGED <<locked, waiters, woken, stolen>>
  BY DEF TypeOK, ExecTypeOK, StaysOutside, KeepsLock, LocksUnchanged, Holders, Queued, Holding

\* Taking the lock adds a holder to a free session, queueing adds to its queue.
LEMMA EntersStep ==
    ASSUME TypeOK, NEW r \in Requests, NEW s \in Sessions, Enters(r, s)
    PROVE  /\ \A x \in Sessions \ {s} : Holders(x)' = Holders(x) /\ Queued(x)' = Queued(x)
           /\ UNCHANGED <<woken, stolen>>
           /\ \/ /\ LockIsFree(s) /\ locked' = [locked EXCEPT ![s] = TRUE]
                 /\ Holders(s)' = Holders(s) \cup {r} /\ Queued(s)' = Queued(s)
                 /\ r \notin Queued(s)
              \/ /\ ~LockIsFree(s) /\ UNCHANGED locked
                 /\ Holders(s)' = Holders(s) /\ Queued(s)' = Queued(s) \cup {r}
  BY DEF TypeOK, ExecTypeOK, Enters, AcquireOrWait, Holders, Queued, Holding

\* A release takes one holder away and wakes the head of the queue.
LEMMA ReleasesStep ==
    ASSUME TypeOK, Coherent, NEW r \in Requests, Releases(r)
    PROVE  /\ session[r] \in Sessions /\ r \in Holders(session[r])
           /\ \A x \in Sessions : /\ Holders(x)' = Holders(x) \ {r}
                                  /\ Queued(x)' = Queued(x)
                                  /\ x # session[r] => Holders(x)' = Holders(x)
           /\ locked' = [locked EXCEPT ![session[r]] = FALSE]
           /\ woken' = IF locked[session[r]] THEN woken \cup ToWake(waiters[session[r]])
                                             ELSE woken
           /\ UNCHANGED stolen
  BY DEF TypeOK, ExecTypeOK, Coherent, CoherentExecution, Releases, ReleaseLock, Holders, Queued,
     Holding

\* A woken execution moves from the queue to the holders of a free session.
LEMMA IsWokenStep ==
    ASSUME TypeOK, Coherent, QueuesAreExact, NEW r \in Requests, IsWoken(r)
    PROVE  /\ session[r] \in Sessions /\ r \in Queued(session[r]) /\ ~locked[session[r]]
           /\ \A x \in Sessions : /\ Queued(x)' = Queued(x) \ {r}
                                  /\ x # session[r] => /\ Holders(x)' = Holders(x)
                                                       /\ Queued(x)' = Queued(x)
                                  /\ x = session[r] => Holders(x)' = Holders(x) \cup {r}
           /\ locked' = [locked EXCEPT ![session[r]] = TRUE]
           /\ woken' = woken \ {r}
           /\ UNCHANGED stolen
  BY DEF TypeOK, ExecTypeOK, Coherent, CoherentExecution, QueuesAreExact, IsWoken, Holders, Queued,
     Holding

\* A cancelled waiter leaves its queue and unlocks the lock, held or not.
LEMMA LeavesStep ==
    ASSUME TypeOK, Coherent, NEW r \in Requests, Leaves(r)
    PROVE  /\ session[r] \in Sessions /\ r \in Queued(session[r])
           /\ \A x \in Sessions : /\ Queued(x)' = Queued(x) \ {r}
                                  /\ Holders(x)' = Holders(x)
                                  /\ x # session[r] => Queued(x)' = Queued(x)
           /\ locked' = [locked EXCEPT ![session[r]] = FALSE]
           /\ woken' = (woken \ {r}) \cup ToWake(waiters'[session[r]])
           /\ stolen' = IF locked[session[r]] THEN stolen \cup {session[r]} ELSE stolen
  BY DEF TypeOK, ExecTypeOK, Coherent, CoherentExecution, Leaves, Holders, Queued, Holding

\* The lock invariants survive every kind of step.
LEMMA LockStepLockInv ==
    ASSUME IInv, LockInv, LockStep, QueuesAreExact', QueuesTypeOK'
    PROVE  LockInv'
  <1> USE DEF LockInv, IInv
  <1>0. /\ locked \in [Sessions -> BOOLEAN] /\ None \notin Sessions
        /\ \A x \in Sessions : /\ waiters[x] \in Seq(Requests) /\ ToSet(waiters[x]) = Queued(x)
                               /\ waiters'[x] \in Seq(Requests) /\ ToSet(waiters'[x]) = Queued(x)'
    BY NoneAssumption DEF TypeOK, ExecTypeOK, QueuesAreExact, QueuesTypeOK
  <1>1. CASE cancelled \subseteq cancelled' /\ UNCHANGED turnVars
    BY <1>1 DEF turnVars, SerializedUnlessStolen, LockedHasHolder, NoLostWakeup, Holders, Queued
  <1>2. ASSUME UNCHANGED cancelled, NEW r \in Requests, NEW place,
               StaysOutside(r, place) \/ KeepsLock(r, place)
        PROVE  LockInv'
    BY <1>2, OutsideStep DEF SerializedUnlessStolen, LockedHasHolder, NoLostWakeup
  <1>3. ASSUME UNCHANGED cancelled, NEW r \in Requests, NEW s \in Sessions, Enters(r, s)
        PROVE  LockInv'
    <2>1. /\ \A x \in Sessions \ {s} : Holders(x)' = Holders(x) /\ Queued(x)' = Queued(x)
          /\ UNCHANGED <<woken, stolen>>
          /\ \/ /\ LockIsFree(s) /\ locked' = [locked EXCEPT ![s] = TRUE]
                /\ Holders(s)' = Holders(s) \cup {r} /\ Queued(s)' = Queued(s)
             \/ /\ ~LockIsFree(s) /\ UNCHANGED locked
                /\ Holders(s)' = Holders(s) /\ Queued(s)' = Queued(s) \cup {r}
      BY <1>3, EntersStep
    <2>2. SerializedUnlessStolen' /\ LockedHasHolder'
      <3>1. CASE /\ LockIsFree(s) /\ locked' = [locked EXCEPT ![s] = TRUE]
                 /\ Holders(s)' = Holders(s) \cup {r}
        <4>1. s \notin stolen => Holders(s) = {}
          BY <3>1 DEF SerializedUnlessStolen, LockIsFree
        <4>2. /\ locked'[s] /\ Holders(s)' # {}
              /\ s \notin stolen => Holders(s)' = {r}
              /\ \A x \in Sessions \ {s} : locked'[x] = locked[x]
          BY <1>0, <3>1, <4>1
        <4> QED
          BY <2>1, <4>2 DEF SerializedUnlessStolen, LockedHasHolder
      <3>2. CASE UNCHANGED locked /\ Holders(s)' = Holders(s)
        BY <2>1, <3>2 DEF SerializedUnlessStolen, LockedHasHolder
      <3> QED
        BY <2>1, <3>1, <3>2
    <2>3. ~LockIsFree(s) /\ ~locked[s] => Queued(s) # {}
      <3>1. ASSUME ~LockIsFree(s), ~locked[s] PROVE ToSet(waiters[s]) # {}
        BY <3>1 DEF LockIsFree, ToSet
      <3> QED
        BY <1>0, <3>1
    <2>4. NoLostWakeup'
      BY <1>0, <1>3, <2>1, <2>3 DEF NoLostWakeup
    <2> QED
      BY <2>2, <2>4
  <1>4. ASSUME UNCHANGED cancelled, NEW r \in Requests, Releases(r)
        PROVE  LockInv'
    <2> DEFINE s == session[r]
    <2>1. /\ s \in Sessions /\ r \in Holders(s)
          /\ \A x \in Sessions : /\ Holders(x)' = Holders(x) \ {r}
                                 /\ Queued(x)' = Queued(x)
                                 /\ x # s => Holders(x)' = Holders(x)
          /\ locked' = [locked EXCEPT ![s] = FALSE]
          /\ woken' = IF locked[s] THEN woken \cup ToWake(waiters[s]) ELSE woken
          /\ UNCHANGED stolen
      BY <1>4, ReleasesStep
    <2> HIDE DEF s
    <2>2. SerializedUnlessStolen' /\ LockedHasHolder'
      BY <1>0, <2>1 DEF SerializedUnlessStolen, LockedHasHolder
    <2>3. Queued(s) # {} => \E h \in Queued(s) : h \in ToWake(waiters[s]) \/ h \in cancelled
      <3>1. Queued(s) # {} => waiters[s] # <<>> /\ Head(waiters[s]) \in Queued(s)
        BY <1>0, <2>1 DEF ToSet
      <3> QED
        BY <3>1 DEF ToWake
    <2>4. NoLostWakeup'
      BY <1>0, <1>4, <2>1, <2>3 DEF NoLostWakeup
    <2> QED
      BY <2>2, <2>4
  <1>5. ASSUME UNCHANGED cancelled, NEW r \in Requests, IsWoken(r)
        PROVE  LockInv'
    <2>0. PICK s \in Sessions : s = session[r]
      BY <1>5, IsWokenStep
    <2>1. /\ s \in Sessions /\ r \in Queued(s) /\ ~locked[s]
          /\ \A x \in Sessions : /\ Queued(x)' = Queued(x) \ {r}
                                 /\ x # s => Holders(x)' = Holders(x) /\ Queued(x)' = Queued(x)
                                 /\ x = s => Holders(x)' = Holders(x) \cup {r}
          /\ locked' = [locked EXCEPT ![s] = TRUE]
          /\ woken' = woken \ {r}
          /\ UNCHANGED stolen
      BY <1>5, <2>0, IsWokenStep
    <2>2. \A x \in Sessions \ {s} : r \notin Queued(x)
      BY <2>0, <2>1 DEF Queued
    <2>3. SerializedUnlessStolen' /\ LockedHasHolder'
      <3>1. s \notin stolen => Holders(s) = {}
        BY <2>1 DEF SerializedUnlessStolen
      <3>2. /\ locked'[s] /\ r \in Holders(s)'
            /\ s \notin stolen => Holders(s)' = {r}
            /\ \A x \in Sessions \ {s} : locked'[x] = locked[x]
        BY <1>0, <2>1, <3>1
      <3>3. ASSUME NEW x \in Sessions
            PROVE  /\ locked'[x] => Holders(x)' # {}
                   /\ x \notin stolen' =>
                          /\ locked'[x] <=> Holders(x)' # {}
                          /\ \A p, q \in Holders(x)' : p = q
        <4>0. stolen' = stolen
          BY <2>1
        <4>1. CASE x = s
          <5>1. locked'[x] /\ r \in Holders(x)' /\ (x \notin stolen => Holders(x)' = {r})
            BY <3>2, <4>1, Zenon
          <5> QED
            BY <4>0, <5>1
        <4>2. CASE x # s
          <5>1. locked'[x] = locked[x] /\ Holders(x)' = Holders(x)
            BY <2>1, <3>2, <4>2
          <5> QED
            BY <4>0, <5>1 DEF SerializedUnlessStolen, LockedHasHolder
        <4> QED
          BY <4>1, <4>2
      <3> QED
        BY <3>3 DEF SerializedUnlessStolen, LockedHasHolder
    <2>4. NoLostWakeup'
      BY <1>0, <1>5, <2>1, <2>2 DEF NoLostWakeup
    <2> QED
      BY <2>3, <2>4
  <1>6. ASSUME UNCHANGED cancelled, NEW r \in Requests, Leaves(r)
        PROVE  LockInv'
    <2> DEFINE s == session[r]
    <2>1. /\ s \in Sessions /\ r \in Queued(s)
          /\ \A x \in Sessions : /\ Queued(x)' = Queued(x) \ {r}
                                 /\ Holders(x)' = Holders(x)
                                 /\ x # s => Queued(x)' = Queued(x)
          /\ locked' = [locked EXCEPT ![s] = FALSE]
          /\ woken' = (woken \ {r}) \cup ToWake(waiters'[s])
          /\ stolen' = IF locked[s] THEN stolen \cup {s} ELSE stolen
      BY <1>6, LeavesStep
    <2>2. \A x \in Sessions \ {s} : r \notin Queued(x)
      BY <2>1 DEF Queued
    <2> HIDE DEF s
    <2>3. SerializedUnlessStolen' /\ LockedHasHolder'
      BY <1>0, <2>1 DEF SerializedUnlessStolen, LockedHasHolder
    <2>4. \A x \in Sessions : ToSet(waiters'[x]) = Queued(x) \ {r} \/ x # s
      BY <1>0, <2>1
    <2>5. ToSet(waiters'[s]) # {} => waiters'[s] # <<>> /\ Head(waiters'[s]) \in ToSet(waiters'[s])
      BY <1>0, <2>1 DEF ToSet
    <2>6. ToSet(waiters'[s]) # {} =>
              \E h \in ToSet(waiters'[s]) : h \in ToWake(waiters'[s]) \/ h \in cancelled
      BY <2>5 DEF ToWake
    <2>7. NoLostWakeup'
      BY <1>0, <1>6, <2>1, <2>2, <2>4, <2>6 DEF NoLostWakeup
    <2> QED
      BY <2>3, <2>7
  <1> QED
    BY <1>1, <1>2, <1>3, <1>4, <1>5, <1>6 DEF LockStep, TurnStep

\* Initially every lock is free and nobody waits.
LEMMA InitLockInv == Init => LockInv
  <1> SUFFICES ASSUME Init PROVE LockInv
    OBVIOUS
  <1>1. \A s \in Sessions : ~locked[s] /\ Holders(s) = {} /\ Queued(s) = {}
    BY DEF Init, ExecInit, Holders, Queued, Holding
  <1> QED
    BY <1>1 DEF LockInv, SerializedUnlessStolen, LockedHasHolder, NoLostWakeup

\* The three lock invariants hold together, for any number of executions and sessions.
THEOREM SpecLockInv == Spec => []LockInv
  <1>1. IInv /\ LockInv /\ [Next]_vars /\ IInv' => LockInv'
    <2> SUFFICES ASSUME IInv, LockInv, [Next]_vars, IInv' PROVE LockInv'
      OBVIOUS
    <2>1. QueuesAreExact' /\ QueuesTypeOK'
      BY TypeOKParts, PTL DEF IInv
    <2> QED
      BY <2>1, NextIsLockStep, LockStepLockInv
  <1> QED
    BY <1>1, InitLockInv, SpecIInv, PTL DEF Spec

\* While nobody has stolen the lock of a session it is locked exactly while one execution
\* has the turn, whatever callers, Codex and cancellations do (execute).
THEOREM SpecSerializedUnlessStolen == Spec => []SerializedUnlessStolen
  <1>1. LockInv => SerializedUnlessStolen
    BY DEF LockInv
  <1> QED
    BY <1>1, SpecLockInv, PTL

\* No session lock stays locked without an execution that is going to release it.
THEOREM SpecLockedHasHolder == Spec => []LockedHasHolder
  <1>1. LockInv => LockedHasHolder
    BY DEF LockInv
  <1> QED
    BY <1>1, SpecLockInv, PTL

\* An execution that waits for a free session lock is never forgotten.
THEOREM SpecNoLostWakeup == Spec => []NoLostWakeup
  <1>1. LockInv => NoLostWakeup
    BY DEF LockInv
  <1> QED
    BY <1>1, SpecLockInv, PTL

-----------------------------------------------------------------------------
(* Refinement.                                                             *)

\* The queue of turns as TurnQueue sees it.
QueuedMap == [s \in Sessions |-> Queued(s)]
HoldersMap == [s \in Sessions |-> Holders(s)]

\* Initial states map to the initial state of TurnQueue ...
LEMMA InitRefines == Init => Turns!Init
  <1> SUFFICES ASSUME Init PROVE Turns!Init
    OBVIOUS
  <1>1. \A s \in Sessions : Holders(s) = {} /\ Queued(s) = {}
    BY DEF Init, ExecInit, Holders, Queued, Holding
  <1> QED
    BY <1>1 DEF Turns!Init, Init, ExecInit

\* ... and every kind of step to one of its steps or to a stutter.
LEMMA LockStepRefines ==
    ASSUME IInv, LockInv, LockStep
    PROVE  [Turns!Next]_Turns!vars
  <1> USE DEF IInv, LockInv
  <1>1. CASE cancelled \subseteq cancelled' /\ UNCHANGED turnVars
    BY <1>1 DEF turnVars, Turns!vars, Holders, Queued
  <1>2. ASSUME NEW r \in Requests, NEW place, StaysOutside(r, place) \/ KeepsLock(r, place)
        PROVE  UNCHANGED Turns!vars
    BY <1>2, OutsideStep DEF Turns!vars
  <1>3. ASSUME NEW r \in Requests, NEW s \in Sessions, Enters(r, s)
        PROVE  Turns!Start(r, s) \/ Turns!Enqueue(r, s)
    <2>1. CASE LockIsFree(s)
      <3>1. Holders(s) = {} \/ s \in stolen
        BY <2>1 DEF LockIsFree, SerializedUnlessStolen
      <3>2. HoldersMap' = [HoldersMap EXCEPT ![s] = @ \cup {r}] /\ UNCHANGED stolen
        BY <1>3, <2>1, EntersStep DEF HoldersMap
      <3>3. QueuedMap' = [QueuedMap EXCEPT ![s] = @ \ {r}]
        BY <1>3, <2>1, EntersStep DEF QueuedMap
      <3> QED
        BY <3>1, <3>2, <3>3 DEF Turns!Start, HoldersMap, QueuedMap
    <2>2. CASE ~LockIsFree(s)
      <3>1. QueuedMap' = [QueuedMap EXCEPT ![s] = @ \cup {r}] /\ UNCHANGED <<HoldersMap, stolen>>
        BY <1>3, <2>2, EntersStep DEF QueuedMap, HoldersMap
      <3> QED
        BY <3>1 DEF Turns!Enqueue, HoldersMap, QueuedMap
    <2> QED
      BY <2>1, <2>2
  <1>4. ASSUME NEW r \in Requests, Releases(r)
        PROVE  Turns!End(r, session[r])
    <2>1. /\ session[r] \in Sessions /\ r \in Holders(session[r])
          /\ HoldersMap' = [HoldersMap EXCEPT ![session[r]] = @ \ {r}]
          /\ UNCHANGED <<QueuedMap, stolen>>
      BY <1>4, ReleasesStep DEF HoldersMap, QueuedMap
    <2> QED
      BY <2>1 DEF Turns!End, HoldersMap, QueuedMap
  <1>5. ASSUME NEW r \in Requests, IsWoken(r)
        PROVE  Turns!Start(r, session[r])
    <2>1. /\ session[r] \in Sessions /\ ~locked[session[r]] /\ UNCHANGED stolen
          /\ HoldersMap' = [HoldersMap EXCEPT ![session[r]] = @ \cup {r}]
          /\ QueuedMap' = [QueuedMap EXCEPT ![session[r]] = @ \ {r}]
      BY <1>5, IsWokenStep DEF HoldersMap, QueuedMap
    <2>2. Holders(session[r]) = {} \/ session[r] \in stolen
      BY <2>1 DEF SerializedUnlessStolen
    <2> QED
      BY <2>1, <2>2 DEF Turns!Start, HoldersMap, QueuedMap
  <1>6. ASSUME NEW r \in Requests, Leaves(r)
        PROVE  Turns!Withdraw(r, session[r])
    <2>1. /\ session[r] \in Sessions /\ r \in Queued(session[r])
          /\ QueuedMap' = [QueuedMap EXCEPT ![session[r]] = @ \ {r}]
          /\ UNCHANGED HoldersMap
          /\ stolen' = IF locked[session[r]] THEN stolen \cup {session[r]} ELSE stolen
      BY <1>6, LeavesStep DEF HoldersMap, QueuedMap
    <2>2. stolen' = IF Holders(session[r]) = {} THEN stolen ELSE stolen \cup {session[r]}
      BY <2>1 DEF SerializedUnlessStolen, LockedHasHolder
    <2> QED
      BY <2>1, <2>2 DEF Turns!Withdraw, HoldersMap, QueuedMap
  <1>7. \A r \in Requests : pc[r] \in {"waiting"} \cup Holding => session[r] \in Sessions
    BY DEF Coherent, CoherentExecution
  <1> QED
    BY <1>1, <1>2, <1>3, <1>4, <1>5, <1>6, <1>7
       DEF LockStep, TurnStep, Turns!Next, Releases, IsWoken, Leaves

\* Executions, session locks and wait queues implement the queue of turns that TurnQueue
\* promises: the only way to an overlap is the cancellation of a queued execution.
THEOREM SpecTurnsAreQueued == Spec => TurnsAreQueued
  <1>1. IInv /\ LockInv /\ [Next]_vars => [Turns!Next]_Turns!vars
    BY NextIsLockStep, LockStepRefines
  <1> QED
    BY <1>1, InitRefines, SpecIInv, SpecLockInv, PTL DEF Spec, TurnsAreQueued, Turns!Spec
=============================================================================
