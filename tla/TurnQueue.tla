----------------------------- MODULE TurnQueue ------------------------------
(***************************************************************************)
(* What the session locks promise: executions queue up for a session and   *)
(* take their turns in it one at a time.                                   *)
(*                                                                         *)
(* The code breaks the promise in one way, which the specification spells  *)
(* out instead of hiding: a queued execution that is cancelled may leave   *)
(* the session "stolen", and from then on turns may overlap in it.         *)
(***************************************************************************)
CONSTANTS Requests, Sessions

VARIABLES
    queued,   \* queued[s]: executions waiting for a turn in s
    turns,    \* turns[s]: executions that have the turn in s
    stolen    \* sessions in which turns are not exclusive any more

vars == <<queued, turns, stolen>>

Init ==
    /\ queued = [s \in Sessions |-> {}]
    /\ turns = [s \in Sessions |-> {}]
    /\ stolen = {}

Enqueue(r, s) ==
    /\ queued' = [queued EXCEPT ![s] = @ \cup {r}]
    /\ UNCHANGED <<turns, stolen>>

\* At once, or from the queue.
Start(r, s) ==
    /\ turns[s] = {} \/ s \in stolen
    /\ turns' = [turns EXCEPT ![s] = @ \cup {r}]
    /\ queued' = [queued EXCEPT ![s] = @ \ {r}]
    /\ UNCHANGED stolen

End(r, s) ==
    /\ r \in turns[s]
    /\ turns' = [turns EXCEPT ![s] = @ \ {r}]
    /\ UNCHANGED <<queued, stolen>>

\* Cancelled in the queue: harmless only when nobody has the turn.
Withdraw(r, s) ==
    /\ r \in queued[s]
    /\ queued' = [queued EXCEPT ![s] = @ \ {r}]
    /\ stolen' = IF turns[s] = {} THEN stolen ELSE stolen \cup {s}
    /\ UNCHANGED turns

Next ==
    \E r \in Requests, s \in Sessions :
        Enqueue(r, s) \/ Start(r, s) \/ End(r, s) \/ Withdraw(r, s)

Spec == Init /\ [][Next]_vars
=============================================================================
