--------------------------- MODULE SessionControl ---------------------------
(***************************************************************************)
(* The JSON-RPC session control methods prompt_async, command and shell    *)
(* (jsonrpc/session_control.py): claim the session, call Codex, finalize   *)
(* the claim, release it in `finally` if it was not finalized.  They take  *)
(* no session lock, so they interleave with the turns of executions.       *)
(***************************************************************************)
EXTENDS SessionRuntime

CONSTANT Controls    \* control requests

ASSUME ControlsAssumption == None \notin Controls

VARIABLES
    ctlPc,        \* "idle" | "calling" | "done"
    ctlBy,        \* the caller; None where the request carries no identity
    ctlSession,
    ctlClaiming,  \* control requests whose pending_claim is set
    ctlReply      \* "none" | "result" | "forbidden" | "error"

ctlVars == <<ctlPc, ctlBy, ctlSession, ctlClaiming, ctlReply>>

CtlTypeOK ==
    /\ ctlPc \in [Controls -> {"idle", "calling", "done"}]
    /\ ctlBy \in [Controls -> Optional(Identities)]
    /\ ctlSession \in [Controls -> Optional(Sessions)]
    /\ ctlClaiming \subseteq Controls
    /\ ctlReply \in [Controls -> {"none", "result", "forbidden", "error"}]

CtlInit ==
    /\ ctlPc = [d \in Controls |-> "idle"]
    /\ ctlBy = [d \in Controls |-> None]
    /\ ctlSession = [d \in Controls |-> None]
    /\ ctlClaiming = {}
    /\ ctlReply = [d \in Controls |-> "none"]

registryFrame == <<inflight, running, forgotten>>

CtlReply(d, reply) ==
    /\ ctlPc' = [ctlPc EXCEPT ![d] = "done"]
    /\ ctlReply' = [ctlReply EXCEPT ![d] = reply]

\* claim_session: True (claimed), False (already hers), or PermissionError.
CtlClaim(d, i, s) ==
    /\ ctlPc[d] = "idle"
    /\ ctlBy' = [ctlBy EXCEPT ![d] = i]
    /\ ctlSession' = [ctlSession EXCEPT ![d] = s]
    /\ \/ /\ i # None
          /\ ClaimSession(i, s)
          /\ ctlClaiming' = ctlClaiming \cup {d}
          /\ ctlPc' = [ctlPc EXCEPT ![d] = "calling"]
          /\ UNCHANGED ctlReply
       \/ /\ i = None \/ (Claimable(s, i, pendingClaim[s]) /\ sessionOwner[s] = i)
          /\ ctlPc' = [ctlPc EXCEPT ![d] = "calling"]
          /\ UNCHANGED <<ownership, ctlClaiming, ctlReply>>
       \/ /\ i # None
          /\ ~Claimable(s, i, pendingClaim[s])
          /\ CtlReply(d, "forbidden")
          /\ UNCHANGED <<ownership, ctlClaiming>>
    /\ UNCHANGED registryFrame

\* Codex answered and the claim, if there is one, becomes ownership.
CtlReturns(d) ==
    /\ ctlPc[d] = "calling"
    /\ IF d \in ctlClaiming
       THEN FinalizeSessionClaim(ctlBy[d], ctlSession[d])
       ELSE UNCHANGED ownership
    /\ ctlClaiming' = ctlClaiming \ {d}
    /\ CtlReply(d, "result")
    /\ UNCHANGED <<registryFrame, ctlBy, ctlSession>>

\* Mutant: the claim of a failed call is not released.
CtlGiveUpClaimed(d, reply) ==
    /\ ctlClaiming' = ctlClaiming \ {d}
    /\ CtlReply(d, reply)
    /\ UNCHANGED <<ownership, registryFrame, ctlBy, ctlSession>>

\* `finally` without claim_finalized.
CtlGiveUp(d, reply) ==
    /\ IF d \in ctlClaiming
       THEN ReleaseClaim(ctlBy[d], ctlSession[d])
       ELSE UNCHANGED ownership
    /\ ctlClaiming' = ctlClaiming \ {d}
    /\ CtlReply(d, reply)
    /\ UNCHANGED <<registryFrame, ctlBy, ctlSession>>

CtlFinalizeRefused(d) ==
    /\ ctlPc[d] = "calling"
    /\ d \in ctlClaiming
    /\ ~Claimable(ctlSession[d], ctlBy[d], pendingClaim[ctlSession[d]])
    /\ CtlGiveUp(d, "forbidden")

\* Codex or the transport failed, or the request was cancelled.
CtlFails(d) ==
    /\ ctlPc[d] = "calling"
    /\ CtlGiveUp(d, "error")

CtlEnd(d) == CtlReturns(d) \/ CtlFinalizeRefused(d) \/ CtlFails(d)
=============================================================================
