----------------------------- MODULE CodexClient -----------------------------
(***************************************************************************)
(* The client of `codex app-server` (upstream/client.py): JSON-RPC over    *)
(* the pipes of a child process, which is started on first use and again   *)
(* after it died.                                                          *)
(*                                                                         *)
(* A caller is one use of the client: a request (thread/start, ...), or,   *)
(* for the callers in Turns, send_message, which then waits for its turn   *)
(* to complete.  A caller runs alone until it awaits:                      *)
(*   queued        the lock that only one starter at a time holds          *)
(*   spawning      the creation of the child process                       *)
(*   opening       the writing of its `initialize`                         *)
(*   initializing  the answer to it                                        *)
(*   announcing    the writing of `initialized`                            *)
(*   posting       the writing of its request                              *)
(*   asking        the answer to it                                        *)
(*   turning       the completion of its turn                              *)
(* One caller at a time writes: the others wait for the write lock.  What  *)
(* a process writes is dispatched by the stdout loop started for it.       *)
(***************************************************************************)
EXTENDS Naturals

CONSTANTS
    Callers,
    Turns,          \* callers that run a turn
    Untimed,        \* those of them that set no timeout on it
    MaxProcesses,   \* bound: how often the process can be started
    None

ASSUME TurnsAssumption == Untimed \subseteq Turns /\ Turns \subseteq Callers
ASSUME MaxProcessesAssumption == MaxProcesses \in Nat
ASSUME NoCallerAssumption == None \notin Callers

VARIABLES
    current,      \* _process; 0 for None
    spawned,      \* how many processes were started: they are numbered from 1
    alive,        \* processes that run
    exited,       \* processes whose returncode is set
    reading,      \* processes whose stdout loop runs
    stopping,     \* loops that close() has cancelled
    initialized,  \* _initialized
    closed,       \* _closed
    starter,      \* the caller that holds _init_lock
    writer,       \* the caller that holds _write_lock and awaits drain()
    target,       \* the process a writing caller writes to; 0 if it is not writing
    pc,           \* where each caller is
    future,       \* the future of each request
    pending,      \* _pending_requests
    askedOf,      \* the process a request reached; 0 for none
    answered,     \* what that process answered
    tracker,      \* _turn_trackers: the tracker of each turn, "none" if there is none
    ended,        \* what the notified completion of each turn said
    outcome       \* how each call ended

vars == <<current, spawned, alive, exited, reading, stopping, initialized, closed, starter,
          writer, target, pc, future, pending, askedOf, answered, tracker, ended, outcome>>

Processes == 1 .. MaxProcesses
Requests == Callers \X {"initialize", "call"}

TypeOK ==
    /\ spawned \in 0 .. MaxProcesses
    /\ current \in 0 .. spawned
    /\ alive \subseteq 1 .. spawned
    /\ exited \subseteq (1 .. spawned) \ alive
    /\ reading \subseteq 1 .. spawned
    /\ stopping \subseteq 1 .. spawned
    /\ initialized \in BOOLEAN /\ closed \in BOOLEAN
    /\ starter \in Callers \cup {None}
    /\ writer \in Callers \cup {None}
    /\ target \in [Callers -> 0 .. spawned]
    /\ pc \in [Callers -> {"idle", "queued", "spawning", "opening", "initializing", "announcing",
                           "posting", "asking", "turning", "done"}]
    /\ future \in [Requests -> {"none", "pending", "result", "error", "cancelled"}]
    /\ pending \subseteq Requests
    /\ askedOf \in [Requests -> 0 .. spawned]
    /\ answered \in [Requests -> {"none", "result", "error"}]
    /\ tracker \in [Callers -> {"none", "open", "ok", "failed"}]
    /\ ended \in [Callers -> {"none", "ok", "failed"}]
    /\ outcome \in [Callers -> {"none", "ok", "failed", "cancelled"}]

Init ==
    /\ current = 0 /\ spawned = 0
    /\ alive = {} /\ exited = {} /\ reading = {} /\ stopping = {}
    /\ initialized = FALSE /\ closed = FALSE /\ starter = None
    /\ writer = None /\ target = [c \in Callers |-> 0]
    /\ pc = [c \in Callers |-> "idle"]
    /\ future = [x \in Requests |-> "none"]
    /\ pending = {}
    /\ askedOf = [x \in Requests |-> 0]
    /\ answered = [x \in Requests |-> "none"]
    /\ tracker = [c \in Callers |-> "none"]
    /\ ended = [c \in Callers |-> "none"]
    /\ outcome = [c \in Callers |-> "none"]

processVars == <<current, spawned, alive, exited, reading, stopping>>
requestVars == <<future, pending, askedOf>>
writeVars == <<writer, target>>
turnVars == <<tracker, ended>>

Dead == (1 .. spawned) \ alive

Writing == {"opening", "announcing", "posting"}

\* The request a caller sends or awaits where it is.
RequestAt(c, place) ==
    <<c, IF place \in {"opening", "initializing"} THEN "initialize" ELSE "call">>
Awaited(c) == RequestAt(c, pc[c])
Awaiting(c) == pc[c] \in {"initializing", "asking"}

End(c, how) ==
    /\ pc' = [pc EXCEPT ![c] = "done"]
    /\ outcome' = [outcome EXCEPT ![c] = how]

\* `async with self._init_lock` is left.
LeaveStart(c) == starter' = IF starter = c THEN None ELSE starter

-----------------------------------------------------------------------------
(* Writing.  No timeout covers it.                                         *)

\* `async with self._write_lock` is left.
LeaveWrite(c) ==
    /\ writer' = IF writer = c THEN None ELSE writer
    /\ target' = [target EXCEPT ![c] = 0]

\* asyncio.Lock: who comes new does not overtake those that wait.
WriteLockIsFree(c) ==
    /\ writer \in {None, c}
    /\ \A q \in Callers \ {c} : pc[q] \notin Writing

\* What c writes at `place` gets into the pipe of process g.
Written(c, place, g) ==
    askedOf' = IF place = "announcing" \/ g \in Dead THEN askedOf
               ELSE [askedOf EXCEPT ![RequestAt(c, place)] = g]

\* _send_json_message to process g: into the pipe at once if the lock is free.
Write(c, place, g) ==
    /\ pc' = [pc EXCEPT ![c] = place]
    /\ target' = [target EXCEPT ![c] = g]
    /\ IF WriteLockIsFree(c)
       THEN writer' = c /\ Written(c, place, g)
       ELSE writer' = (IF writer = c THEN None ELSE writer) /\ UNCHANGED askedOf
    /\ UNCHANGED outcome

Register(x) ==
    /\ pending' = pending \cup {x}
    /\ future' = [future EXCEPT ![x] = "pending"]

\* _rpc_request once the client is started.  Without a process it fails, and the request
\* stays registered.
Ask(c) ==
    /\ Register(<<c, "call">>)
    /\ \/ /\ current # 0
          /\ Write(c, "posting", current)
       \/ /\ current = 0
          /\ End(c, "failed")
          /\ LeaveWrite(c)
          /\ UNCHANGED askedOf

\* A caller gets the write lock.
EnterWrite(c) ==
    /\ pc[c] \in Writing
    /\ writer = None
    /\ writer' = c
    /\ Written(c, pc[c], target[c])
    /\ UNCHANGED <<processVars, future, pending, target, turnVars, initialized, closed, starter,
                   pc, answered, outcome>>

\* drain() returns: Codex has read enough, or is dead.
Flushed(c) ==
    /\ writer = c
    /\ \/ /\ \/ pc[c] = "opening" /\ pc' = [pc EXCEPT ![c] = "initializing"]
             \/ pc[c] = "posting" /\ pc' = [pc EXCEPT ![c] = "asking"]
          /\ LeaveWrite(c)
          /\ UNCHANGED <<requestVars, initialized, starter, outcome>>
       \/ /\ pc[c] = "announcing"
          /\ initialized' = TRUE
          /\ LeaveStart(c)
          /\ Ask(c)
    /\ UNCHANGED <<processVars, turnVars, closed, answered>>

\* Mutant: the write lock is left only when drain() returns.
WriteFailsLocked(c) ==
    /\ writer = c
    /\ target[c] \in Dead
    /\ End(c, "failed")
    /\ LeaveStart(c)
    /\ UNCHANGED <<writeVars, processVars, requestVars, turnVars, initialized, closed, answered>>

\* drain() raises: the process is dead.
WriteFails(c) ==
    /\ writer = c
    /\ target[c] \in Dead
    /\ End(c, "failed")
    /\ LeaveWrite(c)
    /\ LeaveStart(c)
    /\ UNCHANGED <<processVars, requestVars, turnVars, initialized, closed, answered>>

-----------------------------------------------------------------------------
(* Requests.                                                               *)

\* Mutant: the handshake is not waited for.
ReadyOnceSpawned == current # 0 /\ current \notin exited

\* The fast path of _ensure_started.
Ready == initialized /\ current # 0 /\ current \notin exited

Call(c) ==
    /\ pc[c] = "idle"
    /\ \/ /\ closed
          /\ End(c, "failed")
          /\ UNCHANGED <<requestVars, writeVars, starter>>
       \/ /\ ~closed /\ Ready
          /\ Ask(c)
          /\ UNCHANGED starter
       \/ /\ ~closed /\ ~Ready
          /\ starter = None /\ \A q \in Callers : pc[q] # "queued"
          /\ pc' = [pc EXCEPT ![c] = "spawning"]
          /\ starter' = c
          /\ UNCHANGED <<requestVars, writeVars, outcome>>
       \/ /\ ~closed /\ ~Ready
          /\ starter # None \/ \E q \in Callers : pc[q] = "queued"
          /\ pc' = [pc EXCEPT ![c] = "queued"]
          /\ UNCHANGED <<requestVars, writeVars, outcome, starter>>
    /\ UNCHANGED <<processVars, turnVars, initialized, closed, answered>>

\* The start lock is free: what was true before may not be any more.
EnterStart(c) ==
    /\ pc[c] = "queued"
    /\ starter = None
    /\ \/ /\ Ready
          /\ Ask(c)
          /\ UNCHANGED starter
       \/ /\ ~Ready /\ closed
          /\ End(c, "failed")
          /\ UNCHANGED <<requestVars, writeVars, starter>>
       \/ /\ ~Ready /\ ~closed
          /\ pc' = [pc EXCEPT ![c] = "spawning"]
          /\ starter' = c
          /\ UNCHANGED <<requestVars, writeVars, outcome>>
    /\ UNCHANGED <<processVars, turnVars, initialized, closed, answered>>

\* Neither _process nor _closed is looked at again after the await.
Spawn(c) ==
    LET g == spawned + 1 IN
    /\ pc[c] = "spawning"
    /\ spawned < MaxProcesses
    /\ spawned' = g
    /\ current' = g
    /\ alive' = alive \cup {g}
    /\ reading' = reading \cup {g}
    /\ Register(<<c, "initialize">>)
    /\ Write(c, "opening", g)
    /\ UNCHANGED <<exited, stopping, initialized, closed, starter, answered, turnVars>>

\* Mutant: the process is installed before it is known to exist.
SpawnFailsInstalled(c) ==
    /\ pc[c] = "spawning"
    /\ End(c, "failed")
    /\ LeaveStart(c)
    /\ current' = spawned + 1
    /\ UNCHANGED <<spawned, alive, exited, reading, stopping, requestVars, writeVars, turnVars,
                   initialized, closed, answered>>

SpawnFails(c) ==
    /\ pc[c] = "spawning"
    /\ End(c, "failed")
    /\ LeaveStart(c)
    /\ UNCHANGED <<processVars, requestVars, writeVars, turnVars, initialized, closed, answered>>

\* `initialize` was answered; `initialized` is written, if there still is a process.
FinishStart(c) ==
    /\ pc[c] = "initializing"
    /\ future[<<c, "initialize">>] = "result"
    /\ \/ /\ current # 0
          /\ Write(c, "announcing", current)
          /\ UNCHANGED starter
       \/ /\ current = 0
          /\ End(c, "failed")
          /\ LeaveStart(c)
          /\ UNCHANGED <<askedOf, writeVars>>
    /\ UNCHANGED <<processVars, future, pending, turnVars, initialized, closed, answered>>

\* Mutant: the tracker a notification created is replaced by a fresh one.
GotAnswerAfresh(c) ==
    /\ pc[c] = "asking"
    /\ future[<<c, "call">>] = "result"
    /\ IF c \in Turns
       THEN /\ pc' = [pc EXCEPT ![c] = "turning"]
            /\ tracker' = [tracker EXCEPT ![c] = "open"]
            /\ UNCHANGED outcome
       ELSE End(c, "ok") /\ UNCHANGED tracker
    /\ UNCHANGED <<processVars, requestVars, writeVars, initialized, closed, starter, answered,
                   ended>>

\* The caller's request was answered.  Notifications of its turn may have come before.
GotAnswer(c) ==
    /\ pc[c] = "asking"
    /\ future[<<c, "call">>] = "result"
    /\ IF c \in Turns
       THEN /\ pc' = [pc EXCEPT ![c] = "turning"]
            /\ tracker' = [tracker EXCEPT ![c] = IF @ = "none" THEN "open" ELSE @]
            /\ UNCHANGED outcome
       ELSE End(c, "ok") /\ UNCHANGED tracker
    /\ UNCHANGED <<processVars, requestVars, writeVars, initialized, closed, starter, answered,
                   ended>>

GotError(c) ==
    /\ Awaiting(c)
    /\ future[Awaited(c)] = "error"
    /\ End(c, "failed")
    /\ LeaveStart(c)
    /\ UNCHANGED <<processVars, requestVars, writeVars, turnVars, initialized, closed, answered>>

\* wait_for cancels the future; the caller notices when it runs next.
TimerFires(c) ==
    /\ Awaiting(c)
    /\ future[Awaited(c)] = "pending"
    /\ future' = [future EXCEPT ![Awaited(c)] = "cancelled"]
    /\ UNCHANGED <<processVars, writeVars, turnVars, initialized, closed, starter, pc, pending,
                   askedOf, answered, outcome>>

\* Mutant: a timed out starter keeps the start lock.
TimedOutLocked(c) ==
    /\ Awaiting(c)
    /\ future[Awaited(c)] \in {"cancelled", "result"}
    /\ pending' = pending \ {Awaited(c)}
    /\ End(c, "failed")
    /\ UNCHANGED <<processVars, writeVars, turnVars, initialized, closed, starter, future,
                   askedOf, answered>>

\* The request times out.  A timer that fires just after the answer came wins too.
TimedOut(c) ==
    /\ Awaiting(c)
    /\ future[Awaited(c)] \in {"cancelled", "result"}
    /\ pending' = pending \ {Awaited(c)}
    /\ End(c, "failed")
    /\ LeaveStart(c)
    /\ UNCHANGED <<processVars, writeVars, turnVars, initialized, closed, future, askedOf, answered>>

-----------------------------------------------------------------------------
(* Turns.                                                                  *)

\* Mutant: the completion event alone is looked at.
TurnDoneUnchecked(c) ==
    /\ pc[c] = "turning"
    /\ tracker[c] \in {"ok", "failed"}
    /\ End(c, "ok")
    /\ tracker' = [tracker EXCEPT ![c] = "none"]
    /\ UNCHANGED <<processVars, requestVars, writeVars, initialized, closed, starter, answered,
                   ended>>

TurnDone(c) ==
    /\ pc[c] = "turning"
    /\ tracker[c] \in {"ok", "failed"}
    /\ End(c, tracker[c])
    /\ tracker' = [tracker EXCEPT ![c] = "none"]
    /\ UNCHANGED <<processVars, requestVars, writeVars, initialized, closed, starter, answered,
                   ended>>

TurnTimesOut(c) ==
    /\ pc[c] = "turning"
    /\ c \notin Untimed
    /\ End(c, "failed")
    /\ tracker' = [tracker EXCEPT ![c] = "none"]
    /\ UNCHANGED <<processVars, requestVars, writeVars, initialized, closed, starter, answered,
                   ended>>

\* The caller's task is cancelled.  Of its request only the future is.
CancelCaller(c) ==
    /\ pc[c] \notin {"idle", "done"}
    /\ future' = IF Awaiting(c) /\ future[Awaited(c)] = "pending"
                 THEN [future EXCEPT ![Awaited(c)] = "cancelled"] ELSE future
    /\ tracker' = IF pc[c] = "turning" THEN [tracker EXCEPT ![c] = "none"] ELSE tracker
    /\ End(c, "cancelled")
    /\ LeaveWrite(c)
    /\ LeaveStart(c)
    /\ UNCHANGED <<processVars, initialized, closed, pending, askedOf, answered, ended>>

-----------------------------------------------------------------------------
(* The stdout loops and what the processes do.                             *)

FailAll == [x \in Requests |-> IF x \in pending /\ future[x] = "pending" THEN "error"
                               ELSE future[x]]

\* Mutant: the requests are forgotten and their futures left pending.
LoopEndsSilently(g) ==
    /\ reading' = reading \ {g}
    /\ pending' = {}
    /\ UNCHANGED future

\* The `finally` of the stdout loop of process g: it fails every registered request,
\* whichever process it was written to.
LoopEnds(g) ==
    /\ reading' = reading \ {g}
    /\ pending' = {}
    /\ future' = FailAll

\* A process answers request x; "error" stands for a malformed result, too.  set_result
\* raises on a future that was cancelled, which ends the loop.
Reply(x, what) ==
    /\ askedOf[x] \in reading \ stopping
    /\ answered[x] = "none"
    /\ answered' = [answered EXCEPT ![x] = what]
    /\ \/ /\ x \notin pending
          /\ UNCHANGED <<pending, future, reading>>
       \/ /\ x \in pending
          /\ future[x] = "pending"
          /\ pending' = pending \ {x}
          /\ future' = [future EXCEPT ![x] = what]
          /\ UNCHANGED reading
       \/ /\ x \in pending
          /\ future[x] # "pending"
          /\ LoopEnds(askedOf[x])
    /\ UNCHANGED <<current, spawned, alive, exited, stopping, initialized, closed, starter,
                   writeVars, pc, askedOf, turnVars, outcome>>

\* A process runs the turn of caller c and its notifications are read.
TurnRuns(c) ==
    /\ c \in Turns
    /\ askedOf[<<c, "call">>] \in reading \ stopping
    /\ answered[<<c, "call">>] # "error"
    /\ ended[c] = "none"

\* turn/started, or a delta of the turn.
TurnNotified(c) ==
    /\ TurnRuns(c)
    /\ tracker[c] = "none"
    /\ tracker' = [tracker EXCEPT ![c] = "open"]
    /\ UNCHANGED <<processVars, requestVars, writeVars, initialized, closed, starter, pc, answered,
                   ended, outcome>>

\* turn/completed.
TurnCompleted(c, how) ==
    /\ TurnRuns(c)
    /\ tracker' = [tracker EXCEPT ![c] = how]
    /\ ended' = [ended EXCEPT ![c] = how]
    /\ UNCHANGED <<processVars, requestVars, writeVars, initialized, closed, starter, pc, answered,
                   outcome>>

ProcessDies(g) ==
    /\ g \in alive
    /\ alive' = alive \ {g}
    /\ UNCHANGED <<current, spawned, exited, reading, stopping, requestVars, writeVars,
                   turnVars, initialized, closed, starter, pc, answered, outcome>>

\* The event loop learns that a process is dead: its returncode is set.
ReturnCodeSet(g) ==
    /\ g \in 1 .. spawned /\ g \notin alive \cup exited
    /\ exited' = exited \cup {g}
    /\ UNCHANGED <<current, spawned, alive, reading, stopping, requestVars, writeVars,
                   turnVars, initialized, closed, starter, pc, answered, outcome>>

\* The loop of a dead process reads the end of its stdout, or a cancelled one runs.
LoopStops(g) ==
    /\ g \in reading
    /\ g \notin alive \/ g \in stopping
    /\ LoopEnds(g)
    /\ UNCHANGED <<current, spawned, alive, exited, stopping, initialized, closed, starter,
                   writeVars, pc, askedOf, answered, turnVars, outcome>>

\* close(): only the loop of the last process started is cancelled.
Close ==
    /\ ~closed
    /\ closed' = TRUE
    /\ current' = 0
    /\ alive' = alive \ {current}
    /\ stopping' = reading \cap {spawned}
    /\ pending' = {}
    /\ future' = FailAll
    /\ UNCHANGED <<spawned, exited, reading, initialized, starter, writeVars, pc, askedOf, answered,
                   turnVars, outcome>>

-----------------------------------------------------------------------------
\* What a caller does once it can run again.
Resumes(c) ==
    \/ EnterStart(c) \/ FinishStart(c) \/ EnterWrite(c) \/ GotAnswer(c) \/ GotError(c)
    \/ TimedOut(c) \/ TurnDone(c)

SpawnEnds(c) == Spawn(c) \/ SpawnFails(c)

WriteEnds(c) == Flushed(c) \/ WriteFails(c)

Next ==
    \/ \E c \in Callers :
           \/ Call(c) \/ Resumes(c) \/ SpawnEnds(c) \/ WriteEnds(c) \/ TimerFires(c)
           \/ TurnTimesOut(c) \/ CancelCaller(c) \/ TurnNotified(c)
           \/ \E how \in {"ok", "failed"} : TurnCompleted(c, how)
    \/ \E x \in Requests, what \in {"result", "error"} : Reply(x, what)
    \/ \E g \in Processes : ProcessDies(g) \/ ReturnCodeSet(g) \/ LoopStops(g)
    \/ Close

Spec == Init /\ [][Next]_vars

\* asyncio resumes what can run and fires every timer, and the operating system starts a
\* process or fails to.
Scheduling ==
    \A c \in Callers : /\ WF_vars(Resumes(c))
                       /\ WF_vars(SpawnEnds(c))
                       /\ WF_vars(TimerFires(c))
                       /\ WF_vars(TurnTimesOut(c))

\* All that is assumed of Codex: it reads what is written to it, or dies.  It need not answer.
CodexReads == \A c \in Callers : WF_vars(WriteEnds(c))

FairSpec == Spec /\ Scheduling /\ CodexReads

-----------------------------------------------------------------------------
\* Only one caller at a time starts a process, and the lock never outlives its start
\* (_ensure_started, with every way an awaited step of it can end).
OneStarter ==
    \A c \in Callers :
        pc[c] \in {"spawning", "opening", "initializing", "announcing"} <=> starter = c

\* An answer always finds the request it belongs to: while a caller writes its request or
\* awaits a future that is still open, the request is registered, whatever loops ended in
\* between.
AwaitedIsRegistered ==
    \A c \in Callers :
        /\ pc[c] \in {"opening", "initializing", "posting", "asking"}
        /\ future[Awaited(c)] = "pending"
        => Awaited(c) \in pending

\* No completion is lost: a caller that waits for its turn has the turn's tracker, and
\* hears of a turn/completed that was dispatched before it began to wait.
CompletionIsHeard ==
    \A c \in Callers :
        pc[c] = "turning" => /\ tracker[c] # "none"
                             /\ ended[c] # "none" => tracker[c] = ended[c]

\* send_message returns a message only for a turn that Codex accepted and completed
\* without failing; a trace of it never survives in the tracker table.
SuccessIsGenuine ==
    \A c \in Callers :
        outcome[c] = "ok" => /\ answered[<<c, "call">>] = "result"
                             /\ c \in Turns => ended[c] = "ok" /\ tracker[c] = "none"

\* However many callers race for the first start, no request precedes the handshake.
NothingBeforeHandshake ==
    \A c \in Callers :
        askedOf[<<c, "call">>] # 0 =>
            \E q \in Callers : answered[<<q, "initialize">>] = "result"

\* Every call with timeouts ends, even if Codex dies, never answers or is closed in the
\* middle of it, as long as it does not live on with a full pipe: no timeout covers the
\* writing of a request, which may hold the write lock against all others.
TimedCallsEnd ==
    \A c \in Callers \ Untimed : pc[c] # "idle" ~> pc[c] = "done"

-----------------------------------------------------------------------------
(* What the repository says and the code does not do.                      *)

\* The stdout loop fails the requests in flight "if the process exits unexpectedly": its
\* other exit is marked as merely defensive, so the loop of a live process must run.
LoopOutlivesRequests ==
    ~closed /\ current \in alive => current \in reading

\* "Completed/failed/timeout turns should not accumulate indefinitely."
NoTrackerLeftBehind ==
    \A c \in Callers : ended[c] # "none" /\ pc[c] = "done" => tracker[c] = "none"
=============================================================================
