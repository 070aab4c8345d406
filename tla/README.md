# Verification of codex-a2a-server

TLA+ models of the server's concurrent core, model-checked with TLC and, for every
value of the constants, proved with TLAPS. The server is an A2A adapter in front of
`codex app-server`: it turns A2A messages into Codex turns, keeps the mapping from
conversations to Codex threads ("sessions"), and decides who may use which session. It
is one asyncio process, so every hazard it has is an interleaving of tasks at an `await`,
a cancellation at one, or the death of the child process.

Paths below are relative to `src/src/codex_a2a_server/`.

## 1. Inventory

| Component | State | Operations | Talks to |
|---|---|---|---|
| Session registry, `execution/session_runtime.py` | owners and bindings (TTL caches), pending claims, creations in flight, session locks, running executions | `get_or_create_session`, `claim_session`, `finalize_*`, `release_*`, `track`/`untrack_running_request`, `cancel_running_request` | called by executions, control requests, cancellation |
| Execution of a request, `execution/executor.py`, `execution/cancellation.py` | one task's local variables; the lock it holds | `execute`, `cancel` | registry, Codex client, event queue, stream task |
| Session control, `jsonrpc/session_control.py` | one request's pending claim | `prompt_async`, `command`, `shell` | registry, Codex client |
| A2A request handler, `server/request_handler.py` | none of its own (SDK task store and queues) | cancel, send, stream, resubscribe | starts and cancels executions |
| Codex client, `upstream/client.py` | child process, request table, turn trackers, event subscribers, server requests | `_ensure_started`, `_rpc_request`, `send_message`, `stream_events`, interrupt replies, `close` | the child process over pipes |
| Event streaming, `execution/streaming.py`, `stream_*.py` | text and tool buffers of one turn, stop events | consume, chunk, flush, final snapshot | subscribes to the client, writes to the event queue |
| Interrupts, `jsonrpc/interrupts.py`, `interrupt_lifecycle.py`, `upstream/interrupts.py` | pending approvals and questions, with expiry | list, reply, expire | client, session ownership |
| TTL cache, `session_runtime.py:10-63` | ordered entries with deadlines | get, set, pop, evict | inside the registry |
| Session queries, JSON-RPC dispatch, parameters, payload conversions, HTTP middlewares, settings, agent card and contracts | none that outlives a request | validation, conversion, wiring | everything |

`PROJECT.json` lists each with its status. What makes the stateful ones correct:

- **Registry**: an owned session is never handed to another identity; a conversation is
  bound only to a session of its caller; a claim has somebody who will finalize or
  release it; session creation is single-flight per conversation.
- **Executions**: turns of a session do not overlap and start in order; a session lock is
  never left locked with nobody to release it and no wake-up is lost; every accepted call
  ends, with a final event unless it was cancelled; a cancelled one starts and completes no
  turn and reports no failure; `tasks/cancel` reaches what runs.
- **Client**: one starter at a time; no request without its future; no lost completion; a
  success only where Codex succeeded; calls with timeouts end; a writer that is cancelled or
  loses its process leaves the write lock; the table of trackers does not grow; the reader
  of a living process keeps reading.
- **Streaming**: a client has the whole response of a completed turn, streamed or sent after
  what was streamed, whatever was dropped, held or added on the way, and nothing it has is
  taken back; what the processor handled is sent once and in order;
  a client sees the last state of every tool call; what may follow a
  final event is known; the stream task ends after completion.
- **Interrupts**: an open request stays answerable until it is too old; once its answer is
  through it takes no other; every callback is told what is so; interrupt statuses come in
  pairs.
- **TTL cache**: a map that may forget: never returns an expired entry, keeps what was just
  recorded, never exceeds its capacity.

What is hard in this code: the session lock released by an execution that does not hold it;
a claim shared by requests that know nothing of each other; a create task awaited by several
executions, each of which cancels it when it is cancelled; keys that two executions of one
task share; an answer that arrives for a caller who has left; notifications that overtake
the answer they belong to; a pipe that is full while its writer holds a lock; a cancellation
that is suppressed where it was not meant; a queue that drops its oldest event; text that is
buffered while something else is sent; a stream task that waits for what no longer comes; a
callback that looks a request up, awaits, and looks again; a process or a pipe that dies
between any two of these. The list, line by line, is under `hazards` in `PROJECT.json`.

## 2. Modules

| Module | What it models |
|---|---|
| `SessionRuntime` | the registry: every method is one step, because it runs under one lock and awaits nothing inside it |
| `Executor` | `execute` and `cancel`, extends the registry |
| `SessionControl` | the control requests, extends the registry |
| `TurnQueue` | the abstract promise of the session locks: a queue and one turn at a time |
| `System` | executions + control requests + registry; its properties; the refinement of `TurnQueue` |
| `CodexClient` | the client: start and restart of the process, request table, turn trackers |
| `Optionals` | Python's None |
| `CodexEvents` | what Codex notifies, and the stream events the client makes of it |
| `StreamChunks` | the state of a message part and the chunks an event gives |
| `StreamProcessor` | `handle_event`, the text buffer, the output state, the final artifact and status; extends the two before |
| `LossyMap` | the abstract promise of a cache: a map that may forget |
| `TTLCache` | get, set, expiry and eviction of the cache |
| `Interrupts` | Codex's pending requests, the callbacks that answer them and the cache of owners they consult; extends `TTLCache`; the refinement of `LossyMap` |
| `TurnStream` | one streaming turn: Codex + client queue + stream task + execution + `StreamProcessor` + `Interrupts` |
| `MCSystem`, `MCCodexClient`, `MCInterrupts`, `MCTurnStream` | the instances for TLC |
| `SequenceFacts`, `SystemTypes`, `SystemTurns`, `SystemOwners`, `CodexClientProofs`, `InterruptsProofs`, `StreamProcessorProofs`, `TurnStreamProofs` | proofs |

### How the models correspond to the code

**A step is the code between two awaits that can suspend.** `execute` is cut at five of
them (`pc`): `creating` (the shared create task), `waiting` (the session lock), `sending`
(`send_message`), `draining` (the stream task after the turn), `unwinding` (the cancelled
stream task in `finally`). `await self._session_runtime.x()` takes a lock that is never
held across a suspension, so it does not suspend and the registry's change belongs to the
step. Putting an event on the A2A queue is treated as non-suspending as well.

- `Arrives`/`BeginBound`/`BeginUnbound` are `execute` from its start to the first
  suspension: validation, ownership, binding, registration, lock. `CreateResolved` is the
  tail of `get_or_create_session` and of `_get_or_create_session` after the create task.
- The session lock is `asyncio.Lock` in detail: `locked`, the waiters in order, `woken`
  for the resolved wait futures, the hand-over of an unused wake-up when a waiter is
  cancelled. `LeaveQueue` is such a waiter, together with `execute`'s `finally`, which
  releases the lock when it is locked, whoever holds it (executor.py:277).
- Cancellation is a flag (`cancelled`) that the execution sees when it runs next; it also
  cancels what the execution awaits, the shared create task included. `CancelTask` is
  `cancel`, `Disconnect` the producer of a streaming client that goes away.
- `CacheLoss` is what the registry can see of the TTL caches: an entry is gone at any
  time. `forgotten` remembers whose owner entry was lost, because the code promises
  nothing about those; `stolen` remembers sessions whose lock was released by an
  execution that did not hold it. Both are history variables, read by properties only.

`CodexClient` cuts the client in the same way. `queued` is the wait for `_init_lock`;
`spawning`, `opening`, `initializing` and `announcing` are the suspensions of
`_ensure_started`: the process, the writing of `initialize`, its answer, the writing of
`initialized`. `posting` is the writing of a request, `asking` the wait for its answer,
which alone has a timeout, `turning` the wait for `tracker.completed`. A write is the wait
for `_write_lock` and, once `writer` holds it and the line is in the pipe (`Written`), the
drain, which returns (`Flushed`) or raises when the process is dead (`WriteFails`); `target`
is the process it was begun with, because `_send_json_message` reads `_process` before it
waits. Between the timer of `wait_for` and the caller's next step the future is already
cancelled (`TimerFires`, `TimedOut`): an answer dispatched in between meets a future that
cannot take it. Three views of a process are kept apart because the code tells them apart:
it runs (`alive`), its `returncode` is set (`exited`), its stdout is being read (`reading`,
`stopping`). The child process is external: it may answer, notify, complete, fail, or die at
any time, and what it wrote before it died may still be read.

`Interrupts` cuts a callback at its three suspensions: `checking` (the registry's lock in
`validate_interrupt_owner`), `waiting` (the write lock of the pipe) and `writing` (the
drain). The request is looked up before the first and again after it, and discarded after
the last; between them it may expire, be looked up, be answered by another client, or the
pipe may break. `requests` and `answers` are Codex's own view, which no code reads: the
properties compare it with `pending`, the client's table, and with `told`, what the last
callback to end was told. The clock is a number, so that expiry, renewal and eviction are
those of the code.

`StreamChunks` and `StreamProcessor` are sequential: one operator per function, from a
processor to a processor. A step of `TurnStream` applies one of them. Text is a sequence of
fragments, numbered in the order Codex produced them, so that "nothing forgotten, nothing
twice, in order" can be said of it. The stream task is `connecting`, `reading`, in its
`backoff` or `done`; `timer` says what bounds the wait it is in, because only a wait that
began after the completion is bounded by the drain time (streaming.py:106). A task that
found its queue silent after the completion is `closing` before it is `done`: it has
cancelled the subscription and awaits it under `suppress(CancelledError)`
(streaming.py:115). The execution is `sending`, `draining`, `unwinding` or `done`, as in
`Executor`, and is cancelled or fails at any point; cancelled while the task is closing it
is `surviving`: `await stream_task` hands the cancellation on, the task loses it, and the
execution completes its answer. `Executor`, which has no stream task, lets a cancelled
drainer end in either way (`Drained`). `Assembled` is the text of a client that appends
where a chunk says so and starts anew where it does not, as the tests' `_final_state` does.
`scenario` is chosen at the start: what Codex may say in this turn, how long it goes on,
what it asks and how often connecting fails.

`map` in `PROJECT.json` gives the lines of every definition.

## 3. Runs

All complete within the bounds given, on two workers in about three minutes at most.

| Run | Instance | Distinct states | Shows |
|---|---|---|---|
| `turns` | 3 executions of one caller, 2 sessions, 2 tasks, streaming and unary, bound and unbound calls; symmetric executions | 550 142 | `SerializedUnlessStolen`, `LockedHasHolder`, `NoLostWakeup`, `QueuesAreExact`, `SingleFlightCreate`, `TrackingIsAccurate`, `StopsWhenCancelled`, and the refinement `TurnsAreQueued` |
| `owners` | 2 callers, 2 executions, 1 control request, 2 sessions | 246 754 | `BoundIsOwned`, `TurnIsAuthorised`, `ClaimHasClaimant`, `OwnerNeverReplaced` |
| `ends` | 3 executions, 1 session, with fairness, no symmetry | 203 741 | `EveryExecutionEnds` |
| `client` | 1 turn with a timeout and 1 request, 2 processes, with fairness | 601 367 | `OneStarter`, `AwaitedIsRegistered`, `CompletionIsHeard`, `SuccessIsGenuine`, `NothingBeforeHandshake`, `TimedCallsEnd` |
| `stream` | 5 scenarios of up to 4 notifications, a queue of 2, 1 request, 2 callbacks, with fairness | 964 401 | `ClientHasResponse`, `FinalEndsStream`, `NothingForgotten`, `TimelineKept`, `InterruptsPair`, `ToolStateIsShown`, `StreamEnds` |
| `interrupts` | 2 clients (one known, one without identity), 2 requests, 2 identities, 2 sessions, a cache of one entry, TTLs and clock of 1 | 271 674 | `OpenIsPending`, `AnsweredIsGone`, `RepliesAreTrue`, `OwnersAreLossyMap`, `CacheIsBounded` |
| `one_turn`, `answered`, `claim`, `client_loop`, `client_trackers`, `final_usage` | as above or smaller, the last one with a single scenario | counterexample | the findings of section 4 |

**Why the bounds are enough.** The interesting lock schedules need a holder, a waiter that
is cancelled and a waiter behind it: three executions. Theft, lost wake-ups and overtaking
all show with three, and the proofs cover any number. Ownership conflicts need two
identities and one session they both want, plus the second session for the creation that
collides with a claim; the third party is a control request, since it takes no session lock.
For the client two processes are one restart, which is what lets the loop of the dead
process meet requests of the new one; two callers race for the start, for the restart and
for the write lock. One turn is enough because trackers of different turns do not touch each
other; the other caller queues for both locks as a turn would. Both callers have timeouts,
which only adds behaviours: a timer may fire and need not. The streaming scenarios each hold
what may interact: text, reasoning and a tool call in one; lost text, token counts, another
turn and a failing connection in another; the other forms of the stream contract; parts
without a type; a request with text before or after it. Four notifications overflow a queue
of two while the task is busy, and fill and flush a buffer of two fragments in every order;
a second, longer buffer is the reasoning's. For the interrupts two clients are what it takes
to answer one request twice, two requests tell a mistaken name from a late one, and a cache
of one entry for two sessions evicts at every other recording; the proofs cover any sizes.
Every action of the models is taken in the passing runs, and each property is violated by
the mutant of the code that `PROJECT.json` pairs with it. One bound does hide a case: with a
clock and times to live of 1, `interrupts` never renews a live entry to a later deadline,
which only the theorems about the cache cover. One context is enough because binding keys
differ by identity and context alike; two tasks share it so that `tasks/cancel` of one meets
executions of the other.

`CHECK_DEADLOCK` is off: a bounded number of requests arrive, and once all have ended the
system rightly stops.

**Fairness.** `System`: weak fairness of what an execution or control request does once it
can run, of the create task's end, and of the end of every turn and control call. asyncio
runs every ready task; that `send_message` and `thread/start` return is a promise of the
client. That the stream task ends after a turn is assumed there as well, and is what
`StreamEnds` shows in `TurnStream`. Arrivals, cancellations, disconnects and cache losses
are never fair. `CodexClient`: weak fairness of callers that can run, of timers, and of
process creation, which ends in success or an exception (`Scheduling`). Of Codex one thing
is assumed, `CodexReads`: it reads what is written to it, or dies, so that every drain ends;
it need not answer. Without it calls with a timeout do not end, because no timeout covers
the writing (section 4). `TimedCallsEnd` covers only calls with a timeout. A streaming
`send_message` has none by default (`codex_timeout_stream` is None), and nothing ends it
when its process dies after accepting the turn: `FailAll` fails requests, not trackers. The
fairness of `TurnEnds` in `System` is therefore a real assumption there, not a consequence.
`TurnStream`: weak fairness of the stream task where it can run, of connection attempts
ending, of the backoff and the drain time passing, of the cancelled subscription ending, and
of the execution that waits for the task. It is stated of the part of each step that moves
the task (`Takes`, `Drains`, `Closes`, `Stops`, `Ends`), because what the step does to the
processor never keeps it from being taken. One assumption deserves a word: a wait that began
before the turn completed is bounded only by the time until the next idle diagnostics
(streaming.py:106; 60 seconds by default, docs/guide.md:184), and `PatientSpec` assumes that
this time passes. So the stream task ends, but a completed turn of a silent session may wait
up to a minute for it, with its session lock held; were the diagnostics' time unbounded,
`StreamEnds` would fail. Nothing is assumed of Codex there: it need not say anything, answer
or complete the turn.

**Identities.** The bearer middleware admits one token, so one deployment has one
identity (`server/http_middlewares.py:267`). The registry's contract, and the tests of
session ownership, are about several, and so is the model.

## 4. What the code does not do

| Run | The repository says | The code |
|---|---|---|
| `one_turn` | turns of a session are serialized: `max_in_flight_send == 1` (tests/execution/test_streaming_output_contract.py:477) | an execution cancelled while it waits for the lock releases it under the running turn (executor.py:277), and the next one starts beside it |
| `answered` | on internal errors the service attempts to return failure events (docs/guide.md:390) | an execution nobody cancelled ends silently when another execution's cancellation takes the shared create task with it (session_runtime.py:206) |
| `claim` | a pending claim blocks other identities until its turn is over (tests/execution/test_session_ownership.py:298) | the claim is one entry per session: another request of the same identity that fails drops it for all (session_runtime.py:250) |
| `client_loop` | the stdout loop's other exit is "defensive"; requests are failed "if the process exits unexpectedly" (upstream/client.py:281, 284) | an answer for a cancelled request makes `set_result` raise and ends the loop of a live process, which stays in use, unread (client.py:353) |
| `client_trackers` | "Completed/failed/timeout turns should not accumulate indefinitely" (client.py:827) | a notification after the caller gave up creates the tracker again, for good (client.py:430) |
| `final_usage` | the service "publishes normalized usage data in final metadata when available" (docs/architecture.md:58) | the token counts are taken when `send_message` returns, before the stream task has drained its queue (executor.py:218): counts that are still in it are ingested and never published |

Because of the first, the passing property is `SerializedUnlessStolen` and the abstract
`TurnQueue` says openly that a cancelled waiter may steal a turn: the proofs show that
this is the only way in which turns can overlap, and that even then no lock is stuck.

Two more disagreements have no run of their own; the passing properties name them as the
exceptions they are.

- A cancellation that reaches the stream task while it awaits the end of its subscription is
  suppressed there (streaming.py:116): `await stream_task` (executor.py:232) returns normally,
  and the execution sends the response and the final status `input_required` after the final
  status `canceled`. docs/guide.md:304 has one final status follow the artifacts.
  `FinalEndsStream` says that this can happen after `canceled` only, that the completion then
  ends the stream, and `StopsWhenCancelled` that it is the one thing a cancelled execution may
  still say. What the SDK makes of the second final status is not modelled: a canceled task
  stays canceled here.
- `CODEX_TIMEOUT` is the request timeout (docs/guide.md:155), but a request is written, under
  the write lock and until the pipe has drained, before its timeout begins (client.py:374,
  400-402): a Codex that lives and does not read stops the writer and all behind it. That is
  why the fairness of `CodexClient` needs `CodexReads`.

Two things the models show are promised otherwise by no document. The final status of a failed
or canceled turn may be followed by one artifact: the text that was in the buffer, which the
stream task flushes when it is cancelled (executor.py:258, stream_processor.py:190;
docs/guide.md:307 describes the order of a turn that succeeds). That is the other exception in
`FinalEndsStream`. And of two clients that answer one request, the second is let through while
the first answer is still draining (client.py:971), and both are told "ok": the exception in
`AnsweredIsGone`.

One thing was met while reading and is outside the models, which have no real time: once
the diagnostics' time has passed since a turn began, and something was shown within it,
`seconds_until_idle_diagnostic` is 0 (stream_processor.py:141) and `maybe_log_idle` does not
log (stream_processor.py:88), so the stream task polls without pause and flushes its buffer
at every turn of the loop until the last chunk is old enough. `WaitTimesOut` allows a flush
at any time, so what is shown of the stream holds there too.

## 5. Proofs

Everything below holds for any number of identities, contexts, tasks, sessions, executions,
control requests, callers, processes, clients and requests, and for any capacity and times
to live. The assumptions are those the modules name: `None` is none of the other values,
`Calls` are calls, `OldThreads` are sessions, `Untimed` turns are turns, bounds and times
are numbers.

**`SystemTypes`**: `Spec => []IInv` with
`IInv == TypeOK /\ Coherent /\ QueuesAreExact /\ TrackingIsAccurate`. `TypeOK` alone is
not inductive: `ResumeCreate` reads `call[r]` and `created[joined[r]]`, `LeaveQueue`
removes an execution from the queue of `session[r]`, and each is well typed only where
the execution stands. `Coherent` says what an execution carries at each place;
`QueuesAreExact` says that a waiting execution is in the queue it leaves, once (which is
what makes `RemoveFirst` remove exactly it: `SequenceFacts` proves that);
`TrackingIsAccurate` says that `tasks/cancel` finds live executions. Instead of repeating
one case split per property, each step is first shown to be one of a few shapes
(`LockStep` for the locks, `TrackStep` for the table of running executions), and the
invariants are proved of the shapes.

**`SystemTurns`**: on top of `IInv`, `LockInv` (`SerializedUnlessStolen`,
`LockedHasHolder`, `NoLostWakeup`) is inductive as a whole. `NoLostWakeup` needs
`QueuesAreExact`: a wake-up is given to the head of the queue, which is waiting. The same
shapes prove `TurnsAreQueued`, the refinement of `TurnQueue`: initial states map to its
initial state and every step to one of its steps or a stutter.

**`SystemOwners`**: `OwnerNeverReplaced` for every step; `BoundIsOwned` from it;
`TurnIsAuthorised` with `BoundIsOwned` from the invariant that an execution in the queue or
in its turn owns its session, is claiming it, or is unwinding. `ClaimHasClaimant`,
`SingleFlightCreate` and `StopsWhenCancelled` are each inductive on top of `IInv`. For the
claims every step is first shown to keep the claims, to make one, or to give one up
(`KeepsClaim`, `Claims`, `GivesClaimUp`, `CtlStep`); the invariant is proved of those
shapes. With them every safety property of the runs `turns` and `owners` is proved.

**`CodexClientProofs`**: `IInv` joins the types with `OneStarter`, `AwaitedIsRegistered`,
`TurnInv` (the tracker says what was notified as long as its caller is there, also before
the answer was read), `AnswerInv` (a result in a future is one Codex gave, and an ended
call stays ended) and `HandshakeInv` (whoever announces the client or
writes a request has an answered `initialize` behind it). All five safety properties
of `client` follow from it.

**`InterruptsProofs`**: `Inv` joins the types with `NamesARequest` (what is pending,
answered or called back is a request Codex made, and says the same of it), `OneWriter` and
`WritersAnswer` (an answer that drains is in the pipe), `AnsweredIsOver` (an answered
request is pending only while its answer is written) and `OpenIsPending`. `OpenIsPending`
alone is not inductive: a discard is harmless only because of `WritersAnswer`, an expiry
only because of `NamesARequest`. From `Inv` follow `AnsweredIsGone`, by the two lookups of
a callback (`CheckedMeans`), and `RepliesAreTrue`. The cache: `SetKeeps` says what a
recording leaves, eviction included, `GetIsForget` that reading changes nothing that is
read; together they give `OwnersAreLossyMap` and the refinement of `LossyMap`, and counting
what eviction removes gives `CacheIsBounded`.

**`StreamProcessorProofs`**: what an event does to the processor, for every state of it and
every length of buffer and stream. `HandleEventIs`: an event streams text or reasoning, or
shows one change of one tool call, or one phase of one request, each after what was in the
buffer; it never shows a state of a call twice in a row, and what the emitter remembers
of the text stays the text that was sent. `EventIsSaid`: while nothing is held, an event
that brings one fragment for the client says it next, after all that was sent or is in the
buffer. Two definitions are folds: `emit_chunks` over the chunks of an event, and the text
of a stream, `FlattenSeq`. The community modules define both as a `CHOOSE` of a function
that satisfies an equation; that the equation has a solution is proved first (`IsFold`,
`FlattenIsSeq` and the lemmas of `SequenceFacts`), by the least element of a set of numbers
(`WFMin`) instead of induction, and then that the chunks are emitted one after the other.

**`TurnStreamProofs`**: every step of a streaming turn is a step of `Interrupts` or leaves
its variables alone, so all that `InterruptsProofs` shows holds of the turn
(`TurnImplementsInterrupts`). To the client a step is one of four (`Progress`): the
processor rests, perhaps while the queue grows or overflows; flushes; handles the event at
the head of the queue; or is told of the end. Every invariant of the stream is proved of
these four shapes:

| Property | Inductive invariant | Why it is needed |
|---|---|---|
| `StreamTypeOK` | `Typed` | the buffer holds text or reasoning only, and what is queued tells of a tool call as the client does (`QueueTells`) |
| `FinalEndsStream` | `Ending` | an execution that unwinds has reported its end, and only the buffer of a stream task that still runs can follow; one that survives has `canceled` as its last event, and its task closes or is done, so nothing comes between that and the completion |
| `ClientHasResponse` | `Telling` | until the turn is reported, the text a client has assembled is what the emitter will compare the response with, no snapshot was sent, and only the first chunk may start the artifact |
| `InterruptsPair` | `Pairs` | a request is queued once, handled once, and in the processor's set exactly between the two statuses |
| `ToolStateIsShown` | `Tools` | the state a part remembers is the last one shown and the last one reported; the one payload the emitter remembers belongs to a call it has counted |
| `NothingForgotten` | `InLine` | what is queued brings one fragment each, in order, after all that was sent or handled; what was sent is in order, and nothing is held |
| `TimelineKept` | `InLine`, `AskedInTime` | a new fragment was never said before, so it cannot belong before a request that was shown |

The last two are theorems about the turns in which Codex brings its text in pieces
(`InPieces`): no deltas apart from their part, no whole and no rewritten texts. All that
`client.py` makes of the notifications of this app server is of that kind (section 6), and
so are the scenarios `Working`, `Crowded` and `Asking` of the run `stream`. In the other
forms of the contract both stay properties that TLC checks on the scenarios `Contract` and
`Untyped`. Without a hypothesis they do not hold: a whole text may repeat, under the id
of one part, what was sent under another's, and the code has no reason to suppress that.

**Only model-checked**: the liveness properties `EveryExecutionEnds`, `TimedCallsEnd` and
`StreamEnds` (liveness under fairness is out of the prover's reach); `NothingForgotten` and
`TimelineKept` of the forms of the contract this app server does not use; the findings,
which are counterexamples.

## 6. Bounds and abstractions

- Sets of requests, callers, clients and sessions are finite in the runs; each execution,
  control request and caller is used once. `MaxProcesses` bounds how often Codex is started,
  `MaxRequests` how often it asks, `MaxClock` how far the clock of the interrupts runs, and a
  scenario's `length` how much Codex says. Events of other sessions therefore end as well: a
  server whose other sessions never fall silent for 50 ms keeps the stream task of a
  completed turn reading (streaming.py:111), which no bounded model shows.
- A message's text, errors' wording and the fields of a payload that follow from its item
  are left out; a call is who, where, on which task, bound to what, and whether it streams;
  a callback is which request, by which method, well formed or not.
- Time is absent from `System` and `CodexClient`: TTLs are "at any time", timeouts fire at
  any time. In `TurnStream` text in the buffer may be older than its limit at any event.
- A drain may return at once or never: how much the pipe holds is left out. The answers to
  Codex's requests take the same write lock as the client's requests; each is modelled with
  its own kind of writer, in `Interrupts` and in `CodexClient`. The error reply to a request of
  Codex of an unknown method, which the stdout loop writes itself (client.py:636), is left
  out: while it waits for a full pipe nothing is read.
- An error answer also stands for a malformed result. Callers without `send_message`'s wait
  (`prompt_async`, lists, reads) are plain requests.
- `Interrupts` cuts a callback at the registry's lock (`checking`) although nothing in this
  server holds that lock over a suspension: its interleavings are more than the code's.
- One alias stands for all the names of a tool call's status that are normalized.
- The disconnect of a client is in `System` and not in `TurnStream`, where it would be a
  cancellation without a report.
- `Interrupts` and `TurnStream` model one process of Codex. What becomes of pending requests
  when it dies is written nowhere; the code keeps them, by a key the next process may use
  again (client.py:588).
- An expired request is told of as expired once and removed; Codex is not told, and waits.
  That a turn completes only with its answers (`TurnCompletes`) is an assumption about Codex.
- Message and event ids, sequence numbers, metrics, logging and idle diagnostics are left out
  of the stream. No document promises anything of the order of events of two clients.
- Parts of the stream contract this Codex does not use (deltas apart from their part, whole
  and rewritten texts, parts without a type, echoes) are modelled as an external upstream
  that uses them, because the processor handles them.
- The quirk of `wait_for` in Python 3.11 that can swallow a cancellation arriving with the
  result is not modelled; that a timer can beat a result already set (3.12) is.

Not modelled: session queries, HTTP middlewares, settings and wiring, payload conversions
without a decision, and the static documents (contracts, profile, agent card, OpenAPI). They
keep no state between requests and decide nothing the modelled parts depend on; the status
of each component is in `PROJECT.json`.

## 7. Plan

1. *Done*: `SessionRuntime`, `Executor`, `SessionControl`, `TurnQueue`, `System`, with
   their proofs; `CodexClient` with its proofs.
2. *Done*: the streaming turn (`CodexEvents`, `StreamChunks`, `StreamProcessor`,
   `TurnStream`); the interrupt requests and the cache (`Interrupts`, `TTLCache`,
   `LossyMap`) with their proofs, and their composition with the turn; the proofs of
   every safety property of the stream.
3. A client that restarts Codex while requests are pending, once what should become of them
   is written down (client.py:588).
4. `NothingForgotten` with deltas apart from their part, where the fragments a part holds
   join the invariant: each is held once, and is sent or dropped when the part is known.
5. `System` with the stream task in place of its assumption that the drain ends, on a
   smaller instance.
