----------------------------- MODULE TurnStream -----------------------------
(***************************************************************************)
(* A streaming turn: what Codex says and asks (CodexEvents, Interrupts),   *)
(* the client's subscriber queue (upstream/client.py), the task that       *)
(* consumes it (consume_codex_stream, streaming.py) with its processor     *)
(* (StreamProcessor), and the execution that ends it (executor.py).        *)
(*                                                                         *)
(* The stream task is connecting (its subscription waits for the client to *)
(* be started), reading, in a backoff after a failed connection, closing   *)
(* (it awaits the end of its subscription), or done.                       *)
(* The execution is sending (send_message runs), draining (the turn has    *)
(* completed and it awaits the stream task), surviving (the same, after a  *)
(* cancellation the closing task has suppressed), unwinding (it failed or  *)
(* was cancelled and has cancelled the stream task), or done.              *)
(***************************************************************************)
EXTENDS StreamProcessor, Interrupts

CONSTANTS
    Scenarios,    \* what Codex may say, how long, how much it asks, and what else happens
    MaxQueue      \* capacity of a subscriber queue

ASSUME ScenariosAssumption ==
    Scenarios \subseteq [notes : SUBSET Notes, length : Nat, asks : Nat, failures : Nat]

ASSUME MaxQueueAssumption == MaxQueue \in Nat \ {0}

VARIABLES
    scenario,
    produced,    \* how many notifications there were
    said,        \* the text of the turn
    message,     \* the message its tracker names
    queue,       \* the subscriber queue
    stream,      \* where the stream task is
    failures,    \* how often it failed to connect
    timer,       \* what bounds its wait: "short" (flush or drain) or "idle" (diagnostics)
    execution,
    counted,     \* the token counts the execution has when its turn completes
    processor,
    handled      \* the events handled so far

streamVars == <<queue, stream, failures, timer, execution, counted, processor, handled>>
codexVars == <<scenario, produced, said, message>>
vars == <<codexVars, streamVars, interruptVars>>

Waiting == {"connecting", "reading"}
OutsideTurn == {"any of another session", "agentMessage/delta of another turn"}

StreamTypeOK ==
    /\ InterruptsTypeOK
    /\ scenario \in Scenarios
    /\ produced \in 0 .. scenario.length
    /\ said \in Seq(1 .. produced)
    /\ message \in Optional(Items)
    /\ queue \in Seq(Events)
    /\ Len(queue) <= MaxQueue /\ (stream # "reading" => queue = <<>>)
    /\ stream \in {"connecting", "reading", "backoff", "closing", "done"}
    /\ failures \in 0 .. scenario.failures
    /\ timer \in {"short", "idle"}
    /\ execution \in {"sending", "draining", "surviving", "unwinding", "done"}
    /\ counted \in Usages
    /\ processor \in Processors
    /\ handled \in Seq(Events)

Init ==
    /\ InterruptsInit
    /\ scenario \in Scenarios
    /\ produced = 0 /\ said = <<>> /\ message = None
    /\ queue = <<>> /\ stream = "connecting" /\ failures = 0 /\ timer = "idle"
    /\ execution = "sending" /\ counted = NoUsage
    /\ processor = NewProcessor
    /\ handled = <<>>

-----------------------------------------------------------------------------
(* The client's side of the queue.                                         *)

\* Mutant: the queue has no capacity.
QueuedUnbounded(e) == Append(queue, e)

\* A full queue drops its oldest event.
Queued(e) == IF Len(queue) < MaxQueue THEN Append(queue, e) ELSE Append(Tail(queue), e)

Publish(e) ==
    /\ queue' = IF stream # "reading" \/ e = NoEvent THEN queue ELSE Queued(e)
    /\ UNCHANGED <<stream, failures, timer, execution, counted, processor, handled>>

\* The turn runs until it completes, another turn of the session and other sessions go on.
\* The stream task subscribes before the turn is started, unless it fails to connect.
Speaks(note) ==
    /\ produced < scenario.length
    /\ execution = "sending" \/ (execution = "draining" /\ note.method \in OutsideTurn)
    /\ stream = "connecting" => failures > 0
    /\ produced' = produced + 1
    /\ said' = SaidAfter(note, produced', said)
    /\ message' = MessageAfter(note, message)
    /\ Publish(EventOf(note, produced', message', said'))
    /\ UNCHANGED <<scenario, interruptVars>>

Asks(k, kind) ==
    /\ execution = "sending"
    /\ k <= scenario.asks
    /\ stream = "connecting" => failures > 0
    /\ ServerRequest(k, kind)
    /\ Publish(AskedEvent(k, kind))
    /\ UNCHANGED codexVars

-----------------------------------------------------------------------------
(* The stream task.                                                        *)

\* The bound of the wait that begins: with text in the buffer the time until its flush,
\* after completion at most the drain time, else the time until the next diagnostics.
NextTimer(p) == IF p.buffer # None \/ execution = "draining" THEN "short" ELSE "idle"

Proceeds(p) == processor' = p /\ timer' = NextTimer(p)

Connect ==
    /\ stream = "connecting"
    /\ execution # "unwinding"
    /\ stream' = "reading"
    /\ UNCHANGED <<codexVars, interruptVars, queue, failures, timer, execution, counted, processor, handled>>

ConnectFails ==
    /\ stream = "connecting"
    /\ execution # "unwinding"
    /\ failures < scenario.failures
    /\ failures' = failures + 1
    /\ stream' = "backoff"
    /\ UNCHANGED <<codexVars, interruptVars, queue, timer, execution, counted, processor, handled>>

\* Mutant: after the turn has completed the task does not try again.
RetryWhileSending ==
    /\ stream = "backoff"
    /\ execution = "sending"
    /\ stream' = "connecting"
    /\ Proceeds(Flush(processor))
    /\ UNCHANGED <<codexVars, interruptVars, queue, failures, execution, counted, handled>>

Retry ==
    /\ stream = "backoff"
    /\ execution # "unwinding"
    /\ stream' = "connecting"
    /\ Proceeds(Flush(processor))
    /\ UNCHANGED <<codexVars, interruptVars, queue, failures, execution, counted, handled>>

Takes ==
    /\ stream = "reading"
    /\ execution # "unwinding"
    /\ queue # <<>>
    /\ queue' = Tail(queue)
    /\ handled' = Append(handled, Head(queue))

\* `late`: the text in the buffer is older than its time limit.
TakeEvent(late) ==
    /\ Takes
    /\ Proceeds(HandleEvent(processor, Head(queue), late))
    /\ UNCHANGED <<codexVars, interruptVars, stream, failures, execution, counted>>

\* No event came in time, and the turn runs.
WaitTimesOut ==
    /\ stream \in Waiting
    /\ execution = "sending"
    /\ processor.buffer # None
    /\ Proceeds(Flush(processor))
    /\ UNCHANGED <<codexVars, interruptVars, queue, stream, failures, execution, counted, handled>>

StreamEnded(p) ==
    /\ processor' = p
    /\ queue' = <<>>
    /\ UNCHANGED <<codexVars, interruptVars, failures, timer, execution, counted, handled>>

\* No event came in time, and the turn has completed.  Only a wait that began after the
\* completion is bounded by the drain time.  What is in the buffer is flushed, and the task
\* awaits the end of its subscription under suppress(CancelledError).
Drains(t) ==
    /\ stream \in Waiting
    /\ execution = "draining"
    /\ timer = t
    /\ stream' = "closing"

DrainTimesOut(t) == Drains(t) /\ StreamEnded(Flush(processor))

Closes ==
    /\ stream = "closing"
    /\ stream' = "done"

SubscriptionEnds == Closes /\ StreamEnded(processor)

\* The execution has cancelled the task, which flushes on its way out.
Stops ==
    /\ stream # "done"
    /\ execution = "unwinding"
    /\ stream' = "done"

StreamCancelled == Stops /\ StreamEnded(Flush(processor))

-----------------------------------------------------------------------------
(* The execution.                                                          *)

Reports(p) ==
    /\ processor' = p
    /\ UNCHANGED <<codexVars, interruptVars, queue, stream, failures, timer, handled>>

\* Codex completes a turn when it has the answers it asked for.  The execution takes the
\* token counts it has now, and lets the stream task drain.
TurnCompletes ==
    /\ execution = "sending"
    /\ \A k \in Requests : requests[k] # None => answers[k] > 0
    /\ execution' = "draining"
    /\ counted' = processor.usage
    /\ Reports(processor)

\* send_message raises: the failure is reported, then the stream task is cancelled.
TurnFails ==
    /\ execution = "sending"
    /\ execution' = "unwinding"
    /\ UNCHANGED counted
    /\ Reports(Failed(processor))

\* Mutant: the stream task suppresses its cancellation wherever it waits.
TaskCanceledSuppressed ==
    /\ execution \in {"sending", "draining"}
    /\ execution' = IF execution = "draining" /\ stream # "done" THEN "surviving" ELSE "unwinding"
    /\ UNCHANGED counted
    /\ Reports(WithFinal(processor, "canceled", NoUsage))

\* tasks/cancel reports first as well.  No lock it takes is ever held across an await, so
\* it cancels the execution in the same step.  An execution that awaits the stream task
\* has its cancellation handed on to it, and a task that is closing suppresses it.
TaskCanceled ==
    /\ execution \in {"sending", "draining"}
    /\ execution' = IF execution = "draining" /\ stream = "closing" THEN "surviving" ELSE "unwinding"
    /\ UNCHANGED counted
    /\ Reports(WithFinal(processor, "canceled", NoUsage))

Ends ==
    /\ execution \in {"draining", "surviving", "unwinding"}
    /\ stream = "done"
    /\ execution' = "done"

\* The stream task is over: an execution that knows of no cancellation completes its answer.
Unwinds ==
    /\ Ends
    /\ UNCHANGED counted
    /\ Reports(IF execution = "unwinding" THEN processor ELSE Completed(processor, said, counted))

-----------------------------------------------------------------------------
(* The callbacks, and the rest.                                            *)

\* One with refused parameters concerns nobody here.
CallbackSteps ==
    \/ \E c \in Callbacks, method \in Methods, params \in Params :
           /\ params.request # None
           /\ requests[params.request] # None
           /\ Callback(c, method, params)
    \/ \E c \in Callbacks : OwnerChecked(c) \/ Write(c) \/ DrainFails(c)
    \/ \E s \in Sessions, i \in Identities : scenario.asks > 0 /\ OwnerSaved(s, i)
    \/ scenario.asks > 0 /\ (Tick \/ PipeBreaks)

Answered(c) ==
    /\ Drained(c)
    /\ LET k == callback[c].request
       IN  Publish(ResolvedEvent(k, requests[k].kind))
    /\ UNCHANGED codexVars

Next ==
    \/ \E note \in scenario.notes : Speaks(note)
    \/ \E k \in Requests, kind \in Kinds : Asks(k, kind)
    \/ Connect \/ ConnectFails \/ Retry
    \/ \E late \in BOOLEAN : TakeEvent(late)
    \/ WaitTimesOut \/ DrainTimesOut("short") \/ DrainTimesOut("idle") \/ SubscriptionEnds
    \/ StreamCancelled
    \/ TurnCompletes \/ TurnFails \/ TaskCanceled \/ Unwinds
    \/ CallbackSteps /\ UNCHANGED <<codexVars, streamVars>>
    \/ \E c \in Callbacks : Answered(c)

Spec == Init /\ [][Next]_vars

\* asyncio runs the tasks that can run, connections are attempted to their end, and the
\* drain time passes.  What a step does to the processor never keeps it from being taken:
\* fairness is stated of the part of it that does not concern the processor.
Fairness ==
    /\ WF_vars(Connect \/ ConnectFails)
    /\ WF_vars(Retry)
    /\ WF_handled(Takes)
    /\ WF_stream(Drains("short"))
    /\ WF_stream(Closes)
    /\ WF_stream(Stops)
    /\ WF_execution(Ends)

FairSpec == Spec /\ Fairness

\* The time until the next diagnostics passes as well: at most a minute by default.
PatientSpec == FairSpec /\ WF_stream(Drains("idle"))

-----------------------------------------------------------------------------
(* What must be true.                                                      *)

out == processor.out

\* A client of a turn that completed has the whole response, whichever events the queue
\* dropped, the subscription missed, the echo filter held back or another turn of the
\* session added: it is what was streamed, or else it follows that, and nothing is taken
\* back (register_chunk, should_emit_final_snapshot, emit_streaming_completion).
Before(n) == SubSeq(out, 1, n - 1)
ClientHasResponse ==
    \A n \in DOMAIN out :
        out[n].kind = "final" /\ out[n].state = "input_required" /\ said # <<>> =>
            IF n > 1 /\ IsSnapshot(out[n - 1])
            THEN /\ Assembled(Before(n - 1)) # said
                 /\ Assembled(Before(n)) = Assembled(Before(n - 1)) \o said
            ELSE Assembled(Before(n)) = said

\* Nothing follows the final status of a completed turn.  That of a failed or canceled one
\* is followed at most by the text that was in the buffer, which its stream task flushes
\* when it is cancelled, or, if that task was closing and suppressed its cancellation, by
\* the completion of the turn (execute, cancel, consume_codex_stream).
IsCompletion(s) ==
    /\ Len(s) \in {1, 2}
    /\ Last(s).kind = "final" /\ Last(s).state = "input_required"
    /\ Len(s) = 2 => IsSnapshot(s[1])
FinalEndsStream ==
    \A i \in DOMAIN out : out[i].kind = "final" =>
        \/ i = Len(out)
        \/ /\ i = Len(out) - 1 /\ out[i].state # "input_required"
           /\ out[i + 1].kind = "artifact" /\ out[i + 1].block \in Plain
           /\ ~IsSnapshot(out[i + 1])
        \/ out[i].state = "canceled" /\ IsCompletion(SubSeq(out, i + 1, Len(out)))

\* The fragments the client was sent or will be once they are flushed, and those that are
\* held until their part is known.
Sent == SentBy(processor)
Held == UNION {ToSet(FlattenSeq(processor.held[i])) : i \in Items}

Handled(type) == {j \in DOMAIN handled : handled[j].type = type}
IsPlain(i) ==
    \A j \in Handled("message.part.updated") :
        handled[j].part = i =>
            BlockOfPart(handled[j]) \in Plain /\ RoleOf(handled[j].role) \notin NotForClients

\* Handled fragments that are for the client: text and reasoning, and tool output, of a
\* part that has an id and is not the user's.
IsOwed(e) ==
    CASE e.type = "message.part.updated" ->
            /\ e.part # None /\ e.fragment # 0
            /\ \/ e.delta # <<>> /\ BlockOfPart(e) \in Plain
               \/ e.payload # None /\ e.payload.kind = "output_delta"
      [] e.type = "message.part.delta" -> IsPlain(e.part)
      [] OTHER -> FALSE
Owed == {e.fragment : e \in {e \in ToSet(handled) : IsOwed(e)}}

\* What the processor handled it has sent, buffers or holds, each fragment once
\* (emit_chunks, the pending deltas, the dropped echo).
NothingForgotten ==
    /\ Owed \subseteq ToSet(Sent) \cup Held
    /\ \A i, j \in DOMAIN Sent : Sent[i] = Sent[j] /\ Sent[i] # 0 => i = j

\* The timeline is kept: of two fragments the one Codex produced first is sent first,
\* unless one was held until its part was known or came with the whole text of its part,
\* and a request is shown after what was said before it (flush on block switches, tool
\* calls and interrupts).
InOrder == \A i, j \in DOMAIN Sent : i < j /\ Sent[j] # 0 => Sent[i] <= Sent[j]
OutOfTurn ==
    \/ Handled("message.part.delta") # {}
    \/ \E j \in Handled("message.part.updated") : handled[j].text # None
SaidBefore(j) ==
    {handled[n].fragment : n \in {n \in Handled("message.part.updated") : n < j}} \ {0}
TimelineKept ==
    /\ InOrder \/ OutOfTurn
    /\ \A j \in Handled("asked") : \A i \in DOMAIN out :
          out[i] = Interrupt("asked", handled[j].request)
              => SaidBefore(j) \cap ToSet(Sent)
                    \subseteq UNION {ToSet(out[n].content) : n \in {n \in 1 .. i : IsArtifact(out[n])}}

\* Interrupt statuses come in pairs: a request is asked once, and shown as resolved once
\* at most, after it was asked and after Codex has got an answer.
Shown(phase, k) == {n \in DOMAIN out : out[n] = Interrupt(phase, k)}
InterruptsPair ==
    \A k \in Requests :
        /\ \A phase \in {"asked", "resolved"} : \A m, n \in Shown(phase, k) : m = n
        /\ \A n \in Shown("resolved", k) :
              answers[k] > 0 /\ \E m \in Shown("asked", k) : m < n

\* The tool call a client shows is in the state Codex last reported of it, as far as the
\* processor was told, and each change was sent once (emit_tool_payload_chunk).
StatesShown(i) ==
    {n \in DOMAIN out : IsArtifact(out[n]) /\ out[n].part = i /\ IsState(out[n].payload)}
StatesReported(i) ==
    {j \in Handled("message.part.updated") : handled[j].part = i /\ IsState(ReportOf(handled[j]))}
ToolStateIsShown ==
    \A i \in Items :
        LET shown == StatesShown(i)
            reported == StatesReported(i)
        IN  /\ reported # {} =>
                  shown # {} /\ out[Max(shown)].payload = ReportOf(handled[Max(reported)])
            /\ \A m, n \in shown :
                  m < n /\ out[m].payload = out[n].payload => \E l \in shown : m < l /\ l < n

\* An execution whose turn is over, one way or another, ends.
StreamEnds == execution \in {"draining", "surviving", "unwinding"} ~> execution = "done"

-----------------------------------------------------------------------------
(* What the repository says and the code does not do.                      *)

NewestCount(k) ==
    LET counts == SelectSeq(handled, LAMBDA e : UsageOf(e) # None /\ UsageOf(e)[k] # None)
    IN  IF counts = <<>> THEN None ELSE UsageOf(Last(counts))[k]

\* docs/architecture.md: normalized usage is published in the final metadata when it is
\* available.  The execution takes it before the stream task has drained.
FinalHasCounts ==
    \A o \in ToSet(out) :
        o.kind = "final" /\ o.state = "input_required" =>
            \A k \in DOMAIN o.usage : o.usage[k] = NewestCount(k)
=============================================================================
