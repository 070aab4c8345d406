-------------------------- MODULE StreamProcessor ---------------------------
(***************************************************************************)
(* StreamEventProcessor (stream_processor.py) and the output state it      *)
(* shares with the executor (stream_state.py, response_emitter.py): what   *)
(* one event does to them, and to the A2A events of the task, `out`.       *)
(*                                                                         *)
(* The processor is a record:                                              *)
(*   parts    _part_states              buffer  _buffered_text_chunk       *)
(*   held     _pending_deltas           sent    content_buffers            *)
(*   asked    pending_interrupt_request_ids                                *)
(*   usage    token_usage               emitted emitted_stream_chunk, with *)
(*                                              which saw_any_chunk is set *)
(***************************************************************************)
EXTENDS StreamChunks

CONSTANT FlushChars    \* fragments of text that are flushed at once; twice as many of reasoning

ASSUME FlushCharsAssumption == FlushChars \in Nat \ {0}

NoUsage == [k \in Counts |-> None]

Usages == [Counts -> Optional(Nat)]
Outputs ==
    [kind : {"artifact"}, block : Blocks \cup {"error"}, part : Optional(Items),
     content : Seq(Nat), payload : Optional(Payloads), append : BOOLEAN,
     source : Optional(Sources \cup {"final_snapshot"})]
    \cup [kind : {"interrupt"}, phase : {"asked", "resolved"}, request : Nat]
    \cup [kind : {"final"}, state : {"input_required", "failed", "canceled"}, usage : Usages]

Processors ==
    [parts : [Items -> Optional(PartStates)], held : [Items -> Seq(Seq(Nat))],
     buffer : Optional(Chunks),
     sent : [text : Seq(Nat), reasoning : Seq(Nat), tool_call : Seq(Payloads)],
     emitted : BOOLEAN, asked : SUBSET Nat, usage : Usages, out : Seq(Outputs)]

NewProcessor ==
    [parts |-> [i \in Items |-> None], held |-> [i \in Items |-> <<>>], buffer |-> None,
     sent |-> [text |-> <<>>, reasoning |-> <<>>, tool_call |-> <<>>], emitted |-> FALSE,
     asked |-> {}, usage |-> NoUsage, out |-> <<>>]

-----------------------------------------------------------------------------
(* What is put on the task's event queue.                                  *)

Artifact(c, append, source) ==
    [kind |-> "artifact", block |-> c.block, part |-> c.part, content |-> c.content,
     payload |-> c.payload, append |-> append, source |-> source]
Interrupt(phase, k) == [kind |-> "interrupt", phase |-> phase, request |-> k]
Final(state, usage) == [kind |-> "final", state |-> state, usage |-> usage]

\* A first text of nobody in particular that repeats the prompt.
IsEcho(p, c) ==
    c.role = None /\ c.block = "text" /\ ~p.emitted /\ c.content = <<0>>

\* What the client has of the block once it has this chunk.
Registered(p, c) ==
    LET key == IF c.payload = None THEN c.content ELSE <<c.payload>>
    IN  IF c.append THEN p.sent[c.block] \o key ELSE key

\* Mutant: the first chunk of a block starts the artifact anew.
EmitNowAnew(p, c) ==
    IF IsEcho(p, c) \/ Registered(p, c) = p.sent[c.block] THEN p
    ELSE [p EXCEPT !.sent[c.block] = Registered(p, c),
                   !.emitted = TRUE,
                   !.out = Append(@, Artifact(c, c.append, c.source))]

EmitNow(p, c) ==
    IF IsEcho(p, c) \/ Registered(p, c) = p.sent[c.block] THEN p
    ELSE [p EXCEPT !.sent[c.block] = Registered(p, c),
                   !.emitted = TRUE,
                   !.out = Append(@, Artifact(c, p.emitted, c.source))]

Flush(p) == IF p.buffer = None THEN p ELSE EmitNow([p EXCEPT !.buffer = None], p.buffer)

CanMerge(b, c) ==
    /\ b.block = c.block /\ b.part = c.part /\ b.role = c.role
    /\ b.source = c.source /\ b.append = c.append

FlushLimit(block) == IF block = "reasoning" THEN 2 * FlushChars ELSE FlushChars

\* Text is collected until it is long or `late`, or something else is to be sent.
EmitChunk(p, c, late) ==
    LET merges == p.buffer # None /\ CanMerge(p.buffer, c)
        q == IF merges THEN [p EXCEPT !.buffer.content = @ \o c.content]
                       ELSE [Flush(p) EXCEPT !.buffer = c]
    IN  CASE c.block = "tool_call" -> EmitNow(Flush(p), c)
          [] /\ c.block # "tool_call"
             /\ Len(q.buffer.content) >= FlushLimit(c.block) \/ (merges /\ late) -> Flush(q)
          [] OTHER -> q

EmitChunks(p, chunks, late) == FoldLeft(LAMBDA q, c : EmitChunk(q, c, late), p, chunks)

\* Mutant: a request overtakes the text in the buffer.
InterruptStatusUnflushed(p, phase, k) ==
    [p EXCEPT !.out = Append(@, Interrupt(phase, k))]

InterruptStatus(p, phase, k) ==
    [Flush(p) EXCEPT !.out = Append(@, Interrupt(phase, k))]

-----------------------------------------------------------------------------
(* handle_event.                                                           *)

Asked(p, k) ==
    IF k \in p.asked THEN p
    ELSE InterruptStatus([p EXCEPT !.asked = @ \cup {k}], "asked", k)

\* Mutant: a second answer to a request is shown as well.
ResolvedAlways(p, k) == InterruptStatus([p EXCEPT !.asked = @ \ {k}], "resolved", k)

Resolved(p, k) ==
    IF k \notin p.asked THEN p
    ELSE InterruptStatus([p EXCEPT !.asked = @ \ {k}], "resolved", k)

\* A total that is not given is added up, if both of its parts are.
WithTotal(tokens) ==
    IF tokens.total = None /\ tokens.input # None /\ tokens.output # None
    THEN [tokens EXCEPT !.total = tokens.input + tokens.output]
    ELSE tokens

\* Every event is asked for what it counts.
UsageOf(e) == IF e.type = "message.finalized" THEN WithTotal(e.tokens) ELSE None

MergedUsage(base, incoming) ==
    IF incoming = None THEN base
    ELSE [k \in DOMAIN base |-> IF incoming[k] = None THEN base[k] ELSE incoming[k]]

\* Mutant: a delta that comes before its part is dropped.
DeltaArrivesUnheld(p, e, late) == p

\* message.part.delta: held until the part is known.
DeltaArrives(p, e, late) ==
    LET state == p.parts[e.part]
        delta == DeltaChunks(state, e.part, e.delta, "delta_event")
    IN  CASE state = None -> [p EXCEPT !.held[e.part] = Append(@, e.delta)]
          [] state # None /\ (state.role \in NotForClients \/ state.block = "tool_call") -> p
          [] OTHER -> EmitChunks([p EXCEPT !.parts[e.part] = delta.state], delta.chunks, late)

\* message.part.updated.
PartArrives(p, e, late) ==
    LET state == Upsert(p.parts[e.part], e)
        updated == UpdatedChunks(state, e, p.held[e.part])
        q == [p EXCEPT !.held[e.part] = <<>>]
    IN  CASE state = None -> q
          [] state # None /\ state.role \in NotForClients -> [q EXCEPT !.parts[e.part] = state]
          [] OTHER -> EmitChunks([q EXCEPT !.parts[e.part] = updated.state], updated.chunks, late)

HandleEvent(p, e, late) ==
    LET q == [p EXCEPT !.usage = MergedUsage(@, UsageOf(e))]
    IN  CASE e.type = "asked" -> Asked(q, e.request)
          [] e.type = "resolved" -> Resolved(q, e.request)
          [] e.type = "message.part.delta" /\ e.part # None -> DeltaArrives(q, e, late)
          [] e.type = "message.part.updated" /\ e.part # None -> PartArrives(q, e, late)
          [] OTHER -> q

-----------------------------------------------------------------------------
(* What the executor adds.                                                 *)

WithFinal(p, state, usage) == [p EXCEPT !.out = Append(@, Final(state, usage))]

\* _emit_error: an artifact of its own, and the status.
ErrorArtifact ==
    [kind |-> "artifact", block |-> "error", part |-> None, content |-> <<>>, payload |-> None,
     append |-> FALSE, source |-> None]
Failed(p) == WithFinal([p EXCEPT !.out = Append(@, ErrorArtifact)], "failed", NoUsage)

\* emit_streaming_completion: the whole response unless the stream has already given it,
\* as one more chunk of the artifact.
Completed(p, response, usage) ==
    LET snapshot == [block |-> "text", part |-> None, content |-> response, payload |-> None]
    IN  IF response = <<>> \/ p.sent["text"] = response
        THEN WithFinal(p, "input_required", usage)
        ELSE WithFinal([p EXCEPT !.out = Append(@, Artifact(snapshot, p.emitted, "final_snapshot")),
                                 !.sent["text"] = response],
                       "input_required", usage)

-----------------------------------------------------------------------------
(* What has been said.                                                     *)

Plain == {"text", "reasoning"}

IsArtifact(o) == o.kind = "artifact"
IsSnapshot(o) == IsArtifact(o) /\ o.source = "final_snapshot"

\* What the artifacts of a sequence say, one after the other: the text ones, and all that
\* were streamed.
TextOf(s) ==
    FlattenSeq([n \in DOMAIN s |->
        IF IsArtifact(s[n]) /\ s[n].block = "text" THEN s[n].content ELSE <<>>])
StreamedOf(s) ==
    FlattenSeq([n \in DOMAIN s |->
        IF IsArtifact(s[n]) /\ ~IsSnapshot(s[n]) THEN s[n].content ELSE <<>>])

\* What a client has of the text: a chunk that is not appended replaces what the artifact
\* held.  The error is an artifact of its own.
Replaces(o) == IsArtifact(o) /\ o.block # "error" /\ ~o.append
Assembled(s) ==
    LET start == Max({1} \cup {n \in DOMAIN s : Replaces(s[n])})
    IN  TextOf(SubSeq(s, start, Len(s)))

\* What an event of a part says of the tool call, None if nothing, and whether that is its
\* state.
ReportOf(e) == IF e.payload # None THEN e.payload ELSE PartPayload(e)
IsState(payload) == payload # None /\ payload.kind = "state"

\* The fragments that were sent, in the order they were sent, and those that are to be.
SentBy(p) == StreamedOf(p.out) \o (IF p.buffer = None THEN <<>> ELSE p.buffer.content)
=============================================================================
