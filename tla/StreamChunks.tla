---------------------------- MODULE StreamChunks ----------------------------
(***************************************************************************)
(* The chunks an event of a message part gives (stream_chunks.py), and the *)
(* state kept of each part.  What a chunk function returns is a pair: the  *)
(* part's new state and the chunks, in order.                              *)
(***************************************************************************)
EXTENDS CodexEvents, SequencesExt

BlockOf(type) ==
    CASE type = "text" -> "text"
      [] type \in {"reasoning", "thinking", "thought"} -> "reasoning"
      [] type \in {"tool", "tool_call", "toolcall", "function_call", "functioncall", "action"} ->
            "tool_call"
      [] OTHER -> None

\* A part of no type is what most of its hints cannot be mistaken for: any that mentions
\* reasoning decides, else any that mentions a tool, else one that mentions an answer.
Classified(hints) ==
    IF hints \cap {"reason", "thinking", "thought"} # {} THEN "reasoning"
    ELSE IF hints \cap {"tool", "function_call", "action"} # {} THEN "tool_call"
    ELSE IF hints \cap {"text", "answer", "final"} # {} THEN "text"
    ELSE None

BlockOfPart(e) == IF e.partType = None THEN Classified(e.hints) ELSE BlockOf(e.partType)

RoleOf(role) ==
    CASE role \in {"assistant", "agent", "model", "ai"} -> "agent"
      [] role \in {"user", "human"} -> "user"
      [] OTHER -> role

NotForClients == {"user", "system"}

Blocks == {"text", "reasoning", "tool_call"}

Sources == {"delta", "delta_event", "delta_event_buffered", "part_text_diff", "tool_part_update"}

PartStates ==
    [block : Blocks, role : Optional(Strings), buffer : Seq(Nat), toolChunks : Nat,
     lastState : Optional(Payloads)]

Chunks ==
    [block : Blocks, role : Optional(Strings), part : Items, source : Sources,
     content : Seq(Nat), payload : Optional(Payloads), append : BOOLEAN]

ASSUME NoneIsNoState == None \notin PartStates /\ None \notin Chunks

\* The state of a part, created by its first event and brought up to date by the others;
\* None if the event is of no known type.
Upsert(state, e) ==
    LET block == BlockOfPart(e)
        role == RoleOf(e.role)
    IN  CASE block = None -> None
          [] block # None /\ state = None ->
                [block |-> block, role |-> role, buffer |-> <<>>, toolChunks |-> 0,
                 lastState |-> None]
          [] OTHER -> [state EXCEPT !.block = block, !.role = IF role = None THEN @ ELSE role]

Chunk(state, part, source, content, payload, append) ==
    [block |-> state.block, role |-> state.role, part |-> part, source |-> source,
     content |-> content, payload |-> payload, append |-> append]

TextChunk(state, part, source, text) == Chunk(state, part, source, text, None, TRUE)

Nothing(state) == [state |-> state, chunks |-> <<>>]

DeltaChunks(state, part, text, source) ==
    IF text = <<>> THEN Nothing(state)
    ELSE [state |-> [state EXCEPT !.buffer = @ \o text],
          chunks |-> <<TextChunk(state, part, source, text)>>]

\* Of the whole text of a part only what is new is sent.  A text that does not continue
\* the one before is remembered and not sent.
SnapshotChunks(state, part, text) ==
    IF IsPrefix(state.buffer, text)
    THEN DeltaChunks(state, part, SubSeq(text, Len(state.buffer) + 1, Len(text)), "part_text_diff")
    ELSE Nothing([state EXCEPT !.buffer = text])

\* Mutant: every state is sent, also the one the client has.
ToolChunksRepeated(state, part, source, payload, n) ==
    [state |-> state, chunks |-> <<Chunk(state, part, source, <<n>>, payload, state.toolChunks > 0)>>]

\* A tool call's state is sent when it changed, its output always.
ToolChunks(state, part, source, payload, n) ==
    IF payload.kind = "state" /\ payload = state.lastState THEN Nothing(state)
    ELSE [state |-> [state EXCEPT !.toolChunks = @ + 1,
                                  !.lastState = IF payload.kind = "state" THEN payload ELSE @],
          chunks |-> <<Chunk(state, part, source, <<n>>, payload, state.toolChunks > 0)>>]

\* A tool call has no plain text.  Without a payload its part is taken as it is now.
ToolPartChunks(state, e) ==
    CASE e.payload # None -> ToolChunks(state, e.part, "delta", e.payload, e.fragment)
      [] e.payload = None /\ e.delta = <<>> /\ PartPayload(e) # None ->
            ToolChunks(state, e.part, "tool_part_update", PartPayload(e), e.fragment)
      [] OTHER -> Nothing(state)

\* Deltas that came before their part.  A tool call has no plain text: they are dropped.
HeldChunks(state, part, held) ==
    IF state.block = "tool_call" \/ held = <<>> THEN Nothing(state)
    ELSE [state |-> [state EXCEPT !.buffer = @ \o FlattenSeq(held)],
          chunks |-> [n \in DOMAIN held |->
                        TextChunk(state, part, "delta_event_buffered", held[n])]]

\* What message.part.updated itself carries.
OwnChunks(state, e) ==
    CASE state.block = "tool_call" -> ToolPartChunks(state, e)
      [] state.block # "tool_call" /\ e.delta # <<>> ->
            DeltaChunks(state, e.part, e.delta, "delta")
      [] state.block # "tool_call" /\ e.delta = <<>> /\ e.text # None ->
            SnapshotChunks(state, e.part, e.text)
      [] OTHER -> Nothing(state)

UpdatedChunks(state, e, held) ==
    LET before == HeldChunks(state, e.part, held)
        own == OwnChunks(before.state, e)
    IN  [state |-> own.state, chunks |-> before.chunks \o own.chunks]
=============================================================================
