---------------------------- MODULE CodexEvents ----------------------------
(***************************************************************************)
(* From what Codex writes to the events the client hands to its            *)
(* subscribers (upstream/client.py, upstream/notification_mapping.py,      *)
(* execution/tool_call_payloads.py).                                       *)
(*                                                                         *)
(* Text is a sequence of fragments.  A fragment is the payload of one      *)
(* notification and stands for it by its number, so the order of the       *)
(* numbers is the order in which Codex produced them.  Fragment 0 is the   *)
(* prompt of the user.                                                     *)
(***************************************************************************)
EXTENDS Naturals, Sequences, Optionals

CONSTANT Items    \* item ids; they become the ids of message parts

\* What the app server says, as far as the properties tell it apart: the text of this
\* turn and of another turn of the session, reasoning, the life of a tool call and its
\* output, token counts, and what belongs to another session.
TextDelta(item) == [method |-> "agentMessage/delta", item |-> item]
OtherTurnText(item) == [method |-> "agentMessage/delta of another turn", item |-> item]
ReasoningDelta(item) == [method |-> "reasoning/summaryTextDelta", item |-> item]
ItemChange(item, type, status) ==
    [method |-> "item", item |-> item, type |-> type, status |-> status]
OutputDelta(item) == [method |-> "outputDelta", item |-> item]
TokenUsage(counted) == [method |-> "tokenUsage/updated", counted |-> counted]
OtherSession == [method |-> "any of another session"]

\* The forms of the stream contract (docs/guide.md, Streaming and Interrupt Contract)
\* this app server does not use: a delta apart from its part, a part of any type and
\* role, one of no type that gives hints, a tool call with its state, the whole text of a
\* part, a rewritten text, and a part that repeats the prompt.
PartDelta(item) == [method |-> "part delta", item |-> item]
Part(item, type, role) == [method |-> "part", item |-> item, type |-> type, role |-> role]
UntypedPart(item, hints) == [method |-> "untyped part", item |-> item, hints |-> hints]
ToolPart(item, status) == [method |-> "tool part", item |-> item, status |-> status]
WholePart(item) == [method |-> "whole part", item |-> item]
RewrittenPart(item) == [method |-> "rewritten part", item |-> item]
Echo(item) == [method |-> "echo", item |-> item]

Counts == {"input", "output", "total"}

\* That these are strings, provers need to be told.
Strings ==
    STRING \cup {"text", "reasoning", "tool_call", "tool", "assistant", "agent", "user",
                "running", "permission", "question"}

Notes ==
    [method : {"agentMessage/delta", "agentMessage/delta of another turn",
               "reasoning/summaryTextDelta", "outputDelta", "part delta", "whole part",
               "rewritten part", "echo"}, item : Optional(Items)]
    \cup [method : {"item"}, item : Optional(Items), type : Strings, status : Optional(Strings)]
    \cup [method : {"tokenUsage/updated"}, counted : SUBSET Counts]
    \cup [method : {"any of another session"}]
    \cup [method : {"part"}, item : Optional(Items), type : Optional(Strings),
          role : Optional(Strings)]
    \cup [method : {"untyped part"}, item : Optional(Items), hints : SUBSET Strings]
    \cup [method : {"tool part"}, item : Optional(Items), status : Optional(Strings)]

ASSUME NoneIsNoDatum ==
    /\ None \notin Items /\ None \notin Nat /\ None \notin Strings /\ None \notin Seq(Nat)

-----------------------------------------------------------------------------
(* Tool calls.                                                             *)

\* One alias stands for all that are normalized.
NormalizedStatus(s) == IF s = "inProgress" THEN "running" ELSE s

Payloads ==
    [kind : {"state"}, call : Items, status : Optional(Strings)]
    \cup [kind : {"output_delta"}, call : Items, output : Nat]

ASSUME NoneIsNoPayload == None \notin Payloads

\* The payload of a lifecycle notification, None for an item that is no tool call.  Its
\* other fields follow from the item and its status.
StatePayload(note) ==
    IF note.type \in {"commandExecution", "fileChange"} /\ note.item # None
    THEN [kind |-> "state", call |-> note.item, status |-> NormalizedStatus(note.status)]
    ELSE None

\* Output as it comes, verbatim.
OutputPayload(note, n) == [kind |-> "output_delta", call |-> note.item, output |-> n]

-----------------------------------------------------------------------------
(* Events.                                                                 *)

PartEvents ==
    [type : {"message.part.updated"}, part : Optional(Items), partType : Optional(Strings),
     hints : SUBSET Strings, role : Optional(Strings), delta : Seq(Nat),
     payload : Optional(Payloads), text : Optional(Seq(Nat)), state : Optional(Strings),
     fragment : Nat]

Events ==
    PartEvents
    \cup [type : {"message.part.delta"}, part : Optional(Items), delta : Seq(Nat), fragment : Nat]
    \cup [type : {"asked", "resolved"}, request : Nat, kind : Strings]
    \cup [type : {"message.finalized"}, tokens : [Counts -> Optional(Nat)]]
    \cup [type : {"of another session"}]

NoEvent == [type |-> "none"]
AskedEvent(k, kind) == [type |-> "asked", request |-> k, kind |-> kind]
ResolvedEvent(k, kind) == [type |-> "resolved", request |-> k, kind |-> kind]

\* message.part.updated carries a delta, a tool call payload, or what the part is now: its
\* text, or the state of the tool call.
PartEvent(part, type, role) ==
    [type |-> "message.part.updated", part |-> part, partType |-> type, hints |-> {},
     role |-> role, delta |-> <<>>, payload |-> None, text |-> None, state |-> None,
     fragment |-> 0]

TextEvent(part, type, n) ==
    [PartEvent(part, type, "assistant") EXCEPT !.delta = <<n>>, !.fragment = n]

ToolEvent(part, payload, n) ==
    [PartEvent(part, "tool_call", "assistant") EXCEPT !.payload = payload, !.fragment = n]

\* thread/tokenUsage/updated counts what it counts at its own number.
UsageEvent(note, n) ==
    [type |-> "message.finalized",
     tokens |-> [k \in Counts |-> IF k \in note.counted THEN n ELSE None]]

\* The event of the n-th notification.  `message` is the message the turn's tracker
\* names, `said` the text of the turn with this notification.
EventOf(note, n, message, said) ==
    CASE note.method = "agentMessage/delta" -> TextEvent(message, "text", n)
      [] note.method = "agentMessage/delta of another turn" -> TextEvent(note.item, "text", n)
      [] note.method = "reasoning/summaryTextDelta" -> TextEvent(note.item, "reasoning", n)
      [] note.method = "item" ->
            IF StatePayload(note) = None THEN NoEvent
                                         ELSE ToolEvent(note.item, StatePayload(note), n)
      [] note.method = "outputDelta" ->
            IF note.item = None THEN NoEvent
                                ELSE ToolEvent(note.item, OutputPayload(note, n), n)
      [] note.method = "tokenUsage/updated" -> UsageEvent(note, n)
      [] note.method = "any of another session" -> [type |-> "of another session"]
      [] note.method = "part delta" ->
            [type |-> "message.part.delta", part |-> note.item, delta |-> <<n>>, fragment |-> n]
      [] note.method = "part" ->
            [PartEvent(note.item, note.type, note.role) EXCEPT !.delta = <<n>>]
      [] note.method = "untyped part" ->
            [PartEvent(note.item, None, "assistant") EXCEPT !.hints = note.hints, !.delta = <<n>>,
                                                            !.fragment = n]
      [] note.method = "tool part" ->
            [PartEvent(note.item, "tool", "assistant") EXCEPT !.state = note.status, !.fragment = n]
      [] note.method \in {"whole part", "rewritten part"} ->
            [PartEvent(note.item, "text", "assistant") EXCEPT !.text = said, !.fragment = n]
      [] note.method = "echo" -> [PartEvent(note.item, "text", None) EXCEPT !.delta = <<0>>]

\* The payload a tool part gives of itself, None for one that says nothing.
PartPayload(e) ==
    IF e.state = None THEN None
    ELSE [kind |-> "state", call |-> e.part, status |-> NormalizedStatus(e.state)]

\* What the turn has said after its n-th notification: the tracker collects the text of
\* the agent's messages.
SaidAfter(note, n, said) ==
    CASE note.method \in {"agentMessage/delta", "part delta", "whole part"} -> Append(said, n)
      [] note.method = "rewritten part" -> <<n>>
      [] OTHER -> said

\* The message the tracker names.
MessageAfter(note, message) ==
    IF note.method = "agentMessage/delta" /\ note.item # None THEN note.item ELSE message
=============================================================================
