---------------------------- MODULE MCTurnStream ----------------------------
EXTENDS TurnStream

CONSTANTS m1, m2, r1, x1, u1, ann, cb1, cb2, home

Scenario(notes, length, asks, failed) ==
    [notes |-> notes, length |-> length, asks |-> asks, failures |-> failed]

\* Text, reasoning and a tool call take turns.
Working ==
    Scenario({TextDelta(m1), ReasoningDelta(r1), OutputDelta(x1),
              ItemChange(x1, "commandExecution", "inProgress"),
              ItemChange(x1, "commandExecution", "completed")}, 4, 0, 0)

\* Text without a message, text of another turn, counts, another session, and a client
\* that does not start at once.
Crowded ==
    Scenario({TextDelta(m1), TextDelta(None), OtherTurnText(m2), OtherSession,
              TokenUsage({"input", "output"})}, 4, 0, 1)

\* The forms of the stream contract.
Contract ==
    Scenario({PartDelta(m1), WholePart(m1), RewrittenPart(m1), Part(u1, "text", "user"),
              Part(r1, "thinking", "assistant"), Part(x1, "file", "assistant"), Echo(m2)}, 4, 0, 0)

\* Parts of no type, and tool calls that come with their state.
Untyped ==
    Scenario({UntypedPart(m1, {"answer", "phase"}), UntypedPart(m1, {"thinking", "tool"}),
              UntypedPart(x1, {"action"}), UntypedPart(x1, {}), PartDelta(x1),
              ToolPart(x1, "inProgress"), ToolPart(x1, "errored")}, 3, 0, 0)

\* An approval or a question, and text before or after it.
Asking == Scenario({TextDelta(m1)}, 1, 1, 0)

AllScenarios == {Working, Crowded, Contract, Untyped, Asking}
\* Counts, once.
OneScenario == {Scenario({TokenUsage({"input"})}, 1, 0, 0)}

OneEach == [c \in {cb1, cb2} |-> IF c = cb1 THEN ann ELSE None]
=============================================================================
