----------------------- MODULE StreamProcessorProofs ------------------------
(***************************************************************************)
(* What an event does to the processor, for every sequence of events and   *)
(* every state of the processor: it streams text, or shows one change of a *)
(* tool call, or one phase of a request, each after what was in the        *)
(* buffer, and it keeps the text that was sent and what the emitter        *)
(* remembers of it the same (HandleEventIs).  And while nothing is held,   *)
(* an event that brings one fragment says it next, after all that was      *)
(* sent or is in the buffer (EventIsSaid).                                 *)
(***************************************************************************)
EXTENDS StreamProcessor, SequenceFacts

-----------------------------------------------------------------------------
(* What is said, and what one chunk says.                                  *)

\* A chunk of text is appended and has no payload, one of a tool call has a payload.
Fits(c) == IF c.block \in Plain THEN c.payload = None /\ c.append = TRUE ELSE c.payload # None
PlainChunks == {c \in Chunks : c.block \in Plain /\ Fits(c)}
Calls == {c \in Chunks : c.block = "tool_call" /\ Fits(c)}

\* The buffer holds text or reasoning only.
Good(p) == p \in Processors /\ p.buffer \in Optional(PlainChunks)

\* Outputs that stream text or reasoning.
Streamed == {o \in Outputs : /\ o.kind = "artifact" /\ o.block \in Plain
                             /\ o.payload = None /\ o.source # "final_snapshot"}

\* One more output adds what it says to the text, and to what was streamed.
LEMMA OutputIsSaid ==
    ASSUME NEW s \in Seq(Outputs), NEW o \in Outputs
    PROVE  /\ TextOf(s) \in Seq(Nat)
           /\ TextOf(Append(s, o)) = TextOf(s) \o
                 (IF IsArtifact(o) /\ o.block = "text" THEN o.content ELSE <<>>)
           /\ StreamedOf(s) \in Seq(Nat)
           /\ StreamedOf(Append(s, o)) = StreamedOf(s) \o
                 (IF IsArtifact(o) /\ ~IsSnapshot(o) THEN o.content ELSE <<>>)
<1> DEFINE text(x) == IF IsArtifact(x) /\ x.block = "text" THEN x.content ELSE <<>>
           streamed(x) == IF IsArtifact(x) /\ ~IsSnapshot(x) THEN x.content ELSE <<>>
           t == Append(s, o)
<1>1. \A x \in Outputs : IsArtifact(x) => x.content \in Seq(Nat)
  BY DEF IsArtifact, Outputs, Interrupt
<1>2. \A x \in Outputs : text(x) \in Seq(Nat) /\ streamed(x) \in Seq(Nat)
  BY <1>1
<1> HIDE DEF text, streamed
<1>3. /\ DOMAIN s = 1 .. Len(s) /\ Len(s) \in Nat /\ \A n \in 1 .. Len(s) : s[n] \in Outputs
      /\ t \in Seq(Outputs) /\ DOMAIN t = 1 .. Len(s) + 1
      /\ \A n \in 1 .. Len(s) : t[n] = s[n]
      /\ t[Len(s) + 1] = o
  OBVIOUS
<1> HIDE DEF t
<1>4. /\ [n \in DOMAIN s |-> text(s[n])] \in Seq(Seq(Nat))
      /\ [n \in DOMAIN s |-> streamed(s[n])] \in Seq(Seq(Nat))
  BY <1>2, <1>3
<1>5. /\ [n \in DOMAIN t |-> text(t[n])] = Append([n \in DOMAIN s |-> text(s[n])], text(o))
      /\ [n \in DOMAIN t |-> streamed(t[n])] = Append([n \in DOMAIN s |-> streamed(s[n])], streamed(o))
  BY <1>3
<1>6. /\ TextOf(s) = FlattenSeq([n \in DOMAIN s |-> text(s[n])])
      /\ TextOf(t) = FlattenSeq([n \in DOMAIN t |-> text(t[n])])
      /\ StreamedOf(s) = FlattenSeq([n \in DOMAIN s |-> streamed(s[n])])
      /\ StreamedOf(t) = FlattenSeq([n \in DOMAIN t |-> streamed(t[n])])
  BY DEF TextOf, StreamedOf, text, streamed
<1>7. /\ TextOf(s) \in Seq(Nat) /\ TextOf(t) = TextOf(s) \o text(o)
      /\ StreamedOf(s) \in Seq(Nat) /\ StreamedOf(t) = StreamedOf(s) \o streamed(o)
  <2> DEFINE a == [n \in DOMAIN s |-> text(s[n])]
             b == [n \in DOMAIN s |-> streamed(s[n])]
  <2>1. a \in Seq(Seq(Nat)) /\ b \in Seq(Seq(Nat)) /\ text(o) \in Seq(Nat) /\ streamed(o) \in Seq(Nat)
    BY <1>2, <1>4
  <2>2. /\ TextOf(s) = FlattenSeq(a) /\ TextOf(t) = FlattenSeq(Append(a, text(o)))
        /\ StreamedOf(s) = FlattenSeq(b) /\ StreamedOf(t) = FlattenSeq(Append(b, streamed(o)))
    BY <1>5, <1>6
  <2> HIDE DEF a, b
  <2>3. TextOf(s) \in Seq(Nat) /\ StreamedOf(s) \in Seq(Nat)
    BY <2>1, <2>2, FlattenIsSeq
  <2>4. /\ FlattenSeq(Append(a, text(o))) = FlattenSeq(a) \o text(o)
        /\ FlattenSeq(Append(b, streamed(o))) = FlattenSeq(b) \o streamed(o)
    BY <2>1, FlattenAppend
  <2> QED  BY <2>2, <2>3, <2>4
<1> QED  BY <1>7 DEF t, text, streamed

\* Before the first output nothing was said.
LEMMA NothingIsSaid == TextOf(<<>>) = <<>>
<1> DEFINE t == [n \in DOMAIN <<>> |->
                    IF IsArtifact(<<>>[n]) /\ <<>>[n].block = "text" THEN <<>>[n].content ELSE <<>>]
<1>1. TextOf(<<>>) = FlattenSeq(t)
  BY DEF TextOf
<1>2. t = <<>>
  OBVIOUS
<1> HIDE DEF t
<1>3. <<>> \in Seq(Seq(Nat))
  OBVIOUS
<1>4. FlattenSeq(<<>>) = <<>>
  BY <1>3, FlattenIsSeq
<1> QED  BY <1>1, <1>2, <1>4

\* A client has nothing then.
LEMMA NothingIsAssembled == Assembled(<<>>) = <<>>
<1>1. {n \in DOMAIN <<>> : Replaces(<<>>[n])} = {}
  OBVIOUS
<1>2. Max({1}) = 1
  BY MaxIs
<1>3. SubSeq(<<>>, 1, Len(<<>>)) = <<>>
  OBVIOUS
<1> QED  BY <1>1, <1>2, <1>3, NothingIsSaid DEF Assembled

\* One more output replaces what a client has of the text, or is appended to it.
TextIn(o) == IF IsArtifact(o) /\ o.block = "text" THEN o.content ELSE <<>>
LEMMA AssembledAppend ==
    ASSUME NEW s \in Seq(Outputs), NEW o \in Outputs
    PROVE  /\ Assembled(s) \in Seq(Nat)
           /\ Assembled(Append(s, o)) = IF Replaces(o) THEN TextIn(o) ELSE Assembled(s) \o TextIn(o)
<1> DEFINE t == Append(s, o)
           m == Len(s) + 1
           Starts(x) == {n \in DOMAIN x : Replaces(x[n])}
           Start(x) == Max({1} \cup Starts(x))
<1>1. /\ Len(s) \in Nat /\ m \in Nat /\ m > 0 /\ DOMAIN s = 1 .. Len(s)
      /\ t \in Seq(Outputs) /\ Len(t) = m /\ DOMAIN t = 1 .. m
      /\ \A n \in 1 .. Len(s) : t[n] = s[n]
      /\ t[m] = o
  OBVIOUS
<1>2. /\ Assembled(s) = TextOf(SubSeq(s, Start(s), Len(s)))
      /\ Assembled(t) = TextOf(SubSeq(t, Start(t), Len(t)))
  BY DEF Assembled
<1>3. Start(s) \in 1 .. m
  <2>1. Starts(s) \subseteq 1 .. Len(s)
    BY <1>1
  <2>2. {1} \cup Starts(s) \in SUBSET (1 .. m) /\ {1} \cup Starts(s) # {}
    BY <1>1, <2>1
  <2> HIDE DEF Starts, m
  <2>3. Max({1} \cup Starts(s)) \in {1} \cup Starts(s)
    BY <1>1, <2>2, GreatestElement
  <2> QED  BY <2>2, <2>3
<1>4. PICK k : k = Start(s)
  OBVIOUS
<1>5. /\ SubSeq(s, k, Len(s)) \in Seq(Outputs)
      /\ TextOf(SubSeq(s, k, Len(s))) \in Seq(Nat)
      /\ TextOf(Append(SubSeq(s, k, Len(s)), o)) = TextOf(SubSeq(s, k, Len(s))) \o TextIn(o)
  <2>1. k \in 1 .. m
    BY <1>3, <1>4
  <2>2. SubSeq(s, k, Len(s)) \in Seq(Outputs)
    BY <1>1, <2>1
  <2> QED  BY <2>2, OutputIsSaid DEF TextIn
<1>6. ASSUME Replaces(o) PROVE Assembled(t) = TextIn(o)
  <2>1. Starts(s) \subseteq 1 .. Len(s) /\ Starts(t) \subseteq 1 .. m /\ m \in Starts(t)
    BY <1>1, <1>6
  <2>2. {1} \cup Starts(t) \in SUBSET (1 .. m) /\ m \in {1} \cup Starts(t)
    BY <1>1, <2>1
  <2> HIDE DEF Starts, m, t
  <2>3. Start(t) = m
    BY <1>1, <2>2, MaxIs
  <2>4. SubSeq(t, m, m) = <<o>>
    <3>1. SubSeq(t, m, m) \in Seq(Outputs) /\ Len(SubSeq(t, m, m)) = 1 /\ SubSeq(t, m, m)[1] = o
      BY <1>1
    <3>2. \A u \in Seq(Outputs) : Len(u) = 1 => u = <<u[1]>>
      OBVIOUS
    <3> QED  BY <3>1, <3>2
  <2>5. <<o>> = Append(<<>>, o) /\ <<>> \in Seq(Outputs)
    OBVIOUS
  <2>6. TextIn(o) \in Seq(Nat)
    BY DEF TextIn, IsArtifact, Outputs, Interrupt
  <2>7. TextOf(<<o>>) = <<>> \o TextIn(o)
    BY <2>5, OutputIsSaid, NothingIsSaid DEF TextIn
  <2>8. Assembled(t) = TextOf(<<o>>)
    BY <1>1, <1>2, <2>3, <2>4
  <2>9. <<>> \o TextIn(o) = TextIn(o)
    BY <2>6
  <2> QED  BY <2>7, <2>8, <2>9
<1>7. ASSUME ~Replaces(o) PROVE Assembled(t) = Assembled(s) \o TextIn(o)
  <2>1. Starts(t) = Starts(s)
    <3>1. \A n \in 1 .. m : n \in 1 .. Len(s) \/ n = m
      BY <1>1
    <3>2. \A n \in 1 .. Len(s) : n \in 1 .. m
      BY <1>1
    <3> HIDE DEF m, t
    <3> QED  BY <1>1, <1>7, <3>1, <3>2
  <2> HIDE DEF Starts
  <2>2. Start(t) = k /\ k \in 1 .. m
    BY <1>3, <1>4, <2>1
  <2> HIDE DEF Start
  <2>3. SubSeq(t, k, m) = Append(SubSeq(s, k, Len(s)), o)
    <3>1. k \in Nat /\ k >= 1 /\ k <= Len(s) + 1
      BY <1>1, <2>2
    <3> QED  BY <1>1, <3>1
  <2> QED  BY <1>1, <1>2, <1>4, <1>5, <2>2, <2>3
<1> HIDE DEF t, Start
<1> QED  BY <1>2, <1>4, <1>5, <1>6, <1>7 DEF t

\* Before the artifact is begun it has no text, and nothing that was sent was replaced.
Begun(s, e) == (e = FALSE => TextOf(s) = <<>>) /\ Assembled(s) = TextOf(s)

\* It stays so where an output is not one of the artifact, or is appended once it is begun.
LEMMA BegunAppend ==
    ASSUME NEW s \in Seq(Outputs), NEW o \in Outputs, NEW e, Begun(s, e)
    PROVE  /\ ~IsArtifact(o) \/ o.block = "error" => Begun(Append(s, o), e)
           /\ IsArtifact(o) /\ o.append = e => Begun(Append(s, o), TRUE)
<1>1. /\ TextOf(s) \in Seq(Nat) /\ TextIn(o) \in Seq(Nat)
      /\ TextOf(Append(s, o)) = TextOf(s) \o TextIn(o)
      /\ Assembled(Append(s, o)) = IF Replaces(o) THEN TextIn(o) ELSE Assembled(s) \o TextIn(o)
  <2>1. TextIn(o) \in Seq(Nat)
    BY DEF TextIn, IsArtifact, Outputs, Interrupt
  <2>2. TextOf(s) \in Seq(Nat) /\ TextOf(Append(s, o)) = TextOf(s) \o TextIn(o)
    BY OutputIsSaid DEF TextIn
  <2> QED  BY <2>1, <2>2, AssembledAppend
<1>2. ASSUME ~IsArtifact(o) \/ o.block = "error" PROVE Begun(Append(s, o), e)
  <2>1. TextIn(o) = <<>> /\ ~Replaces(o)
    BY <1>2 DEF TextIn, Replaces
  <2>2. TextOf(Append(s, o)) = TextOf(s) /\ Assembled(Append(s, o)) = TextOf(s)
    BY <1>1, <2>1 DEF Begun
  <2> QED  BY <2>2 DEF Begun
<1>3. ASSUME IsArtifact(o), o.append = e PROVE Begun(Append(s, o), TRUE)
  <2>1. CASE ~Replaces(o)
    BY <1>1, <2>1 DEF Begun
  <2>2. CASE Replaces(o)
    <3>1. ~o.append /\ o.append \in BOOLEAN
      <4>1. o.append \in BOOLEAN
        BY <1>3 DEF IsArtifact, Outputs, Interrupt
      <4> QED  BY <2>2, <4>1 DEF Replaces
    <3>2. TextOf(s) = <<>>
      BY <1>3, <3>1 DEF Begun
    <3>3. <<>> \o TextIn(o) = TextIn(o)
      BY <1>1
    <3>4. Assembled(Append(s, o)) = TextOf(Append(s, o))
      BY <1>1, <2>2, <3>2, <3>3
    <3> QED  BY <3>4 DEF Begun
  <2> QED  BY <2>1, <2>2
<1> QED  BY <1>2, <1>3

\* What one chunk does, when it is emitted at once.
LEMMA EmitNowIs ==
    ASSUME NEW p \in Processors, NEW c \in PlainChunks \cup Calls
    PROVE  LET q == EmitNow(p, c)
               o == Artifact(c, p.emitted, c.source)
               key == IF c.payload = None THEN c.content ELSE <<c.payload>>
               now == IF c.append THEN p.sent[c.block] \o key ELSE key
           IN  /\ q \in Processors
               /\ q.parts = p.parts /\ q.held = p.held /\ q.buffer = p.buffer
               /\ q.asked = p.asked /\ q.usage = p.usage
               /\ \A b \in Blocks \ {c.block} : q.sent[b] = p.sent[b]
               /\ \/ /\ q = p
                     /\ IsEcho(p, c) \/ p.sent[c.block] = now
                  \/ /\ o \in Outputs
                     /\ q.out = Append(p.out, o) /\ q.sent[c.block] = now
                     /\ ~IsEcho(p, c)
<1> DEFINE now == Registered(p, c)
           o == Artifact(c, p.emitted, c.source)
           q == EmitNow(p, c)
<1>1. c \in Chunks /\ c.block \in Blocks /\ Fits(c)
  BY DEF PlainChunks, Calls, Chunks
<1>2. o \in Outputs
  <2>1. /\ c.block \in Blocks /\ c.part \in Optional(Items) /\ c.content \in Seq(Nat)
        /\ c.payload \in Optional(Payloads) /\ p.emitted \in BOOLEAN
        /\ c.source \in Optional(Sources \cup {"final_snapshot"})
    BY <1>1 DEF Chunks, Processors, Optional
  <2> QED  BY <2>1 DEF Outputs, Artifact
<1>3. CASE c.block = "tool_call"
  <2>1. now \in Seq(Payloads)
    BY <1>1, <1>3 DEF Registered, Chunks, Fits, Plain, Optional, Processors
  <2>2. CASE IsEcho(p, c) \/ now = p.sent[c.block]
    BY <2>2 DEF EmitNow, Registered
  <2>3. CASE ~(IsEcho(p, c) \/ now = p.sent[c.block])
    <3>1. q = [p EXCEPT !.sent["tool_call"] = now, !.emitted = TRUE, !.out = Append(@, o)]
      BY <2>3, <1>3 DEF EmitNow
    <3> HIDE DEF now, o, q
    <3>2. q \in Processors
      <4>1. [p.sent EXCEPT !["tool_call"] = now]
               \in [text : Seq(Nat), reasoning : Seq(Nat), tool_call : Seq(Payloads)]
        BY <2>1 DEF Processors
      <4>2. Append(p.out, o) \in Seq(Outputs)
        BY <1>2 DEF Processors
      <4>3. q = [p EXCEPT !.sent = [p.sent EXCEPT !["tool_call"] = now], !.emitted = TRUE, !.out = Append(p.out, o)]
        BY <3>1
      <4> QED  BY <4>1, <4>2, <4>3 DEF Processors
    <3>3. /\ q.parts = p.parts /\ q.held = p.held /\ q.buffer = p.buffer
          /\ q.asked = p.asked /\ q.usage = p.usage
          /\ \A b \in Blocks \ {"tool_call"} : q.sent[b] = p.sent[b]
          /\ q.out = Append(p.out, o) /\ q.sent["tool_call"] = now
      BY <3>1 DEF Processors, Blocks
    <3> QED  BY <1>2, <1>3, <2>3, <3>2, <3>3 DEF now, o, q, Registered
  <2> QED  BY <2>2, <2>3
<1>4. CASE c.block # "tool_call"
  <2>1. now \in Seq(Nat)
    BY <1>1, <1>4 DEF Registered, Chunks, Fits, Plain, Blocks, Processors
  <2>2. CASE IsEcho(p, c) \/ now = p.sent[c.block]
    BY <2>2 DEF EmitNow, Registered
  <2>3. CASE ~(IsEcho(p, c) \/ now = p.sent[c.block])
    <3>1. q = [p EXCEPT !.sent[c.block] = now, !.emitted = TRUE, !.out = Append(@, o)]
      BY <2>3 DEF EmitNow
    <3>0. c.block \in {"text", "reasoning"}
      BY <1>1, <1>4 DEF Blocks
    <3> HIDE DEF now, o, q
    <3>2. q \in Processors
      <4>1. [p.sent EXCEPT ![c.block] = now]
               \in [text : Seq(Nat), reasoning : Seq(Nat), tool_call : Seq(Payloads)]
        BY <2>1, <3>0 DEF Processors
      <4>2. Append(p.out, o) \in Seq(Outputs)
        BY <1>2 DEF Processors
      <4>3. q = [p EXCEPT !.sent = [p.sent EXCEPT ![c.block] = now], !.emitted = TRUE, !.out = Append(p.out, o)]
        BY <3>1
      <4> QED  BY <4>1, <4>2, <4>3 DEF Processors
    <3>3. /\ q.parts = p.parts /\ q.held = p.held /\ q.buffer = p.buffer
          /\ q.asked = p.asked /\ q.usage = p.usage
          /\ \A b \in Blocks \ {c.block} : q.sent[b] = p.sent[b]
          /\ q.out = Append(p.out, o) /\ q.sent[c.block] = now
      BY <3>0, <3>1 DEF Processors, Blocks
    <3> QED  BY <1>2, <2>3, <3>2, <3>3 DEF now, o, q, Registered
  <2> QED  BY <2>2, <2>3
<1> QED  BY <1>3, <1>4

\* The artifact is begun then.
LEMMA EmitNowBegins ==
    ASSUME NEW p \in Processors, NEW c
    PROVE  EmitNow(p, c) = p \/ EmitNow(p, c).emitted = TRUE
<1>1. CASE IsEcho(p, c) \/ Registered(p, c) = p.sent[c.block]
  BY <1>1 DEF EmitNow
<1>2. CASE ~(IsEcho(p, c) \/ Registered(p, c) = p.sent[c.block])
  <2> DEFINE r == [p EXCEPT !.sent[c.block] = Registered(p, c)]
             x == Append(p.out, Artifact(c, p.emitted, c.source))
  <2>1. EmitNow(p, c) = [r EXCEPT !.emitted = TRUE, !.out = x]
    BY <1>2 DEF EmitNow, Processors
  <2>2. "emitted" \in DOMAIN r
    BY DEF Processors
  <2> HIDE DEF r, x
  <2> QED  BY <2>1, <2>2
<1> QED  BY <1>1, <1>2

-----------------------------------------------------------------------------
(* Text and reasoning.                                                     *)

\* Only outputs of S are added, after all there were.
Adds(p, q, S) ==
    /\ Len(p.out) <= Len(q.out)
    /\ \A n \in 1 .. Len(p.out) : q.out[n] = p.out[n]
    /\ \A n \in Len(p.out) + 1 .. Len(q.out) : q.out[n] \in S

\* The text that was sent stays what the emitter remembers of it, and what a client has.
TextKept(p, q) ==
    /\ TextOf(p.out) = p.sent["text"] => TextOf(q.out) = q.sent["text"]
    /\ Begun(p.out, p.emitted) => Begun(q.out, q.emitted)

\* What the emission of chunks leaves alone.
Same(p, q) ==
    q.parts = p.parts /\ q.held = p.held /\ q.asked = p.asked /\ q.usage = p.usage

\* Nothing but text and reasoning is sent, and nothing else changes.
Streams(p, q) ==
    /\ Good(q) /\ Same(p, q)
    /\ q.sent["tool_call"] = p.sent["tool_call"]
    /\ Adds(p, q, Streamed)
    /\ TextKept(p, q)

\* Additions add up.
LEMMA AddsTwice ==
    ASSUME NEW p \in Processors, NEW q \in Processors, NEW r \in Processors, NEW S, NEW T,
           Adds(p, q, S), Adds(q, r, T)
    PROVE  Adds(p, r, S \cup T)
<1>1. Len(p.out) \in Nat /\ Len(q.out) \in Nat /\ Len(r.out) \in Nat
  BY DEF Processors
<1>2. Len(p.out) <= Len(r.out)
  BY <1>1 DEF Adds
<1>3. ASSUME NEW n \in 1 .. Len(p.out) PROVE r.out[n] = p.out[n]
  <2>1. n \in 1 .. Len(q.out)
    BY <1>1 DEF Adds
  <2> QED  BY <2>1 DEF Adds
<1>4. ASSUME NEW n \in Len(p.out) + 1 .. Len(r.out) PROVE r.out[n] \in S \cup T
  <2>1. CASE n <= Len(q.out)
    <3>1. n \in 1 .. Len(q.out) /\ n \in Len(p.out) + 1 .. Len(q.out)
      BY <1>1, <2>1
    <3> QED  BY <3>1 DEF Adds
  <2>2. CASE n > Len(q.out)
    <3>1. n \in Len(q.out) + 1 .. Len(r.out)
      BY <1>1, <2>2
    <3> QED  BY <3>1 DEF Adds
  <2> QED  BY <1>1, <2>1, <2>2
<1> QED  BY <1>2, <1>3, <1>4 DEF Adds

\* One output that is appended is added.
LEMMA AddsOne ==
    ASSUME NEW p \in Processors, NEW q, NEW o, q.out = Append(p.out, o)
    PROVE  Adds(p, q, {o}) /\ Len(q.out) = Len(p.out) + 1 /\ q.out[Len(q.out)] = o
<1>1. Len(p.out) \in Nat /\ p.out \in Seq(Outputs)
  BY DEF Processors
<1>2. /\ Len(q.out) = Len(p.out) + 1
      /\ \A n \in 1 .. Len(p.out) : q.out[n] = p.out[n]
      /\ q.out[Len(p.out) + 1] = o
  BY <1>1
<1> QED  BY <1>1, <1>2 DEF Adds

\* Nothing is added where nothing changes.
LEMMA AddsNothing ==
    ASSUME NEW p \in Processors, NEW q, NEW S, q.out = p.out
    PROVE  Adds(p, q, S)
<1>1. Len(p.out) \in Nat
  BY DEF Processors
<1> QED  BY <1>1 DEF Adds

\* So do streams of text.
LEMMA StreamsTwice ==
    ASSUME NEW p, NEW q, NEW r, Good(p), Streams(p, q), Streams(q, r)
    PROVE  Streams(p, r)
<1>1. Adds(p, r, Streamed \cup Streamed)
  BY AddsTwice DEF Streams, Good
<1> QED  BY <1>1 DEF Streams, Same, TextKept

\* Nothing is streamed where nothing changes.
LEMMA StreamsNothing ==
    ASSUME NEW p, Good(p)
    PROVE  Streams(p, p)
  BY AddsNothing DEF Streams, Same, TextKept, Good

\* Text that is emitted at once is streamed, as one output at most, ...
LEMMA PlainIsStreamed ==
    ASSUME NEW p, Good(p), NEW c \in PlainChunks
    PROVE  /\ Streams(p, EmitNow(p, c))
           /\ EmitNow(p, c).buffer = p.buffer
           /\ Len(EmitNow(p, c).out) \in Len(p.out) .. Len(p.out) + 1
<1> DEFINE q == EmitNow(p, c)
           o == Artifact(c, p.emitted, c.source)
<1>1. /\ p \in Processors /\ Len(p.out) \in Nat /\ p.out \in Seq(Outputs)
      /\ c \in Chunks /\ c.block \in Plain /\ c.payload = None /\ c.append = TRUE
      /\ c.source # "final_snapshot"
  BY DEF Good, PlainChunks, Fits, Processors, Chunks, Sources
<1>2. /\ q \in Processors /\ Same(p, q) /\ q.buffer = p.buffer
      /\ q.sent["tool_call"] = p.sent["tool_call"]
      /\ c.block # "text" => q.sent["text"] = p.sent["text"]
      /\ \/ q = p
         \/ /\ o \in Outputs /\ q.out = Append(p.out, o)
            /\ q.sent[c.block] = p.sent[c.block] \o c.content
  BY <1>1, EmitNowIs DEF Same, Blocks, Plain
<1>7. q = p \/ q.emitted = TRUE
  BY <1>1, EmitNowBegins, Zenon
<1> HIDE DEF q
<1>3. Good(q)
  BY <1>2 DEF Good
<1>4. ASSUME q = p PROVE Streams(p, q) /\ Len(q.out) \in Len(p.out) .. Len(p.out) + 1
  BY <1>1, <1>4, StreamsNothing
<1>5. ASSUME o \in Outputs, q.out = Append(p.out, o), q.emitted = TRUE,
             q.sent[c.block] = p.sent[c.block] \o c.content
      PROVE  Streams(p, q) /\ Len(q.out) \in Len(p.out) .. Len(p.out) + 1
  <2>1. /\ o \in Streamed /\ IsArtifact(o)
        /\ o.block = c.block /\ o.content = c.content
    BY <1>1, <1>5 DEF Artifact, Streamed, IsArtifact
  <2>2. Adds(p, q, {o}) /\ Len(q.out) = Len(p.out) + 1
    BY <1>1, <1>5, AddsOne
  <2>3. Adds(p, q, Streamed)
    BY <2>1, <2>2 DEF Adds
  <2>4. TextOf(q.out) = TextOf(p.out) \o (IF c.block = "text" THEN c.content ELSE <<>>)
    BY <1>1, <1>5, <2>1, OutputIsSaid
  <2>5. TextOf(p.out) \in Seq(Nat)
    BY <1>1, <1>5, OutputIsSaid
  <2>9. Begun(p.out, p.emitted) => Begun(q.out, q.emitted)
    <3>1. o.append = p.emitted
      BY DEF Artifact
    <3> QED  BY <1>1, <1>5, <2>1, <3>1, BegunAppend
  <2>6. TextKept(p, q)
    <3>1. CASE c.block = "text"
      BY <1>5, <2>4, <2>9, <3>1 DEF TextKept
    <3>2. CASE c.block # "text"
      <4>1. TextOf(q.out) = TextOf(p.out)
        BY <2>4, <2>5, <3>2
      <4> QED  BY <1>2, <2>9, <3>2, <4>1 DEF TextKept
    <3> QED  BY <3>1, <3>2
  <2>7. Streams(p, q)
    BY <1>2, <1>3, <2>3, <2>6 DEF Streams
  <2>8. Len(q.out) \in Len(p.out) .. Len(p.out) + 1
    BY <1>1, <2>2
  <2> QED  BY <2>7, <2>8
<1>6. Streams(p, q) /\ q.buffer = p.buffer /\ Len(q.out) \in Len(p.out) .. Len(p.out) + 1
  BY <1>2, <1>4, <1>5, <1>7
<1> QED  BY <1>6 DEF q

\* ... so a flush streams what was in the buffer and leaves it empty, ...
LEMMA FlushStreams ==
    ASSUME NEW p, Good(p)
    PROVE  /\ Streams(p, Flush(p))
           /\ Flush(p).buffer = None
           /\ Len(Flush(p).out) \in Len(p.out) .. Len(p.out) + 1
<1>1. p \in Processors /\ Len(p.out) \in Nat
  BY DEF Good, Processors
<1>2. CASE p.buffer = None
  BY <1>1, <1>2, StreamsNothing DEF Flush
<1>3. CASE p.buffer # None
  <2> DEFINE r == [p EXCEPT !.buffer = None]
  <2>1. p.buffer \in PlainChunks
    BY <1>3 DEF Good, Optional
  <2>2. /\ r \in Processors /\ r.buffer = None /\ r.out = p.out /\ r.sent = p.sent
        /\ r.emitted = p.emitted /\ Same(p, r)
    BY <1>1 DEF Processors, Optional, Same
  <2>3. Good(r)
    BY <2>2 DEF Good, Optional
  <2>4. Streams(p, r)
    BY <1>1, <2>2, <2>3, AddsNothing DEF Streams, TextKept
  <2>5. Flush(p) = EmitNow(r, p.buffer)
    BY <1>3 DEF Flush
  <2> HIDE DEF r
  <2>6. /\ Streams(r, Flush(p)) /\ Flush(p).buffer = None
        /\ Len(Flush(p).out) \in Len(p.out) .. Len(p.out) + 1
    BY <2>1, <2>2, <2>3, <2>5, PlainIsStreamed
  <2> QED  BY <2>4, <2>6, StreamsTwice
<1> QED  BY <1>2, <1>3

\* ... text that is put in the buffer changes nothing that was sent, ...
LEMMA BufferStreams ==
    ASSUME NEW p, Good(p), NEW c \in PlainChunks
    PROVE  Streams(p, [p EXCEPT !.buffer = c])
<1>1. [p EXCEPT !.buffer = c] \in Processors /\ p \in Processors
  BY DEF Good, Processors, Optional, PlainChunks
<1> DEFINE q == [p EXCEPT !.buffer = c]
<1>2. q.buffer = c /\ q.out = p.out /\ q.sent = p.sent /\ q.emitted = p.emitted /\ Same(p, q)
  BY <1>1 DEF Processors, Same
<1> HIDE DEF q
<1>3. q \in Processors
  BY <1>1 DEF q
<1>4. Streams(p, q)
  BY <1>1, <1>2, <1>3, AddsNothing DEF Streams, TextKept, Good, Optional
<1> QED  BY <1>4 DEF q

\* ... and a chunk of text, whatever it meets in the buffer, only streams text.
LEMMA EmitChunkStreams ==
    ASSUME NEW p, Good(p), NEW c \in PlainChunks, NEW late
    PROVE  Streams(p, EmitChunk(p, c, late))
<1> DEFINE merges == p.buffer # None /\ CanMerge(p.buffer, c)
           q == IF merges THEN [p EXCEPT !.buffer.content = @ \o c.content]
                          ELSE [Flush(p) EXCEPT !.buffer = c]
<1>1. Streams(p, q)
  <2>1. CASE merges
    <3> DEFINE b == [p.buffer EXCEPT !.content = @ \o c.content]
    <3>1. b \in PlainChunks
      <4>1. p.buffer \in PlainChunks /\ c \in Chunks
        BY <2>1 DEF Good, PlainChunks, Optional
      <4>2. p.buffer \in Chunks /\ p.buffer.content \o c.content \in Seq(Nat)
        BY <4>1 DEF PlainChunks, Chunks
      <4>3. b \in Chunks
        BY <4>2 DEF Chunks
      <4>4. /\ b.block = p.buffer.block /\ b.payload = p.buffer.payload
            /\ b.append = p.buffer.append /\ b.source = p.buffer.source
        BY <4>2 DEF Chunks
      <4> QED  BY <4>1, <4>3, <4>4 DEF PlainChunks, Fits
    <3>2. q = [p EXCEPT !.buffer = b]
      BY <2>1 DEF Good, Processors
    <3> HIDE DEF b, q
    <3> QED  BY <3>1, <3>2, BufferStreams
  <2>2. CASE ~merges
    <3>1. Streams(p, Flush(p)) /\ Good(Flush(p))
      BY FlushStreams DEF Streams
    <3>2. Streams(Flush(p), [Flush(p) EXCEPT !.buffer = c])
      BY <3>1, BufferStreams
    <3> QED  BY <2>2, <3>1, <3>2, StreamsTwice
  <2> QED  BY <2>1, <2>2
<1>2. Good(q)
  BY <1>1 DEF Streams
<1>3. EmitChunk(p, c, late) \in {q, Flush(q)}
  BY DEF EmitChunk, PlainChunks, Plain
<1> HIDE DEF q
<1>4. Streams(p, Flush(q))
  BY <1>1, <1>2, FlushStreams, StreamsTwice
<1> QED  BY <1>1, <1>3, <1>4

-----------------------------------------------------------------------------
(* The chunks of an event.                                                 *)

\* emit_chunks is a fold over the chunks.  The community's fold is a choice of a function that
\* satisfies an equation: it has a solution ...
IsFold(iter, p, chunks, late) ==
    iter = [s \in SUBSET (DOMAIN chunks) |->
              IF s = {} THEN p ELSE EmitChunk(iter[s \ {Max(s)}], chunks[Max(s)], late)]

\* The equation of the fold has a solution: the function on all intervals from 1.
LEMMA FoldEquation ==
  ASSUME NEW p, NEW C, NEW chunks \in Seq(C), NEW late
  PROVE  \E iter : IsFold(iter, p, chunks, late)
<1> DEFINE Value(iter, s) ==
             IF s = {} THEN p ELSE EmitChunk(iter[s \ {Max(s)}], chunks[Max(s)], late)
           Folds(iter, n) ==
             /\ iter = [s \in SUBSET (1 .. n) |-> iter[s]]
             /\ \A s \in SUBSET (1 .. n) : iter[s] = Value(iter, s)
           T == {n \in Nat : \E iter : Folds(iter, n)}
<1>1. 0 \in T
  <2> DEFINE iter == [s \in SUBSET (1 .. 0) |-> p]
  <2>1. Folds(iter, 0)
    OBVIOUS
  <2> HIDE DEF Folds
  <2> QED BY <2>1
<1>2. ASSUME NEW n \in 0 .. Len(chunks) - 1, n \in T PROVE n + 1 \in T
  <2>0. n \in Nat /\ n + 1 \in Nat
    OBVIOUS
  <2>1. PICK iter : Folds(iter, n)
    BY <1>2
  <2> DEFINE next == [s \in SUBSET (1 .. n + 1) |->
                        IF n + 1 \in s THEN EmitChunk(iter[s \ {n + 1}], chunks[n + 1], late)
                                       ELSE iter[s]]
  <2>2. next = [s \in SUBSET (1 .. n + 1) |-> next[s]]
    OBVIOUS
  <2>3. \A s \in SUBSET (1 .. n) : s \in SUBSET (1 .. n + 1) /\ n + 1 \notin s
    BY <2>0
  <2>4. \A s \in SUBSET (1 .. n) : next[s] = iter[s]
    BY <2>3
  <2>5. ASSUME NEW s \in SUBSET (1 .. n + 1) PROVE next[s] = Value(next, s)
    <3>1. CASE n + 1 \in s
      <4>1. Max(s) = n + 1
        BY <2>0, <3>1, MaxIs
      <4>2. s \ {n + 1} \in SUBSET (1 .. n)
        BY <2>0
      <4>3. next[s] = EmitChunk(iter[s \ {n + 1}], chunks[n + 1], late)
        BY <3>1
      <4>4. next[s \ {n + 1}] = iter[s \ {n + 1}]
        BY <2>4, <4>2
      <4> HIDE DEF next
      <4> QED BY <3>1, <4>1, <4>3, <4>4
    <3>2. CASE n + 1 \notin s
      <4>1. s \in SUBSET (1 .. n)
        BY <2>0, <3>2
      <4>2. s # {} => Max(s) \in s
        <5> DEFINE U == {i \in 0 .. n : (s \cap (1 .. i)) # {} => \E x \in s \cap (1 .. i) : \A y \in s \cap (1 .. i): x >= y}
        <5>1. 0 \in U
          BY <2>0
        <5>2. ASSUME NEW i \in 0 .. n - 1, i \in U PROVE i + 1 \in U
          <6>1. 1 .. i + 1 = (1 .. i) \cup {i + 1}
            OBVIOUS
          <6> QED BY <5>2, <6>1
        <5>3. 0 .. n \subseteq U
          <6> HIDE DEF U
          <6> QED BY <2>0, <5>1, <5>2, UpTo
        <5>4. n \in U /\ s \cap (1 .. n) = s
          <6>1. n \in 0 .. n
            BY <2>0
          <6> HIDE DEF U
          <6> QED BY <4>1, <5>3, <6>1
        <5> QED BY <5>4 DEF Max
      <4>3. s # {} => s \ {Max(s)} \in SUBSET (1 .. n)
        BY <4>1
      <4>4. next[s] = iter[s] /\ (s # {} => next[s \ {Max(s)}] = iter[s \ {Max(s)}])
        BY <2>4, <4>1, <4>3
      <4> HIDE DEF next
      <4> QED BY <2>1, <4>1, <4>4
    <3> QED BY <3>1, <3>2
  <2>6. Folds(next, n + 1)
    <3> HIDE DEF next, Value
    <3> QED BY <2>2, <2>5
  <2> HIDE DEF Folds
  <2> QED BY <2>0, <2>6
<1>3. Len(chunks) \in T
  <2>0. Len(chunks) \in Nat /\ Len(chunks) \in 0 .. Len(chunks)
    OBVIOUS
  <2> HIDE DEF T
  <2>1. 0 .. Len(chunks) \subseteq T
    BY <2>0, <1>1, <1>2, UpTo
  <2> QED BY <2>0, <2>1
<1>4. PICK iter : Folds(iter, Len(chunks))
  BY <1>3
<1>5. DOMAIN chunks = 1 .. Len(chunks)
  OBVIOUS
<1>6. iter = [s \in SUBSET (DOMAIN chunks) |-> Value(iter, s)]
  <2> HIDE DEF Value
  <2> QED BY <1>4, <1>5
<1>7. IsFold(iter, p, chunks, late)
  BY <1>6 DEF IsFold
<1> QED BY <1>7

\* ... so the chunks are emitted one after the other.
LEMMA EmitChunksSteps ==
  ASSUME NEW p, NEW C, NEW chunks \in Seq(C), NEW late
  PROVE  \E f : /\ f[0] = p
                /\ \A i \in 1 .. Len(chunks) : f[i] = EmitChunk(f[i-1], chunks[i], late)
                /\ EmitChunks(p, chunks, late) = f[Len(chunks)]
<1> DEFINE iter == CHOOSE iter : IsFold(iter, p, chunks, late)
<1>0. IsFold(iter, p, chunks, late)
  BY FoldEquation
<1>2. EmitChunks(p, chunks, late) = iter[DOMAIN chunks]
  BY DEF EmitChunks, FoldLeft, MapThenFoldSet, IsFold
<1> HIDE DEF iter
<1>1. iter = [s \in SUBSET (DOMAIN chunks) |->
            IF s = {} THEN p ELSE EmitChunk(iter[s \ {Max(s)}], chunks[Max(s)], late)]
  BY <1>0 DEF IsFold
<1>3. DOMAIN chunks = 1 .. Len(chunks) /\ Len(chunks) \in Nat
  OBVIOUS
<1> DEFINE f == [i \in 0 .. Len(chunks) |-> iter[1 .. i]]
<1>4. f[0] = p
  <2>1. f[0] = iter[{}]
    BY <1>3
  <2> QED BY <1>1, <2>1
<1>5. ASSUME NEW i \in 1 .. Len(chunks) PROVE f[i] = EmitChunk(f[i-1], chunks[i], late)
  <2>1. Max(1 .. i) = i /\ 1 .. i # {}
    <3>1. i \in Nat /\ i \in 1 .. i /\ 1 .. i \in SUBSET (1 .. i)
      OBVIOUS
    <3> QED BY <3>1, MaxIs
  <2>2. (1 .. i) \ {i} = 1 .. i - 1
    OBVIOUS
  <2>3. f[i] = iter[1 .. i] /\ f[i - 1] = iter[1 .. i - 1]
    BY <1>3
  <2>4. 1 .. i \in SUBSET (DOMAIN chunks)
    BY <1>3
  <2>5. iter[1 .. i] = EmitChunk(iter[(1 .. i) \ {Max(1 .. i)}], chunks[Max(1 .. i)], late)
    BY <1>1, <2>1, <2>4
  <2> HIDE DEF f
  <2> QED BY <2>1, <2>2, <2>3, <2>5
<1>6. EmitChunks(p, chunks, late) = f[Len(chunks)]
  BY <1>2, <1>3
<1> HIDE DEF f
<1> QED BY <1>4, <1>5, <1>6

\* Chunks of text only stream text.
LEMMA EmitChunksStreams ==
    ASSUME NEW p, Good(p), NEW chunks \in Seq(PlainChunks), NEW late
    PROVE  Streams(p, EmitChunks(p, chunks, late))
<1>1. PICK f : /\ f[0] = p
               /\ \A i \in 1 .. Len(chunks) : f[i] = EmitChunk(f[i-1], chunks[i], late)
               /\ EmitChunks(p, chunks, late) = f[Len(chunks)]
  BY EmitChunksSteps
<1> DEFINE T == {i \in 0 .. Len(chunks) : Streams(p, f[i])}
<1>2. Len(chunks) \in Nat /\ \A i \in 1 .. Len(chunks) : chunks[i] \in PlainChunks
  OBVIOUS
<1>3. 0 \in T
  BY <1>1, <1>2, StreamsNothing
<1>4. ASSUME NEW i \in 0 .. Len(chunks) - 1, i \in T PROVE i + 1 \in T
  <2>1. i + 1 \in 1 .. Len(chunks) /\ i + 1 \in 0 .. Len(chunks) /\ (i + 1) - 1 = i
    BY <1>2
  <2>2. f[i + 1] = EmitChunk(f[i], chunks[i + 1], late) /\ chunks[i + 1] \in PlainChunks
    BY <1>1, <1>2, <2>1
  <2>3. Streams(p, f[i]) /\ Good(f[i])
    BY <1>4 DEF Streams
  <2>4. Streams(f[i], f[i + 1])
    BY <2>2, <2>3, EmitChunkStreams
  <2> QED  BY <2>1, <2>3, <2>4, StreamsTwice
<1> HIDE DEF T
<1>5. 0 .. Len(chunks) \subseteq T
  BY <1>2, <1>3, <1>4, UpTo
<1>6. Len(chunks) \in T
  BY <1>2, <1>5
<1> QED  BY <1>1, <1>6 DEF T

\* No chunk and one chunk.
LEMMA EmitFewChunks ==
    ASSUME NEW p, NEW C, NEW c \in C, NEW late
    PROVE  EmitChunks(p, <<>>, late) = p /\ EmitChunks(p, <<c>>, late) = EmitChunk(p, c, late)
<1>1. ASSUME NEW s \in Seq(C), Len(s) = 0
      PROVE  EmitChunks(p, s, late) = p
  <2>1. PICK f : f[0] = p /\ (\A i \in 1 .. Len(s) : f[i] = EmitChunk(f[i-1], s[i], late))
                 /\ EmitChunks(p, s, late) = f[Len(s)]
    BY EmitChunksSteps
  <2> QED  BY <1>1, <2>1
<1>2. ASSUME NEW s \in Seq(C), Len(s) = 1, s[1] = c
      PROVE  EmitChunks(p, s, late) = EmitChunk(p, c, late)
  <2>1. PICK f : f[0] = p /\ (\A i \in 1 .. Len(s) : f[i] = EmitChunk(f[i-1], s[i], late))
                 /\ EmitChunks(p, s, late) = f[Len(s)]
    BY EmitChunksSteps
  <2>2. 1 \in 1 .. Len(s) /\ 1 - 1 = 0
    BY <1>2
  <2> QED  BY <1>2, <2>1, <2>2
<1>3. /\ <<>> \in Seq(C) /\ Len(<<>>) = 0
      /\ <<c>> \in Seq(C) /\ Len(<<c>>) = 1 /\ <<c>>[1] = c
  OBVIOUS
<1> QED  BY <1>1, <1>2, <1>3

\* A tool call
LEMMA CallStreams ==
    ASSUME NEW p, Good(p), NEW c \in Calls, NEW late
    PROVE  LET f == Flush(p)
               q == EmitChunk(p, c, late)
               o == Artifact(c, f.emitted, c.source)
               now == IF c.append THEN f.sent["tool_call"] \o <<c.payload>> ELSE <<c.payload>>
           IN  /\ Good(q) /\ Same(p, q) /\ q.buffer = None
               /\ TextKept(p, q)
               /\ \/ q = f /\ f.sent["tool_call"] = now
                  \/ /\ o \in Outputs /\ ~IsSnapshot(o)
                     /\ q.out = Append(f.out, o) /\ q.sent["tool_call"] = now
<1> DEFINE f == Flush(p)
           q == EmitChunk(p, c, late)
           o == Artifact(c, f.emitted, c.source)
           now == IF c.append THEN f.sent["tool_call"] \o <<c.payload>> ELSE <<c.payload>>
<1>1. c \in Chunks /\ c.block = "tool_call" /\ c.payload # None /\ c.source # "final_snapshot"
  BY DEF Calls, Fits, Plain, Chunks, Sources
<1>2. q = EmitNow(f, c)
  BY <1>1 DEF EmitChunk
<1>3. Streams(p, f) /\ f.buffer = None /\ f \in Processors
  BY FlushStreams DEF Streams, Good
<1>4. ~IsEcho(f, c)
  BY <1>1 DEF IsEcho
<1> HIDE DEF q, f
<1>5. /\ q \in Processors /\ Same(f, q) /\ q.buffer = None
      /\ q.sent["text"] = f.sent["text"]
      /\ \/ q = f /\ f.sent["tool_call"] = now
         \/ /\ o \in Outputs
            /\ q.out = Append(f.out, o) /\ q.sent["tool_call"] = now
  BY <1>1, <1>2, <1>3, <1>4, EmitNowIs DEF Same, Blocks
<1>10. q = f \/ q.emitted = TRUE
  BY <1>2, <1>3, EmitNowBegins, Zenon
<1>6. Good(q) /\ Same(p, q)
  BY <1>3, <1>5 DEF Good, Optional, Streams, Same
<1>7. ASSUME o \in Outputs, q.out = Append(f.out, o)
      PROVE  ~IsSnapshot(o) /\ TextOf(q.out) = TextOf(f.out)
  <2>1. o.block = "tool_call" /\ o.source = c.source
    BY <1>1 DEF Artifact
  <2>2. f.out \in Seq(Outputs)
    BY <1>3 DEF Processors
  <2>3. TextOf(f.out) \in Seq(Nat)
    BY <1>7, <2>2, OutputIsSaid
  <2>4. TextOf(q.out) = TextOf(f.out) \o <<>>
    BY <1>7, <2>1, <2>2, OutputIsSaid
  <2> QED  BY <2>1, <2>3, <2>4, <1>1 DEF IsSnapshot
<1>8. TextKept(p, q)
  <2>1. CASE q = f
    BY <1>3, <2>1 DEF Streams
  <2>2. ASSUME o \in Outputs, q.emitted = TRUE, q.out = Append(f.out, o)
        PROVE  TextKept(p, q)
    <3>1. IsArtifact(o) /\ o.append = f.emitted
      BY DEF Artifact, IsArtifact
    <3>2. f.out \in Seq(Outputs)
      BY <1>3 DEF Processors
    <3> HIDE DEF o
    <3>3. Begun(f.out, f.emitted) => Begun(q.out, q.emitted)
      BY <2>2, <3>1, <3>2, BegunAppend
    <3> QED  BY <1>3, <1>5, <1>7, <2>2, <3>3 DEF TextKept, Streams
  <2> QED  BY <1>5, <1>10, <2>1, <2>2
<1>9. /\ Good(q) /\ Same(p, q) /\ q.buffer = None /\ TextKept(p, q)
      /\ \/ q = f /\ f.sent["tool_call"] = now
         \/ /\ o \in Outputs /\ ~IsSnapshot(o)
            /\ q.out = Append(f.out, o) /\ q.sent["tool_call"] = now
  BY <1>5, <1>6, <1>7, <1>8
<1> HIDE DEF o, now
<1> QED  BY <1>9 DEF q, f, o, now

-----------------------------------------------------------------------------
(* The chunk functions.                                                    *)

\* A tool call is told of by events of the agent that give no text.
Tells(e) ==
    IsState(ReportOf(e)) \/ e.payload # None =>
        /\ e.delta = <<>> /\ BlockOfPart(e) = "tool_call" /\ RoleOf(e.role) = "agent"
        /\ e.payload # None => e.payload.call = e.part

\* What is reported of a tool call is a payload.
LEMMA ReportIsPayload ==
    ASSUME NEW e \in PartEvents, e.part \in Items
    PROVE  ReportOf(e) \in Optional(Payloads) /\ PartPayload(e) \in Optional(Payloads)
<1>1. /\ e.payload \in Optional(Payloads) /\ e.state \in Optional(Strings)
  BY DEF PartEvents
<1>2. ASSUME e.state # None PROVE NormalizedStatus(e.state) \in Strings
  BY <1>1, <1>2 DEF NormalizedStatus, Optional, Strings
<1>3. PartPayload(e) \in Optional(Payloads)
  <2>1. CASE e.state = None
    BY <2>1 DEF PartPayload, Optional
  <2>2. CASE e.state # None
    <3>1. NormalizedStatus(e.state) \in Optional(Strings)
      BY <1>2, <2>2 DEF Optional
    <3> QED  BY <2>2, <3>1 DEF PartPayload, Optional, Payloads
  <2> QED  BY <2>1, <2>2
<1> QED  BY <1>1, <1>3 DEF ReportOf

\* A chunk of text or reasoning is one.
LEMMA ChunkIsPlain ==
    ASSUME NEW state \in PartStates, state.block \in Plain, NEW part \in Items,
           NEW source \in Sources, NEW text \in Seq(Nat)
    PROVE  TextChunk(state, part, source, text) \in PlainChunks
<1>1. state.block \in Blocks /\ state.role \in Optional(Strings) /\ None \in Optional(Payloads)
  BY DEF PartStates, Optional
<1>2. TextChunk(state, part, source, text) \in Chunks
  BY <1>1 DEF TextChunk, Chunk, Chunks
<1> QED  BY <1>2 DEF TextChunk, Chunk, PlainChunks, Fits

\* What the chunk functions leave of the state of the part.
Keeps(state, new) ==
    /\ new \in PartStates
    /\ new.block = state.block /\ new.role = state.role
    /\ new.toolChunks = state.toolChunks /\ new.lastState = state.lastState

\* Remembering the text of a part leaves its tool call alone.
LEMMA BufferKeeps ==
    ASSUME NEW state \in PartStates, NEW text \in Seq(Nat)
    PROVE  Keeps(state, [state EXCEPT !.buffer = text])
  BY DEF Keeps, PartStates

\* A part that is new has no tool call yet.
LEMMA NothingKeeps ==
    ASSUME NEW state \in PartStates
    PROVE  Keeps(state, state) /\ state.buffer \in Seq(Nat)
  BY DEF Keeps, PartStates

\* A delta gives text, ...
LEMMA DeltaIsPlain ==
    ASSUME NEW state \in PartStates, state.block \in Plain, NEW part \in Items,
           NEW source \in Sources, NEW text \in Seq(Nat)
    PROVE  LET d == DeltaChunks(state, part, text, source)
           IN  Keeps(state, d.state) /\ d.chunks \in Seq(PlainChunks)
<1>1. CASE text = <<>>
  BY <1>1, NothingKeeps DEF DeltaChunks, Nothing
<1>2. CASE text # <<>>
  <2>1. Keeps(state, [state EXCEPT !.buffer = @ \o text])
    <3>1. state.buffer \o text \in Seq(Nat)
      BY NothingKeeps
    <3> QED  BY <3>1, BufferKeeps
  <2>2. <<TextChunk(state, part, source, text)>> \in Seq(PlainChunks)
    BY ChunkIsPlain
  <2> QED  BY <1>2, <2>1, <2>2 DEF DeltaChunks
<1> QED  BY <1>1, <1>2

\* ... so does a whole text, ...
LEMMA SnapshotIsPlain ==
    ASSUME NEW state \in PartStates, state.block \in Plain, NEW part \in Items,
           NEW text \in Seq(Nat)
    PROVE  LET d == SnapshotChunks(state, part, text)
           IN  Keeps(state, d.state) /\ d.chunks \in Seq(PlainChunks)
<1>1. CASE IsPrefix(state.buffer, text)
  <2>1. SubSeq(text, Len(state.buffer) + 1, Len(text)) \in Seq(Nat)
    <3>1. Len(state.buffer) \in Nat /\ Len(text) \in Nat
      BY NothingKeeps
    <3>2. \A n \in Len(state.buffer) + 1 .. Len(text) : text[n] \in Nat
      BY <3>1
    <3> QED  BY <3>1, <3>2
  <2>2. "part_text_diff" \in Sources
    BY DEF Sources
  <2> QED  BY <1>1, <2>1, <2>2, DeltaIsPlain DEF SnapshotChunks
<1>2. CASE ~IsPrefix(state.buffer, text)
  BY <1>2, BufferKeeps DEF SnapshotChunks, Nothing
<1> QED  BY <1>1, <1>2

\* ... and what was held of a part.
LEMMA HeldIsPlain ==
    ASSUME NEW state \in PartStates, NEW part \in Items, NEW held \in Seq(Seq(Nat))
    PROVE  LET d == HeldChunks(state, part, held)
           IN  /\ Keeps(state, d.state) /\ d.chunks \in Seq(PlainChunks)
               /\ state.block = "tool_call" \/ held = <<>> => d = Nothing(state)
<1>1. CASE state.block = "tool_call" \/ held = <<>>
  BY <1>1, NothingKeeps DEF HeldChunks, Nothing
<1>2. CASE ~(state.block = "tool_call" \/ held = <<>>)
  <2>1. state.block \in Plain
    BY <1>2 DEF PartStates, Blocks, Plain
  <2>2. Keeps(state, [state EXCEPT !.buffer = @ \o FlattenSeq(held)])
    <3>1. FlattenSeq(held) \in Seq(Nat)
      BY FlattenIsSeq
    <3>2. state.buffer \o FlattenSeq(held) \in Seq(Nat)
      BY <3>1, NothingKeeps
    <3> QED  BY <3>1, <3>2, BufferKeeps
  <2>3. "delta_event_buffered" \in Sources
    BY DEF Sources
  <2>4. \A n \in DOMAIN held : TextChunk(state, part, "delta_event_buffered", held[n]) \in PlainChunks
    BY <2>1, <2>3, ChunkIsPlain
  <2>5. [n \in DOMAIN held |-> TextChunk(state, part, "delta_event_buffered", held[n])] \in Seq(PlainChunks)
    <3>1. DOMAIN held = 1 .. Len(held) /\ Len(held) \in Nat
      OBVIOUS
    <3> QED  BY <2>4, <3>1
  <2> QED  BY <1>2, <2>2, <2>5 DEF HeldChunks
<1> QED  BY <1>1, <1>2

\* One more chunk of a tool call, that says `payload`.
Calling(state, e, payload, d) ==
    /\ d.state \in PartStates
    /\ d.state.block = state.block /\ d.state.role = state.role
    /\ d.state.toolChunks = state.toolChunks + 1
    /\ d.state.lastState = IF IsState(payload) THEN payload ELSE state.lastState
    /\ IsState(payload) => payload # state.lastState
    /\ \E c \in Calls : /\ d.chunks = <<c>>
                        /\ c.part = e.part /\ c.content = <<e.fragment>> /\ c.payload = payload
                        /\ c.append = (state.toolChunks > 0)

\* A report of a tool call gives one chunk, unless it is the state the call is in already.
LEMMA ToolIsCall ==
    ASSUME NEW state \in PartStates, state.block = "tool_call", NEW e \in PartEvents,
           e.part \in Items, NEW source \in Sources,
           NEW payload \in Payloads
    PROVE  LET d == ToolChunks(state, e.part, source, payload, e.fragment)
           IN  \/ d = Nothing(state) /\ payload = state.lastState /\ IsState(payload)
               \/ Calling(state, e, payload, d)
<1> DEFINE d == ToolChunks(state, e.part, source, payload, e.fragment)
           c == Chunk(state, e.part, source, <<e.fragment>>, payload, state.toolChunks > 0)
<1>0. payload # None
  BY NoneIsNoPayload
<1>1. CASE payload.kind = "state" /\ payload = state.lastState
  BY <1>0, <1>1 DEF ToolChunks, IsState
<1>2. CASE ~(payload.kind = "state" /\ payload = state.lastState)
  <2> DEFINE new == [state EXCEPT !.toolChunks = @ + 1,
                                  !.lastState = IF payload.kind = "state" THEN payload ELSE @]
  <2>1. d.state = new /\ d.chunks = <<c>>
    BY <1>2 DEF ToolChunks
  <2> DEFINE last == IF payload.kind = "state" THEN payload ELSE state.lastState
  <2>0. last \in Optional(Payloads)
    BY DEF PartStates, Optional
  <2> HIDE DEF last
  <2>2. /\ new \in PartStates /\ new.block = state.block /\ new.role = state.role
        /\ new.toolChunks = state.toolChunks + 1
        /\ new.lastState = last
    <3>1. state.toolChunks + 1 \in Nat
      BY DEF PartStates
    <3>2. new = [state EXCEPT !.toolChunks = state.toolChunks + 1, !.lastState = last]
      BY DEF last
    <3> HIDE DEF new
    <3> QED  BY <2>0, <3>1, <3>2 DEF PartStates
  <2>3. c \in Calls
    <3>1. /\ state.block \in Blocks /\ state.role \in Optional(Strings) /\ state.toolChunks \in Nat
          /\ payload \in Optional(Payloads) /\ e.fragment \in Nat /\ <<e.fragment>> \in Seq(Nat)
      BY DEF PartStates, Optional, PartEvents
    <3>2. c \in Chunks
      BY <3>1 DEF Chunk, Chunks
    <3> QED  BY <1>0, <3>2 DEF Calls, Fits, Chunk, Plain
  <2>4. c.part = e.part /\ c.content = <<e.fragment>> /\ c.payload = payload /\ c.append = (state.toolChunks > 0)
    BY DEF Chunk
  <2> HIDE DEF d, c, new
  <2>5. Calling(state, e, payload, d)
    BY <1>0, <1>2, <2>1, <2>2, <2>3, <2>4 DEF Calling, IsState, last
  <2> QED  BY <2>5 DEF d
<1> QED  BY <1>1, <1>2

\* Without a report, or with the one it had, a tool part says nothing.
LEMMA ToolPartIsCall ==
    ASSUME NEW state \in PartStates, state.block = "tool_call", NEW e \in PartEvents,
           e.part \in Items, Tells(e)
    PROVE  LET d == ToolPartChunks(state, e)
           IN  \/ d = Nothing(state) /\ (IsState(ReportOf(e)) => ReportOf(e) = state.lastState)
                  /\ (e.payload # None => IsState(ReportOf(e)))
               \/ Calling(state, e, ReportOf(e), d)
<1>0. "delta" \in Sources /\ "tool_part_update" \in Sources
  BY DEF Sources
<1>1. CASE e.payload # None
  <2>1. e.payload \in Payloads /\ ReportOf(e) = e.payload
    BY <1>1 DEF PartEvents, Optional, ReportOf
  <2>2. ToolPartChunks(state, e) = ToolChunks(state, e.part, "delta", e.payload, e.fragment)
    BY <1>1 DEF ToolPartChunks
  <2> QED  BY <1>0, <2>1, <2>2, ToolIsCall
<1>2. CASE e.payload = None /\ e.delta = <<>> /\ PartPayload(e) # None
  <2>1. PartPayload(e) \in Payloads /\ ReportOf(e) = PartPayload(e)
    BY <1>2, ReportIsPayload DEF Optional, ReportOf
  <2>2. ToolPartChunks(state, e)
          = ToolChunks(state, e.part, "tool_part_update", PartPayload(e), e.fragment)
    BY <1>2 DEF ToolPartChunks
  <2> QED  BY <1>0, <1>2, <2>1, <2>2, ToolIsCall
<1>3. CASE e.payload = None /\ ~(e.delta = <<>> /\ PartPayload(e) # None)
  <2>1. ToolPartChunks(state, e) = Nothing(state)
    BY <1>3 DEF ToolPartChunks
  <2>2. ~IsState(ReportOf(e))
    BY <1>3 DEF Tells, ReportOf, IsState
  <2> QED  BY <1>3, <2>1, <2>2
<1> QED  BY <1>1, <1>2, <1>3

\* What an event of a part gives itself.
LEMMA OwnIsPlain ==
    ASSUME NEW state \in PartStates, state.block \in Plain, NEW e \in PartEvents,
           e.part \in Items
    PROVE  LET d == OwnChunks(state, e)
           IN  Keeps(state, d.state) /\ d.chunks \in Seq(PlainChunks)
<1>0. "delta" \in Sources /\ state.block # "tool_call" /\ e.delta \in Seq(Nat)
  BY DEF Sources, Plain, PartEvents
<1>1. CASE e.delta # <<>>
  <2>1. OwnChunks(state, e) = DeltaChunks(state, e.part, e.delta, "delta")
    BY <1>0, <1>1 DEF OwnChunks
  <2> QED  BY <1>0, <2>1, DeltaIsPlain
<1>2. CASE e.delta = <<>> /\ e.text # None
  <2>1. OwnChunks(state, e) = SnapshotChunks(state, e.part, e.text) /\ e.text \in Seq(Nat)
    BY <1>0, <1>2 DEF OwnChunks, PartEvents, Optional
  <2> QED  BY <2>1, SnapshotIsPlain
<1>3. CASE e.delta = <<>> /\ e.text = None
  <2>1. OwnChunks(state, e) = Nothing(state)
    BY <1>0, <1>3 DEF OwnChunks
  <2> QED  BY <2>1, NothingKeeps DEF Nothing
<1> QED  BY <1>1, <1>2, <1>3

\* An updated part of text or reasoning gives text, one of a tool call at most a call.
LEMMA UpdatedPlain ==
    ASSUME NEW state \in PartStates, state.block \in Plain, NEW e \in PartEvents,
           e.part \in Items, NEW held \in Seq(Seq(Nat))
    PROVE  LET d == UpdatedChunks(state, e, held)
           IN  Keeps(state, d.state) /\ d.chunks \in Seq(PlainChunks)
<1> DEFINE before == HeldChunks(state, e.part, held)
           own == OwnChunks(before.state, e)
<1>1. Keeps(state, before.state) /\ before.chunks \in Seq(PlainChunks)
  BY HeldIsPlain
<1>2. before.state \in PartStates /\ before.state.block \in Plain
  BY <1>1 DEF Keeps
<1> HIDE DEF before
<1>3. Keeps(before.state, own.state) /\ own.chunks \in Seq(PlainChunks)
  BY <1>2, OwnIsPlain
<1> HIDE DEF own
<1>4. /\ UpdatedChunks(state, e, held).state = own.state
      /\ UpdatedChunks(state, e, held).chunks = before.chunks \o own.chunks
  BY DEF UpdatedChunks, before, own
<1> QED  BY <1>1, <1>3, <1>4 DEF Keeps

\* An updated part of a tool call gives at most a call, one of text none.
LEMMA UpdatedCall ==
    ASSUME NEW state \in PartStates, state.block = "tool_call", NEW e \in PartEvents,
           e.part \in Items, NEW held \in Seq(Seq(Nat)), Tells(e)
    PROVE  LET d == UpdatedChunks(state, e, held)
           IN  \/ /\ d.state = state /\ d.chunks = <<>>
                  /\ IsState(ReportOf(e)) => ReportOf(e) = state.lastState
                  /\ e.payload # None => IsState(ReportOf(e))
               \/ Calling(state, e, ReportOf(e), d)
<1> DEFINE d == UpdatedChunks(state, e, held)
           own == ToolPartChunks(state, e)
<1>1. HeldChunks(state, e.part, held) = Nothing(state)
  BY HeldIsPlain
<1>2. OwnChunks(Nothing(state).state, e) = own
  BY DEF OwnChunks, Nothing
<1>3. d.state = own.state /\ d.chunks = <<>> \o own.chunks
  BY <1>1, <1>2 DEF UpdatedChunks, Nothing
<1> HIDE DEF d, own
<1>4. CASE /\ own = Nothing(state) /\ (IsState(ReportOf(e)) => ReportOf(e) = state.lastState)
           /\ (e.payload # None => IsState(ReportOf(e)))
  <2>1. d.state = state /\ d.chunks = <<>> \o <<>>
    BY <1>3, <1>4 DEF Nothing
  <2> QED  BY <1>4, <2>1 DEF d
<1>5. CASE Calling(state, e, ReportOf(e), own)
  <2>1. PICK c \in Calls : own.chunks = <<c>>
    BY <1>5 DEF Calling
  <2>2. d.chunks = own.chunks
    BY <1>3, <2>1
  <2>3. Calling(state, e, ReportOf(e), d)
    BY <1>3, <1>5, <2>2 DEF Calling
  <2> QED  BY <2>3 DEF d
<1>6. \/ /\ own = Nothing(state) /\ (IsState(ReportOf(e)) => ReportOf(e) = state.lastState)
         /\ (e.payload # None => IsState(ReportOf(e)))
      \/ Calling(state, e, ReportOf(e), own)
  BY ToolPartIsCall DEF own
<1> QED  BY <1>4, <1>5, <1>6

\* What an event makes of the state of its part.
LEMMA UpsertIs ==
    ASSUME NEW state \in Optional(PartStates), NEW e \in PartEvents
    PROVE  LET new == Upsert(state, e)
           IN  /\ new = None => BlockOfPart(e) \notin Blocks
               /\ new # None =>
                    /\ new \in PartStates /\ new.block = BlockOfPart(e)
                    /\ RoleOf(e.role) # None => new.role = RoleOf(e.role)
                    /\ IF state = None
                       THEN new.toolChunks = 0 /\ new.lastState = None /\ new.buffer = <<>>
                       ELSE /\ new.toolChunks = state.toolChunks
                            /\ new.lastState = state.lastState
<1> DEFINE block == BlockOfPart(e)
           role == RoleOf(e.role)
           new == Upsert(state, e)
<1>1. block \in Optional(Blocks)
  BY DEF BlockOfPart, BlockOf, Classified, Optional, Blocks
<1>2. role \in Optional(Strings)
  BY DEF RoleOf, PartEvents, Optional, Strings
<1> HIDE DEF block, role
<1>3. CASE block = None
  <2>1. new = None /\ None \notin Blocks
    BY <1>3, NoneIsNoDatum DEF Upsert, block, Blocks, Strings
  <2> QED  BY <2>1, <1>3 DEF block
<1>4. CASE block # None /\ state = None
  <2>1. new = [block |-> block, role |-> role, buffer |-> <<>>, toolChunks |-> 0, lastState |-> None]
    BY <1>4 DEF Upsert, block, role
  <2>2. new \in PartStates
    BY <1>1, <1>2, <1>4, <2>1 DEF PartStates, Optional
  <2>3. new # None
    BY <2>2, NoneIsNoState
  <2> QED  BY <1>4, <2>1, <2>2, <2>3 DEF block, role
<1>5. CASE block # None /\ state # None
  <2>0. state \in PartStates
    BY <1>5 DEF Optional
  <2> DEFINE r == IF role = None THEN state.role ELSE role
  <2>1. new = [state EXCEPT !.block = block, !.role = r]
    BY <1>5 DEF Upsert, block, role
  <2>2. r \in Optional(Strings) /\ block \in Blocks
    BY <1>1, <1>2, <1>5, <2>0 DEF PartStates, Optional
  <2> HIDE DEF r, new
  <2>3. /\ new \in PartStates /\ new.block = block /\ new.role = r
        /\ new.toolChunks = state.toolChunks /\ new.lastState = state.lastState
    BY <2>0, <2>1, <2>2 DEF PartStates
  <2>4. new # None
    BY <2>3, NoneIsNoState
  <2>5. role # None => r = role
    BY DEF r
  <2> QED  BY <1>5, <2>3, <2>4, <2>5 DEF block, role, new
<1> QED  BY <1>3, <1>4, <1>5

-----------------------------------------------------------------------------
(* Deltas and parts.                                                       *)

\* What a client sees of p is what it sees of q.
Like(p, q) == q.out = p.out /\ q.sent = p.sent /\ q.buffer = p.buffer /\ q.emitted = p.emitted

\* A client sees nothing of the counts.
LEMMA UsageSet ==
    ASSUME NEW p, Good(p), NEW u \in Usages
    PROVE  LET q == [p EXCEPT !.usage = u]
           IN  Good(q) /\ Like(p, q) /\ q.parts = p.parts /\ q.held = p.held /\ q.asked = p.asked
  BY DEF Good, Processors, Like

\* A client sees nothing of the set of requests.
LEMMA AskedSet ==
    ASSUME NEW p, Good(p), NEW a \in SUBSET Nat
    PROVE  LET q == [p EXCEPT !.asked = a]
           IN  Good(q) /\ Like(p, q) /\ q.parts = p.parts /\ q.held = p.held /\ q.asked = a
  BY DEF Good, Processors, Like

\* It sees nothing of what is held ...
LEMMA HeldSet ==
    ASSUME NEW p, Good(p), NEW i \in Items, NEW h \in Seq(Seq(Nat))
    PROVE  LET q == [p EXCEPT !.held[i] = h]
           IN  Good(q) /\ Like(p, q) /\ q.parts = p.parts /\ q.asked = p.asked
<1> DEFINE held == [p.held EXCEPT ![i] = h]
           q == [p EXCEPT !.held = held]
<1>1. p \in Processors /\ held \in [Items -> Seq(Seq(Nat))]
  BY DEF Good, Processors
<1> HIDE DEF held
<1>2. q \in Processors /\ Like(p, q) /\ q.parts = p.parts /\ q.asked = p.asked
  BY <1>1 DEF Processors, Like
<1>3. [p EXCEPT !.held[i] = h] = q
  BY DEF held
<1> HIDE DEF q
<1>4. Good(q)
  BY <1>2 DEF Good, Like
<1> QED  BY <1>2, <1>3, <1>4

\* ... nor of the state of a part.
LEMMA PartSet ==
    ASSUME NEW p, Good(p), NEW i \in Items, NEW s \in PartStates
    PROVE  LET q == [p EXCEPT !.parts[i] = s]
           IN  /\ Good(q) /\ Like(p, q) /\ q.asked = p.asked
               /\ q.parts = [p.parts EXCEPT ![i] = s]
<1> DEFINE parts == [p.parts EXCEPT ![i] = s]
           q == [p EXCEPT !.parts = parts]
<1>1. p \in Processors /\ parts \in [Items -> Optional(PartStates)]
  BY DEF Good, Processors, Optional
<1> HIDE DEF parts
<1>2. q \in Processors /\ Like(p, q) /\ q.parts = parts /\ q.asked = p.asked
  BY <1>1 DEF Processors, Like
<1>3. [p EXCEPT !.parts[i] = s] = q
  BY DEF parts
<1> HIDE DEF q
<1>4. Good(q)
  BY <1>2 DEF Good, Like
<1> QED  BY <1>2, <1>3, <1>4 DEF parts

\* The state of a part as far as its tool call is concerned.
CallCount(state) == IF state = None THEN 0 ELSE state.toolChunks
LastState(state) == IF state = None THEN None ELSE state.lastState
Kept(old, new) ==
    /\ CallCount(new) = CallCount(old) /\ LastState(new) = LastState(old)
    /\ new = None => old = None

\* Nothing is sent but text and reasoning.
Says(p, q) ==
    /\ Good(q)
    /\ q.asked = p.asked /\ q.sent["tool_call"] = p.sent["tool_call"]
    /\ \A i \in Items : Kept(p.parts[i], q.parts[i])
    /\ Adds(p, q, Streamed)
    /\ TextKept(p, q)

\* Nothing is sent where a client sees no change, ...
LEMMA LikeSays ==
    ASSUME NEW p, Good(p), NEW q, Good(q), Like(p, q), q.asked = p.asked,
           \A i \in Items : Kept(p.parts[i], q.parts[i])
    PROVE  Says(p, q)
<1>1. Adds(p, q, Streamed)
  BY AddsNothing DEF Good, Like
<1> QED  BY <1>1 DEF Says, TextKept, Like

\* ... text where text is streamed, ...
LEMMA StreamsSays ==
    ASSUME NEW p, Good(p), NEW q, Streams(p, q)
    PROVE  Says(p, q)
  BY DEF Says, Streams, Same, Kept

\* ... and text after text is text.
LEMMA SaysTwice ==
    ASSUME NEW p, NEW q, NEW r, Good(p), Says(p, q), Says(q, r)
    PROVE  Says(p, r)
<1>1. Adds(p, r, Streamed \cup Streamed)
  BY AddsTwice DEF Says, Good
<1> QED  BY <1>1 DEF Says, Kept, TextKept

\* A delta only gives text (DeltaArrives), ...
LEMMA DeltaSays ==
    ASSUME NEW p, Good(p), NEW e, e.part \in Items, e.delta \in Seq(Nat), NEW late
    PROVE  Says(p, DeltaArrives(p, e, late))
<1> DEFINE state == p.parts[e.part]
           delta == DeltaChunks(state, e.part, e.delta, "delta_event")
           q == DeltaArrives(p, e, late)
<1>0. /\ state \in Optional(PartStates)
      /\ p.parts \in [Items -> Optional(PartStates)]
      /\ p.held[e.part] \in Seq(Seq(Nat))
  BY DEF Good, Processors
<1> HIDE DEF state
<1>1. CASE state = None
  <2>1. q = [p EXCEPT !.held[e.part] = Append(@, e.delta)]
    BY <1>1 DEF DeltaArrives, state
  <2>2. q = [p EXCEPT !.held[e.part] = Append(p.held[e.part], e.delta)]
    BY <2>1, <1>0 DEF Good, Processors
  <2>3. Append(p.held[e.part], e.delta) \in Seq(Seq(Nat))
    BY <1>0
  <2> HIDE DEF q
  <2>4. Good(q) /\ Like(p, q) /\ q.parts = p.parts /\ q.asked = p.asked
    BY <2>2, <2>3, HeldSet
  <2>5. Says(p, q)
    BY <2>4, LikeSays DEF Kept
  <2> QED  BY <2>5 DEF q
<1>2. CASE state # None /\ (state.role \in NotForClients \/ state.block = "tool_call")
  <2>1. q = p
    BY <1>2 DEF DeltaArrives, state
  <2> QED  BY <2>1, StreamsNothing, StreamsSays
<1>3. CASE state # None /\ ~(state.role \in NotForClients \/ state.block = "tool_call")
  <2>1. state \in PartStates /\ state.block \in Plain
    BY <1>0, <1>3 DEF Optional, PartStates, Blocks, Plain
  <2>2. "delta_event" \in Sources
    BY DEF Sources
  <2>3. Keeps(state, delta.state) /\ delta.chunks \in Seq(PlainChunks)
    BY <2>1, <2>2, DeltaIsPlain
  <2> DEFINE r == [p EXCEPT !.parts[e.part] = delta.state]
  <2>4. q = EmitChunks(r, delta.chunks, late)
    BY <1>3 DEF DeltaArrives, state
  <2> HIDE DEF delta
  <2>5. Good(r) /\ Like(p, r) /\ r.asked = p.asked /\ r.parts = [p.parts EXCEPT ![e.part] = delta.state]
    BY <2>3, PartSet DEF Keeps
  <2> HIDE DEF r
  <2>6. delta.state \in PartStates /\ delta.state # None
    BY <2>3, NoneIsNoState DEF Keeps
  <2>7. \A i \in Items : Kept(p.parts[i], r.parts[i])
    BY <1>0, <1>3, <2>3, <2>5, <2>6 DEF Kept, Keeps, state, CallCount, LastState
  <2>8. Says(p, r)
    BY <2>5, <2>7, LikeSays
  <2>9. Says(r, q)
    BY <2>3, <2>4, <2>5, EmitChunksStreams, StreamsSays
  <2> QED  BY <2>8, <2>9, SaysTwice
<1> QED  BY <1>1, <1>2, <1>3

\* A tool call is shown, unless it is all that was ever shown of tool calls.
Shows(p, q, e) ==
    LET i == e.part
        payload == ReportOf(e)
        o == q.out[Len(q.out)]
    IN  /\ Good(q) /\ q.asked = p.asked /\ TextKept(p, q)
        /\ \A j \in Items \ {i} : q.parts[j] = p.parts[j]
        /\ q.parts[i] # None /\ CallCount(q.parts[i]) > 0
        /\ LastState(q.parts[i]) = IF IsState(payload) THEN payload ELSE LastState(p.parts[i])
        /\ IsState(payload) => payload # LastState(p.parts[i])
        /\ \/ /\ Adds(p, q, Streamed)
              /\ CallCount(p.parts[i]) = 0
              /\ p.sent["tool_call"] = <<payload>> /\ q.sent["tool_call"] = <<payload>>
           \/ /\ Len(q.out) > Len(p.out)
              /\ Adds(p, q, Streamed \cup {o}) /\ \A n \in Len(p.out) + 1 .. Len(q.out) - 1 : q.out[n] \in Streamed
              /\ o \in Outputs /\ IsArtifact(o) /\ ~IsSnapshot(o) /\ o.block = "tool_call"
              /\ o.part = i /\ o.payload = payload /\ o.content = <<e.fragment>>
              /\ q.sent["tool_call"] \in {<<payload>>, Append(p.sent["tool_call"], payload)}

\* ... an event of a part gives text or shows one change of its tool call (PartArrives), ...
LEMMA PartSays ==
    ASSUME NEW p, Good(p), NEW e \in PartEvents, e.part \in Items, Tells(e), NEW late
    PROVE  LET q == PartArrives(p, e, late)
           IN  \/ Says(p, q) /\ (IsState(ReportOf(e)) => ReportOf(e) = LastState(p.parts[e.part]))
                  /\ (e.payload # None => IsState(ReportOf(e)))
               \/ Shows(p, q, e) /\ ReportOf(e) \in Payloads /\ ReportOf(e).call = e.part
<1> DEFINE i == e.part
           old == p.parts[i]
           state == Upsert(old, e)
           updated == UpdatedChunks(state, e, p.held[i])
           r == [p EXCEPT !.held[i] = <<>>]
           s == [r EXCEPT !.parts[i] = updated.state]
           q == PartArrives(p, e, late)
           Quiet == /\ IsState(ReportOf(e)) => ReportOf(e) = LastState(old)
                    /\ e.payload # None => IsState(ReportOf(e))
<1>0. /\ old \in Optional(PartStates) /\ p.parts \in [Items -> Optional(PartStates)]
      /\ p.held[i] \in Seq(Seq(Nat))
  BY DEF Good, Processors
<1>1. /\ state = None => BlockOfPart(e) \notin Blocks
      /\ state # None =>
           /\ state \in PartStates /\ state.block = BlockOfPart(e)
           /\ RoleOf(e.role) # None => state.role = RoleOf(e.role)
           /\ CallCount(state) = CallCount(old) /\ LastState(state) = LastState(old)
  BY <1>0, UpsertIs DEF CallCount, LastState
<1>2. Good(r) /\ Like(p, r) /\ r.parts = p.parts /\ r.asked = p.asked /\ Says(p, r)
  <2>1. <<>> \in Seq(Seq(Nat))
    OBVIOUS
  <2>2. Good(r) /\ Like(p, r) /\ r.parts = p.parts /\ r.asked = p.asked
    BY <2>1, HeldSet
  <2> HIDE DEF r
  <2>3. Says(p, r)
    BY <2>2, LikeSays DEF Kept
  <2> QED  BY <2>2, <2>3
<1> HIDE DEF r
<1>3. BlockOfPart(e) # "tool_call" => Quiet
  BY DEF Tells
<1>4. CASE state = None
  <2>1. q = r
    BY <1>4 DEF PartArrives, r
  <2>2. Quiet
    BY <1>1, <1>3, <1>4 DEF Blocks
  <2> QED  BY <1>2, <2>1, <2>2
<1>5. CASE state # None /\ state.role \in NotForClients
  <2>1. q = [r EXCEPT !.parts[i] = state]
    BY <1>5 DEF PartArrives, r
  <2> HIDE DEF q, state
  <2>2. Good(q) /\ Like(r, q) /\ q.asked = r.asked /\ q.parts = [r.parts EXCEPT ![i] = state]
    BY <1>1, <1>2, <1>5, <2>1, PartSet
  <2>3. \A j \in Items : Kept(r.parts[j], q.parts[j])
    BY <1>0, <1>1, <1>2, <1>5, <2>2 DEF Kept
  <2>4. Says(r, q)
    BY <1>2, <2>2, <2>3, LikeSays
  <2>5. Says(p, q)
    BY <1>2, <2>4, SaysTwice
  <2>6. Quiet
    <3>1. RoleOf(e.role) # "agent"
      BY <1>1, <1>5, NoneIsNoDatum DEF NotForClients, Strings
    <3> QED  BY <3>1 DEF Tells
  <2> QED  BY <2>5, <2>6 DEF q
<1>6. CASE state # None /\ ~(state.role \in NotForClients)
  <2>1. q = EmitChunks(s, updated.chunks, late)
    BY <1>6 DEF PartArrives, r
  <2>2. state \in PartStates
    BY <1>1, <1>6
  <2> HIDE DEF q, state
  <2>3. CASE state.block \in Plain
    <3>1. Keeps(state, updated.state) /\ updated.chunks \in Seq(PlainChunks)
      BY <1>0, <2>2, <2>3, UpdatedPlain
    <3> HIDE DEF updated
    <3>2. Good(s) /\ Like(r, s) /\ s.asked = r.asked /\ s.parts = [r.parts EXCEPT ![i] = updated.state]
      BY <1>2, <3>1, PartSet DEF Keeps
    <3> HIDE DEF s
    <3>3. updated.state \in PartStates /\ updated.state # None
      BY <3>1, NoneIsNoState DEF Keeps
    <3>4. \A j \in Items : Kept(r.parts[j], s.parts[j])
      BY <1>0, <1>1, <1>2, <1>6, <3>1, <3>2, <3>3 DEF Kept, Keeps, CallCount, LastState
    <3>5. Says(r, s)
      BY <1>2, <3>2, <3>4, LikeSays
    <3>6. Says(s, q)
      BY <2>1, <3>1, <3>2, EmitChunksStreams, StreamsSays
    <3>7. Says(p, q)
      BY <1>2, <3>2, <3>5, <3>6, SaysTwice
    <3>8. Quiet
      BY <1>1, <1>3, <1>6, <2>3 DEF Plain
    <3> QED  BY <3>7, <3>8 DEF q
  <2>4. CASE state.block = "tool_call"
    <3>1. \/ /\ updated.state = state /\ updated.chunks = <<>>
             /\ IsState(ReportOf(e)) => ReportOf(e) = state.lastState
             /\ e.payload # None => IsState(ReportOf(e))
          \/ Calling(state, e, ReportOf(e), updated)
      BY <1>0, <2>2, <2>4, UpdatedCall
    <3> HIDE DEF updated
    <3>2. updated.state \in PartStates /\ updated.state # None
      BY <2>2, <3>1, NoneIsNoState DEF Calling
    <3>3. Good(s) /\ Like(r, s) /\ s.asked = r.asked /\ s.parts = [r.parts EXCEPT ![i] = updated.state]
      BY <1>2, <3>2, PartSet
    <3> HIDE DEF s
    <3>4. CASE /\ updated.state = state /\ updated.chunks = <<>>
               /\ IsState(ReportOf(e)) => ReportOf(e) = state.lastState
               /\ e.payload # None => IsState(ReportOf(e))
      <4>1. q = s
        BY <2>1, <3>4, EmitFewChunks
      <4>2. \A j \in Items : Kept(r.parts[j], s.parts[j])
        BY <1>0, <1>1, <1>2, <1>6, <3>2, <3>3, <3>4 DEF Kept
      <4>3. Says(p, q)
        BY <1>2, <3>3, <4>1, <4>2, LikeSays, SaysTwice
      <4>4. Quiet
        BY <1>1, <1>6, <3>4 DEF LastState
      <4> QED  BY <4>3, <4>4 DEF q
    <3>5. CASE Calling(state, e, ReportOf(e), updated)
      <4> DEFINE payload == ReportOf(e)
      <4>1. PICK c \in Calls : /\ updated.chunks = <<c>>
                               /\ c.part = i /\ c.content = <<e.fragment>> /\ c.payload = payload
                               /\ c.append = (state.toolChunks > 0)
        BY <3>5 DEF Calling
      <4>2. /\ payload \in Payloads /\ payload.call = i
            /\ c.block = "tool_call" /\ state.toolChunks = CallCount(old)
            /\ old # None => LastState(old) = state.lastState
            /\ LastState(state) = LastState(old) /\ LastState(state) = state.lastState
        <5>1. c.payload \in Payloads /\ c.block = "tool_call"
          BY DEF Calls, Chunks, Fits, Plain, Optional
        <5>2. e.payload # None => e.payload.call = i
          BY DEF Tells
        <5>3. PartPayload(e) # None => PartPayload(e).call = i
          BY DEF PartPayload
        <5>4. payload.call = i
          BY <4>1, <5>1, <5>2, <5>3, NoneIsNoPayload DEF ReportOf
        <5> QED  BY <1>1, <1>6, <4>1, <5>1, <5>4 DEF CallCount, LastState
      <4> DEFINE f == Flush(s)
                 o == Artifact(c, f.emitted, c.source)
      <4>3. q = EmitChunk(s, c, late)
        BY <2>1, <4>1, EmitFewChunks
      <4>4. /\ Good(q) /\ Same(s, q) /\ TextKept(s, q)
            /\ \/ q = f /\ f.sent["tool_call"] = IF c.append THEN f.sent["tool_call"] \o <<payload>> ELSE <<payload>>
               \/ /\ o \in Outputs /\ ~IsSnapshot(o)
                  /\ q.out = Append(f.out, o)
                  /\ q.sent["tool_call"] = IF c.append THEN f.sent["tool_call"] \o <<payload>> ELSE <<payload>>
        BY <3>3, <4>1, <4>3, CallStreams
      <4>5. Streams(s, f)
        BY <3>3, FlushStreams
      <4>6. /\ IsArtifact(o) /\ o.block = "tool_call" /\ o.part = i /\ o.payload = payload
            /\ o.content = <<e.fragment>>
        BY <4>1, <4>2 DEF Artifact, IsArtifact
      <4> HIDE DEF f, o, payload
      <4>7. Good(p) /\ Good(f) /\ p \in Processors /\ f \in Processors /\ q \in Processors /\ s \in Processors
        BY <3>3, <4>4, <4>5 DEF Good, Streams
      <4>8. Adds(p, f, Streamed) /\ f.sent["tool_call"] = p.sent["tool_call"] /\ p.sent["tool_call"] \in Seq(Payloads)
        <5>1. s.out = p.out /\ s.sent = p.sent
          BY <1>2, <3>3 DEF Like
        <5> QED  BY <4>5, <4>7, <5>1 DEF Streams, Adds, Processors
      <4>9. /\ q.asked = p.asked /\ TextKept(p, q)
            /\ \A j \in Items \ {i} : q.parts[j] = p.parts[j]
            /\ q.parts[i] = updated.state
        BY <1>0, <1>2, <3>3, <4>4 DEF Same, TextKept, Like
      <4>10. /\ q.parts[i] # None /\ CallCount(q.parts[i]) > 0
             /\ LastState(q.parts[i]) = IF IsState(payload) THEN payload ELSE LastState(old)
             /\ IsState(payload) => payload # LastState(old)
        <5>1. state.toolChunks \in Nat
          BY <2>2 DEF PartStates
        <5> QED  BY <3>2, <3>5, <4>2, <4>9, <5>1 DEF Calling, CallCount, LastState, payload
      <4>11. CASE q = f /\ f.sent["tool_call"] = IF c.append THEN f.sent["tool_call"] \o <<payload>> ELSE <<payload>>
        <5>1. f.sent["tool_call"] \o <<payload>> # f.sent["tool_call"]
          BY <4>2, <4>8
        <5>2. ~c.append
          BY <4>11, <5>1
        <5>3. CallCount(old) = 0
          <6>1. state.toolChunks \in Nat
            BY <2>2 DEF PartStates
          <6>2. ~(state.toolChunks > 0)
            BY <4>1, <5>2, Zenon
          <6> QED  BY <4>2, <6>1, <6>2
        <5> QED  BY <4>2, <4>4, <4>8, <4>9, <4>10, <4>11, <5>2, <5>3 DEF Shows, payload, q
      <4>12. CASE /\ o \in Outputs /\ ~IsSnapshot(o)
                  /\ q.out = Append(f.out, o)
                  /\ q.sent["tool_call"] = IF c.append THEN f.sent["tool_call"] \o <<payload>> ELSE <<payload>>
        <5>1. Adds(f, q, {o}) /\ Len(q.out) = Len(f.out) + 1 /\ q.out[Len(q.out)] = o
          BY <4>7, <4>12, AddsOne
        <5>2. Adds(p, q, Streamed \cup {o})
          BY <4>7, <4>8, <5>1, AddsTwice
        <5>3. Len(p.out) \in Nat /\ Len(f.out) \in Nat
          BY <4>7 DEF Processors
        <5>4. Len(q.out) > Len(p.out)
          BY <4>8, <5>1, <5>3 DEF Adds
        <5>5. \A n \in Len(p.out) + 1 .. Len(q.out) - 1 : q.out[n] \in Streamed
          <6> TAKE n \in Len(p.out) + 1 .. Len(q.out) - 1
          <6>1. n \in Len(p.out) + 1 .. Len(f.out) /\ n \in 1 .. Len(f.out)
            BY <5>1, <5>3
          <6> QED  BY <4>8, <5>1, <6>1 DEF Adds
        <5>6. q.sent["tool_call"] \in {<<payload>>, Append(p.sent["tool_call"], payload)}
          <6>1. f.sent["tool_call"] \o <<payload>> = Append(p.sent["tool_call"], payload)
            BY <4>2, <4>8
          <6> QED  BY <4>12, <6>1
        <5>7. Shows(p, q, e)
          BY <4>4, <4>6, <4>9, <4>10, <4>12, <5>1, <5>2, <5>4, <5>5, <5>6 DEF Shows, payload
        <5> QED  BY <4>2, <5>7 DEF payload, q
      <4> QED  BY <4>4, <4>11, <4>12
    <3> QED  BY <3>1, <3>4, <3>5
  <2> QED  BY <2>2, <2>3, <2>4 DEF PartStates, Blocks, Plain
<1> QED  BY <1>4, <1>5, <1>6

-----------------------------------------------------------------------------
(* Requests, and any event.                                                *)

\* A request is shown, after what was in the buffer.
Prompts(p, q, phase, k) ==
    /\ Good(q) /\ TextKept(p, q) /\ q.buffer = None
    /\ q.parts = p.parts /\ q.sent["tool_call"] = p.sent["tool_call"]
    /\ Len(q.out) > Len(p.out)
    /\ Adds(p, q, Streamed \cup {Interrupt(phase, k)})
    /\ q.out[Len(q.out)] = Interrupt(phase, k)
    /\ \A n \in Len(p.out) + 1 .. Len(q.out) - 1 : q.out[n] \in Streamed

\* ... and a request is shown after what was in the buffer (InterruptStatus).
LEMMA StatusPrompts ==
    ASSUME NEW p, Good(p), NEW phase \in {"asked", "resolved"}, NEW k \in Nat
    PROVE  LET q == InterruptStatus(p, phase, k)
           IN  Prompts(p, q, phase, k) /\ q.asked = p.asked
<1> DEFINE f == Flush(p)
           o == Interrupt(phase, k)
           q == [f EXCEPT !.out = Append(@, o)]
<1>1. Streams(p, f) /\ f.buffer = None /\ Good(f)
  BY FlushStreams DEF Streams
<1> HIDE DEF f
<1>2. o \in Outputs /\ ~IsArtifact(o) 
  BY DEF Outputs, Interrupt, IsArtifact
<1> HIDE DEF o
<1>3. p \in Processors /\ f \in Processors
  BY <1>1 DEF Good
<1>4. /\ q \in Processors /\ q.out = Append(f.out, o) /\ q.buffer = f.buffer
      /\ q.parts = f.parts /\ q.sent = f.sent /\ q.asked = f.asked /\ q.emitted = f.emitted
  <2>1. Append(f.out, o) \in Seq(Outputs)
    BY <1>2, <1>3 DEF Processors
  <2>2. q = [f EXCEPT !.out = Append(f.out, o)]
    OBVIOUS
  <2> HIDE DEF q
  <2> QED  BY <1>3, <2>1, <2>2 DEF Processors
<1> HIDE DEF q
<1>5. Adds(f, q, {o}) /\ Len(q.out) = Len(f.out) + 1 /\ q.out[Len(q.out)] = o
  <2>1. f \in Processors /\ q.out = Append(f.out, o)
    BY <1>3, <1>4
  <2> QED  BY ONLY <2>1, AddsOne
<1>6. Adds(p, f, Streamed) /\ Adds(p, q, Streamed \cup {o})
  <2>1. Adds(p, f, Streamed)
    BY <1>1 DEF Streams
  <2>2. q \in Processors
    BY <1>4
  <2> QED  BY <1>3, <1>5, <2>1, <2>2, AddsTwice
<1>7. Len(p.out) \in Nat /\ Len(f.out) \in Nat /\ Len(p.out) <= Len(f.out)
  <2>1. Len(p.out) \in Nat /\ Len(f.out) \in Nat
    BY <1>3 DEF Processors
  <2> QED  BY <1>6, <2>1 DEF Adds
<1>8. \A n \in Len(p.out) + 1 .. Len(q.out) - 1 : q.out[n] \in Streamed
  <2> TAKE n \in Len(p.out) + 1 .. Len(q.out) - 1
  <2>1. n \in Len(p.out) + 1 .. Len(f.out) /\ n \in 1 .. Len(f.out)
    BY <1>5, <1>7
  <2> QED  BY <1>5, <1>6, <2>1 DEF Adds
<1>9. TextOf(q.out) = TextOf(f.out)
  <2>1. f.out \in Seq(Outputs)
    BY <1>3 DEF Processors
  <2>2. TextOf(q.out) = TextOf(f.out) \o <<>> /\ TextOf(f.out) \in Seq(Nat)
    BY <1>2, <1>4, <2>1, OutputIsSaid
  <2> QED  BY <2>2
<1>10. Good(q) /\ TextKept(p, q)
  <2>1. f.out \in Seq(Outputs)
    BY <1>3 DEF Processors
  <2>2. Begun(f.out, f.emitted) => Begun(q.out, q.emitted)
    BY <1>2, <1>4, <2>1, BegunAppend
  <2> QED  BY <1>1, <1>4, <1>9, <2>2 DEF Good, TextKept, Streams
<1>11. q.parts = p.parts /\ q.sent["tool_call"] = p.sent["tool_call"] /\ q.asked = p.asked
  BY <1>1, <1>4 DEF Streams, Same
<1>12. Prompts(p, q, phase, k) /\ q.asked = p.asked
  BY <1>1, <1>4, <1>5, <1>6, <1>7, <1>8, <1>10, <1>11 DEF Prompts, o
<1> QED  BY <1>12 DEF q, InterruptStatus, f, o

\* A request is what it was, where the counts changed first.
LEMMA LikePrompts ==
    ASSUME NEW p, Good(p), NEW r, Good(r), Like(p, r), r.parts = p.parts, NEW q, NEW phase, NEW k,
           Prompts(r, q, phase, k)
    PROVE  Prompts(p, q, phase, k)
  BY DEF Prompts, Like, TextKept, Adds

\* Text is what it was, where the counts changed first, ...
LEMMA LikeThenSays ==
    ASSUME NEW p, Good(p), NEW r, Good(r), Like(p, r), r.parts = p.parts, r.asked = p.asked, NEW q,
           Says(r, q)
    PROVE  Says(p, q)
  BY DEF Says, Like, TextKept, Adds, Kept

\* ... and so is a tool call.
LEMMA LikeThenShows ==
    ASSUME NEW p, Good(p), NEW r, Good(r), Like(p, r), r.parts = p.parts, r.asked = p.asked, NEW q,
           NEW e, Shows(r, q, e)
    PROVE  Shows(p, q, e)
  BY DEF Shows, Like, TextKept, Adds

\* Counts that are merged are counts.
LEMMA MergedIsUsage ==
    ASSUME NEW base \in Usages, NEW e \in Events
    PROVE  MergedUsage(base, UsageOf(e)) \in Usages
<1>1. CASE e.type # "message.finalized"
  BY <1>1 DEF UsageOf, MergedUsage
<1>2. CASE e.type = "message.finalized"
  <2> DEFINE u == UsageOf(e)
  <2>1. e.tokens \in Usages
    BY <1>2 DEF Events, PartEvents, Usages
  <2>2. u \in Usages
    <3>1. u = WithTotal(e.tokens)
      BY <1>2 DEF UsageOf
    <3>2. CASE e.tokens.total = None /\ e.tokens.input # None /\ e.tokens.output # None
      <4>1. e.tokens.input \in Nat /\ e.tokens.output \in Nat
        BY <2>1, <3>2 DEF Usages, Counts, Optional
      <4>2. e.tokens.input + e.tokens.output \in Nat
        BY <4>1
      <4>3. u = [e.tokens EXCEPT !.total = e.tokens.input + e.tokens.output]
        BY <3>1, <3>2 DEF WithTotal
      <4> QED  BY <2>1, <4>2, <4>3 DEF Usages, Optional, Counts
    <3> QED  BY <2>1, <3>1, <3>2 DEF WithTotal
  <2> HIDE DEF u
  <2>3. DOMAIN base = Counts /\ \A k \in Counts : base[k] \in Optional(Nat)
    BY DEF Usages
  <2>4. MergedUsage(base, u) \in Usages
    BY <2>2, <2>3 DEF MergedUsage, Usages
  <2> QED  BY <2>4 DEF u
<1> QED  BY <1>1, <1>2

\* Events that PartArrives handles.
IsPartEvent(e) == e.type = "message.part.updated" /\ e.part # None

\* What an event does.
LEMMA HandleEventIs ==
    ASSUME NEW p, Good(p), NEW e \in Events, IsPartEvent(e) => Tells(e), NEW late
    PROVE  LET q == HandleEvent(p, e, late)
           IN  \/ /\ Says(p, q)
                  /\ e.type = "asked" => e.request \in p.asked
                  /\ e.type = "resolved" => e.request \notin p.asked
                  /\ IsPartEvent(e) =>
                       /\ IsState(ReportOf(e)) => ReportOf(e) = LastState(p.parts[e.part])
                       /\ e.payload # None => IsState(ReportOf(e))
               \/ /\ IsPartEvent(e) /\ e.part \in Items
                  /\ Shows(p, q, e) /\ ReportOf(e) \in Payloads /\ ReportOf(e).call = e.part
               \/ /\ e.type = "asked" /\ e.request \in Nat \ p.asked
                  /\ Prompts(p, q, "asked", e.request) /\ q.asked = p.asked \cup {e.request}
               \/ /\ e.type = "resolved" /\ e.request \in p.asked
                  /\ Prompts(p, q, "resolved", e.request) /\ q.asked = p.asked \ {e.request}
<1> DEFINE r == [p EXCEPT !.usage = MergedUsage(@, UsageOf(e))]
           q == HandleEvent(p, e, late)
<1>1. Good(r) /\ Like(p, r) /\ r.parts = p.parts /\ r.asked = p.asked
  <2>1. MergedUsage(p.usage, UsageOf(e)) \in Usages
    BY MergedIsUsage DEF Good, Processors
  <2>2. r = [p EXCEPT !.usage = MergedUsage(p.usage, UsageOf(e))]
    OBVIOUS
  <2> HIDE DEF r
  <2> QED  BY <2>1, <2>2, UsageSet
<1>2. q = CASE e.type = "asked" -> Asked(r, e.request)
            [] e.type = "resolved" -> Resolved(r, e.request)
            [] e.type = "message.part.delta" /\ e.part # None -> DeltaArrives(r, e, late)
            [] e.type = "message.part.updated" /\ e.part # None -> PartArrives(r, e, late)
            [] OTHER -> r
  BY DEF HandleEvent
<1> HIDE DEF r, q
<1>0. p.asked \in SUBSET Nat
  BY DEF Good, Processors
<1>3. CASE e.type = "asked"
  <2>0. e.request \in Nat
    BY <1>3 DEF Events, PartEvents
  <2>1. q = Asked(r, e.request)
    BY <1>2, <1>3
  <2>2. CASE e.request \in r.asked
    <3>1. q = r
      BY <2>1, <2>2 DEF Asked
    <3>2. Says(p, q)
      BY <1>1, <3>1, LikeSays DEF Kept
    <3> QED  BY <1>1, <1>3, <2>2, <3>2 DEF q, IsPartEvent
  <2>3. CASE e.request \notin r.asked
    <3> DEFINE s == [r EXCEPT !.asked = r.asked \cup {e.request}]
    <3>1. q = InterruptStatus(s, "asked", e.request)
      BY <2>1, <2>3 DEF Asked
    <3>2. Good(s) /\ Like(r, s) /\ s.parts = r.parts /\ s.asked = r.asked \cup {e.request}
      BY <1>0, <1>1, <2>0, AskedSet
    <3> HIDE DEF s
    <3>3. Prompts(s, q, "asked", e.request) /\ q.asked = s.asked
      BY <2>0, <3>1, <3>2, StatusPrompts
    <3>4. Prompts(p, q, "asked", e.request)
      BY <1>1, <3>2, <3>3, LikePrompts
    <3> QED  BY <1>1, <1>3, <2>0, <2>3, <3>2, <3>3, <3>4 DEF q
  <2> QED  BY <2>2, <2>3
<1>4. CASE e.type = "resolved"
  <2>0. e.request \in Nat
    BY <1>4 DEF Events, PartEvents
  <2>1. q = Resolved(r, e.request)
    BY <1>2, <1>4
  <2>2. CASE e.request \notin r.asked
    <3>1. q = r
      BY <2>1, <2>2 DEF Resolved
    <3>2. Says(p, q)
      BY <1>1, <3>1, LikeSays DEF Kept
    <3> QED  BY <1>1, <1>4, <2>2, <3>2 DEF q, IsPartEvent
  <2>3. CASE e.request \in r.asked
    <3> DEFINE s == [r EXCEPT !.asked = r.asked \ {e.request}]
    <3>1. q = InterruptStatus(s, "resolved", e.request)
      BY <2>1, <2>3 DEF Resolved
    <3>2. Good(s) /\ Like(r, s) /\ s.parts = r.parts /\ s.asked = r.asked \ {e.request}
      BY <1>0, <1>1, <2>0, AskedSet
    <3> HIDE DEF s
    <3>3. Prompts(s, q, "resolved", e.request) /\ q.asked = s.asked
      BY <2>0, <3>1, <3>2, StatusPrompts
    <3>4. Prompts(p, q, "resolved", e.request)
      BY <1>1, <3>2, <3>3, LikePrompts
    <3> QED  BY <1>1, <1>4, <2>0, <2>3, <3>2, <3>3, <3>4 DEF q
  <2> QED  BY <2>2, <2>3
<1>5. CASE e.type = "message.part.delta" /\ e.part # None
  <2>1. e.part \in Items /\ e.delta \in Seq(Nat)
    BY <1>5 DEF Events, PartEvents, Optional
  <2>2. q = DeltaArrives(r, e, late)
    BY <1>2, <1>5
  <2>3. Says(p, q)
    BY <1>1, <2>1, <2>2, DeltaSays, LikeThenSays
  <2> QED  BY <1>5, <2>3 DEF q, IsPartEvent
<1>6. CASE IsPartEvent(e)
  <2>1. e.part \in Items /\ e \in PartEvents /\ e.type = "message.part.updated"
    BY <1>6 DEF Events, PartEvents, Optional, IsPartEvent
  <2>2. q = PartArrives(r, e, late)
    BY <1>2, <1>6 DEF IsPartEvent
  <2>3. \/ Says(r, q) /\ (IsState(ReportOf(e)) => ReportOf(e) = LastState(r.parts[e.part]))
           /\ (e.payload # None => IsState(ReportOf(e)))
        \/ Shows(r, q, e) /\ ReportOf(e) \in Payloads /\ ReportOf(e).call = e.part
    BY <1>1, <1>6, <2>1, <2>2, PartSays
  <2>4. CASE /\ Says(r, q) /\ (IsState(ReportOf(e)) => ReportOf(e) = LastState(r.parts[e.part]))
             /\ (e.payload # None => IsState(ReportOf(e)))
    <3>1. Says(p, q)
      BY <1>1, <2>4, LikeThenSays
    <3> QED  BY <1>1, <2>1, <2>4, <3>1 DEF q
  <2>5. CASE Shows(r, q, e) /\ ReportOf(e) \in Payloads /\ ReportOf(e).call = e.part
    <3>1. Shows(p, q, e)
      BY <1>1, <2>5, LikeThenShows
    <3> QED  BY <1>6, <2>1, <2>5, <3>1 DEF q
  <2> QED  BY <2>3, <2>4, <2>5
<1>7. CASE /\ e.type # "asked" /\ e.type # "resolved" /\ ~IsPartEvent(e)
           /\ ~(e.type = "message.part.delta" /\ e.part # None)
  <2>1. q = r
    BY <1>2, <1>7 DEF IsPartEvent
  <2>2. Says(p, q)
    BY <1>1, <2>1, LikeSays DEF Kept
  <2> QED  BY <1>7, <2>2 DEF q
<1> QED  BY <1>3, <1>4, <1>5, <1>6, <1>7

-----------------------------------------------------------------------------
(* What the client makes of notifications.                                 *)

\* What the client publishes: an event, which tells of a tool call if at all as the app
\* server does, or nothing.
Proper(x) ==
    /\ x \in Events \cup {NoEvent}
    /\ x \in Events => x.type \notin {"asked", "resolved"}
    /\ IsPartEvent(x) => Tells(x)

\* What is not published is no event.
LEMMA NoEventIsNone == NoEvent \notin Events /\ NoEvent.type = "none"
  BY DEF NoEvent, Events, PartEvents

\* An event of a part that tells of no tool call, and one that carries a payload.
PlainPart(part, type, hints, role, delta, text, n) ==
    [type |-> "message.part.updated", part |-> part, partType |-> type, hints |-> hints,
     role |-> role, delta |-> delta, payload |-> None, text |-> text, state |-> None,
     fragment |-> n]

\* An event of a part without a payload is proper, ...
LEMMA PlainPartIsProper ==
    ASSUME NEW part \in Optional(Items), NEW type \in Optional(Strings), NEW hints \in SUBSET Strings,
           NEW role \in Optional(Strings), NEW delta \in Seq(Nat), NEW text \in Optional(Seq(Nat)),
           NEW n \in Nat
    PROVE  Proper(PlainPart(part, type, hints, role, delta, text, n))
<1> DEFINE x == PlainPart(part, type, hints, role, delta, text, n)
<1>1. None \in Optional(Payloads) /\ None \in Optional(Strings)
  BY DEF Optional
<1>2. x \in PartEvents
  BY <1>1 DEF PartEvents, PlainPart
<1>3. x.type = "message.part.updated" /\ x.payload = None /\ x.state = None
  BY DEF PlainPart
<1> HIDE DEF x
<1>4. Tells(x)
  BY <1>3 DEF Tells, IsState, ReportOf, PartPayload
<1>5. Proper(x)
  BY <1>2, <1>3, <1>4 DEF Proper, Events
<1> QED  BY <1>5 DEF x

\* ... so is the output of a tool call ...
LEMMA ToolEventIsProper ==
    ASSUME NEW part \in Items, NEW payload \in Payloads, payload.call = part, NEW n \in Nat
    PROVE  Proper(ToolEvent(part, payload, n))
<1> DEFINE x == ToolEvent(part, payload, n)
<1>1. /\ part \in Optional(Items) /\ payload \in Optional(Payloads)
      /\ "tool_call" \in Optional(Strings) /\ "assistant" \in Optional(Strings)
      /\ None \in Optional(Seq(Nat)) /\ None \in Optional(Strings) /\ <<>> \in Seq(Nat)
      /\ {} \in SUBSET Strings
  BY DEF Optional, Strings
<1> DEFINE y == PartEvent(part, "tool_call", "assistant")
<1>2. x = [y EXCEPT !.payload = payload, !.fragment = n]
  BY DEF ToolEvent
<1>3. /\ y \in PartEvents /\ y.type = "message.part.updated" /\ y.delta = <<>> /\ y.part = part
      /\ y.partType = "tool_call" /\ y.role = "assistant" /\ y.payload = None
  BY <1>1 DEF PartEvents, PartEvent, Optional
<1> HIDE DEF x, y
<1>4. /\ x \in PartEvents /\ x.type = "message.part.updated" /\ x.delta = <<>> /\ x.part = part
      /\ x.partType = "tool_call" /\ x.role = "assistant" /\ x.payload = payload
  BY <1>1, <1>2, <1>3 DEF PartEvents
<1>5. "tool_call" # None /\ "assistant" # None
  BY NoneIsNoDatum DEF Strings
<1>6. BlockOfPart(x) = "tool_call" /\ RoleOf(x.role) = "agent"
  BY <1>4, <1>5 DEF BlockOfPart, BlockOf, RoleOf
<1>7. Tells(x)
  BY <1>4, <1>6 DEF Tells
<1>8. Proper(x)
  BY <1>4, <1>7 DEF Proper, Events
<1> QED  BY <1>8 DEF x

\* ... and the state of one.
LEMMA ToolPartIsProper ==
    ASSUME NEW part \in Optional(Items), NEW status \in Optional(Strings), NEW n \in Nat
    PROVE  Proper([PartEvent(part, "tool", "assistant") EXCEPT !.state = status, !.fragment = n])
<1> DEFINE x == [PartEvent(part, "tool", "assistant") EXCEPT !.state = status, !.fragment = n]
<1>1. /\ "tool" \in Optional(Strings) /\ "assistant" \in Optional(Strings)
      /\ None \in Optional(Seq(Nat)) /\ None \in Optional(Payloads) /\ <<>> \in Seq(Nat)
      /\ {} \in SUBSET Strings
  BY DEF Optional, Strings
<1> DEFINE y == PartEvent(part, "tool", "assistant")
<1>2. x = [y EXCEPT !.state = status, !.fragment = n]
  OBVIOUS
<1>3. /\ y \in PartEvents /\ y.type = "message.part.updated" /\ y.delta = <<>> /\ y.part = part
      /\ y.partType = "tool" /\ y.role = "assistant" /\ y.payload = None
  BY <1>1 DEF PartEvents, PartEvent, Optional
<1> HIDE DEF x, y
<1>4. /\ x \in PartEvents /\ x.type = "message.part.updated" /\ x.delta = <<>> /\ x.part = part
      /\ x.partType = "tool" /\ x.role = "assistant" /\ x.payload = None
  BY <1>1, <1>2, <1>3 DEF PartEvents
<1>5. "tool" # None /\ "assistant" # None
  BY NoneIsNoDatum DEF Strings
<1>6. BlockOfPart(x) = "tool_call" /\ RoleOf(x.role) = "agent"
  BY <1>4, <1>5 DEF BlockOfPart, BlockOf, RoleOf
<1>7. Tells(x)
  BY <1>4, <1>6 DEF Tells
<1>8. Proper(x)
  BY <1>4, <1>7 DEF Proper, Events
<1> QED  BY <1>8 DEF x

\* An event of another kind.
LEMMA OtherIsProper ==
    ASSUME NEW x, x \in Events, x.type \notin {"asked", "resolved", "message.part.updated"}
    PROVE  Proper(x)
  BY DEF IsPartEvent, Proper

\* The event of the n-th notification is proper.
LEMMA EventOfIsProper ==
    ASSUME NEW note \in Notes, NEW n \in Nat, NEW m \in Optional(Items), NEW words \in Seq(Nat)
    PROVE  Proper(EventOf(note, n, m, words))
<1>e. SUFFICES ASSUME NEW e, e = EventOf(note, n, m, words)
               PROVE  Proper(e)
  OBVIOUS
<1>0. /\ "text" \in Optional(Strings) /\ "reasoning" \in Optional(Strings)
      /\ "assistant" \in Optional(Strings)
      /\ None \in Optional(Strings) /\ None \in Optional(Seq(Nat)) /\ words \in Optional(Seq(Nat))
      /\ <<>> \in Seq(Nat) /\ <<n>> \in Seq(Nat) /\ <<0>> \in Seq(Nat) /\ {} \in SUBSET Strings
      /\ 0 \in Nat
  BY DEF Optional, Strings
<1>1. Proper(NoEvent)
  BY NoEventIsNone DEF IsPartEvent, Proper
<1>2. CASE note.method = "agentMessage/delta"
  <2>1. e = PlainPart(m, "text", {}, "assistant", <<n>>, None, n)
    BY <1>e, <1>2 DEF EventOf, PartEvent, TextEvent, PlainPart
  <2> QED  BY <1>0, <2>1, PlainPartIsProper
<1>3. CASE note.method = "agentMessage/delta of another turn"
  <2>1. note.item \in Optional(Items)
    BY <1>3 DEF Notes
  <2>2. e = PlainPart(note.item, "text", {}, "assistant", <<n>>, None, n)
    BY <1>e, <1>3 DEF EventOf, PartEvent, TextEvent, PlainPart
  <2> QED  BY <1>0, <2>1, <2>2, PlainPartIsProper
<1>4. CASE note.method = "reasoning/summaryTextDelta"
  <2>1. note.item \in Optional(Items)
    BY <1>4 DEF Notes
  <2>2. e = PlainPart(note.item, "reasoning", {}, "assistant", <<n>>, None, n)
    BY <1>e, <1>4 DEF EventOf, PartEvent, TextEvent, PlainPart
  <2> QED  BY <1>0, <2>1, <2>2, PlainPartIsProper
<1>5. CASE note.method = "part"
  <2>1. note.item \in Optional(Items) /\ note.type \in Optional(Strings)
        /\ note.role \in Optional(Strings)
    BY <1>5 DEF Notes
  <2>2. e = PlainPart(note.item, note.type, {}, note.role, <<n>>, None, 0)
    BY <1>e, <1>5 DEF EventOf, PartEvent, TextEvent, PlainPart
  <2> QED  BY <1>0, <2>1, <2>2, PlainPartIsProper
<1>6. CASE note.method = "untyped part"
  <2>1. note.item \in Optional(Items) /\ note.hints \in SUBSET Strings
    BY <1>6 DEF Notes
  <2>2. e = PlainPart(note.item, None, note.hints, "assistant", <<n>>, None, n)
    BY <1>e, <1>6 DEF EventOf, PartEvent, TextEvent, PlainPart
  <2> QED  BY <1>0, <2>1, <2>2, PlainPartIsProper
<1>7. CASE note.method \in {"whole part", "rewritten part"}
  <2>1. note.item \in Optional(Items)
    BY <1>7 DEF Notes
  <2>2. e = PlainPart(note.item, "text", {}, "assistant", <<>>, words, n)
    BY <1>e, <1>7 DEF EventOf, PartEvent, TextEvent, PlainPart
  <2> QED  BY <1>0, <2>1, <2>2, PlainPartIsProper
<1>8. CASE note.method = "echo"
  <2>1. note.item \in Optional(Items)
    BY <1>8 DEF Notes
  <2>2. e = PlainPart(note.item, "text", {}, None, <<0>>, None, 0)
    BY <1>e, <1>8 DEF EventOf, PartEvent, TextEvent, PlainPart
  <2> QED  BY <1>0, <2>1, <2>2, PlainPartIsProper
<1>9. CASE note.method = "item"
  <2>1. note.item \in Optional(Items) /\ note.status \in Optional(Strings)
    BY <1>9 DEF Notes
  <2>2. e = IF StatePayload(note) = None THEN NoEvent ELSE ToolEvent(note.item, StatePayload(note), n)
    BY <1>e, <1>9 DEF EventOf
  <2>3. CASE StatePayload(note) = None
    BY <1>1, <2>2, <2>3
  <2>4. CASE StatePayload(note) # None
    <3>1. note.item # None /\ StatePayload(note) = [kind |-> "state", call |-> note.item,
                                                    status |-> NormalizedStatus(note.status)]
      BY <2>4 DEF StatePayload
    <3>2. NormalizedStatus(note.status) \in Optional(Strings)
      BY <2>1 DEF NormalizedStatus, Optional, Strings
    <3>3. note.item \in Items
      BY <2>1, <3>1 DEF Optional
    <3>4. StatePayload(note) \in Payloads /\ StatePayload(note).call = note.item
      BY <3>1, <3>2, <3>3 DEF Payloads
    <3>5. e = ToolEvent(note.item, StatePayload(note), n)
      BY <2>2, <2>4
    <3> QED  BY <3>3, <3>4, <3>5, ToolEventIsProper
  <2> QED  BY <2>3, <2>4
<1>10. CASE note.method = "outputDelta"
  <2>1. note.item \in Optional(Items)
    BY <1>10 DEF Notes
  <2>2. e = IF note.item = None THEN NoEvent ELSE ToolEvent(note.item, OutputPayload(note, n), n)
    BY <1>e, <1>10 DEF EventOf
  <2>3. CASE note.item # None
    <3>1. note.item \in Items
      BY <2>1, <2>3 DEF Optional
    <3>2. OutputPayload(note, n) \in Payloads /\ OutputPayload(note, n).call = note.item
      BY <3>1 DEF OutputPayload, Payloads
    <3>3. e = ToolEvent(note.item, OutputPayload(note, n), n)
      BY <2>2, <2>3
    <3> QED  BY <3>1, <3>2, <3>3, ToolEventIsProper
  <2> QED  BY <1>1, <2>2, <2>3
<1>11. CASE note.method = "tokenUsage/updated"
  <2> DEFINE tokens == [k \in Counts |-> IF k \in note.counted THEN n ELSE None]
  <2>1. e = [type |-> "message.finalized", tokens |-> tokens]
    BY <1>e, <1>11 DEF EventOf, UsageEvent
  <2>2. tokens \in [Counts -> Optional(Nat)]
    BY DEF Optional
  <2> HIDE DEF tokens
  <2>3. e \in Events /\ e.type = "message.finalized"
    BY <2>1, <2>2 DEF Events
  <2> QED  BY <2>3, OtherIsProper
<1>12. CASE note.method = "any of another session"
  <2>1. e = [type |-> "of another session"]
    BY <1>e, <1>12 DEF EventOf
  <2>2. e \in Events /\ e.type = "of another session"
    BY <2>1 DEF Events
  <2> QED  BY <2>2, OtherIsProper
<1>13. CASE note.method = "part delta"
  <2>1. e = [type |-> "message.part.delta", part |-> note.item, delta |-> <<n>>, fragment |-> n]
    BY <1>e, <1>13 DEF EventOf
  <2>2. note.item \in Optional(Items)
    BY <1>13 DEF Notes
  <2>3. e \in Events /\ e.type = "message.part.delta"
    BY <1>0, <2>1, <2>2 DEF Events
  <2> QED  BY <2>3, OtherIsProper
<1>14. CASE note.method = "tool part"
  <2>1. note.item \in Optional(Items) /\ note.status \in Optional(Strings)
    BY <1>14 DEF Notes
  <2>2. e = [PartEvent(note.item, "tool", "assistant") EXCEPT !.state = note.status, !.fragment = n]
    BY <1>e, <1>14 DEF EventOf
  <2> QED  BY <2>1, <2>2, ToolPartIsProper
<1>15. note.method \in {"agentMessage/delta", "agentMessage/delta of another turn",
          "reasoning/summaryTextDelta", "outputDelta", "part delta", "whole part",
          "rewritten part", "echo", "item", "tokenUsage/updated", "any of another session",
          "part", "untyped part", "tool part"}
  BY DEF Notes
<1> QED  BY <1>2, <1>3, <1>4, <1>5, <1>6, <1>7, <1>8, <1>9, <1>10, <1>11, <1>12, <1>13, <1>14, <1>15

-----------------------------------------------------------------------------
(* What the executor adds.                                                 *)

\* What the executor adds.
LEMMA FinalIs ==
    ASSUME NEW p, Good(p), NEW state \in {"input_required", "failed", "canceled"}, NEW usage \in Usages
    PROVE  LET q == WithFinal(p, state, usage)
               o == Final(state, usage)
           IN  /\ Good(q) /\ q.out = Append(p.out, o)
               /\ q.parts = p.parts /\ q.sent = p.sent /\ q.asked = p.asked /\ q.buffer = p.buffer
               /\ o \in Outputs /\ o.kind = "final" /\ o.state = state
<1> DEFINE q == WithFinal(p, state, usage)
           o == Final(state, usage)
<1>1. o \in Outputs /\ o.kind = "final" /\ o.state = state
  BY DEF Final, Outputs
<1>2. q = [p EXCEPT !.out = Append(p.out, o)] /\ p \in Processors
  BY DEF WithFinal, Good
<1> HIDE DEF o, q
<1>3. Append(p.out, o) \in Seq(Outputs)
  BY <1>1, <1>2 DEF Processors
<1>4. /\ q \in Processors /\ q.out = Append(p.out, o)
      /\ q.parts = p.parts /\ q.sent = p.sent /\ q.asked = p.asked /\ q.buffer = p.buffer
  BY <1>2, <1>3 DEF Processors
<1>5. Good(q)
  BY <1>4 DEF Good
<1> QED  BY <1>1, <1>4, <1>5 DEF q, o

\* No counts are counts.
LEMMA NoUsageIs == NoUsage \in Usages
  BY DEF NoUsage, Usages, Optional

\* A failure adds an artifact of its own and the status.
LEMMA FailedIs ==
    ASSUME NEW p, Good(p)
    PROVE  LET q == Failed(p)
               o == Final("failed", NoUsage)
           IN  /\ Good(q) /\ q.out = Append(Append(p.out, ErrorArtifact), o)
               /\ q.parts = p.parts /\ q.sent = p.sent /\ q.asked = p.asked /\ q.buffer = p.buffer
               /\ ErrorArtifact \in Outputs
<1> DEFINE r == [p EXCEPT !.out = Append(@, ErrorArtifact)]
<1>1. ErrorArtifact \in Outputs
  <2>1. <<>> \in Seq(Nat) /\ FALSE \in BOOLEAN
    OBVIOUS
  <2> QED  BY <2>1 DEF ErrorArtifact, Outputs, Optional
<1>2. Append(p.out, ErrorArtifact) \in Seq(Outputs)
  BY <1>1 DEF Good, Processors
<1>3. r = [p EXCEPT !.out = Append(p.out, ErrorArtifact)] /\ p \in Processors
  BY DEF Good
<1>4. Failed(p) = WithFinal(r, "failed", NoUsage)
  BY DEF Failed
<1> HIDE DEF r
<1>5. /\ r \in Processors /\ r.out = Append(p.out, ErrorArtifact)
      /\ r.parts = p.parts /\ r.sent = p.sent /\ r.asked = p.asked /\ r.buffer = p.buffer
  BY <1>2, <1>3 DEF Processors
<1>6. Good(r)
  BY <1>5 DEF Good
<1> DEFINE q == Failed(p)
<1>7. q = WithFinal(r, "failed", NoUsage)
  BY <1>4
<1> HIDE DEF q
<1>8. /\ Good(q) /\ q.out = Append(r.out, Final("failed", NoUsage))
      /\ q.parts = r.parts /\ q.sent = r.sent /\ q.asked = r.asked /\ q.buffer = r.buffer
  BY <1>6, <1>7, FinalIs, NoUsageIs
<1>9. /\ q.out = Append(Append(p.out, ErrorArtifact), Final("failed", NoUsage))
      /\ q.parts = p.parts /\ q.sent = p.sent /\ q.asked = p.asked /\ q.buffer = p.buffer
  BY <1>5, <1>8
<1> QED  BY <1>1, <1>8, <1>9 DEF q

\* The snapshot that gives the whole response.
Snapshot(p, response) ==
    Artifact([block |-> "text", part |-> None, content |-> response, payload |-> None],
             p.emitted, "final_snapshot")

\* A completion adds the snapshot unless the client has the text, and the status.
LEMMA CompletedIs ==
    ASSUME NEW p, Good(p), NEW response \in Seq(Nat), NEW usage \in Usages
    PROVE  LET q == Completed(p, response, usage)
               o == Final("input_required", usage)
               s == Snapshot(p, response)
           IN  /\ Good(q)
               /\ q.parts = p.parts /\ q.asked = p.asked /\ q.buffer = p.buffer
               /\ q.sent["tool_call"] = p.sent["tool_call"]
               /\ \/ /\ response = <<>> \/ p.sent["text"] = response
                     /\ q.out = Append(p.out, o)
                  \/ /\ response # <<>> /\ p.sent["text"] # response
                     /\ q.out = Append(Append(p.out, s), o)
                     /\ s \in Outputs /\ IsArtifact(s) /\ IsSnapshot(s) /\ s.block = "text"
                     /\ s.content = response /\ s.payload = None
<1> DEFINE q == Completed(p, response, usage)
           s == Snapshot(p, response)
           r == [p EXCEPT !.out = Append(@, s), !.sent["text"] = response]
<1>1. s \in Outputs /\ IsArtifact(s) /\ IsSnapshot(s) /\ s.block = "text"
      /\ s.content = response /\ s.payload = None
  <2>1. p.emitted \in BOOLEAN
    BY DEF Good, Processors
  <2>2. s = [kind |-> "artifact", block |-> "text", part |-> None, content |-> response,
             payload |-> None, append |-> p.emitted, source |-> "final_snapshot"]
    BY DEF Snapshot, Artifact
  <2>3. s \in Outputs
    BY <2>1, <2>2 DEF Outputs, Optional, Blocks
  <2> HIDE DEF s
  <2> QED  BY <2>2, <2>3 DEF IsArtifact, IsSnapshot
<1>2. CASE response = <<>> \/ p.sent["text"] = response
  <2>1. q = WithFinal(p, "input_required", usage)
    BY <1>2 DEF Completed
  <2> QED  BY <1>2, <2>1, FinalIs
<1>3. CASE ~(response = <<>> \/ p.sent["text"] = response)
  <2>1. q = WithFinal(r, "input_required", usage)
    BY <1>3 DEF Completed, Snapshot
  <2> DEFINE sent == [p.sent EXCEPT !["text"] = response]
  <2>2. r = [p EXCEPT !.out = Append(p.out, s), !.sent = sent] /\ p \in Processors
    BY DEF Good, Processors
  <2>3. sent \in [text : Seq(Nat), reasoning : Seq(Nat), tool_call : Seq(Payloads)]
        /\ sent["tool_call"] = p.sent["tool_call"]
    BY DEF Good, Processors
  <2> HIDE DEF s, sent
  <2>4. Append(p.out, s) \in Seq(Outputs)
    BY <1>1, <2>2 DEF Processors
  <2> HIDE DEF r
  <2>5. /\ r \in Processors /\ r.out = Append(p.out, s) /\ r.sent = sent
        /\ r.parts = p.parts /\ r.asked = p.asked /\ r.buffer = p.buffer
    BY <2>2, <2>3, <2>4 DEF Processors
  <2>6. Good(r)
    BY <2>5 DEF Good
  <2>7. /\ Good(q) /\ q.out = Append(r.out, Final("input_required", usage))
        /\ q.parts = r.parts /\ q.sent = r.sent /\ q.asked = r.asked /\ q.buffer = r.buffer
    BY <2>1, <2>6, FinalIs
  <2> QED  BY <1>1, <1>3, <2>3, <2>5, <2>7 DEF s
<1> QED  BY <1>2, <1>3

-----------------------------------------------------------------------------
(* Where things are in the sequence.                                       *)

\* Where the elements of a sequence are that are in X.
Places(s, X) == {n \in DOMAIN s : s[n] \in X}

\* They stay where nothing of X is added.
LEMMA PlacesKeep ==
    ASSUME NEW p \in Processors, NEW q \in Processors, NEW S, NEW X, Adds(p, q, S), S \cap X = {}
    PROVE  Places(q.out, X) = Places(p.out, X)
<1>1. /\ Len(p.out) \in Nat /\ Len(q.out) \in Nat
      /\ DOMAIN p.out = 1 .. Len(p.out) /\ DOMAIN q.out = 1 .. Len(q.out)
  BY DEF Processors
<1>2. ASSUME NEW n \in DOMAIN q.out, q.out[n] \in X PROVE n \in DOMAIN p.out /\ p.out[n] \in X
  <2>1. n \notin Len(p.out) + 1 .. Len(q.out)
    BY <1>2 DEF Adds
  <2>2. n \in 1 .. Len(p.out)
    BY <1>1, <2>1
  <2> QED  BY <1>1, <1>2, <2>2 DEF Adds
<1>3. ASSUME NEW n \in DOMAIN p.out, p.out[n] \in X PROVE n \in DOMAIN q.out /\ q.out[n] \in X
  BY <1>1, <1>3 DEF Adds
<1> QED  BY <1>2, <1>3 DEF Places

\* An output that is appended is in one more place.
LEMMA PlacesAppend ==
    ASSUME NEW s \in Seq(Outputs), NEW o \in Outputs, NEW X
    PROVE  Places(Append(s, o), X) = Places(s, X) \cup (IF o \in X THEN {Len(s) + 1} ELSE {})
<1>1. /\ DOMAIN s = 1 .. Len(s) /\ DOMAIN Append(s, o) = 1 .. Len(s) + 1 /\ Len(s) \in Nat
      /\ \A n \in 1 .. Len(s) : Append(s, o)[n] = s[n]
      /\ Append(s, o)[Len(s) + 1] = o
  OBVIOUS
<1>2. 1 .. Len(s) + 1 = (1 .. Len(s)) \cup {Len(s) + 1}
  BY <1>1
<1> QED  BY <1>1, <1>2 DEF Places

\* One output is added last, what is added before it is in S.
AddsLast(p, q, S) ==
    /\ Len(p.out) < Len(q.out)
    /\ \A n \in 1 .. Len(p.out) : q.out[n] = p.out[n]
    /\ \A n \in Len(p.out) + 1 .. Len(q.out) - 1 : q.out[n] \in S

\* One that is added last is in the last place.
LEMMA PlacesGrow ==
    ASSUME NEW p \in Processors, NEW q \in Processors, NEW S, NEW X, AddsLast(p, q, S), S \cap X = {},
           Last(q.out) \in X
    PROVE  Places(q.out, X) = Places(p.out, X) \cup {Len(q.out)}
<1>1. /\ Len(p.out) \in Nat /\ Len(q.out) \in Nat
      /\ DOMAIN p.out = 1 .. Len(p.out) /\ DOMAIN q.out = 1 .. Len(q.out)
  BY DEF Processors
<1>2. ASSUME NEW n \in DOMAIN q.out, q.out[n] \in X
      PROVE  n = Len(q.out) \/ (n \in DOMAIN p.out /\ p.out[n] \in X)
  <2>1. n \notin Len(p.out) + 1 .. Len(q.out) - 1
    BY <1>2 DEF AddsLast
  <2>2. n \in 1 .. Len(p.out) \/ n = Len(q.out)
    BY <1>1, <2>1
  <2> QED  BY <1>1, <1>2, <2>2 DEF AddsLast
<1>3. ASSUME NEW n \in DOMAIN p.out, p.out[n] \in X PROVE n \in DOMAIN q.out /\ q.out[n] \in X
  BY <1>1, <1>3 DEF AddsLast
<1>4. Len(q.out) \in DOMAIN q.out
  BY <1>1 DEF AddsLast
<1> QED  BY <1>2, <1>3, <1>4 DEF Places, Last

\* What is no final status and no snapshot.
Running == {o \in Outputs : o.kind # "final" /\ ~IsSnapshot(o)}

\* Streamed text neither ends a stream nor is a snapshot.
LEMMA StreamedRuns == Streamed \subseteq Running
  BY DEF Streamed, Running, IsSnapshot

\* An event never ends a stream, and keeps the text and what is known of it together.
LEMMA HandledRuns ==
    ASSUME NEW p, Good(p), NEW e \in Events, IsPartEvent(e) => Tells(e), NEW late
    PROVE  LET q == HandleEvent(p, e, late)
           IN  Good(q) /\ Adds(p, q, Running) /\ TextKept(p, q)
<1> DEFINE q == HandleEvent(p, e, late)
<1>1. ASSUME Says(p, q) PROVE Good(q) /\ Adds(p, q, Running) /\ TextKept(p, q)
  BY <1>1, StreamedRuns DEF Says, Adds
<1>2. ASSUME Shows(p, q, e) PROVE Good(q) /\ Adds(p, q, Running) /\ TextKept(p, q)
  <2> DEFINE o == q.out[Len(q.out)]
  <2>1. Good(q) /\ TextKept(p, q)
    BY <1>2 DEF Shows
  <2>2. CASE Adds(p, q, Streamed)
    BY <2>1, <2>2, StreamedRuns DEF Adds
  <2>3. CASE Adds(p, q, Streamed \cup {o}) /\ o \in Outputs /\ IsArtifact(o) /\ ~IsSnapshot(o)
    <3>1. o \in Running
      BY <2>3 DEF Running, IsArtifact
    <3> HIDE DEF o
    <3> QED  BY <2>1, <2>3, <3>1, StreamedRuns DEF Adds
  <2> QED  BY <1>2, <2>2, <2>3 DEF Shows
<1>3. ASSUME NEW phase \in {"asked", "resolved"}, e.request \in Nat, Prompts(p, q, phase, e.request)
      PROVE  Good(q) /\ Adds(p, q, Running) /\ TextKept(p, q)
  <2>1. Interrupt(phase, e.request) \in Running
    BY <1>3 DEF Interrupt, Outputs, Running, IsSnapshot, IsArtifact
  <2>2. Streamed \cup {Interrupt(phase, e.request)} \subseteq Running
    BY <2>1, StreamedRuns
  <2>3. Good(q) /\ TextKept(p, q) /\ Adds(p, q, Streamed \cup {Interrupt(phase, e.request)})
    BY <1>3 DEF Prompts
  <2> HIDE DEF q
  <2> QED  BY <2>2, <2>3 DEF Adds
<1>4. p.asked \in SUBSET Nat
  BY DEF Good, Processors
<1> HIDE DEF q
<1>5. Good(q) /\ Adds(p, q, Running) /\ TextKept(p, q)
  <2>1. \/ Says(p, q) \/ Shows(p, q, e)
        \/ e.request \in Nat /\ Prompts(p, q, "asked", e.request)
        \/ e.request \in Nat /\ Prompts(p, q, "resolved", e.request)
    BY <1>4, HandleEventIs DEF q
  <2>2. ASSUME e.request \in Nat, Prompts(p, q, "asked", e.request)
        PROVE  Good(q) /\ Adds(p, q, Running) /\ TextKept(p, q)
    BY <1>3, <2>2
  <2>3. ASSUME e.request \in Nat, Prompts(p, q, "resolved", e.request)
        PROVE  Good(q) /\ Adds(p, q, Running) /\ TextKept(p, q)
    BY <1>3, <2>3
  <2> QED  BY <1>1, <1>2, <2>1, <2>2, <2>3
<1> QED  BY <1>5 DEF q

-----------------------------------------------------------------------------
(* What is said next.                                                      *)

\* Adding at the end.
LEMMA AppendFacts ==
    ASSUME NEW S, NEW s \in Seq(S), NEW t \in Seq(S), NEW x \in S
    PROVE  /\ s \o <<>> = s
           /\ s \o <<x>> = Append(s, x)
           /\ s \o (t \o <<x>>) = Append(s \o t, x)
<1>1. s \o <<>> = s /\ s \o <<x>> = Append(s, x) /\ t \o <<x>> = Append(t, x)
  OBVIOUS
<1>2. s \o Append(t, x) = Append(s \o t, x)
  <2> DEFINE a == s \o Append(t, x)
             b == Append(s \o t, x)
  <2>1. a \in Seq(S) /\ b \in Seq(S) /\ Len(a) = Len(s) + Len(t) + 1 /\ Len(b) = Len(s) + Len(t) + 1
    OBVIOUS
  <2>2. ASSUME NEW n \in 1 .. Len(s) + Len(t) + 1 PROVE a[n] = b[n]
    OBVIOUS
  <2> HIDE DEF a, b
  <2>3. a = b
    BY <2>1, <2>2
  <2> QED  BY <2>3 DEF a, b
<1> QED  BY <1>1, <1>2

\* What was added is what is at the end.
LEMMA SameEnd ==
    ASSUME NEW S, NEW s \in Seq(S), NEW t \in Seq(S), NEW x \in S, NEW y \in S,
           Append(s, x) = Append(t, y)
    PROVE  s = t /\ x = y
<1>1. Len(s) = Len(t) /\ Len(s) \in Nat
  <2>1. /\ Len(Append(s, x)) = Len(s) + 1 /\ Len(Append(t, y)) = Len(t) + 1
        /\ Len(s) \in Nat /\ Len(t) \in Nat
    OBVIOUS
  <2> QED  BY <2>1
<1>2. \A n \in 1 .. Len(s) : Append(s, x)[n] = s[n] /\ Append(t, y)[n] = t[n]
  BY <1>1
<1>3. Append(s, x)[Len(s) + 1] = x /\ Append(t, y)[Len(s) + 1] = y
  BY <1>1
<1>4. s = t
  BY <1>1, <1>2
<1> QED  BY <1>3, <1>4

\* The prompt may be dropped at the end, ...
Drops(s, t) == s = t \/ s = Append(t, 0)
\* ... and x is said next, unless it is the prompt.
SaysNext(s, t, x) ==
    \E base \in Seq(Nat) : Drops(s, base) /\ (t = Append(base, x) \/ (x = 0 /\ t = base))

\* What was said is a sequence of fragments.
LEMMA SaidIsSeq ==
    ASSUME NEW p, Good(p)
    PROVE  /\ StreamedOf(p.out) \in Seq(Nat) /\ SentBy(p) \in Seq(Nat)
           /\ p.buffer = None => SentBy(p) = StreamedOf(p.out)
           /\ p.buffer # None => /\ p.buffer.content \in Seq(Nat)
                                 /\ SentBy(p) = StreamedOf(p.out) \o p.buffer.content
<1>1. p.out \in Seq(Outputs) /\ p.buffer \in Optional(PlainChunks)
  BY DEF Good, Processors
<1>2. StreamedOf(p.out) \in Seq(Nat)
  <2>1. Final("failed", NoUsage) \in Outputs
    BY NoUsageIs DEF Final, Outputs
  <2> QED  BY <1>1, <2>1, OutputIsSaid
<1>3. p.buffer # None => p.buffer.content \in Seq(Nat)
  BY <1>1 DEF Optional, PlainChunks, Chunks
<1>4. StreamedOf(p.out) \o <<>> = StreamedOf(p.out)
  BY <1>2
<1>5. CASE p.buffer = None
  <2>1. SentBy(p) = StreamedOf(p.out) \o <<>>
    BY <1>5 DEF SentBy
  <2> QED  BY <1>2, <1>4, <1>5, <2>1
<1>6. CASE p.buffer # None
  <2>1. SentBy(p) = StreamedOf(p.out) \o p.buffer.content
    BY <1>6 DEF SentBy
  <2>2. StreamedOf(p.out) \o p.buffer.content \in Seq(Nat)
    BY <1>2, <1>3, <1>6
  <2> QED  BY <1>2, <1>3, <1>6, <2>1, <2>2
<1> QED  BY <1>5, <1>6

\* A chunk of text that is emitted at once is said, if it says anything but the prompt.
LEMMA NowSays ==
    ASSUME NEW p, Good(p), NEW c \in PlainChunks
    PROVE  LET q == EmitNow(p, c)
           IN  /\ StreamedOf(q.out) \in {StreamedOf(p.out), StreamedOf(p.out) \o c.content}
               /\ StreamedOf(q.out) # StreamedOf(p.out) \o c.content => c.content = <<0>>
               /\ q.buffer = p.buffer
<1> DEFINE q == EmitNow(p, c)
           o == Artifact(c, p.emitted, c.source)
<1>1. /\ p \in Processors /\ p.out \in Seq(Outputs) /\ StreamedOf(p.out) \in Seq(Nat)
      /\ p.sent["text"] \in Seq(Nat) /\ p.sent["reasoning"] \in Seq(Nat)
  BY SaidIsSeq DEF Good, Processors
<1>2. /\ c.block \in {"text", "reasoning"} /\ c.content \in Seq(Nat) /\ c.payload = None
      /\ c.append = TRUE /\ c.source \in Sources
  BY DEF PlainChunks, Plain, Fits, Chunks
<1>3. /\ q.buffer = p.buffer
      /\ \/ q = p /\ (IsEcho(p, c) \/ p.sent[c.block] = p.sent[c.block] \o c.content)
         \/ o \in Outputs /\ q.out = Append(p.out, o)
  BY <1>1, <1>2, EmitNowIs
<1> HIDE DEF q
<1>4. CASE q = p /\ (IsEcho(p, c) \/ p.sent[c.block] = p.sent[c.block] \o c.content)
  <2>1. IsEcho(p, c) => c.content = <<0>>
    BY DEF IsEcho
  <2>2. p.sent[c.block] = p.sent[c.block] \o c.content => c.content = <<>>
    <3> DEFINE s == p.sent[c.block]
               t == c.content
    <3>1. s \in Seq(Nat) /\ t \in Seq(Nat)
      BY <1>1, <1>2
    <3> HIDE DEF s, t
    <3>2. s = s \o t => Len(s) = Len(s) + Len(t) /\ Len(s) \in Nat /\ Len(t) \in Nat
      BY <3>1
    <3>3. s = s \o t => t = <<>>
      BY <3>1, <3>2
    <3> QED  BY <3>3 DEF s, t
  <2>3. StreamedOf(p.out) \o <<>> = StreamedOf(p.out)
    BY <1>1
  <2> QED  BY <1>3, <1>4, <2>1, <2>2, <2>3 DEF q
<1>5. CASE o \in Outputs /\ q.out = Append(p.out, o)
  <2>1. IsArtifact(o) /\ ~IsSnapshot(o) /\ o.content = c.content
    BY <1>2 DEF Artifact, IsArtifact, IsSnapshot, Sources
  <2>2. StreamedOf(q.out) = StreamedOf(p.out) \o o.content
    BY <1>1, <1>5, <2>1, OutputIsSaid
  <2> QED  BY <1>3, <2>1, <2>2 DEF q
<1> QED  BY <1>3, <1>4, <1>5

\* A flush sends what was to be sent, the prompt perhaps excepted.
LEMMA FlushDrops ==
    ASSUME NEW p, Good(p)
    PROVE  /\ Drops(SentBy(p), SentBy(Flush(p)))
           /\ SentBy(Flush(p)) = StreamedOf(Flush(p).out)
           /\ Good(Flush(p)) /\ Flush(p).buffer = None
           /\ SentBy(Flush(p)) \in Seq(Nat)
<1>1. Good(Flush(p)) /\ Flush(p).buffer = None
  BY FlushStreams DEF Streams
<1>2. SentBy(Flush(p)) = StreamedOf(Flush(p).out) /\ SentBy(Flush(p)) \in Seq(Nat)
  BY <1>1, SaidIsSeq
<1>3. CASE p.buffer = None
  BY <1>1, <1>2, <1>3 DEF Flush, Drops
<1>4. CASE p.buffer # None
  <2> DEFINE r == [p EXCEPT !.buffer = None]
             b == p.buffer
  <2>1. b \in PlainChunks /\ b.content \in Seq(Nat)
    BY <1>4 DEF Good, Optional, PlainChunks, Chunks
  <2>2. Good(r) /\ r.out = p.out
    BY DEF Good, Processors, Optional
  <2>3. Flush(p) = EmitNow(r, b)
    BY <1>4 DEF Flush
  <2>4. SentBy(p) = StreamedOf(p.out) \o b.content /\ StreamedOf(p.out) \in Seq(Nat)
    BY <1>4, SaidIsSeq
  <2> HIDE DEF r, b
  <2>5. /\ StreamedOf(Flush(p).out) \in {StreamedOf(p.out), StreamedOf(p.out) \o b.content}
        /\ StreamedOf(Flush(p).out) # StreamedOf(p.out) \o b.content => b.content = <<0>>
    BY <2>1, <2>2, <2>3, NowSays
  <2>6. StreamedOf(p.out) \o <<0>> = Append(StreamedOf(p.out), 0)
    BY <2>4, AppendFacts
  <2>7. SentBy(p) = SentBy(Flush(p)) \/ SentBy(p) = Append(SentBy(Flush(p)), 0)
    <3>1. CASE StreamedOf(Flush(p).out) = StreamedOf(p.out) \o b.content
      BY <1>2, <2>4, <3>1
    <3>2. CASE StreamedOf(Flush(p).out) # StreamedOf(p.out) \o b.content
      <4>1. b.content = <<0>> /\ StreamedOf(Flush(p).out) = StreamedOf(p.out)
        BY <2>5, <3>2
      <4> QED  BY <1>2, <2>4, <2>6, <4>1
    <3> QED  BY <3>1, <3>2
  <2> QED  BY <1>1, <1>2, <2>7 DEF Drops
<1> QED  BY <1>1, <1>2, <1>3, <1>4

\* A chunk of one fragment of text is said next.
LEMMA TextIsSaid ==
    ASSUME NEW p, Good(p), NEW c \in PlainChunks, NEW x \in Nat, c.content = <<x>>, NEW late
    PROVE  SaysNext(SentBy(p), SentBy(EmitChunk(p, c, late)), x)
<1> DEFINE merges == p.buffer # None /\ CanMerge(p.buffer, c)
           q == IF merges THEN [p EXCEPT !.buffer.content = @ \o c.content]
                          ELSE [Flush(p) EXCEPT !.buffer = c]
<1>1. EmitChunk(p, c, late) \in {q, Flush(q)}
  BY DEF EmitChunk, PlainChunks, Plain
<1>2. /\ Good(q)
      /\ \E base \in Seq(Nat) : Drops(SentBy(p), base) /\ SentBy(q) = Append(base, x)
  <2>1. CASE merges
    <3> DEFINE b == [p.buffer EXCEPT !.content = @ \o c.content]
    <3>1. /\ p.buffer \in PlainChunks /\ p.buffer.content \in Seq(Nat) /\ c \in Chunks
          /\ SentBy(p) = StreamedOf(p.out) \o p.buffer.content
          /\ StreamedOf(p.out) \in Seq(Nat) /\ SentBy(p) \in Seq(Nat)
      BY <2>1, SaidIsSeq DEF Good, PlainChunks, Optional
    <3>2. b \in PlainChunks /\ b.content = p.buffer.content \o <<x>>
      <4>1. p.buffer \in Chunks /\ p.buffer.content \o c.content \in Seq(Nat)
        BY <3>1 DEF PlainChunks, Chunks
      <4>2. b \in Chunks
        BY <4>1 DEF Chunks
      <4>3. /\ b.block = p.buffer.block /\ b.payload = p.buffer.payload
            /\ b.append = p.buffer.append /\ b.source = p.buffer.source
            /\ b.content = p.buffer.content \o c.content
        BY <4>1 DEF Chunks
      <4> QED  BY <3>1, <4>2, <4>3 DEF PlainChunks, Fits
    <3>3. q = [p EXCEPT !.buffer = b]
      BY <2>1 DEF Good, Processors
    <3> HIDE DEF b, q
    <3>4. Streams(p, q)
      BY <3>2, <3>3, BufferStreams
    <3>5. q.buffer = b /\ q.out = p.out /\ Good(q) /\ b # None
      <4>1. b # None
        BY <3>2, NoneIsNoState DEF PlainChunks
      <4> QED  BY <3>3, <3>4, <4>1 DEF Streams, Good, Processors
    <3>6. SentBy(q) = StreamedOf(p.out) \o (p.buffer.content \o <<x>>)
      BY <3>2, <3>5, SaidIsSeq
    <3>7. SentBy(q) = Append(SentBy(p), x)
      <4> DEFINE sent == StreamedOf(p.out)
                 waits == p.buffer.content
      <4>0. sent \in Seq(Nat) /\ waits \in Seq(Nat)
        BY <3>1
      <4> HIDE DEF sent, waits
      <4>1. sent \o (waits \o <<x>>) = Append(sent \o waits, x)
        BY <4>0, AppendFacts
      <4> QED  BY <3>1, <3>6, <4>1 DEF sent, waits
    <3> QED  BY <3>1, <3>5, <3>7 DEF Drops
  <2>2. CASE ~merges
    <3> DEFINE f == Flush(p)
    <3>1. /\ Good(f) /\ Drops(SentBy(p), SentBy(f)) /\ SentBy(f) = StreamedOf(f.out)
          /\ SentBy(f) \in Seq(Nat)
      BY FlushDrops
    <3>2. q = [f EXCEPT !.buffer = c]
      BY <2>2
    <3> HIDE DEF f, q
    <3>3. Streams(f, q)
      BY <3>1, <3>2, BufferStreams
    <3>4. q.buffer = c /\ q.out = f.out /\ Good(q) /\ c # None
      <4>1. c # None
        BY NoneIsNoState DEF PlainChunks
      <4> QED  BY <3>1, <3>2, <3>3, <4>1 DEF Streams, Good, Processors
    <3>5. SentBy(q) = SentBy(f) \o <<x>>
      BY <3>1, <3>4, SaidIsSeq
    <3>6. SentBy(q) = Append(SentBy(f), x)
      BY <3>1, <3>5, AppendFacts
    <3> QED  BY <3>1, <3>4, <3>6
  <2> QED  BY <2>1, <2>2
<1> HIDE DEF q
<1>3. PICK base \in Seq(Nat) : Drops(SentBy(p), base) /\ SentBy(q) = Append(base, x)
  BY <1>2
<1>4. SaysNext(SentBy(p), SentBy(q), x)
  BY <1>3 DEF SaysNext
<1>5. SaysNext(SentBy(p), SentBy(Flush(q)), x)
  <2> DEFINE t == SentBy(Flush(q))
  <2>1. Drops(Append(base, x), t) /\ t \in Seq(Nat)
    BY <1>2, <1>3, FlushDrops
  <2> HIDE DEF t
  <2>2. ASSUME Append(base, x) = Append(t, 0) PROVE x = 0 /\ base = t
    <3>1. 0 \in Nat
      OBVIOUS
    <3> QED  BY ONLY <2>1, <2>2, <3>1, base \in Seq(Nat), x \in Nat, SameEnd
  <2>3. t = Append(base, x) \/ (x = 0 /\ t = base)
    BY <2>1, <2>2 DEF Drops
  <2> QED  BY <1>3, <2>3 DEF SaysNext, t
<1> QED  BY <1>1, <1>4, <1>5

\* So is a tool call, unless all that was ever sent of tool calls is the same payload.
LEMMA CallIsSaid ==
    ASSUME NEW p, Good(p), NEW c \in Calls, NEW x \in Nat, c.content = <<x>>, NEW late,
           c.append \/ p.sent["tool_call"] # <<c.payload>>
    PROVE  SaysNext(SentBy(p), SentBy(EmitChunk(p, c, late)), x)
<1> DEFINE f == Flush(p)
           q == EmitChunk(p, c, late)
           o == Artifact(c, f.emitted, c.source)
           now == IF c.append THEN f.sent["tool_call"] \o <<c.payload>> ELSE <<c.payload>>
<1>1. /\ Good(q) /\ q.buffer = None
      /\ \/ q = f /\ f.sent["tool_call"] = now
         \/ /\ o \in Outputs /\ ~IsSnapshot(o)
            /\ q.out = Append(f.out, o)
  BY CallStreams
<1>2. /\ Good(f) /\ Drops(SentBy(p), SentBy(f)) /\ SentBy(f) = StreamedOf(f.out)
      /\ SentBy(f) \in Seq(Nat)
  BY FlushDrops
<1>3. f.sent["tool_call"] # now
  <2>1. /\ f.sent["tool_call"] = p.sent["tool_call"]
        /\ f.sent["tool_call"] \in Seq(Payloads)
    BY <1>2, FlushStreams DEF Streams, Good, Processors
  <2>2. c.payload \in Payloads
    BY DEF Calls, Chunks, Fits, Plain, Optional
  <2>3. f.sent["tool_call"] \o <<c.payload>> # f.sent["tool_call"]
    BY <2>1, <2>2
  <2> QED  BY <2>1, <2>3
<1>4. IsArtifact(o) /\ o.content = <<x>>
  BY DEF Artifact, IsArtifact
<1> HIDE DEF f, q, o, now
<1>5. StreamedOf(q.out) = StreamedOf(f.out) \o <<x>>
  <2>1. f.out \in Seq(Outputs)
    BY <1>2 DEF Good, Processors
  <2> QED  BY <1>1, <1>3, <1>4, <2>1, OutputIsSaid
<1>6. SentBy(q) = SentBy(f) \o <<x>>
  BY <1>1, <1>2, <1>5, SaidIsSeq
<1>7. SentBy(q) = Append(SentBy(f), x)
  BY <1>2, <1>6, AppendFacts
<1> QED  BY <1>2, <1>7 DEF SaysNext, q

\* A request that is shown drops at most the prompt.
LEMMA StatusDrops ==
    ASSUME NEW p, Good(p), NEW phase \in {"asked", "resolved"}, NEW k \in Nat
    PROVE  LET q == InterruptStatus(p, phase, k)
           IN  Drops(SentBy(p), SentBy(q)) /\ q.held = p.held
<1> DEFINE f == Flush(p)
           o == Interrupt(phase, k)
           q == InterruptStatus(p, phase, k)
<1>1. /\ Good(f) /\ f.buffer = None /\ Drops(SentBy(p), SentBy(f)) /\ SentBy(f) = StreamedOf(f.out)
      /\ f.held = p.held
  BY FlushDrops, FlushStreams DEF Streams, Same
<1>2. o \in Outputs /\ ~IsArtifact(o)
  BY DEF Interrupt, Outputs, IsArtifact
<1>3. q = [f EXCEPT !.out = Append(f.out, o)]
  BY DEF InterruptStatus
<1> HIDE DEF f, o, q
<1>4. q.out = Append(f.out, o) /\ q.buffer = None /\ q.held = p.held /\ f.out \in Seq(Outputs)
  BY <1>1, <1>3 DEF Good, Processors
<1>5. StreamedOf(q.out) = StreamedOf(f.out) \o <<>> /\ StreamedOf(f.out) \in Seq(Nat)
  BY <1>2, <1>4, OutputIsSaid
<1>6. SentBy(q) = StreamedOf(q.out) \o <<>>
  BY <1>4 DEF SentBy
<1>7. SentBy(q) = SentBy(f)
  BY <1>1, <1>5, <1>6
<1> QED  BY <1>1, <1>4, <1>7 DEF q

\* The number of the fragment an event of a part brings, ...
Number(e) ==
    CASE e.type # "message.part.updated" -> 0
      [] e.type = "message.part.updated" /\ e.delta # <<>> -> Head(e.delta)
      [] OTHER -> e.fragment

\* ... one at most, and only the agent's counts.
InPiece(e) ==
    /\ e.type # "message.part.delta"
    /\ e.type = "message.part.updated" =>
          /\ e.text = None /\ Len(e.delta) <= 1
          /\ e.fragment # 0 => e.fragment = Number(e) /\ RoleOf(e.role) = "agent"

\* It is for the client: text and reasoning, and tool output.
Owes(e) ==
    /\ IsPartEvent(e) /\ e.fragment # 0
    /\ \/ e.delta # <<>> /\ BlockOfPart(e) \in Plain
       \/ e.payload # None /\ e.payload.kind = "output_delta"

\* The one payload that was sent of tool calls was counted.
CallIsKnown(p) ==
    \A payload \in Payloads :
        p.sent["tool_call"] = <<payload>> => CallCount(p.parts[payload.call]) > 0

\* What a client sees nothing of says nothing.
LEMMA LikeIsSaid ==
    ASSUME NEW p, NEW q, Like(p, q)
    PROVE  SentBy(q) = SentBy(p)
  BY DEF Like, SentBy

\* What an updated part of text brings.
LEMMA PieceIsText ==
    ASSUME NEW state \in PartStates, state.block \in Plain, NEW e \in PartEvents,
           e.part \in Items, InPiece(e)
    PROVE  LET d == UpdatedChunks(state, e, <<>>)
           IN  \/ e.delta = <<>> /\ d.chunks = <<>>
               \/ \E c \in PlainChunks : /\ d.chunks = <<c>> /\ c.content = <<Number(e)>>
                                         /\ Number(e) \in Nat
<1> DEFINE d == UpdatedChunks(state, e, <<>>)
           own == OwnChunks(state, e)
<1>0. /\ state.block # "tool_call" /\ e.delta \in Seq(Nat) /\ e.text = None /\ Len(e.delta) <= 1
      /\ e.type = "message.part.updated"
  <2>1. e.type = "message.part.updated" /\ e.delta \in Seq(Nat)
    BY DEF PartEvents
  <2>2. e.text = None /\ Len(e.delta) <= 1
    BY <2>1 DEF InPiece
  <2>3. state.block # "tool_call"
    BY DEF Plain
  <2> QED  BY <2>1, <2>2, <2>3
<1>1. HeldChunks(state, e.part, <<>>) = Nothing(state)
  BY DEF HeldChunks
<1>2. d.chunks = <<>> \o own.chunks
  <2> DEFINE before == HeldChunks(state, e.part, <<>>)
  <2>1. before.state = state /\ before.chunks = <<>>
    BY <1>1 DEF Nothing
  <2>2. d.chunks = before.chunks \o OwnChunks(before.state, e).chunks
    BY DEF UpdatedChunks
  <2> HIDE DEF before, d
  <2> QED  BY <2>1, <2>2
<1>3. <<>> \in Seq(Seq(Nat))
  OBVIOUS
<1>4. d.chunks \in Seq(PlainChunks)
  BY <1>3, UpdatedPlain
<1> HIDE DEF d
<1>5. CASE e.delta = <<>>
  <2>1. own.chunks = <<>>
    BY <1>0, <1>5 DEF OwnChunks, Nothing
  <2> QED  BY <1>2, <1>5, <2>1 DEF d
<1>6. CASE e.delta # <<>>
  <2> DEFINE c == TextChunk(state, e.part, "delta", e.delta)
  <2>1. own.chunks = <<c>>
    BY <1>0, <1>6 DEF OwnChunks, DeltaChunks
  <2>2. c.content = e.delta
    BY DEF TextChunk, Chunk
  <2> HIDE DEF c, own
  <2>3. d.chunks = <<c>>
    BY <1>2, <2>1
  <2>4. c \in PlainChunks
    <3>1. Len(<<c>>) = 1 /\ <<c>>[1] = c
      OBVIOUS
    <3> QED  BY <1>4, <2>3, <3>1
  <2>5. Number(e) = Head(e.delta)
    BY <1>0, <1>6 DEF Number
  <2>6. e.delta = <<Head(e.delta)>> /\ Head(e.delta) \in Nat
    BY <1>0, <1>6
  <2> QED  BY <2>2, <2>3, <2>4, <2>5, <2>6 DEF d
<1> QED  BY <1>5, <1>6

\* What an updated part says, if nothing was held of it.
LEMMA PartIsSaid ==
    ASSUME NEW p, Good(p), NEW e \in PartEvents, e.part \in Items, Tells(e), InPiece(e),
           p.held[e.part] = <<>>, CallIsKnown(p), NEW late
    PROVE  LET q == PartArrives(p, e, late)
           IN  /\ q.held = p.held
               /\ \/ SentBy(q) = SentBy(p) /\ ~Owes(e)
                  \/ SaysNext(SentBy(p), SentBy(q), Number(e))
<1> DEFINE i == e.part
           old == p.parts[i]
           state == Upsert(old, e)
           updated == UpdatedChunks(state, e, p.held[i])
           r == [p EXCEPT !.held[i] = <<>>]
           s == [r EXCEPT !.parts[i] = updated.state]
           q == PartArrives(p, e, late)
<1>0. /\ old \in Optional(PartStates) /\ p.parts \in [Items -> Optional(PartStates)]
      /\ p.held \in [Items -> Seq(Seq(Nat))] /\ p.sent["tool_call"] \in Seq(Payloads)
      /\ e.type = "message.part.updated" /\ e.fragment \in Nat
  BY DEF Good, Processors, PartEvents
<1>1. /\ state = None => BlockOfPart(e) \notin Blocks
      /\ state # None =>
           /\ state \in PartStates /\ state.block = BlockOfPart(e)
           /\ RoleOf(e.role) # None => state.role = RoleOf(e.role)
           /\ state.toolChunks = CallCount(old)
  BY <1>0, UpsertIs DEF CallCount
<1>2. Good(r) /\ Like(p, r) /\ r.held = p.held
  <2>1. <<>> \in Seq(Seq(Nat))
    OBVIOUS
  <2>2. Good(r) /\ Like(p, r)
    BY <2>1, HeldSet
  <2>3. r.held = [p.held EXCEPT ![i] = <<>>]
    BY DEF Good, Processors
  <2> HIDE DEF r
  <2> QED  BY <1>0, <2>2, <2>3
<1> HIDE DEF r
<1>3. Owes(e) => \/ BlockOfPart(e) \in Plain /\ RoleOf(e.role) = "agent"
                 \/ BlockOfPart(e) = "tool_call" /\ RoleOf(e.role) = "agent"
                    /\ e.payload # None /\ ~IsState(ReportOf(e))
  BY <1>0 DEF Owes, Tells, InPiece, IsState, ReportOf
<1>4. CASE state = None
  <2>1. q = r
    BY <1>4 DEF PartArrives, r
  <2>2. ~Owes(e)
    BY <1>1, <1>3, <1>4 DEF Blocks, Plain
  <2> QED  BY <1>2, <2>1, <2>2, LikeIsSaid
<1>5. CASE state # None /\ state.role \in NotForClients
  <2>1. q = [r EXCEPT !.parts[i] = state]
    BY <1>5 DEF PartArrives, r
  <2> HIDE DEF q, state
  <2>2. Good(q) /\ Like(r, q)
    BY <1>1, <1>2, <1>5, <2>1, PartSet
  <2>3. q.held = r.held
    BY <1>2, <2>1 DEF Good, Processors
  <2>4. SentBy(q) = SentBy(p)
    BY <1>2, <2>2, LikeIsSaid
  <2>5. ~Owes(e)
    BY <1>1, <1>3, <1>5, NoneIsNoDatum DEF NotForClients, Strings
  <2> QED  BY <1>2, <2>3, <2>4, <2>5 DEF q
<1>6. CASE state # None /\ ~(state.role \in NotForClients)
  <2>1. q = EmitChunks(s, updated.chunks, late)
    BY <1>6 DEF PartArrives, r
  <2>2. state \in PartStates
    BY <1>1, <1>6
  <2>3. updated = UpdatedChunks(state, e, <<>>)
    OBVIOUS
  <2> HIDE DEF q, state
  <2>4. CASE state.block \in Plain
    <3>0. <<>> \in Seq(Seq(Nat))
      OBVIOUS
    <3>1. /\ Keeps(state, updated.state)
          /\ \/ e.delta = <<>> /\ updated.chunks = <<>>
             \/ \E c \in PlainChunks : updated.chunks = <<c>> /\ c.content = <<Number(e)>> /\ Number(e) \in Nat
      BY <2>2, <2>3, <2>4, <3>0, UpdatedPlain, PieceIsText
    <3> HIDE DEF updated
    <3>2. Good(s) /\ Like(r, s)
      BY <1>2, <3>1, PartSet DEF Keeps
    <3>3. s.held = r.held
      BY <1>2 DEF Good, Processors
    <3> HIDE DEF s
    <3>4. SentBy(s) = SentBy(p)
      BY <1>2, <3>2, LikeIsSaid
    <3>5. CASE e.delta = <<>> /\ updated.chunks = <<>>
      <4>1. q = s
        BY <2>1, <3>5, EmitFewChunks
      <4>2. ~Owes(e)
        BY <1>1, <1>3, <1>6, <2>4, <3>5 DEF Owes, Plain, Tells
      <4> QED  BY <1>2, <3>3, <3>4, <4>1, <4>2 DEF q
    <3>6. ASSUME NEW c \in PlainChunks, updated.chunks = <<c>>, c.content = <<Number(e)>>, Number(e) \in Nat
          PROVE  q.held = p.held /\ SaysNext(SentBy(p), SentBy(q), Number(e))
      <4>1. q = EmitChunk(s, c, late)
        BY <2>1, <3>6, EmitFewChunks
      <4>2. SaysNext(SentBy(s), SentBy(q), Number(e))
        BY <3>2, <3>6, <4>1, TextIsSaid
      <4>3. q.held = s.held
        BY <3>2, <4>1, EmitChunkStreams DEF Streams, Same
      <4> QED  BY <1>2, <3>3, <3>4, <4>2, <4>3
    <3> QED  BY <3>1, <3>5, <3>6 DEF q
  <2>5. CASE state.block = "tool_call"
    <3>1. \/ updated.state = state /\ updated.chunks = <<>> /\ (e.payload # None => IsState(ReportOf(e)))
          \/ Calling(state, e, ReportOf(e), updated)
      BY <1>0, <2>2, <2>5, UpdatedCall
    <3> HIDE DEF updated
    <3>2. updated.state \in PartStates
      BY <2>2, <3>1 DEF Calling
    <3>3. Good(s) /\ Like(r, s)
      BY <1>2, <3>2, PartSet
    <3>4. s.held = r.held
      BY <1>2 DEF Good, Processors
    <3> HIDE DEF s
    <3>5. SentBy(s) = SentBy(p)
      BY <1>2, <3>3, LikeIsSaid
    <3>6. CASE updated.chunks = <<>> /\ (e.payload # None => IsState(ReportOf(e)))
      <4>1. q = s
        BY <2>1, <3>6, EmitFewChunks
      <4>2. ~Owes(e)
        BY <1>1, <1>3, <1>6, <2>5, <3>6 DEF Plain
      <4> QED  BY <1>2, <3>4, <3>5, <4>1, <4>2 DEF q
    <3>7. CASE Calling(state, e, ReportOf(e), updated)
      <4> DEFINE payload == ReportOf(e)
      <4>1. PICK c \in Calls : /\ updated.chunks = <<c>>
                               /\ c.content = <<e.fragment>> /\ c.payload = payload
                               /\ c.append = (state.toolChunks > 0)
        BY <3>7 DEF Calling
      <4>2. /\ payload \in Payloads /\ payload.call = i /\ e.delta = <<>>
        <5>1. c.payload \in Payloads
          BY DEF Calls, Chunks, Fits, Plain, Optional
        <5>2. e.payload # None => e.payload.call = i
          BY DEF Tells
        <5>3. PartPayload(e) # None => PartPayload(e).call = i /\ IsState(PartPayload(e))
          BY NoneIsNoPayload DEF PartPayload, IsState
        <5>4. payload.call = i
          BY <4>1, <5>1, <5>2, <5>3, NoneIsNoPayload DEF ReportOf
        <5>5. e.delta = <<>>
          BY <4>1, <5>1, <5>3, NoneIsNoPayload DEF Tells, ReportOf
        <5> QED  BY <4>1, <5>1, <5>4, <5>5
      <4>3. Number(e) = e.fragment
        BY <1>0, <4>2 DEF Number
      <4> HIDE DEF payload
      <4>4. c.append \/ s.sent["tool_call"] # <<c.payload>>
        <5>1. s.sent = p.sent
          BY <1>2, <3>3 DEF Like
        <5>2. ASSUME s.sent["tool_call"] = <<c.payload>> PROVE c.append
          <6>1. CallCount(old) > 0
            BY <4>1, <4>2, <5>1, <5>2 DEF CallIsKnown
          <6>2. state.toolChunks > 0
            BY <1>1, <1>6, <6>1
          <6> QED  BY <4>1, <6>2, Zenon
        <5> QED  BY <5>2
      <4>5. q = EmitChunk(s, c, late)
        BY <2>1, <4>1, EmitFewChunks
      <4>6. SaysNext(SentBy(s), SentBy(q), e.fragment)
        BY <1>0, <3>3, <4>1, <4>4, <4>5, CallIsSaid
      <4>7. q.held = s.held
        BY <3>3, <4>5, CallStreams DEF Same
      <4> QED  BY <1>2, <3>4, <3>5, <4>3, <4>6, <4>7 DEF q
    <3> QED  BY <3>1, <3>6, <3>7
  <2> QED  BY <2>2, <2>4, <2>5 DEF PartStates, Blocks, Plain
<1> QED  BY <1>4, <1>5, <1>6

\* What any event says, if nothing was held.
LEMMA EventIsSaid ==
    ASSUME NEW p, Good(p), NEW e \in Events, IsPartEvent(e) => Tells(e), InPiece(e),
           \A i \in Items : p.held[i] = <<>>, CallIsKnown(p), NEW late
    PROVE  LET q == HandleEvent(p, e, late)
           IN  /\ q.held = p.held
               /\ \/ Drops(SentBy(p), SentBy(q)) /\ ~Owes(e)
                  \/ IsPartEvent(e) /\ SaysNext(SentBy(p), SentBy(q), Number(e))
<1> DEFINE r == [p EXCEPT !.usage = MergedUsage(@, UsageOf(e))]
           q == HandleEvent(p, e, late)
<1>1. Good(r) /\ Like(p, r) /\ r.held = p.held /\ r.parts = p.parts /\ r.asked = p.asked
  <2>1. MergedUsage(p.usage, UsageOf(e)) \in Usages
    BY MergedIsUsage DEF Good, Processors
  <2>2. r = [p EXCEPT !.usage = MergedUsage(p.usage, UsageOf(e))]
    OBVIOUS
  <2> HIDE DEF r
  <2> QED  BY <2>1, <2>2, UsageSet
<1>2. q = CASE e.type = "asked" -> Asked(r, e.request)
            [] e.type = "resolved" -> Resolved(r, e.request)
            [] e.type = "message.part.delta" /\ e.part # None -> DeltaArrives(r, e, late)
            [] e.type = "message.part.updated" /\ e.part # None -> PartArrives(r, e, late)
            [] OTHER -> r
  BY DEF HandleEvent
<1> HIDE DEF r, q
<1>3. SentBy(r) = SentBy(p) /\ r.asked \in SUBSET Nat
  BY <1>1, LikeIsSaid DEF Good, Processors
<1>4. ASSUME NEW phase \in {"asked", "resolved"}, e.type = phase, NEW a \in SUBSET Nat,
             q = InterruptStatus([r EXCEPT !.asked = a], phase, e.request)
      PROVE  q.held = p.held /\ Drops(SentBy(p), SentBy(q)) /\ ~Owes(e)
  <2> DEFINE s == [r EXCEPT !.asked = a]
  <2>0. e.request \in Nat
    BY <1>4 DEF Events, PartEvents
  <2>1. Good(s) /\ Like(r, s)
    BY <1>1, <1>4, AskedSet
  <2>2. s.held = r.held
    BY <1>1 DEF Good, Processors
  <2>3. q = InterruptStatus(s, phase, e.request)
    BY <1>4
  <2> HIDE DEF s
  <2>4. Drops(SentBy(s), SentBy(q)) /\ q.held = s.held
    BY <2>0, <2>1, <2>3, StatusDrops
  <2>5. SentBy(s) = SentBy(p)
    BY <1>3, <2>1, LikeIsSaid
  <2> QED  BY <1>1, <1>4, <2>2, <2>4, <2>5 DEF Owes, IsPartEvent
<1>5. ASSUME q = r, ~Owes(e) PROVE q.held = p.held /\ Drops(SentBy(p), SentBy(q)) /\ ~Owes(e)
  BY <1>1, <1>3, <1>5 DEF Drops
<1>6. CASE e.type = "asked"
  <2>1. q = Asked(r, e.request) /\ ~Owes(e)
    BY <1>2, <1>6 DEF Owes, IsPartEvent
  <2>2. q = r \/ q = InterruptStatus([r EXCEPT !.asked = r.asked \cup {e.request}], "asked", e.request)
    BY <2>1 DEF Asked
  <2>3. r.asked \cup {e.request} \in SUBSET Nat
    <3>1. e.request \in Nat
      BY <1>6 DEF Events, PartEvents
    <3> QED  BY <1>3, <3>1
  <2> QED  BY <1>4, <1>5, <1>6, <2>1, <2>2, <2>3 DEF q
<1>7. CASE e.type = "resolved"
  <2>1. q = Resolved(r, e.request) /\ ~Owes(e)
    BY <1>2, <1>7 DEF Owes, IsPartEvent
  <2>2. q = r \/ q = InterruptStatus([r EXCEPT !.asked = r.asked \ {e.request}], "resolved", e.request)
    BY <2>1 DEF Resolved
  <2> QED  BY <1>3, <1>4, <1>5, <1>7, <2>1, <2>2 DEF q
<1>8. CASE IsPartEvent(e)
  <2>1. e.part \in Items /\ e \in PartEvents /\ e.type = "message.part.updated"
    BY <1>8 DEF Events, PartEvents, Optional, IsPartEvent
  <2>2. q = PartArrives(r, e, late)
    BY <1>2, <1>8 DEF IsPartEvent
  <2>3. CallIsKnown(r) /\ r.held[e.part] = <<>>
    BY <1>1, <2>1 DEF CallIsKnown, Like
  <2>4. /\ q.held = r.held
        /\ \/ SentBy(q) = SentBy(r) /\ ~Owes(e)
           \/ SaysNext(SentBy(r), SentBy(q), Number(e))
    BY <1>1, <1>8, <2>1, <2>2, <2>3, PartIsSaid
  <2> QED  BY <1>1, <1>3, <1>8, <2>4 DEF q, Drops
<1>9. CASE e.type # "asked" /\ e.type # "resolved" /\ ~IsPartEvent(e)
  <2>1. q = r /\ ~Owes(e)
    BY <1>2, <1>9 DEF IsPartEvent, InPiece, Owes
  <2> QED  BY <1>5, <2>1 DEF q
<1> QED  BY <1>6, <1>7, <1>8, <1>9

-----------------------------------------------------------------------------
(* What was said in order.                                                 *)

\* Fragments are in order: each but the prompt is above all before it.
Ordered(s) == \A i, j \in DOMAIN s : i < j /\ s[j] # 0 => s[i] < s[j]

\* Order is kept by what is dropped ...
LEMMA DroppedInOrder ==
    ASSUME NEW s \in Seq(Nat), NEW t \in Seq(Nat), Drops(s, t), Ordered(s)
    PROVE  Ordered(t) /\ ToSet(t) \subseteq ToSet(s) /\ ToSet(s) \subseteq ToSet(t) \cup {0}
<1>1. CASE s = t
  BY <1>1
<1>2. CASE s = Append(t, 0)
  <2>1. ToSet(s) = ToSet(t) \cup {0}
    BY <1>2, AppendElements
  <2>2. /\ DOMAIN t = 1 .. Len(t) /\ DOMAIN s = 1 .. Len(t) + 1 /\ Len(t) \in Nat
        /\ \A n \in 1 .. Len(t) : s[n] = t[n]
    BY <1>2
  <2>3. \A n \in DOMAIN t : n \in DOMAIN s /\ s[n] = t[n]
    BY <2>2
  <2> QED  BY <2>1, <2>3 DEF Ordered
<1> QED  BY <1>1, <1>2 DEF Drops

\* ... and by what is said next, if it is above all that was said.
LEMMA SaidInOrder ==
    ASSUME NEW s \in Seq(Nat), NEW t \in Seq(Nat), NEW x \in Nat, SaysNext(s, t, x), Ordered(s),
           x # 0 => \A y \in ToSet(s) : y < x
    PROVE  /\ Ordered(t)
           /\ ToSet(t) \subseteq ToSet(s) \cup {x} /\ ToSet(s) \cup {x} \subseteq ToSet(t) \cup {0}
<1>1. PICK base \in Seq(Nat) : Drops(s, base) /\ (t = Append(base, x) \/ (x = 0 /\ t = base))
  BY DEF SaysNext
<1>2. Ordered(base) /\ ToSet(base) \subseteq ToSet(s) /\ ToSet(s) \subseteq ToSet(base) \cup {0}
  BY <1>1, DroppedInOrder
<1>3. CASE x = 0 /\ t = base
  BY <1>2, <1>3
<1>4. CASE t = Append(base, x)
  <2>1. ToSet(t) = ToSet(base) \cup {x}
    BY <1>4, AppendElements
  <2>2. /\ DOMAIN base = 1 .. Len(base) /\ DOMAIN t = 1 .. Len(base) + 1 /\ Len(base) \in Nat
        /\ \A n \in 1 .. Len(base) : t[n] = base[n] /\ base[n] \in ToSet(s)
        /\ t[Len(base) + 1] = x
    <3>1. /\ DOMAIN base = 1 .. Len(base) /\ DOMAIN t = 1 .. Len(base) + 1 /\ Len(base) \in Nat
          /\ \A n \in 1 .. Len(base) : t[n] = base[n]
          /\ t[Len(base) + 1] = x
      BY <1>4
    <3>2. \A n \in 1 .. Len(base) : base[n] \in ToSet(base)
      BY <3>1 DEF ToSet
    <3> QED  BY <1>2, <3>1, <3>2
  <2>3. ASSUME NEW i \in DOMAIN t, NEW j \in DOMAIN t, i < j, t[j] # 0 PROVE t[i] < t[j]
    <3>0. i \in 1 .. Len(base)
      BY <2>2, <2>3
    <3>1. CASE j \in 1 .. Len(base)
      BY <1>2, <2>2, <2>3, <3>0, <3>1 DEF Ordered
    <3>2. CASE j = Len(base) + 1
      BY <2>2, <2>3, <3>0, <3>2
    <3> QED  BY <2>2, <3>1, <3>2
  <2>4. Ordered(t)
    BY <2>3 DEF Ordered
  <2> QED  BY <1>2, <2>1, <2>4
<1> QED  BY <1>1, <1>3, <1>4

\* What is in order is there once, and in order.
LEMMA OrderedOnce ==
    ASSUME NEW s \in Seq(Nat), Ordered(s)
    PROVE  /\ \A i, j \in DOMAIN s : s[i] = s[j] /\ s[i] # 0 => i = j
           /\ \A i, j \in DOMAIN s : i < j /\ s[j] # 0 => s[i] <= s[j]
<1>1. /\ DOMAIN s = 1 .. Len(s) /\ Len(s) \in Nat
      /\ \A n \in 1 .. Len(s) : s[n] \in Nat
  OBVIOUS
<1>2. ASSUME NEW i \in DOMAIN s, NEW j \in DOMAIN s, s[i] = s[j], s[i] # 0 PROVE i = j
  <2>1. i \in Nat /\ j \in Nat /\ s[i] \in Nat
    BY <1>1
  <2>2. ~(i < j) /\ ~(j < i)
    BY <1>2, <2>1 DEF Ordered
  <2> QED  BY <2>1, <2>2
<1>3. ASSUME NEW i \in DOMAIN s, NEW j \in DOMAIN s, i < j, s[j] # 0 PROVE s[i] <= s[j]
  <2>1. s[i] \in Nat /\ s[j] \in Nat /\ s[i] < s[j]
    BY <1>1, <1>3 DEF Ordered
  <2> QED  BY <2>1
<1> QED  BY <1>2, <1>3

\* What was streamed is in the artifacts.
LEMMA StreamedIsContent ==
    ASSUME NEW s \in Seq(Outputs), NEW x \in ToSet(StreamedOf(s))
    PROVE  \E n \in 1 .. Len(s) : IsArtifact(s[n]) /\ x \in ToSet(s[n].content)
<1> DEFINE streamed(o) == IF IsArtifact(o) /\ ~IsSnapshot(o) THEN o.content ELSE <<>>
           ss == [n \in DOMAIN s |-> streamed(s[n])]
<1>0. \A o \in Outputs : IsArtifact(o) => o.content \in Seq(Nat)
  BY DEF IsArtifact, Outputs, Interrupt
<1>1. \A o \in Outputs : streamed(o) \in Seq(Nat)
  <2>1. <<>> \in Seq(Nat)
    OBVIOUS
  <2> QED  BY <1>0, <2>1
<1>2. ToSet(<<>>) = {}
  BY DEF ToSet
<1>3. \A o \in Outputs : \A y \in ToSet(streamed(o)) : IsArtifact(o) /\ y \in ToSet(o.content)
  BY <1>2
<1>5. DOMAIN s = 1 .. Len(s) /\ Len(s) \in Nat /\ \A n \in 1 .. Len(s) : s[n] \in Outputs
  OBVIOUS
<1>4. StreamedOf(s) = FlattenSeq(ss)
  BY DEF StreamedOf
<1> HIDE DEF streamed
<1>6. ss \in Seq(Seq(Nat)) /\ Len(ss) = Len(s) /\ \A n \in 1 .. Len(s) : ss[n] = streamed(s[n])
  BY <1>1, <1>5
<1> HIDE DEF ss
<1>7. PICK n \in 1 .. Len(s) : x \in ToSet(ss[n])
  BY <1>4, <1>6, FlattenElements
<1> QED  BY <1>3, <1>5, <1>6, <1>7

\* The end of the execution says nothing that counts.
LEMMA EndSaysNothing ==
    ASSUME NEW p, Good(p), NEW response \in Seq(Nat), NEW usage \in Usages,
           NEW q \in {Failed(p), WithFinal(p, "canceled", NoUsage), Completed(p, response, usage)}
    PROVE  SentBy(q) = SentBy(p) /\ q.held = p.held
<1>1. /\ p.out \in Seq(Outputs) /\ StreamedOf(p.out) \in Seq(Nat) /\ p \in Processors
  BY SaidIsSeq DEF Good, Processors
<1>2. ASSUME NEW s \in Seq(Outputs), NEW o \in Outputs, ~IsArtifact(o) \/ IsSnapshot(o) \/ o.content = <<>>
      PROVE  StreamedOf(Append(s, o)) = StreamedOf(s) /\ Append(s, o) \in Seq(Outputs)
  <2>1. /\ StreamedOf(s) \in Seq(Nat)
        /\ StreamedOf(Append(s, o)) = StreamedOf(s) \o <<>>
    BY <1>2, OutputIsSaid
  <2> DEFINE a == StreamedOf(s)
  <2>2. a \in Seq(Nat)
    BY <2>1
  <2> HIDE DEF a
  <2>3. a \o <<>> = a
    BY <2>2
  <2>4. Append(s, o) \in Seq(Outputs)
    OBVIOUS
  <2> QED  BY <2>1, <2>3, <2>4 DEF a
<1>3. /\ \A state \in {"input_required", "failed", "canceled"}, u \in Usages :
            Final(state, u) \in Outputs /\ ~IsArtifact(Final(state, u))
      /\ ErrorArtifact \in Outputs /\ ErrorArtifact.content = <<>>
  <2>1. ErrorArtifact \in Outputs
    BY FailedIs
  <2> QED  BY <2>1, FinalIs DEF IsArtifact, ErrorArtifact
<1>4. CASE q = Failed(p)
  <2>1. /\ q.out = Append(Append(p.out, ErrorArtifact), Final("failed", NoUsage))
        /\ q.buffer = p.buffer
    BY <1>4, FailedIs
  <2>2. StreamedOf(Append(p.out, ErrorArtifact)) = StreamedOf(p.out)
        /\ Append(p.out, ErrorArtifact) \in Seq(Outputs)
    BY <1>1, <1>2, <1>3
  <2>3. StreamedOf(q.out) = StreamedOf(p.out)
    BY <1>2, <1>3, <2>1, <2>2, NoUsageIs
  <2>4. q.held = p.held
    <3> DEFINE r == [p EXCEPT !.out = Append(@, ErrorArtifact)]
    <3>0. Append(p.out, ErrorArtifact) \in Seq(Outputs)
      BY <1>1, <1>3
    <3>1. r \in Processors /\ r.held = p.held
      BY <1>1, <3>0 DEF Processors
    <3>2. q = [r EXCEPT !.out = Append(r.out, Final("failed", NoUsage))]
      BY <1>4 DEF Failed, WithFinal
    <3> HIDE DEF r
    <3>3. \A x : [r EXCEPT !.out = x].held = r.held
      BY <3>1 DEF Processors
    <3> QED  BY <3>1, <3>2, <3>3
  <2> QED  BY <2>1, <2>3, <2>4 DEF SentBy
<1>5. CASE q = WithFinal(p, "canceled", NoUsage)
  <2> DEFINE r == WithFinal(p, "canceled", NoUsage)
  <2>0. /\ r.out = Append(p.out, Final("canceled", NoUsage))
        /\ r.buffer = p.buffer
    BY FinalIs, NoUsageIs
  <2> HIDE DEF r
  <2>1. /\ q.out = Append(p.out, Final("canceled", NoUsage))
        /\ q.buffer = p.buffer
    BY <1>5, <2>0 DEF r
  <2>2. StreamedOf(q.out) = StreamedOf(p.out)
    BY <1>1, <1>2, <1>3, <2>1, NoUsageIs
  <2>3. q.held = p.held
    BY <1>1, <1>5 DEF WithFinal, Processors
  <2> QED  BY <2>1, <2>2, <2>3 DEF SentBy
<1>6. CASE q = Completed(p, response, usage)
  <2> DEFINE o == Final("input_required", usage)
             a == Snapshot(p, response)
  <2>1. /\ q.buffer = p.buffer
        /\ \/ q.out = Append(p.out, o)
           \/ q.out = Append(Append(p.out, a), o) /\ a \in Outputs /\ IsSnapshot(a)
    <3> DEFINE r == Completed(p, response, usage)
    <3>1. /\ r.buffer = p.buffer
          /\ \/ r.out = Append(p.out, o)
             \/ r.out = Append(Append(p.out, a), o) /\ a \in Outputs /\ IsSnapshot(a)
      BY CompletedIs
    <3>2. q = r
      BY <1>6
    <3> HIDE DEF r, o, a
    <3> QED  BY <3>1, <3>2
  <2>2. o \in Outputs /\ ~IsArtifact(o)
    BY <1>3
  <2> HIDE DEF o, a
  <2>3. StreamedOf(q.out) = StreamedOf(p.out)
    <3>1. CASE q.out = Append(p.out, o)
      BY <1>1, <1>2, <2>2, <3>1
    <3>2. CASE q.out = Append(Append(p.out, a), o) /\ a \in Outputs /\ IsSnapshot(a)
      <4>1. StreamedOf(Append(p.out, a)) = StreamedOf(p.out) /\ Append(p.out, a) \in Seq(Outputs)
        BY <1>1, <1>2, <3>2
      <4> QED  BY <1>2, <2>2, <3>2, <4>1
    <3> QED  BY <2>1, <3>1, <3>2
  <2>4. q.held = p.held
    BY <1>1, <1>6 DEF Completed, WithFinal, Processors
  <2> QED  BY <2>1, <2>3, <2>4 DEF SentBy
<1> QED  BY <1>4, <1>5, <1>6

\* The forms that bring text apart from its part, or again.
Whole == {"part delta", "whole part", "rewritten part"}

\* Any other form brings one fragment at most, that of its number, and only the agent's counts.
LEMMA NotedInPieces ==
    ASSUME NEW note \in Notes, note.method \notin Whole, NEW n \in Nat, NEW m, NEW words
    PROVE  LET e == EventOf(note, n, m, words)
           IN  InPiece(e) /\ Number(e) \in {0, n}
<1>e. SUFFICES ASSUME NEW e, e = EventOf(note, n, m, words)
               PROVE  InPiece(e) /\ Number(e) \in {0, n}
  OBVIOUS
<1>1. ASSUME e.type \notin {"message.part.updated", "message.part.delta"}
      PROVE  InPiece(e) /\ Number(e) \in {0, n}
  BY <1>1 DEF InPiece, Number
<1>2. ASSUME e.type = "message.part.updated", e.text = None, NEW x \in {0, n}, e.delta = <<x>>,
             e.fragment = 0 \/ (e.fragment = x /\ e.role = "assistant")
      PROVE  InPiece(e) /\ Number(e) \in {0, n}
  <2>1. e.delta # <<>> /\ Head(e.delta) = x /\ Len(e.delta) = 1
    BY <1>2
  <2>2. Number(e) = x
    BY <1>2, <2>1 DEF Number
  <2>3. e.role = "assistant" => RoleOf(e.role) = "agent"
    BY DEF RoleOf
  <2>4. InPiece(e)
    BY <1>2, <2>1, <2>2, <2>3 DEF InPiece
  <2> QED  BY <1>2, <2>2, <2>4
<1>3. ASSUME e.type = "message.part.updated", e.text = None, e.delta = <<>>,
             e.fragment = n, e.role = "assistant"
      PROVE  InPiece(e) /\ Number(e) \in {0, n}
  <2>1. Len(e.delta) = 0
    BY <1>3
  <2>2. Number(e) = n
    BY <1>3 DEF Number
  <2>3. RoleOf(e.role) = "agent"
    BY <1>3 DEF RoleOf
  <2>4. InPiece(e)
    BY <1>3, <2>1, <2>2, <2>3 DEF InPiece
  <2> QED  BY <2>2, <2>4
<1>4. CASE note.method \in {"agentMessage/delta", "agentMessage/delta of another turn",
                            "reasoning/summaryTextDelta"}
  <2>1. \E part, type : e = TextEvent(part, type, n)
    BY <1>e, <1>4 DEF EventOf
  <2>2. /\ e.type = "message.part.updated" /\ e.text = None /\ e.delta = <<n>>
        /\ e.fragment = n /\ e.role = "assistant"
    BY <2>1 DEF TextEvent, PartEvent
  <2> QED  BY <1>2, <2>2
<1>5. CASE note.method \in {"item", "outputDelta"}
  <2>1. e = NoEvent \/ \E payload : e = ToolEvent(note.item, payload, n)
    BY <1>e, <1>5 DEF EventOf
  <2>2. CASE e = NoEvent
    <3>1. e.type = "none"
      BY <2>2 DEF NoEvent
    <3> QED  BY <1>1, <3>1
  <2>3. CASE \E payload : e = ToolEvent(note.item, payload, n)
    <3>1. /\ e.type = "message.part.updated" /\ e.text = None /\ e.delta = <<>>
          /\ e.fragment = n /\ e.role = "assistant"
      BY <2>3 DEF ToolEvent, PartEvent
    <3> QED  BY <1>3, <3>1
  <2> QED  BY <2>1, <2>2, <2>3
<1>6. CASE note.method = "tokenUsage/updated"
  <2>1. e.type = "message.finalized"
    BY <1>e, <1>6 DEF EventOf, UsageEvent
  <2> QED  BY <1>1, <2>1
<1>7. CASE note.method = "any of another session"
  <2>1. e.type = "of another session"
    BY <1>e, <1>7 DEF EventOf
  <2> QED  BY <1>1, <2>1
<1>8. CASE note.method = "part"
  <2>1. e = [PartEvent(note.item, note.type, note.role) EXCEPT !.delta = <<n>>]
    BY <1>e, <1>8 DEF EventOf
  <2>2. e.type = "message.part.updated" /\ e.text = None /\ e.delta = <<n>> /\ e.fragment = 0
    BY <2>1 DEF PartEvent
  <2> QED  BY <1>2, <2>2
<1>9. CASE note.method = "untyped part"
  <2>1. e = [PartEvent(note.item, None, "assistant") EXCEPT !.hints = note.hints, !.delta = <<n>>,
                                                            !.fragment = n]
    BY <1>e, <1>9 DEF EventOf
  <2>2. /\ e.type = "message.part.updated" /\ e.text = None /\ e.delta = <<n>>
        /\ e.fragment = n /\ e.role = "assistant"
    BY <2>1 DEF PartEvent
  <2> QED  BY <1>2, <2>2
<1>10. CASE note.method = "tool part"
  <2>1. e = [PartEvent(note.item, "tool", "assistant") EXCEPT !.state = note.status, !.fragment = n]
    BY <1>e, <1>10 DEF EventOf
  <2>2. /\ e.type = "message.part.updated" /\ e.text = None /\ e.delta = <<>>
        /\ e.fragment = n /\ e.role = "assistant"
    BY <2>1 DEF PartEvent
  <2> QED  BY <1>3, <2>2
<1>11. CASE note.method = "echo"
  <2>1. e = [PartEvent(note.item, "text", None) EXCEPT !.delta = <<0>>]
    BY <1>e, <1>11 DEF EventOf
  <2>2. e.type = "message.part.updated" /\ e.text = None /\ e.delta = <<0>> /\ e.fragment = 0
    BY <2>1 DEF PartEvent
  <2> QED  BY <1>2, <2>2
<1>12. note.method \in {"agentMessage/delta", "agentMessage/delta of another turn",
          "reasoning/summaryTextDelta", "outputDelta", "part delta", "whole part",
          "rewritten part", "echo", "item", "tokenUsage/updated", "any of another session",
          "part", "untyped part", "tool part"}
  BY DEF Notes
<1> QED  BY <1>4, <1>5, <1>6, <1>7, <1>8, <1>9, <1>10, <1>11, <1>12 DEF Whole
=============================================================================
