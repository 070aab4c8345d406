-------------------------- MODULE TurnStreamProofs --------------------------
(***************************************************************************)
(* A streaming turn is a system of interrupt requests: whatever its stream *)
(* task and its execution do, Codex's requests and the callbacks go their  *)
(* way, so what is proved of them (InterruptsProofs) holds of the turn.    *)
(* And to the client every step is one of four: the processor rests,       *)
(* flushes, handles an event, or is told of the end (Progress); the        *)
(* invariants of the stream are proved of these four.  Two of them, that   *)
(* nothing is forgotten and that the timeline is kept, are proved of the   *)
(* turns that bring their text in pieces (InPieces).                       *)
(***************************************************************************)
EXTENDS TurnStream, InterruptsProofs, StreamProcessorProofs

-----------------------------------------------------------------------------
(* A turn and its requests.                                                *)

\* A step that concerns the stream alone leaves the requests alone.
LEMMA StreamSteps ==
    ASSUME \/ \E note \in scenario.notes : Speaks(note)
           \/ Connect \/ ConnectFails \/ Retry
           \/ \E late \in BOOLEAN : TakeEvent(late)
           \/ WaitTimesOut \/ DrainTimesOut("short") \/ DrainTimesOut("idle") \/ SubscriptionEnds
           \/ StreamCancelled
           \/ TurnCompletes \/ TurnFails \/ TaskCanceled \/ Unwinds
    PROVE  UNCHANGED interruptVars
<1>1. CASE \E note \in scenario.notes : Speaks(note)
  BY <1>1 DEF Speaks
<1>2. CASE Connect \/ ConnectFails \/ Retry \/ \E late \in BOOLEAN : TakeEvent(late)
  BY <1>2 DEF Connect, ConnectFails, Retry, TakeEvent
<1>3. CASE \/ WaitTimesOut \/ DrainTimesOut("short") \/ DrainTimesOut("idle")
           \/ SubscriptionEnds \/ StreamCancelled
  BY <1>3 DEF WaitTimesOut, DrainTimesOut, SubscriptionEnds, StreamCancelled, StreamEnded
<1>4. CASE TurnCompletes \/ TurnFails \/ TaskCanceled \/ Unwinds
  BY <1>4 DEF TurnCompletes, TurnFails, TaskCanceled, Unwinds, Reports
<1>5. QED  BY <1>1, <1>2, <1>3, <1>4

\* A step that concerns the requests is one of theirs.
LEMMA InterruptSteps ==
    ASSUME \/ \E k \in Requests, kind \in Kinds : Asks(k, kind)
           \/ CallbackSteps
           \/ \E c \in Callbacks : Answered(c)
    PROVE  InterruptsNext
<1>1. CASE \E k \in Requests, kind \in Kinds : Asks(k, kind)
  BY <1>1 DEF Asks, InterruptsNext
<1>2. CASE CallbackSteps
  BY <1>2 DEF CallbackSteps, InterruptsNext
<1>3. CASE \E c \in Callbacks : Answered(c)
  BY <1>3 DEF Answered, InterruptsNext
<1>4. QED  BY <1>1, <1>2, <1>3

\* The turn implements the requests and their callbacks.
THEOREM TurnImplementsInterrupts == Spec => InterruptsSpec
<1>1. Init => InterruptsInit
  BY DEF Init
<1>2. [Next]_vars => [InterruptsNext]_interruptVars
  <2>1. CASE Next
    BY <2>1, StreamSteps, InterruptSteps DEF Next
  <2>2. CASE UNCHANGED vars
    BY <2>2 DEF vars
  <2>3. QED  BY <2>1, <2>2
<1>3. QED  BY <1>1, <1>2, PTL DEF Spec, InterruptsSpec

\* In a turn, too, no request is lost, none is answered again, clients are told the truth
\* and the owners are a bounded map that may forget.
COROLLARY TurnKeepsInterrupts ==
    Spec => /\ []OpenIsPending /\ []CacheIsBounded
            /\ AnsweredIsGone /\ RepliesAreTrue /\ OwnersAreLossyMap
  BY TurnImplementsInterrupts, NoneIsLost, CacheStaysBounded, AnsweredOnce, TruthIsTold,
     OwnersAreKept, PTL

\* Whatever tells of a tool call in the queue does so as the app server does.
QueueTells == \A n \in DOMAIN queue : IsPartEvent(queue[n]) => Tells(queue[n])

\* The inductive invariant of the types.
Typed == StreamTypeOK /\ Good(processor) /\ QueueTells

\* s is what is left of t when its first d elements are gone.
Rest(s, t, d) ==
    /\ d \in 0 .. Len(t) /\ Len(s) = Len(t) - d
    /\ \A n \in 1 .. Len(s) : s[n] = t[n + d]

\* A queue, its tail and the empty queue are what is left of it.
LEMMA RestOf ==
    ASSUME NEW S, NEW t \in Seq(S)
    PROVE  /\ Rest(t, t, 0) /\ Rest(<<>>, t, Len(t))
           /\ t # <<>> => Tail(t) \in Seq(S) /\ Rest(Tail(t), t, 1)
  BY DEF Rest

\* What is published goes to the end, and something may be lost at the front.
LEMMA QueuedIs ==
    ASSUME Typed, NEW e \in Events, Proper(e) \/ e.type \in {"asked", "resolved"}
    PROVE  /\ Queued(e) \in Seq(Events) /\ Len(Queued(e)) <= MaxQueue
           /\ \E d \in Nat : Rest(Queued(e), Append(queue, e), d)
<1>1. queue \in Seq(Events) /\ Len(queue) \in Nat /\ Len(queue) <= MaxQueue /\ MaxQueue \in Nat \ {0}
  BY MaxQueueAssumption DEF Typed, StreamTypeOK
<1>2. Append(queue, e) \in Seq(Events) /\ Len(Append(queue, e)) = Len(queue) + 1
  BY <1>1
<1>3. CASE Len(queue) < MaxQueue
  <2>1. Queued(e) = Append(queue, e)
    BY <1>3 DEF Queued
  <2>2. Rest(Queued(e), Append(queue, e), 0)
    BY <1>2, <2>1, RestOf
  <2> QED  BY <1>1, <1>2, <1>3, <2>1, <2>2
<1>4. CASE ~(Len(queue) < MaxQueue)
  <2>1. Queued(e) = Append(Tail(queue), e) /\ queue # <<>>
    BY <1>1, <1>4 DEF Queued
  <2>2. Tail(queue) \in Seq(Events) /\ Len(Tail(queue)) = Len(queue) - 1
    BY <1>1, <2>1
  <2>3. Append(Tail(queue), e) \in Seq(Events) /\ Len(Append(Tail(queue), e)) = Len(queue)
    BY <1>1, <2>2
  <2>4. Rest(Queued(e), Append(queue, e), 1)
    <3>1. ASSUME NEW n \in 1 .. Len(queue)
          PROVE  Append(Tail(queue), e)[n] = Append(queue, e)[n + 1]
      <4>1. CASE n < Len(queue)
        BY <1>1, <2>1, <4>1
      <4>2. CASE n = Len(queue)
        BY <1>1, <2>2, <4>2
      <4> QED  BY <1>1, <4>1, <4>2
    <3>2. 1 \in 0 .. Len(Append(queue, e)) /\ Len(queue) = Len(Append(queue, e)) - 1
      BY <1>1, <1>2
    <3>3. Len(Queued(e)) = Len(queue) /\ Queued(e) = Append(Tail(queue), e)
      BY <2>1, <2>3
    <3> QED  BY ONLY <3>1, <3>2, <3>3 DEF Rest
  <2> QED  BY <1>1, <2>1, <2>3, <2>4
<1> QED  BY <1>3, <1>4

\* A shorter queue is as good as the longer one.
LEMMA RestTells ==
    ASSUME NEW q \in Seq(Events), NEW r \in Seq(Events), NEW d, Rest(q, r, d),
           \A n \in DOMAIN r : IsPartEvent(r[n]) => Tells(r[n])
    PROVE  \A n \in DOMAIN q : IsPartEvent(q[n]) => Tells(q[n])
<1>1. ASSUME NEW n \in DOMAIN q PROVE IsPartEvent(q[n]) => Tells(q[n])
  <2>1. n + d \in DOMAIN r /\ q[n] = r[n + d]
    BY DEF Rest
  <2> QED  BY <2>1
<1> QED  BY <1>1

\* The queue after a publication.
LEMMA Published ==
    ASSUME Typed, NEW e, Publish(e), Proper(e) \/ e.type \in {"asked", "resolved"}, e \in Events \cup {NoEvent}
    PROVE  /\ queue' \in Seq(Events) /\ Len(queue') <= MaxQueue /\ QueueTells'
           /\ stream' # "reading" => queue' = <<>>
           /\ UNCHANGED <<stream, failures, timer, execution, counted, processor, handled>>
           /\ \/ queue' = queue
              \/ e \in Events /\ \E d \in Nat : Rest(queue', Append(queue, e), d)
<1>1. queue \in Seq(Events) /\ Len(queue) <= MaxQueue /\ QueueTells /\ (stream # "reading" => queue = <<>>)
  BY DEF Typed, StreamTypeOK
<1>2. UNCHANGED <<stream, failures, timer, execution, counted, processor, handled>>
  BY DEF Publish
<1>3. CASE stream # "reading" \/ e = NoEvent
  <2>1. queue' = queue
    BY <1>3 DEF Publish
  <2> QED  BY <1>1, <1>2, <2>1 DEF QueueTells
<1>4. CASE ~(stream # "reading" \/ e = NoEvent)
  <2>1. queue' = Queued(e) /\ e \in Events
    BY <1>4 DEF Publish
  <2>2. /\ queue' \in Seq(Events) /\ Len(queue') <= MaxQueue
        /\ \E d \in Nat : Rest(queue', Append(queue, e), d)
    BY <2>1, QueuedIs
  <2>3. \A n \in DOMAIN Append(queue, e) :
            IsPartEvent(Append(queue, e)[n]) => Tells(Append(queue, e)[n])
    <3>1. IsPartEvent(e) => Tells(e)
      BY DEF Proper, IsPartEvent
    <3> TAKE n \in DOMAIN Append(queue, e)
    <3>2. (n \in DOMAIN queue /\ Append(queue, e)[n] = queue[n]) \/ Append(queue, e)[n] = e
      BY <1>1, <2>1
    <3> QED  BY <1>1, <3>1, <3>2 DEF QueueTells
  <2>4. Append(queue, e) \in Seq(Events)
    BY <1>1, <2>1
  <2>5. QueueTells'
    BY <2>2, <2>3, <2>4, RestTells DEF QueueTells
  <2> QED  BY <1>2, <1>4, <2>1, <2>2, <2>5
<1> QED  BY <1>3, <1>4

-----------------------------------------------------------------------------
(* What a step does to the stream.                                         *)

\* Where an event that is published comes from.
AsksFor(e) == e.type = "asked" /\ requests[e.request] = None /\ requests'[e.request] # None
\* What tells of an answer comes when a callback has written it.
AnswersIt(e) ==
    e.type = "resolved" /\ \E c \in Callbacks : Writes(c) /\ ~broken /\ callback[c].request = e.request
Noted(e) ==
    \E note \in scenario.notes : note \in Notes /\ e = EventOf(note, produced + 1, message', said')
Comes(e) ==
    \/ Proper(e) /\ Noted(e) /\ produced' = produced + 1
    \/ e.request \in Requests /\ (AsksFor(e) \/ AnswersIt(e))

\* What a step is to the stream: the processor rests, flushes, handles an event, or is told
\* of the end.
Rests ==
    /\ UNCHANGED <<processor, handled>>
    /\ \/ queue' = queue
       \/ \E e \in Events : Comes(e) /\ \E d \in Nat : Rest(queue', Append(queue, e), d)
    /\ stream = "done" => stream' = "done"
    /\ stream = "closing" => stream' \in {"closing", "done"}
    /\ \/ execution' = execution /\ (execution \in {"sending", "draining"} \/ said' = said)
       \/ execution = "sending" /\ execution' = "draining" /\ said' = said
       \/ execution = "unwinding" /\ stream = "done" /\ execution' = "done" /\ said' = said

Flushes ==
    /\ processor' = Flush(processor) /\ UNCHANGED <<handled, execution, said>>
    /\ queue' = queue \/ queue' = <<>>
    /\ stream # "done"
    /\ stream = "closing" => execution = "unwinding"
    /\ execution # "unwinding" \/ stream' = "done"

Handles(late) ==
    /\ processor' = HandleEvent(processor, Head(queue), late)
    /\ queue # <<>> /\ queue' = Tail(queue) /\ handled' = Append(handled, Head(queue))
    /\ UNCHANGED <<execution, stream, said>>
    /\ stream = "reading" /\ execution # "unwinding"

Finishes ==
    /\ UNCHANGED <<queue, handled, stream, said>>
    /\ \/ /\ execution = "sending" /\ execution' = "unwinding" /\ processor' = Failed(processor)
       \/ /\ execution \in {"sending", "draining"}
          /\ \/ execution' = "unwinding"
             \/ stream = "closing" /\ execution' = "surviving"
          /\ processor' = WithFinal(processor, "canceled", NoUsage)
       \/ /\ execution \in {"draining", "surviving"} /\ stream = "done" /\ execution' = "done"
          /\ processor' = Completed(processor, said, counted)

Progress == Rests \/ Flushes \/ (\E late \in BOOLEAN : Handles(late)) \/ Finishes

\* What Codex says is published as a proper event, ...
LEMMA NotedIsProper ==
    ASSUME Typed, NEW note \in scenario.notes, Speaks(note)
    PROVE  /\ note \in Notes /\ produced' \in Nat /\ said' \in Seq(1 .. produced')
           /\ message' \in Optional(Items)
           /\ Proper(EventOf(note, produced', message', said'))
<1>1. /\ note \in Notes /\ produced \in Nat /\ said \in Seq(1 .. produced)
      /\ message \in Optional(Items)
  BY ScenariosAssumption DEF Typed, StreamTypeOK
<1>2. /\ produced' = produced + 1 /\ said' = SaidAfter(note, produced', said)
      /\ message' = MessageAfter(note, message)
  BY DEF Speaks
<1>3. produced' \in Nat /\ produced' \in 1 .. produced'
  BY <1>1, <1>2
<1>4. said \in Seq(1 .. produced') /\ 1 .. produced' \subseteq Nat
  BY <1>1, <1>2
<1>5. said' \in Seq(1 .. produced')
  <2>1. Append(said, produced') \in Seq(1 .. produced') /\ <<produced'>> \in Seq(1 .. produced')
    BY <1>3, <1>4
  <2> QED  BY <1>2, <1>4, <2>1 DEF SaidAfter
<1>6. message' \in Optional(Items)
  <2>1. note.method = "agentMessage/delta" => note.item \in Optional(Items)
    BY <1>1 DEF Notes
  <2> QED  BY <1>1, <1>2, <2>1 DEF MessageAfter
<1>7. said' \in Seq(Nat)
  BY <1>4, <1>5, SeqMonotonic
<1>8. Proper(EventOf(note, produced', message', said'))
  BY <1>1, <1>3, <1>6, <1>7, EventOfIsProper
<1> QED  BY <1>1, <1>3, <1>5, <1>6, <1>8

\* ... and leaves the processor at rest.
LEMMA SpeaksRests ==
    ASSUME Typed, NEW note \in scenario.notes, Speaks(note)
    PROVE  Rests /\ queue' \in Seq(Events) /\ Len(queue') <= MaxQueue /\ QueueTells'
           /\ (stream' # "reading" => queue' = <<>>)
<1> DEFINE e == EventOf(note, produced', message', said')
<1>1. Proper(e) /\ e \in Events \cup {NoEvent}
  BY NotedIsProper DEF Proper
<1>2. Publish(e) /\ execution \in {"sending", "draining"} /\ produced' = produced + 1
  BY DEF Speaks
<1>0. Noted(e)
  BY <1>2, NotedIsProper DEF Noted
<1> HIDE DEF e
<1>3. /\ queue' \in Seq(Events) /\ Len(queue') <= MaxQueue /\ QueueTells'
      /\ stream' # "reading" => queue' = <<>>
      /\ UNCHANGED <<stream, failures, timer, execution, counted, processor, handled>>
      /\ \/ queue' = queue
         \/ e \in Events /\ \E d \in Nat : Rest(queue', Append(queue, e), d)
  BY <1>1, <1>2, Published
<1>4. e \in Events => Comes(e)
  BY <1>1, <1>2, <1>0 DEF Comes
<1>5. Rests
  BY <1>2, <1>3, <1>4 DEF Rests
<1> QED  BY <1>3, <1>5

\* What it asks leaves the processor at rest, ...
LEMMA AsksRests ==
    ASSUME Typed, NEW k \in Requests, NEW kind \in Kinds, Asks(k, kind)
    PROVE  Rests /\ queue' \in Seq(Events) /\ Len(queue') <= MaxQueue /\ QueueTells'
           /\ (stream' # "reading" => queue' = <<>>)
<1> DEFINE e == AskedEvent(k, kind)
<1>1. e \in Events /\ e.type = "asked" /\ e.request = k
  <2>1. k \in Nat /\ kind \in Strings
    BY DEF Requests, Kinds, Strings
  <2> QED  BY <2>1 DEF AskedEvent, Events
<1>2. Publish(e) /\ execution = "sending" /\ said' = said
  BY DEF Asks, codexVars
<1>3. requests[k] = None /\ requests'[k] # None
  <2>1. requests[k] = None /\ requests' = [requests EXCEPT ![k] = [kind |-> kind, at |-> clock]]
    BY DEF Asks, ServerRequest
  <2>2. [kind |-> kind, at |-> clock] \in RequestRecords
    BY DEF Typed, StreamTypeOK, InterruptsTypeOK, RequestRecords
  <2>3. requests \in [Requests -> RequestRecords \cup {None}]
    BY DEF Typed, StreamTypeOK, InterruptsTypeOK
  <2> QED  BY <2>1, <2>2, <2>3, NoneAssumption
<1> HIDE DEF e
<1>4. /\ queue' \in Seq(Events) /\ Len(queue') <= MaxQueue /\ QueueTells'
      /\ stream' # "reading" => queue' = <<>>
      /\ UNCHANGED <<stream, failures, timer, execution, counted, processor, handled>>
      /\ \/ queue' = queue
         \/ e \in Events /\ \E d \in Nat : Rest(queue', Append(queue, e), d)
  BY <1>1, <1>2, Published
<1>5. Rests
  BY <1>1, <1>2, <1>3, <1>4 DEF Rests, Comes, AsksFor
<1> QED  BY <1>4, <1>5

\* ... and so does an answer that is through.
LEMMA AnsweredRests ==
    ASSUME Typed, Inv, NEW c \in Callbacks, Answered(c)
    PROVE  Rests /\ queue' \in Seq(Events) /\ Len(queue') <= MaxQueue /\ QueueTells'
           /\ (stream' # "reading" => queue' = <<>>)
<1> DEFINE k == callback[c].request
           e == ResolvedEvent(k, requests[k].kind)
<1>1. Writes(c) /\ ~broken /\ Publish(e) /\ said' = said
  BY DEF Answered, Drained, Writes, codexVars
<1>2. k \in Requests /\ requests[k] \in RequestRecords
  <2>1. callback[c] \in {Idle} \cup CallbackRecords /\ callback[c] # Idle
    BY <1>1, IdleAt DEF Inv, InterruptsTypeOK, Writes
  <2>2. k \in Requests /\ requests[k] # None
    BY <2>1 DEF Inv, NamesARequest, CallbackRecords
  <2> QED  BY <2>2 DEF Inv, InterruptsTypeOK
<1>3. e \in Events /\ e.type = "resolved" /\ e.request = k
  <2>1. k \in Nat /\ requests[k].kind \in Strings
    BY <1>2 DEF Requests, RequestRecords, Kinds, Strings
  <2> QED  BY <2>1 DEF ResolvedEvent, Events
<1> HIDE DEF e
<1>4. /\ queue' \in Seq(Events) /\ Len(queue') <= MaxQueue /\ QueueTells'
      /\ stream' # "reading" => queue' = <<>>
      /\ UNCHANGED <<stream, failures, timer, execution, counted, processor, handled>>
      /\ \/ queue' = queue
         \/ e \in Events /\ \E d \in Nat : Rest(queue', Append(queue, e), d)
  BY <1>1, <1>3, Published
<1>5. Comes(e)
  BY <1>1, <1>2, <1>3 DEF Comes, AnswersIt
<1>6. Rests
  BY <1>1, <1>4, <1>5 DEF Rests
<1> QED  BY <1>4, <1>6

\* Every step goes ahead in one of these ways, and what is queued stays as it should be.
QueueOK ==
    /\ queue \in Seq(Events) /\ Len(queue) <= MaxQueue /\ QueueTells
    /\ stream # "reading" => queue = <<>>

\* The steps of the stream task that flush, ...
LEMMA FlushSteps ==
    ASSUME Typed, Retry \/ WaitTimesOut \/ DrainTimesOut("short") \/ DrainTimesOut("idle") \/ StreamCancelled
    PROVE  Flushes /\ QueueOK'
<1>1. QueueOK /\ <<>> \in Seq(Events) /\ Len(<<>>) <= MaxQueue /\ DOMAIN <<>> = {}
  BY MaxQueueAssumption DEF Typed, StreamTypeOK, QueueOK
<1>2. CASE Retry
  <2>1. Flushes /\ queue' = queue /\ stream' # "reading" /\ stream # "reading"
    BY <1>2 DEF Retry, Proceeds, Flushes, codexVars
  <2> QED  BY <1>1, <2>1 DEF QueueOK, QueueTells
<1>3. CASE WaitTimesOut
  <2>1. Flushes /\ queue' = queue /\ stream' = stream
    BY <1>3 DEF WaitTimesOut, Proceeds, Flushes, codexVars, Waiting
  <2> QED  BY <1>1, <2>1 DEF QueueOK, QueueTells
<1>4. CASE DrainTimesOut("short") \/ DrainTimesOut("idle") \/ StreamCancelled
  <2>1. Flushes /\ queue' = <<>>
    BY <1>4 DEF DrainTimesOut, StreamCancelled, Drains, Stops, StreamEnded, Flushes, codexVars, Waiting
  <2> QED  BY <1>1, <2>1 DEF QueueOK, QueueTells
<1> QED  BY <1>2, <1>3, <1>4

\* ... the one that handles an event, ...
LEMMA TakeSteps ==
    ASSUME Typed, NEW late \in BOOLEAN, TakeEvent(late)
    PROVE  Handles(late) /\ QueueOK'
<1>1. QueueOK
  BY DEF Typed, StreamTypeOK, QueueOK
<1>2. Handles(late)
  BY DEF TakeEvent, Takes, Proceeds, Handles, codexVars
<1>3. queue # <<>> /\ queue' = Tail(queue) /\ stream' = stream /\ stream = "reading"
  BY <1>2 DEF Handles
<1>4. queue' \in Seq(Events) /\ Rest(queue', queue, 1) /\ Len(queue') <= MaxQueue
  BY <1>1, <1>3, RestOf, MaxQueueAssumption DEF QueueOK
<1>5. QueueTells'
  BY <1>1, <1>4, RestTells DEF QueueOK, QueueTells
<1> QED  BY <1>2, <1>3, <1>4, <1>5 DEF QueueOK

\* ... those that leave the processor at rest, ...
LEMMA QuietSteps ==
    ASSUME Typed, Inv,
           \/ \E note \in scenario.notes : Speaks(note)
           \/ \E k \in Requests, kind \in Kinds : Asks(k, kind)
           \/ Connect \/ ConnectFails \/ TurnCompletes \/ SubscriptionEnds
           \/ CallbackSteps /\ UNCHANGED <<codexVars, streamVars>>
           \/ \E c \in Callbacks : Answered(c)
           \/ UNCHANGED vars
    PROVE  Rests /\ QueueOK'
<1>1. QueueOK
  BY DEF Typed, StreamTypeOK, QueueOK
<1>2. CASE \E note \in scenario.notes : Speaks(note)
  BY <1>2, SpeaksRests DEF QueueOK
<1>3. CASE \E k \in Requests, kind \in Kinds : Asks(k, kind)
  BY <1>3, AsksRests DEF QueueOK
<1>4. CASE \E c \in Callbacks : Answered(c)
  BY <1>4, AnsweredRests DEF QueueOK
<1>5. CASE Connect \/ ConnectFails
  <2>1. Rests /\ queue' = queue /\ stream # "reading"
    BY <1>5 DEF Connect, ConnectFails, Rests, codexVars
  <2> QED  BY <1>1, <2>1 DEF QueueOK, QueueTells
<1>6. CASE TurnCompletes \/ (CallbackSteps /\ UNCHANGED <<codexVars, streamVars>>) \/ UNCHANGED vars
  <2>1. Rests /\ queue' = queue /\ stream' = stream
    BY <1>6 DEF TurnCompletes, Reports, Rests, codexVars, streamVars, vars
  <2> QED  BY <1>1, <2>1 DEF QueueOK, QueueTells
<1>7. CASE SubscriptionEnds
  <2>1. stream = "closing" /\ stream' = "done" /\ queue = <<>> /\ queue' = queue
    BY <1>1, <1>7 DEF SubscriptionEnds, Closes, StreamEnded, QueueOK
  <2>2. UNCHANGED <<processor, handled, execution, said>>
    BY <1>7 DEF SubscriptionEnds, StreamEnded, codexVars
  <2>3. execution' = execution /\ (execution \in {"sending", "draining"} \/ said' = said)
    BY <2>2
  <2>4. Rests
    BY <2>1, <2>2, <2>3 DEF Rests
  <2> QED  BY <1>1, <2>1, <2>4 DEF QueueOK, QueueTells
<1> QED  BY <1>2, <1>3, <1>4, <1>5, <1>6, <1>7

\* ... and those of the execution that tell it of the end.
LEMMA EndSteps ==
    ASSUME Typed, TurnFails \/ TaskCanceled \/ Unwinds
    PROVE  (Rests \/ Finishes) /\ QueueOK'
<1>1. QueueOK
  BY DEF Typed, StreamTypeOK, QueueOK
<1>2. queue' = queue /\ stream' = stream
  BY DEF TurnFails, TaskCanceled, Unwinds, Reports
<1>3. CASE TurnFails \/ TaskCanceled
  <2>1. Finishes
    BY <1>3 DEF TurnFails, TaskCanceled, Reports, Finishes, codexVars
  <2> QED  BY <1>1, <1>2, <2>1 DEF QueueOK, QueueTells
<1>4. CASE Unwinds
  <2>1. Rests \/ Finishes
    BY <1>4 DEF Unwinds, Ends, Reports, Finishes, Rests, codexVars
  <2> QED  BY <1>1, <1>2, <2>1 DEF QueueOK, QueueTells
<1> QED  BY <1>3, <1>4

\* There are no others.
LEMMA NextIs ==
    ASSUME Typed, Inv, [Next]_vars
    PROVE  Progress /\ QueueOK'
<1>1. CASE Next
  <2>1. CASE \E late \in BOOLEAN : TakeEvent(late)
    BY <2>1, TakeSteps DEF Progress
  <2>2. CASE Retry \/ WaitTimesOut \/ DrainTimesOut("short") \/ DrainTimesOut("idle") \/ StreamCancelled
    BY <2>2, FlushSteps DEF Progress
  <2>3. CASE TurnFails \/ TaskCanceled \/ Unwinds
    BY <2>3, EndSteps DEF Progress
  <2>4. CASE \/ \E note \in scenario.notes : Speaks(note)
             \/ \E k \in Requests, kind \in Kinds : Asks(k, kind)
             \/ Connect \/ ConnectFails \/ TurnCompletes \/ SubscriptionEnds
             \/ CallbackSteps /\ UNCHANGED <<codexVars, streamVars>>
             \/ \E c \in Callbacks : Answered(c)
    BY <2>4, QuietSteps DEF Progress
  <2> QED  BY <1>1, <2>1, <2>2, <2>3, <2>4 DEF Next
<1>2. CASE UNCHANGED vars
  BY <1>2, QuietSteps DEF Progress
<1> QED  BY <1>1, <1>2

-----------------------------------------------------------------------------
(* Types.                                                                  *)

\* What a step makes of the processor.
LEMMA StaysGood ==
    ASSUME Typed, Progress
    PROVE  Good(processor') /\ handled' \in Seq(Events)
<1>0. /\ Good(processor) /\ handled \in Seq(Events) /\ queue \in Seq(Events) /\ counted \in Usages
      /\ said \in Seq(Nat)
  <2>1. said \in Seq(1 .. produced) /\ produced \in Nat
    BY ScenariosAssumption DEF Typed, StreamTypeOK
  <2> QED  BY <2>1, SeqMonotonic DEF Typed, StreamTypeOK
<1>1. CASE Rests
  BY <1>0, <1>1 DEF Rests
<1>2. CASE Flushes
  BY <1>0, <1>2, FlushStreams DEF Flushes, Streams
<1>3. ASSUME NEW late \in BOOLEAN, Handles(late) PROVE Good(processor') /\ handled' \in Seq(Events)
  <2>1. Head(queue) \in Events /\ (IsPartEvent(Head(queue)) => Tells(Head(queue)))
    <3>1. queue # <<>> /\ 1 \in DOMAIN queue /\ Head(queue) = queue[1]
      BY <1>0, <1>3 DEF Handles
    <3> QED  BY <1>0, <3>1 DEF Typed, QueueTells
  <2>2. Good(HandleEvent(processor, Head(queue), late))
    BY <1>0, <2>1, HandleEventIs DEF Says, Shows, Prompts
  <2> QED  BY <1>0, <1>3, <2>1, <2>2 DEF Handles
<1>4. CASE Finishes
  <2>1. Good(Failed(processor)) /\ Good(WithFinal(processor, "canceled", NoUsage))
    BY <1>0, FailedIs, FinalIs, NoUsageIs
  <2>2. Good(Completed(processor, said, counted))
    BY <1>0, CompletedIs
  <2> QED  BY <1>0, <1>4, <2>1, <2>2 DEF Finishes
<1> QED  BY <1>1, <1>2, <1>3, <1>4 DEF Progress

\* The variables of Codex and of the two tasks.
TasksOK ==
    /\ stream \in {"connecting", "reading", "backoff", "closing", "done"}
    /\ failures \in 0 .. scenario.failures
    /\ timer \in {"short", "idle"}
    /\ execution \in {"sending", "draining", "surviving", "unwinding", "done"}
    /\ counted \in Usages

CodexOK ==
    /\ scenario \in Scenarios
    /\ produced \in 0 .. scenario.length
    /\ said \in Seq(1 .. produced)
    /\ message \in Optional(Items)

\* Every step keeps the types of the variables of Codex, ...
LEMMA CodexTyped ==
    ASSUME Typed, [Next]_vars
    PROVE  CodexOK'
<1>1. CodexOK /\ scenario.length \in Nat
  BY ScenariosAssumption DEF Typed, StreamTypeOK, CodexOK
<1>2. CASE \E note \in scenario.notes : Speaks(note)
  <2> PICK note \in scenario.notes : Speaks(note)
    BY <1>2
  <2>1. said' \in Seq(1 .. produced') /\ message' \in Optional(Items)
    BY NotedIsProper
  <2>2. scenario' = scenario /\ produced' = produced + 1 /\ produced < scenario.length
    BY DEF Speaks
  <2> QED  BY <1>1, <2>1, <2>2 DEF CodexOK
<1>3. CASE UNCHANGED codexVars
  BY <1>1, <1>3 DEF CodexOK, codexVars
<1>4. ASSUME Next, ~ \E note \in scenario.notes : Speaks(note) PROVE UNCHANGED codexVars
  <2>1. CASE \/ \E k \in Requests, kind \in Kinds : Asks(k, kind)
             \/ \E c \in Callbacks : Answered(c)
             \/ CallbackSteps /\ UNCHANGED <<codexVars, streamVars>>
    BY <2>1 DEF Asks, Answered
  <2>2. CASE Connect \/ ConnectFails \/ Retry \/ (\E late \in BOOLEAN : TakeEvent(late)) \/ WaitTimesOut
    BY <2>2 DEF Connect, ConnectFails, Retry, TakeEvent, WaitTimesOut
  <2>3. CASE DrainTimesOut("short") \/ DrainTimesOut("idle") \/ SubscriptionEnds \/ StreamCancelled
    BY <2>3 DEF DrainTimesOut, SubscriptionEnds, StreamCancelled, StreamEnded
  <2>4. CASE TurnCompletes \/ TurnFails \/ TaskCanceled \/ Unwinds
    BY <2>4 DEF TurnCompletes, TurnFails, TaskCanceled, Unwinds, Reports
  <2> QED  BY <1>4, <2>1, <2>2, <2>3, <2>4 DEF Next
<1> QED  BY <1>2, <1>3, <1>4 DEF vars

\* ... and of the tasks.
LEMMA TasksTyped ==
    ASSUME Typed, [Next]_vars
    PROVE  TasksOK'
<1>1. TasksOK /\ scenario.failures \in Nat /\ processor.usage \in Usages
  BY ScenariosAssumption DEF Typed, StreamTypeOK, TasksOK, Processors
<1>2. scenario' = scenario
  BY DEF Next, vars, codexVars, Speaks, Asks, Answered, Connect, ConnectFails, Retry, TakeEvent,
         WaitTimesOut, DrainTimesOut, SubscriptionEnds, StreamCancelled, StreamEnded,
         TurnCompletes, TurnFails,
         TaskCanceled, Unwinds, Reports
<1>3. CASE \/ \E note \in scenario.notes : Speaks(note)
           \/ \E k \in Requests, kind \in Kinds : Asks(k, kind)
           \/ \E c \in Callbacks : Answered(c)
           \/ CallbackSteps /\ UNCHANGED <<codexVars, streamVars>>
           \/ UNCHANGED vars
  <2>1. UNCHANGED <<stream, failures, timer, execution, counted>>
    BY <1>3 DEF Speaks, Asks, Answered, Publish, streamVars, vars
  <2> QED  BY <1>1, <1>2, <2>1 DEF TasksOK
<1>4. CASE Connect \/ ConnectFails \/ Retry \/ (\E late \in BOOLEAN : TakeEvent(late)) \/ WaitTimesOut
  BY <1>1, <1>2, <1>4 DEF TasksOK, Connect, ConnectFails, Retry, TakeEvent, WaitTimesOut, Proceeds, NextTimer
<1>5. CASE DrainTimesOut("short") \/ DrainTimesOut("idle") \/ SubscriptionEnds \/ StreamCancelled
  BY <1>1, <1>2, <1>5
     DEF TasksOK, DrainTimesOut, SubscriptionEnds, StreamCancelled, StreamEnded, Drains, Closes, Stops
<1>6. CASE TurnCompletes \/ TurnFails \/ TaskCanceled \/ Unwinds
  BY <1>1, <1>2, <1>6 DEF TasksOK, TurnCompletes, TurnFails, TaskCanceled, Unwinds, Ends, Reports
<1> QED  BY <1>3, <1>4, <1>5, <1>6 DEF Next

\* Every step of the turn is one of the requests, or leaves them alone.
LEMMA RequestsGoOn ==
    ASSUME [Next]_vars
    PROVE  [InterruptsNext]_interruptVars
<1>1. CASE Next
  BY <1>1, StreamSteps, InterruptSteps DEF Next
<1>2. CASE UNCHANGED vars
  BY <1>2 DEF vars
<1> QED  BY <1>1, <1>2

\* Every step keeps the types.
LEMMA TypedStays == Typed /\ Inv /\ [Next]_vars => Typed'
<1> SUFFICES ASSUME Typed, Inv, [Next]_vars PROVE Typed'
  OBVIOUS
<1>1. Progress /\ QueueOK'
  BY NextIs
<1>2. Good(processor') /\ handled' \in Seq(Events)
  BY <1>1, StaysGood
<1>3. InterruptsTypeOK'
  BY RequestsGoOn, NextTypes DEF Inv
<1>4. processor' \in Processors
  BY <1>2 DEF Good
<1> QED  BY <1>1, <1>2, <1>3, <1>4, CodexTyped, TasksTyped DEF Typed, StreamTypeOK, QueueOK, CodexOK, TasksOK

\* They hold at first.
LEMMA TypedAtFirst == Init => Typed
<1> SUFFICES ASSUME Init PROVE Typed
  OBVIOUS
<1>1. InterruptsTypeOK
  BY InitTypes DEF Init
<1>2. /\ scenario \in Scenarios /\ scenario.length \in Nat /\ scenario.failures \in Nat
      /\ MaxQueue \in Nat
  BY ScenariosAssumption, MaxQueueAssumption DEF Init
<1>3. NewProcessor \in Processors /\ NewProcessor.buffer = None
  <2>1. [text |-> <<>>, reasoning |-> <<>>, tool_call |-> <<>>]
            \in [text : Seq(Nat), reasoning : Seq(Nat), tool_call : Seq(Payloads)]
    OBVIOUS
  <2>2. /\ [i \in Items |-> None] \in [Items -> Optional(PartStates)]
        /\ [i \in Items |-> <<>>] \in [Items -> Seq(Seq(Nat))]
        /\ None \in Optional(Chunks) /\ NoUsage \in Usages
    BY NoUsageIs DEF Optional
  <2> QED  BY <2>1, <2>2 DEF NewProcessor, Processors
<1>4. Good(processor)
  BY <1>3 DEF Init, Good, Optional
<1>5. said \in Seq(1 .. produced) /\ queue \in Seq(Events) /\ handled \in Seq(Events) /\ Len(queue) = 0
  BY DEF Init
<1> QED  BY <1>1, <1>2, <1>3, <1>4, <1>5, NoUsageIs DEF Init, Typed, StreamTypeOK, QueueTells, Optional

\* What the variables of the turn hold: the queue of a subscriber never exceeds its capacity
\* and is empty while nobody reads it, and the processor's fields are what they should be.
THEOREM StreamTypeCorrect == Spec => []StreamTypeOK
<1>1. Spec => []Inv
  BY TurnImplementsInterrupts, InvHolds, PTL
<1>2. Init => Typed
  BY TypedAtFirst
<1>3. Typed /\ Inv /\ [Next]_vars => Typed'
  BY TypedStays
<1>4. Typed => StreamTypeOK
  BY DEF Typed
<1> QED  BY <1>1, <1>2, <1>3, <1>4, PTL DEF Spec

\* What has been shown to hold in every state, for the invariants below.
Sound == Typed /\ Inv
\* It holds in every state.
LEMMA SoundHolds == Spec => []Sound
<1>1. Spec => []Inv
  BY TurnImplementsInterrupts, InvHolds, PTL
<1>2. Init => Typed
  BY TypedAtFirst
<1>3. Typed /\ Inv /\ [Next]_vars => Typed'
  BY TypedStays
<1> QED  BY <1>1, <1>2, <1>3, PTL DEF Spec, Sound

\* What there is to say of a step.
LEMMA SoundSteps ==
    ASSUME Sound, [Next]_vars
    PROVE  /\ Progress
           /\ Good(processor) /\ Good(processor')
           /\ out \in Seq(Outputs) /\ Len(out) \in Nat /\ DOMAIN out = 1 .. Len(out)
           /\ out' \in Seq(Outputs) /\ Len(out') \in Nat /\ DOMAIN out' = 1 .. Len(out')
           /\ said \in Seq(Nat) /\ counted \in Usages
           /\ execution \in {"sending", "draining", "surviving", "unwinding", "done"}
<1>1. Progress /\ Good(processor')
  BY NextIs, StaysGood DEF Sound
<1>2. Good(processor)
  BY DEF Sound, Typed
<1>3. out \in Seq(Outputs) /\ out' \in Seq(Outputs)
  BY <1>1, <1>2 DEF Good, Processors, out
<1>4. said \in Seq(1 .. produced) /\ produced \in Nat
  BY ScenariosAssumption DEF Sound, Typed, StreamTypeOK
<1>5. said \in Seq(Nat)
  BY <1>4, SeqMonotonic
<1>6. counted \in Usages /\ execution \in {"sending", "draining", "surviving", "unwinding", "done"}
  BY DEF Sound, Typed, StreamTypeOK
<1> QED  BY <1>1, <1>2, <1>3, <1>5, <1>6

\* Until the execution reports the end, no step adds a final status or a snapshot.
LEMMA RunningSteps ==
    ASSUME Sound, Flushes \/ \E late \in BOOLEAN : Handles(late)
    PROVE  Adds(processor, processor', Running) /\ TextKept(processor, processor')
<1>1. Good(processor) /\ queue \in Seq(Events)
  BY DEF Sound, Typed, StreamTypeOK
<1>2. CASE Flushes
  BY <1>1, <1>2, FlushStreams, StreamedRuns DEF Flushes, Streams, Adds
<1>3. ASSUME NEW late \in BOOLEAN, Handles(late)
      PROVE  Adds(processor, processor', Running) /\ TextKept(processor, processor')
  <2>1. Head(queue) \in Events /\ (IsPartEvent(Head(queue)) => Tells(Head(queue)))
    <3>1. queue # <<>> /\ 1 \in DOMAIN queue /\ Head(queue) = queue[1]
      BY <1>1, <1>3 DEF Handles
    <3> QED  BY <1>1, <3>1 DEF Sound, Typed, QueueTells
  <2> QED  BY <1>1, <1>3, <2>1, HandledRuns DEF Handles
<1> QED  BY <1>2, <1>3

\* The end of the stream: there is no final status while the turn runs, the one of a failed
\* or canceled turn is followed by at most what its stream task flushes, and what the
\* execution that survived its cancellation completes.
Finals(s) == {n \in DOMAIN s : s[n].kind = "final"}
Ending ==
    /\ execution \in {"sending", "draining"} => Finals(out) = {}
    /\ execution = "surviving" =>
          /\ stream \in {"closing", "done"}
          /\ Finals(out) = {Len(out)} /\ out[Len(out)].state = "canceled"
    /\ execution = "unwinding" => \A n \in Finals(out) :
          out[n].state # "input_required" /\ (stream = "done" \/ n = Len(out))
    /\ execution = "done" => stream = "done"
    /\ FinalEndsStream

\* A final status that is added is the only one.
LEMMA FinalsAreLast ==
    ASSUME NEW s \in Seq(Outputs), Finals(s) = {}, NEW o \in Outputs
    PROVE  Finals(Append(s, o)) = IF o.kind = "final" THEN {Len(s) + 1} ELSE {}
<1>1. /\ DOMAIN Append(s, o) = 1 .. Len(s) + 1 /\ Len(s) \in Nat
      /\ \A n \in 1 .. Len(s) : Append(s, o)[n] = s[n] /\ s[n].kind # "final"
      /\ Append(s, o)[Len(s) + 1] = o
  BY DEF Finals
<1> QED  BY <1>1 DEF Finals

\* What completes a turn that was canceled follows the status that said so.
LEMMA CompletionFollows ==
    ASSUME NEW s, NEW t, NEW u, NEW o, NEW a, s \in Seq(Outputs), Finals(s) = {Len(s)},
           o \in Outputs, o.kind = "final", o.state = "input_required",
           t = s \/ (t = Append(s, a) /\ a \in Outputs /\ IsSnapshot(a)),
           u = Append(t, o)
    PROVE  /\ \A n \in Finals(u) : n = Len(s) \/ n = Len(u)
           /\ u[Len(s)] = s[Len(s)]
           /\ IsCompletion(SubSeq(u, Len(s) + 1, Len(u)))
<1>0. Len(s) \in Nat /\ Len(s) \in 1 .. Len(s) /\ \A n \in 1 .. Len(s) : s[n].kind = "final" => n = Len(s)
  BY DEF Finals
<1>1. CASE t = s
  <2>1. /\ u \in Seq(Outputs) /\ Len(u) = Len(s) + 1 /\ DOMAIN u = 1 .. Len(s) + 1
        /\ \A n \in 1 .. Len(s) : u[n] = s[n]
        /\ u[Len(s) + 1] = o
    BY <1>1
  <2>2. \A n \in Finals(u) : n = Len(s) \/ n = Len(u)
    BY <1>0, <2>1 DEF Finals
  <2> DEFINE r == SubSeq(u, Len(s) + 1, Len(u))
  <2>3. Len(r) = 1 /\ r[1] = o
    BY <1>0, <2>1
  <2> HIDE DEF r
  <2>4. IsCompletion(r)
    BY <2>3 DEF IsCompletion, Last
  <2> QED  BY <1>0, <2>1, <2>2, <2>4 DEF r
<1>2. CASE t = Append(s, a) /\ a \in Outputs /\ IsSnapshot(a)
  <2>1. /\ u \in Seq(Outputs) /\ Len(u) = Len(s) + 2 /\ DOMAIN u = 1 .. Len(s) + 2
        /\ \A n \in 1 .. Len(s) : u[n] = s[n]
        /\ u[Len(s) + 1] = a /\ u[Len(s) + 2] = o
    BY <1>2
  <2>2. \A n \in Finals(u) : n = Len(s) \/ n = Len(u)
    <3>1. a.kind = "artifact"
      BY <1>2 DEF IsSnapshot, IsArtifact
    <3> QED  BY <1>0, <2>1, <3>1 DEF Finals
  <2> DEFINE r == SubSeq(u, Len(s) + 1, Len(u))
  <2>3. Len(r) = 2 /\ r[1] = a /\ r[2] = o
    BY <1>0, <2>1
  <2> HIDE DEF r
  <2>4. IsCompletion(r)
    BY <1>2, <2>3 DEF IsCompletion, Last
  <2> QED  BY <1>0, <2>1, <2>2, <2>4 DEF r
<1> QED  BY <1>1, <1>2

\* Every step keeps the end of the stream.
LEMMA EndingStays ==
    ASSUME Sound, Ending, [Next]_vars
    PROVE  Ending'
<1>0. /\ Progress
      /\ Good(processor) /\ Good(processor')
      /\ out \in Seq(Outputs) /\ Len(out) \in Nat /\ DOMAIN out = 1 .. Len(out)
      /\ out' \in Seq(Outputs) /\ Len(out') \in Nat /\ DOMAIN out' = 1 .. Len(out')
      /\ said \in Seq(Nat) /\ counted \in Usages
      /\ execution \in {"sending", "draining", "surviving", "unwinding", "done"}
  BY SoundSteps
<1>1. CASE Rests
  <2>1. /\ out' = out /\ (stream = "done" => stream' = "done")
        /\ stream \in {"closing", "done"} => stream' \in {"closing", "done"}
    BY <1>1 DEF Rests, out
  <2>2. \/ execution' = execution
        \/ execution = "sending" /\ execution' = "draining"
        \/ execution = "unwinding" /\ stream = "done" /\ execution' = "done"
    BY <1>1 DEF Rests
  <2> QED  BY <2>1, <2>2 DEF Ending, FinalEndsStream
<1>2. ASSUME execution \in {"sending", "draining"}, execution' = execution,
             Adds(processor, processor', Running)
      PROVE  Ending'
  <2>1. Finals(out') = {}
    <3>1. ASSUME NEW n \in DOMAIN out' PROVE out'[n].kind # "final"
      <4>1. CASE n \in 1 .. Len(out)
        BY <1>0, <1>2, <4>1 DEF Adds, Ending, Finals, out
      <4>2. CASE n \in Len(out) + 1 .. Len(out')
        BY <1>2, <4>2 DEF Adds, Running, out
      <4> QED  BY <1>0, <4>1, <4>2
    <3> QED  BY <3>1 DEF Finals
  <2> QED  BY <1>2, <2>1 DEF Ending, FinalEndsStream, Finals
<1>3. CASE Flushes
  <2>1. CASE execution \in {"sending", "draining"}
    <3>1. Adds(processor, processor', Running) /\ execution' = execution
      BY <1>3, RunningSteps DEF Flushes
    <3> QED  BY <1>2, <2>1, <3>1
  <2>2. CASE execution = "unwinding"
    <3>1. execution' = "unwinding" /\ stream' = "done" /\ stream # "done"
      BY <1>3, <2>2 DEF Flushes
    <3>2. Adds(processor, processor', Streamed) /\ Len(out') \in Len(out) .. Len(out) + 1
      BY <1>0, <1>3, FlushStreams DEF Flushes, Streams, out
    <3>3. ASSUME NEW n \in Finals(out')
          PROVE  /\ n = Len(out) /\ out'[n].state # "input_required"
                 /\ Len(out') # Len(out) =>
                      /\ n = Len(out') - 1
                      /\ out'[n + 1].kind = "artifact" /\ out'[n + 1].block \in Plain
                      /\ ~IsSnapshot(out'[n + 1])
      <4>1. n \in 1 .. Len(out') /\ out'[n].kind = "final"
        BY <1>0 DEF Finals
      <4>2. n \notin Len(out) + 1 .. Len(out')
        BY <3>2, <4>1 DEF Adds, Streamed, out
      <4>3. n \in 1 .. Len(out) /\ out'[n] = out[n]
        BY <1>0, <3>2, <4>1, <4>2 DEF Adds, out
      <4>4. n = Len(out) /\ out[n].state # "input_required"
        BY <1>0, <2>2, <3>1, <4>1, <4>3 DEF Ending, Finals
      <4>5. ASSUME Len(out') # Len(out)
            PROVE  n = Len(out') - 1 /\ out'[n + 1] \in Streamed
        <5>0. Len(out) \in Nat /\ Len(out') \in Len(out) .. Len(out) + 1
          BY <1>0, <3>2
        <5>1. Len(out') = Len(out) + 1
          BY ONLY <4>5, <5>0
        <5> QED  BY <1>0, <3>2, <4>4, <5>1 DEF Adds, out
      <4> QED  BY <4>3, <4>4, <4>5 DEF Streamed, IsSnapshot
    <3>4. FinalEndsStream'
      BY <3>3 DEF FinalEndsStream, Finals
    <3> QED  BY <3>1, <3>3, <3>4 DEF Ending
  <2>3. execution \notin {"done", "surviving"}
    BY <1>3 DEF Flushes, Ending
  <2> QED  BY <1>0, <2>1, <2>2, <2>3
<1>4. ASSUME NEW late \in BOOLEAN, Handles(late) PROVE Ending'
  <2>1. execution \in {"sending", "draining"} /\ execution' = execution
    BY <1>0, <1>4 DEF Handles, Ending
  <2> QED  BY <1>0, <1>2, <1>4, <2>1, RunningSteps
<1>5. CASE Finishes
  <2>1. execution # "surviving" => Finals(out) = {}
    BY <1>5 DEF Finishes, Ending
  <2>2. ASSUME NEW m \in Nat, Finals(out') = {m}, m = Len(out'),
               \/ execution' = "unwinding" /\ out'[m].state # "input_required"
               \/ execution' = "surviving" /\ stream' = "closing" /\ out'[m].state = "canceled"
               \/ execution' = "done" /\ stream' = "done"
        PROVE  Ending'
    <3>1. FinalEndsStream'
      BY <2>2 DEF FinalEndsStream, Finals
    <3> QED  BY <2>2, <3>1 DEF Ending
  <2>3. CASE execution = "sending" /\ execution' = "unwinding" /\ processor' = Failed(processor)
    <3> DEFINE o == Final("failed", NoUsage)
               s == Append(out, ErrorArtifact)
    <3>0. Good(processor) /\ processor' = Failed(processor)
      BY <1>0, <2>3
    <3>1. out' = Append(s, o) /\ ErrorArtifact \in Outputs
      BY <3>0, FailedIs DEF out
    <3>2. s \in Seq(Outputs) /\ o \in Outputs
      BY <1>0, <3>1, FinalIs, NoUsageIs
    <3>6. Finals(out) = {} /\ ErrorArtifact.kind # "final"
      BY <2>1, <2>3 DEF ErrorArtifact
    <3>3. Finals(s) = {}
      BY <1>0, <3>1, <3>6, FinalsAreLast
    <3>4. Finals(out') = {Len(s) + 1} /\ o.kind = "final" /\ o.state = "failed"
      BY <3>1, <3>2, <3>3, FinalsAreLast DEF Final
    <3> HIDE DEF o, s
    <3>5. Len(s) + 1 \in Nat /\ Len(out') = Len(s) + 1 /\ out'[Len(s) + 1] = o
      BY <3>1, <3>2
    <3> QED  BY <2>2, <2>3, <3>4, <3>5
  <2>4. CASE /\ execution \in {"sending", "draining"}
             /\ execution' = "unwinding" \/ (stream = "closing" /\ execution' = "surviving")
             /\ processor' = WithFinal(processor, "canceled", NoUsage)
    <3> DEFINE o == Final("canceled", NoUsage)
    <3>1. out' = Append(out, o) /\ o \in Outputs /\ o.kind = "final" /\ o.state = "canceled"
      <4>1. Good(processor) /\ processor' = WithFinal(processor, "canceled", NoUsage)
        BY <1>0, <2>4
      <4> QED  BY <4>1, FinalIs, NoUsageIs DEF out
    <3> HIDE DEF o
    <3>5. Finals(out) = {}
      BY <2>1, <2>4
    <3>2. Finals(out') = {Len(out) + 1}
      BY <1>0, <3>1, <3>5, FinalsAreLast
    <3>3. Len(out) + 1 \in Nat /\ Len(out') = Len(out) + 1 /\ out'[Len(out) + 1] = o
      BY <1>0, <3>1
    <3>4. stream' = stream
      BY <1>5 DEF Finishes
    <3> QED  BY <2>2, <2>4, <3>1, <3>2, <3>3, <3>4
  <2>5. CASE /\ execution \in {"draining", "surviving"} /\ stream = "done" /\ execution' = "done"
             /\ processor' = Completed(processor, said, counted)
    <3> DEFINE o == Final("input_required", counted)
               a == Snapshot(processor, said)
    <3>0. o \in Outputs /\ o.kind = "final" /\ o.state = "input_required"
      BY <1>0, FinalIs
    <3>1. PICK t \in Seq(Outputs) :
            /\ out' = Append(t, o)
            /\ t = out \/ (t = Append(out, a) /\ a \in Outputs /\ IsSnapshot(a))
      <4>1. \/ out' = Append(out, o)
            \/ out' = Append(Append(out, a), o) /\ a \in Outputs /\ IsSnapshot(a)
        <5>1. /\ Good(processor) /\ said \in Seq(Nat) /\ counted \in Usages
              /\ processor' = Completed(processor, said, counted)
          BY <1>0, <2>5
        <5> QED  BY <5>1, CompletedIs DEF out
      <4> HIDE DEF o, a
      <4>2. a \in Outputs => Append(out, a) \in Seq(Outputs)
        BY <1>0
      <4> QED  BY <1>0, <4>1, <4>2
    <3> HIDE DEF o, a
    <3>2. stream' = "done"
      BY <1>5, <2>5 DEF Finishes
    <3>3. CASE execution = "draining"
      <4>1. Finals(t) = {}
        BY <1>0, <2>1, <3>1, <3>3, FinalsAreLast DEF IsSnapshot, IsArtifact
      <4>2. Finals(out') = {Len(t) + 1} /\ Len(t) + 1 = Len(out') /\ Len(out') \in Nat
        BY <3>0, <3>1, <4>1, FinalsAreLast
      <4> QED  BY <2>2, <2>5, <3>2, <4>2
    <3>4. CASE execution = "surviving"
      <4>1. Finals(out) = {Len(out)} /\ out[Len(out)].state = "canceled"
        BY <3>4 DEF Ending
      <4>2. /\ \A n \in Finals(out') : n = Len(out) \/ n = Len(out')
            /\ out'[Len(out)].state = "canceled"
            /\ IsCompletion(SubSeq(out', Len(out) + 1, Len(out')))
        <5>1. out \in Seq(Outputs) /\ t \in Seq(Outputs)
          BY <1>0, <3>1
        <5>2. PICK u : u = out'
          OBVIOUS
        <5>3. PICK s : s = out
          OBVIOUS
        <5>4. /\ s \in Seq(Outputs) /\ Finals(s) = {Len(s)} /\ o \in Outputs
              /\ o.kind = "final" /\ o.state = "input_required"
              /\ t = s \/ (t = Append(s, a) /\ a \in Outputs /\ IsSnapshot(a))
              /\ u = Append(t, o)
          BY <3>0, <3>1, <4>1, <5>1, <5>2, <5>3
        <5>5. /\ \A n \in Finals(u) : n = Len(s) \/ n = Len(u)
              /\ u[Len(s)] = s[Len(s)]
              /\ IsCompletion(SubSeq(u, Len(s) + 1, Len(u)))
          BY <5>4, CompletionFollows, ZenonT(30)
        <5> QED  BY <4>1, <5>2, <5>3, <5>5
      <4>3. FinalEndsStream'
        BY <4>2 DEF FinalEndsStream, Finals
      <4> QED  BY <2>5, <3>2, <4>3 DEF Ending
    <3> QED  BY <2>5, <3>3, <3>4
  <2> QED  BY <1>5, <2>3, <2>4, <2>5 DEF Finishes
<1> QED  BY <1>0, <1>1, <1>3, <1>4, <1>5 DEF Progress

\* It holds in every state.
LEMMA EndingHolds == Spec => []Ending
<1>1. Init => Ending
  BY DEF Init, Ending, FinalEndsStream, Finals, out, NewProcessor
<1>2. Sound /\ Ending /\ [Next]_vars => Ending'
  BY EndingStays
<1> QED  BY <1>1, <1>2, SoundHolds, PTL DEF Spec

\* Nothing follows the final status of a completed turn, and that of a failed or canceled one
\* only the text that was in the buffer, or the completion of a turn whose stream task was
\* closing and suppressed the cancellation: the execution reports the end before it cancels
\* the stream task, or after the task has ended (execute, cancel, consume_codex_stream).
THEOREM FinalIsLast == Spec => []FinalEndsStream
<1>1. Ending => FinalEndsStream
  BY DEF Ending
<1> QED  BY <1>1, EndingHolds, PTL

-----------------------------------------------------------------------------
(* The response.                                                           *)

Snapshots(s) == {n \in DOMAIN s : IsSnapshot(s[n])}

\* What comes before the last output is what there was.
LEMMA WhatIsBefore ==
    ASSUME NEW s \in Seq(Outputs), NEW o
    PROVE  SubSeq(Append(s, o), 1, Len(s) + 1 - 1) = s
<1>1. Len(s) + 1 - 1 = Len(s) /\ Len(s) \in Nat
  OBVIOUS
<1>2. SubSeq(Append(s, o), 1, Len(s)) = s
  OBVIOUS
<1> QED  BY <1>1, <1>2

\* While the turn runs the text that was sent is what the emitter remembers, and a client has
\* all of it.  When the final status is there, nothing more is said.
Completing == {"sending", "draining", "surviving"}
Telling ==
    /\ execution \in Completing =>
          /\ TextOf(out) = processor.sent["text"] /\ Snapshots(out) = {}
          /\ Begun(out, processor.emitted)
    /\ ClientHasResponse

\* Every step keeps what the client was told.
LEMMA TellingStays ==
    ASSUME Sound, Ending, Telling, [Next]_vars
    PROVE  Telling'
<1>0. /\ Progress
      /\ Good(processor) /\ Good(processor')
      /\ out \in Seq(Outputs) /\ Len(out) \in Nat /\ DOMAIN out = 1 .. Len(out)
      /\ out' \in Seq(Outputs) /\ Len(out') \in Nat /\ DOMAIN out' = 1 .. Len(out')
      /\ said \in Seq(Nat) /\ counted \in Usages
      /\ execution \in {"sending", "draining", "surviving", "unwinding", "done"}
  BY SoundSteps
<1>1. Ending'
  BY EndingStays
<1>2. ASSUME execution' # "done" PROVE ClientHasResponse'
  <2>1. execution' \in {"sending", "draining", "surviving", "unwinding"}
    BY <1>2, TypedStays DEF Sound, Typed, StreamTypeOK
  <2>2. \A n \in DOMAIN out' : out'[n].kind = "final" => out'[n].state # "input_required"
    BY <1>1, <2>1 DEF Ending, Finals
  <2> QED  BY <2>2 DEF ClientHasResponse
<1>3. CASE Rests
  <2>1. out' = out /\ processor' = processor
    BY <1>3 DEF Rests, out
  <2>2. ASSUME execution' = "done" PROVE said' = said
    BY <1>3, <2>2 DEF Rests
  <2>3. execution' \in Completing => execution \in Completing
    BY <1>3 DEF Rests, Completing
  <2>4. ClientHasResponse'
    BY <1>2, <2>1, <2>2 DEF Telling, ClientHasResponse, Before
  <2> QED  BY <2>1, <2>3, <2>4 DEF Telling
<1>4. CASE Flushes \/ \E late \in BOOLEAN : Handles(late)
  <2>1. execution' = execution /\ execution # "done"
    BY <1>4 DEF Flushes, Handles, Ending
  <2>2. Adds(processor, processor', Running) /\ TextKept(processor, processor')
    BY <1>4, RunningSteps
  <2>3. ASSUME Snapshots(out) = {} PROVE Snapshots(out') = {}
    <3>1. ASSUME NEW n \in 1 .. Len(out') PROVE ~IsSnapshot(out'[n])
      <4>1. CASE n \in 1 .. Len(out)
        BY <1>0, <2>2, <2>3, <4>1 DEF Adds, Snapshots, out
      <4>2. CASE n \in Len(out) + 1 .. Len(out')
        BY <2>2, <4>2 DEF Adds, Running, out
      <4> QED  BY <1>0, <4>1, <4>2
    <3> QED  BY <1>0, <3>1 DEF Snapshots
  <2> QED  BY <1>2, <2>1, <2>2, <2>3 DEF Telling, TextKept, out
<1>5. CASE Finishes
  <2>1. CASE execution' # "done"
    <3>1. CASE execution' = "unwinding"
      BY <1>2, <2>1, <3>1 DEF Telling, Completing
    <3>2. CASE execution' # "unwinding"
      <4> DEFINE o == Final("canceled", NoUsage)
      <4>1. execution \in Completing /\ processor' = WithFinal(processor, "canceled", NoUsage)
        BY <1>5, <2>1, <3>2 DEF Finishes, Completing
      <4>2. /\ o \in Outputs /\ ~IsArtifact(o) /\ ~IsSnapshot(o)
            /\ out' = Append(out, o) /\ processor'.sent = processor.sent
        <5>1. Good(processor) /\ processor' = WithFinal(processor, "canceled", NoUsage)
          BY <1>0, <4>1
        <5> QED  BY <5>1, FinalIs, NoUsageIs DEF out, IsArtifact, IsSnapshot
      <4>3. processor'.emitted = processor.emitted
        BY <1>0, <4>1 DEF WithFinal, Good, Processors
      <4> HIDE DEF o
      <4>4. TextOf(out') = TextOf(out)
        <5>1. TextOf(out') = TextOf(out) \o <<>> /\ TextOf(out) \in Seq(Nat)
          BY <1>0, <4>2, OutputIsSaid
        <5> QED  BY <5>1
      <4>5. Begun(out', processor'.emitted)
        BY <1>0, <4>1, <4>2, <4>3, BegunAppend DEF Telling
      <4>6. Snapshots(out') = {}
        <5>1. Snapshots(out) = {}
          BY <4>1 DEF Telling
        <5>2. /\ \A n \in 1 .. Len(out) : out'[n] = out[n] /\ ~IsSnapshot(out[n])
              /\ out'[Len(out) + 1] = o /\ Len(out') = Len(out) + 1
          BY <1>0, <4>2, <5>1 DEF Snapshots
        <5>3. \A n \in 1 .. Len(out') : n \in 1 .. Len(out) \/ n = Len(out) + 1
          BY <1>0, <5>2
        <5> QED  BY <1>0, <4>2, <5>2, <5>3 DEF Snapshots
      <4> QED  BY <1>2, <2>1, <4>1, <4>2, <4>4, <4>5, <4>6 DEF Telling
    <3> QED  BY <3>1, <3>2
  <2>2. CASE execution' = "done"
    <3> DEFINE o == Final("input_required", counted)
               a == Snapshot(processor, said)
    <3>1. execution \in Completing /\ processor' = Completed(processor, said, counted) /\ said' = said
      BY <1>5, <2>2 DEF Finishes, Completing
    <3>2. o \in Outputs /\ ~IsArtifact(o)
      BY <1>0, FinalIs DEF IsArtifact
    <3>3. /\ TextOf(out) = processor.sent["text"] /\ Snapshots(out) = {}
          /\ Begun(out, processor.emitted) /\ Assembled(out) = processor.sent["text"]
      BY <3>1 DEF Telling, Begun
    <3>4. \/ /\ said = <<>> \/ processor.sent["text"] = said
             /\ out' = Append(out, o)
          \/ /\ out' = Append(Append(out, a), o) /\ processor.sent["text"] # said
             /\ a \in Outputs /\ IsArtifact(a) /\ IsSnapshot(a) /\ a.block = "text" /\ a.content = said
      BY <1>0, <3>1, CompletedIs DEF out
    <3>8. a.append = processor.emitted
      BY DEF Snapshot, Artifact
    <3> HIDE DEF o, a
    <3>5. ASSUME NEW n \in DOMAIN out', out'[n].kind = "final", out'[n].state = "input_required",
                 n \in 1 .. Len(out)
          PROVE  FALSE
      <4>1. out'[n] = out[n]
        <5>1. CASE out' = Append(out, o)
          BY <1>0, <3>5, <5>1
        <5>2. CASE out' = Append(Append(out, a), o) /\ a \in Outputs
          BY <1>0, <3>5, <5>2
        <5> QED  BY <3>4, <5>1, <5>2
      <4>2. n \in Finals(out)
        BY <1>0, <3>5, <4>1 DEF Finals
      <4> QED  BY <3>1, <3>5, <4>1, <4>2 DEF Ending, Completing
    <3>6. ASSUME NEW n \in DOMAIN out', out'[n].kind = "final", out'[n].state = "input_required",
                 said # <<>>
          PROVE  IF n > 1 /\ IsSnapshot(out'[n - 1])
                 THEN /\ Assembled(SubSeq(out', 1, n - 1 - 1)) # said
                      /\ Assembled(SubSeq(out', 1, n - 1)) = Assembled(SubSeq(out', 1, n - 1 - 1)) \o said
                 ELSE Assembled(SubSeq(out', 1, n - 1)) = said
      <4>1. CASE processor.sent["text"] = said /\ out' = Append(out, o)
        <5>1. n = Len(out) + 1
          BY <1>0, <3>5, <3>6, <4>1
        <5>2. SubSeq(out', 1, n - 1) = out
          BY <1>0, <4>1, <5>1, WhatIsBefore
        <5>3. ~(n > 1 /\ IsSnapshot(out'[n - 1]))
          <6>1. ASSUME n > 1 PROVE n - 1 \in 1 .. Len(out) /\ out'[n - 1] = out[n - 1]
            <7>1. n - 1 = Len(out) /\ Len(out) \in 1 .. Len(out)
              BY <1>0, <5>1, <6>1
            <7>2. Append(out, o)[Len(out)] = out[Len(out)]
              BY <1>0, <7>1
            <7> QED  BY <4>1, <7>1, <7>2
          <6> QED  BY <1>0, <3>3, <6>1 DEF Snapshots
        <5> QED  BY <3>3, <4>1, <5>2, <5>3
      <4>2. CASE /\ out' = Append(Append(out, a), o) /\ processor.sent["text"] # said
                 /\ a \in Outputs /\ IsArtifact(a) /\ IsSnapshot(a) /\ a.block = "text"
                 /\ a.content = said
        <5>1. Append(out, a) \in Seq(Outputs) /\ Len(Append(out, a)) = Len(out) + 1
          BY <1>0, <4>2
        <5>2. n = Len(out) + 2
          <6>1. out'[Len(out) + 1] = a /\ Len(out') = Len(out) + 2
            BY <1>0, <4>2
          <6>2. n # Len(out) + 1
            BY <3>6, <4>2, <6>1 DEF IsArtifact
          <6>3. n \notin 1 .. Len(out)
            BY <3>5, <3>6
          <6> QED  BY <1>0, <6>1, <6>2, <6>3
        <5>3. n - 1 = Len(Append(out, a)) + 1 - 1 /\ n - 1 - 1 = Len(out) + 1 - 1 /\ n - 1 = Len(out) + 1
          BY <1>0, <5>1, <5>2
        <5>4. SubSeq(out', 1, n - 1) = Append(out, a)
          BY <4>2, <5>1, <5>3, WhatIsBefore
        <5>5. SubSeq(out', 1, n - 1 - 1) = out
          <6>1. SubSeq(out', 1, Len(out)) = out
            BY <1>0, <4>2
          <6> QED  BY <1>0, <5>3, <6>1
        <5>6. n > 1 /\ IsSnapshot(out'[n - 1])
          BY <1>0, <4>2, <5>2
        <5>7. Assembled(Append(out, a)) = Assembled(out) \o said
          <6>1. TextOf(Append(out, a)) = TextOf(out) \o said
            BY <1>0, <4>2, OutputIsSaid
          <6>2. Begun(Append(out, a), TRUE)
            BY <1>0, <3>3, <3>8, <4>2, BegunAppend
          <6> QED  BY <3>3, <6>1, <6>2 DEF Begun
        <5> QED  BY <3>3, <4>2, <5>4, <5>5, <5>6, <5>7
      <4> QED  BY <3>4, <3>6, <4>1, <4>2
    <3>7. ClientHasResponse'
      BY <3>1, <3>6 DEF ClientHasResponse, Before
    <3> QED  BY <2>2, <3>7 DEF Telling, Completing
  <2> QED  BY <2>1, <2>2
<1> QED  BY <1>0, <1>3, <1>4, <1>5 DEF Progress

\* It holds in every state.
LEMMA TellingHolds == Spec => []Telling
<1>1. Init => Telling
  <2> SUFFICES ASSUME Init PROVE Telling
    OBVIOUS
  <2>1. out = <<>> /\ processor.sent["text"] = <<>> /\ DOMAIN out = {}
    BY DEF Init, out, NewProcessor
  <2>2. Begun(out, processor.emitted)
    BY <2>1, NothingIsSaid, NothingIsAssembled DEF Begun
  <2> QED  BY <2>1, <2>2, NothingIsSaid DEF Telling, ClientHasResponse, Snapshots
<1>2. Sound /\ Ending /\ Telling /\ [Next]_vars => Telling'
  BY TellingStays
<1> QED  BY <1>1, <1>2, SoundHolds, EndingHolds, PTL DEF Spec

\* A client of a turn that completed, which appends what it is told to append, has the text of
\* the response, whatever was dropped, held or missed: it is what was streamed, or else the
\* whole of it follows what was streamed, which was not it.  The emitter compares the response
\* with what was sent, and that is what such a client has (register_chunk,
\* should_emit_final_snapshot, emit_streaming_completion).
THEOREM ResponseIsTold == Spec => []ClientHasResponse
<1>1. Telling => ClientHasResponse
  BY DEF Telling
<1> QED  BY <1>1, TellingHolds, PTL

-----------------------------------------------------------------------------
(* Requests come in pairs.                                                 *)

\* A request that was made stays made, and an answer is not taken back.
LEMMA RequestsGrow ==
    ASSUME Inv, [InterruptsNext]_interruptVars, NEW k \in Requests
    PROVE  /\ requests[k] # None => requests'[k] # None
           /\ answers[k] > 0 => answers'[k] > 0
<1>0. /\ requests \in [Requests -> RequestRecords \cup {None}]
      /\ answers \in [Requests -> Nat]
  BY DEF Inv, InterruptsTypeOK
<1>1. CASE UNCHANGED <<requests, answers>>
  BY <1>1
<1>2. ASSUME NEW j \in Requests, NEW kind \in Kinds, ServerRequest(j, kind)
      PROVE  /\ requests[k] # None => requests'[k] # None
             /\ answers[k] > 0 => answers'[k] > 0
  BY <1>0, <1>2 DEF ServerRequest
<1>3. ASSUME NEW c \in Callbacks, Write(c)
      PROVE  /\ requests[k] # None => requests'[k] # None
             /\ answers[k] > 0 => answers'[k] > 0
  <2>1. requests' = requests
    BY <1>3 DEF Write
  <2>2. answers' = answers \/ answers' = [answers EXCEPT ![callback[c].request] = @ + 1]
    BY <1>3 DEF Write
  <2>3. answers[k] \in Nat
    BY <1>0
  <2>4. answers'[k] = answers[k] \/ answers'[k] = answers[k] + 1
    BY <1>0, <2>2
  <2> QED  BY <2>1, <2>3, <2>4
<1>4. InterruptsNext => \/ UNCHANGED <<requests, answers>>
                        \/ \E j \in Requests, kind \in Kinds : ServerRequest(j, kind)
                        \/ \E c \in Callbacks : Write(c)
  BY DEF InterruptsNext, Callback, InvalidCallback, OwnerChecked, Drained, DrainFails, OwnerSaved,
         Tick, PipeBreaks, requestVars
<1>5. UNCHANGED interruptVars => UNCHANGED <<requests, answers>>
  BY DEF interruptVars, requestVars
<1> QED  BY <1>1, <1>2, <1>3, <1>4, <1>5

\* What is queued and handled of a request: it is asked once, and what tells of its answer
\* does so when there is one.
AsksIn(q, k) == {n \in DOMAIN q : q[n].type = "asked" /\ q[n].request = k}
QueuedOnce(k) ==
    /\ AsksIn(queue, k) # {} \/ AsksIn(handled, k) # {} => requests[k] # None
    /\ AsksIn(queue, k) = {} \/ AsksIn(handled, k) = {}
    /\ \A m, n \in AsksIn(queue, k) : m = n
    /\ \A n \in DOMAIN queue : queue[n].type = "resolved" /\ queue[n].request = k => answers[k] > 0

\* What is shown of a request.
ShownInTurn(k) ==
    /\ Shown("asked", k) # {} \/ k \in processor.asked => AsksIn(handled, k) # {}
    /\ k \in processor.asked => Shown("asked", k) # {} /\ Shown("resolved", k) = {}
    /\ \A phase \in {"asked", "resolved"} : \A m, n \in Shown(phase, k) : m = n
    /\ \A n \in Shown("resolved", k) : answers[k] > 0 /\ \E m \in Shown("asked", k) : m < n

\* The inductive invariant of the requests a client is shown.
Pairs == \A k \in Requests : QueuedOnce(k) /\ ShownInTurn(k)

\* What is added to the queue keeps it.
LEMMA ComesOnce ==
    ASSUME Sound, NEW k \in Requests, QueuedOnce(k), [InterruptsNext]_interruptVars,
           NEW e \in Events, Comes(e), NEW d \in Nat, Rest(queue', Append(queue, e), d),
           queue' \in Seq(Events), handled' = handled
    PROVE  QueuedOnce(k)'
<1> DEFINE t == Append(queue, e)
           l == Len(queue) + 1
<1>1. /\ queue \in Seq(Events) /\ Len(queue) \in Nat /\ DOMAIN queue = 1 .. Len(queue)
      /\ DOMAIN t = 1 .. l /\ Len(t) = l /\ l \in Nat
      /\ \A n \in 1 .. Len(queue) : t[n] = queue[n]
      /\ t[l] = e
      /\ \A n \in 1 .. l : n \in DOMAIN queue \/ n = l
  BY DEF Sound, Typed, StreamTypeOK
<1>2. DOMAIN queue' = 1 .. Len(queue') /\ Len(queue') \in Nat
  OBVIOUS
<1> HIDE DEF t, l
<1>3. ASSUME NEW n \in DOMAIN queue'
      PROVE  /\ n \in Nat
             /\ \/ n + d \in DOMAIN queue /\ queue'[n] = queue[n + d]
                \/ n + d = l /\ queue'[n] = e
  <2>1. Len(queue') = Len(t) - d /\ queue'[n] = t[n + d]
    BY <1>2 DEF Rest, t
  <2>2. n \in Nat /\ n + d \in 1 .. l
    BY <1>1, <1>2, <2>1
  <2> QED  BY <1>1, <2>1, <2>2
<1>4. /\ requests[k] # None => requests'[k] # None
      /\ answers[k] > 0 => answers'[k] > 0
  BY RequestsGrow DEF Sound
<1>5. e.type = "asked" /\ e.request = k => requests[k] = None /\ requests'[k] # None
  BY DEF Comes, Proper, AsksFor, AnswersIt
<1>6. e.type = "resolved" /\ e.request = k => answers[k] > 0
  <2> SUFFICES ASSUME e.type = "resolved", e.request = k PROVE answers[k] > 0
    OBVIOUS
  <2>1. \E c \in Callbacks : Writes(c) /\ ~broken /\ callback[c].request = e.request
    BY DEF Comes, Proper, AsksFor, AnswersIt
  <2> QED  BY <2>1 DEF Sound, Inv, WritersAnswer
<1>7. ASSUME AsksIn(queue', k) # {} PROVE requests'[k] # None /\ AsksIn(handled, k) = {}
  <2>1. PICK n \in DOMAIN queue' : queue'[n].type = "asked" /\ queue'[n].request = k
    BY <1>7 DEF AsksIn
  <2>2. AsksIn(queue, k) # {} \/ (e.type = "asked" /\ e.request = k)
    BY <1>3, <2>1 DEF AsksIn
  <2> QED  BY <1>4, <1>5, <2>2 DEF QueuedOnce
<1>8. ASSUME NEW m \in AsksIn(queue', k), NEW n \in AsksIn(queue', k) PROVE m = n
  <2>1. /\ m \in DOMAIN queue' /\ queue'[m].type = "asked" /\ queue'[m].request = k
        /\ n \in DOMAIN queue' /\ queue'[n].type = "asked" /\ queue'[n].request = k
    BY DEF AsksIn
  <2>2. \/ m + d \in AsksIn(queue, k)
        \/ m + d = l /\ e.type = "asked" /\ e.request = k
    BY <1>3, <2>1 DEF AsksIn
  <2>3. \/ n + d \in AsksIn(queue, k)
        \/ n + d = l /\ e.type = "asked" /\ e.request = k
    BY <1>3, <2>1 DEF AsksIn
  <2>4. m \in Nat /\ n \in Nat /\ d \in Nat
    BY <1>3, <2>1
  <2>5. m + d = n + d
    BY <1>5, <2>2, <2>3 DEF QueuedOnce
  <2> QED  BY <2>4, <2>5
<1>9. ASSUME NEW n \in DOMAIN queue', queue'[n].type = "resolved", queue'[n].request = k
      PROVE  answers'[k] > 0
  BY <1>3, <1>4, <1>6, <1>9 DEF QueuedOnce
<1> QED  BY <1>4, <1>7, <1>8, <1>9 DEF QueuedOnce

\* What is taken from the queue keeps it.
LEMMA TakenOnce ==
    ASSUME Sound, NEW k \in Requests, QueuedOnce(k), [InterruptsNext]_interruptVars,
           NEW late, Handles(late)
    PROVE  /\ QueuedOnce(k)'
           /\ AsksIn(handled', k) = AsksIn(handled, k) \cup
                (IF Head(queue).type = "asked" /\ Head(queue).request = k THEN {Len(handled) + 1} ELSE {})
           /\ Head(queue).type = "asked" /\ Head(queue).request = k => AsksIn(handled, k) = {}
           /\ Head(queue).type = "resolved" /\ Head(queue).request = k => answers[k] > 0
<1> DEFINE e == Head(queue)
           l == Len(handled) + 1
<1>1. /\ queue \in Seq(Events) /\ Len(queue) \in Nat /\ DOMAIN queue = 1 .. Len(queue)
      /\ handled \in Seq(Events) /\ Len(handled) \in Nat /\ DOMAIN handled = 1 .. Len(handled)
      /\ queue # <<>> /\ queue' = Tail(queue) /\ handled' = Append(handled, e)
  BY DEF Sound, Typed, StreamTypeOK, Handles
<1>2. /\ 1 \in DOMAIN queue /\ e = queue[1]
      /\ Len(queue') = Len(queue) - 1 /\ DOMAIN queue' = 1 .. Len(queue) - 1
      /\ \A n \in 1 .. Len(queue) - 1 : n + 1 \in DOMAIN queue /\ queue'[n] = queue[n + 1]
  BY <1>1
<1>3. /\ DOMAIN handled' = 1 .. l /\ l \in Nat
      /\ \A n \in 1 .. Len(handled) : handled'[n] = handled[n]
      /\ handled'[l] = e
      /\ 1 .. l = (1 .. Len(handled)) \cup {l}
  BY <1>1
<1> HIDE DEF e, l
<1>4. /\ requests[k] # None => requests'[k] # None
      /\ answers[k] > 0 => answers'[k] > 0
  BY RequestsGrow DEF Sound
<1>5. AsksIn(handled', k) = AsksIn(handled, k) \cup
            (IF e.type = "asked" /\ e.request = k THEN {l} ELSE {})
  BY <1>1, <1>3 DEF AsksIn
<1>6. ASSUME NEW n \in AsksIn(queue', k) PROVE n \in Nat /\ n # 0 /\ n + 1 \in AsksIn(queue, k)
  BY <1>1, <1>2 DEF AsksIn
<1>7. ASSUME e.type = "asked", e.request = k
      PROVE  AsksIn(handled, k) = {} /\ AsksIn(queue', k) = {} /\ requests[k] # None
  <2>1. 1 \in AsksIn(queue, k)
    BY <1>2, <1>7 DEF AsksIn
  <2>2. \A n \in AsksIn(queue', k) : n + 1 = 1 /\ n \in Nat /\ n # 0
    BY <1>6, <2>1 DEF QueuedOnce
  <2>3. AsksIn(queue', k) = {}
    BY <2>2
  <2> QED  BY <2>1, <2>3 DEF QueuedOnce
<1>8. ASSUME NEW m \in AsksIn(queue', k), NEW n \in AsksIn(queue', k) PROVE m = n
  <2>1. m + 1 = n + 1 /\ m \in Nat /\ n \in Nat
    BY <1>6 DEF QueuedOnce
  <2> QED  BY <2>1
<1>9. ASSUME NEW n \in DOMAIN queue', queue'[n].type = "resolved", queue'[n].request = k
      PROVE  answers'[k] > 0
  BY <1>2, <1>4, <1>9 DEF QueuedOnce
<1>10. QueuedOnce(k)'
  BY <1>4, <1>5, <1>6, <1>7, <1>8, <1>9 DEF QueuedOnce
<1>11. e.type = "resolved" /\ e.request = k => answers[k] > 0
  BY <1>2 DEF QueuedOnce
<1> QED  BY <1>5, <1>7, <1>10, <1>11 DEF e, l

\* Every step keeps it.
LEMMA QueuedOnceStays ==
    ASSUME Sound, NEW k \in Requests, QueuedOnce(k), [Next]_vars
    PROVE  QueuedOnce(k)'
<1>1. Progress /\ [InterruptsNext]_interruptVars /\ queue' \in Seq(Events)
  BY NextIs, RequestsGoOn DEF Sound, QueueOK
<1>2. ASSUME queue' = queue \/ queue' = <<>>, handled' = handled PROVE QueuedOnce(k)'
  <2>1. /\ requests[k] # None => requests'[k] # None
        /\ answers[k] > 0 => answers'[k] > 0
    BY <1>1, RequestsGrow DEF Sound
  <2>2. AsksIn(<<>>, k) = {} /\ DOMAIN <<>> = {}
    BY DEF AsksIn
  <2> QED  BY <1>2, <2>1, <2>2 DEF QueuedOnce
<1>3. CASE Rests
  <2>1. \/ queue' = queue
        \/ \E e \in Events : Comes(e) /\ \E d \in Nat : Rest(queue', Append(queue, e), d)
    BY <1>3 DEF Rests
  <2>2. handled' = handled
    BY <1>3 DEF Rests
  <2> QED  BY <1>1, <1>2, <2>1, <2>2, ComesOnce
<1>4. CASE Flushes \/ Finishes
  BY <1>2, <1>4 DEF Flushes, Finishes
<1>5. CASE \E late \in BOOLEAN : Handles(late)
  BY <1>1, <1>5, TakenOnce
<1> QED  BY <1>1, <1>3, <1>4, <1>5 DEF Progress

\* Two interrupt statuses are the same if phase and request are.
LEMMA InterruptIs ==
    ASSUME NEW phase, NEW k
    PROVE  /\ Interrupt(phase, k).kind = "interrupt"
           /\ \A ph, r : Interrupt(ph, r) = Interrupt(phase, k) <=> ph = phase /\ r = k
<1>1. Interrupt(phase, k).kind = "interrupt"
  BY DEF Interrupt
<1>2. ASSUME NEW ph, NEW r, Interrupt(ph, r) = Interrupt(phase, k) PROVE ph = phase /\ r = k
  <2>1. Interrupt(ph, r).phase = Interrupt(phase, k).phase
    BY <1>2, Zenon
  <2>2. Interrupt(ph, r).request = Interrupt(phase, k).request
    BY <1>2, Zenon
  <2> QED  BY <2>1, <2>2 DEF Interrupt
<1> QED  BY <1>1, <1>2

\* Where a request is shown, as places of the sequence of outputs.
LEMMA ShownIs ==
    ASSUME NEW phase, NEW k
    PROVE  /\ Shown(phase, k) = Places(processor.out, {Interrupt(phase, k)})
           /\ Shown(phase, k)' = Places(processor'.out, {Interrupt(phase, k)})
  BY DEF Shown, Places, out

\* Text, reasoning and tool calls show no request.
LEMMA ArtifactsShowNone ==
    ASSUME NEW p \in Processors, NEW q \in Processors, NEW S, Adds(p, q, S),
           \A o \in S : o.kind = "artifact", NEW phase, NEW k
    PROVE  Places(q.out, {Interrupt(phase, k)}) = Places(p.out, {Interrupt(phase, k)})
<1> DEFINE X == {Interrupt(phase, k)}
<1>1. S \cap X = {}
  BY InterruptIs
<1> HIDE DEF X
<1>2. Places(q.out, X) = Places(p.out, X)
  BY <1>1, PlacesKeep
<1> QED  BY <1>2 DEF X

\* A request that is shown is shown last.
LEMMA PromptIsShown ==
    ASSUME NEW p \in Processors, NEW q, NEW ph, NEW r, Prompts(p, q, ph, r), NEW phase, NEW k
    PROVE  /\ Places(q.out, {Interrupt(phase, k)}) = Places(p.out, {Interrupt(phase, k)})
                  \cup (IF ph = phase /\ r = k THEN {Len(q.out)} ELSE {})
           /\ \A n \in Places(p.out, {Interrupt(phase, k)}) : n < Len(q.out)
<1> DEFINE X == {Interrupt(phase, k)}
<1>1. /\ q \in Processors /\ Adds(p, q, Streamed \cup {Interrupt(ph, r)})
      /\ Len(q.out) > Len(p.out) /\ Last(q.out) = Interrupt(ph, r)
      /\ \A n \in Len(p.out) + 1 .. Len(q.out) - 1 : q.out[n] \in Streamed
  BY DEF Prompts, Good, Last
<1>2. Streamed \cap X = {}
  BY InterruptIs DEF Streamed
<1>3. Interrupt(ph, r) \in X <=> ph = phase /\ r = k
  BY InterruptIs
<1> HIDE DEF X
<1>4. Places(q.out, X) = Places(p.out, X) \cup (IF ph = phase /\ r = k THEN {Len(q.out)} ELSE {})
  <2>1. CASE ph = phase /\ r = k
    <3>1. AddsLast(p, q, Streamed)
      BY <1>1 DEF Adds, AddsLast
    <3>2. Last(q.out) \in X
      BY <1>1, <1>3, <2>1
    <3>3. Places(q.out, X) = Places(p.out, X) \cup {Len(q.out)}
      BY <1>1, <1>2, <3>1, <3>2, PlacesGrow
    <3> QED  BY <2>1, <3>3
  <2>2. CASE ~(ph = phase /\ r = k)
    <3> DEFINE T == Streamed \cup {Interrupt(ph, r)}
    <3>1. Adds(p, q, T) /\ T \cap X = {}
      BY <1>1, <1>2, <1>3, <2>2
    <3> HIDE DEF T
    <3>2. Places(q.out, X) = Places(p.out, X)
      BY <1>1, <3>1, PlacesKeep
    <3> QED  BY <2>2, <3>2
  <2> QED  BY <2>1, <2>2
<1>5. \A n \in Places(p.out, X) : n < Len(q.out)
  <2>1. Len(p.out) \in Nat /\ Len(q.out) \in Nat /\ DOMAIN p.out = 1 .. Len(p.out)
    BY <1>1 DEF Processors
  <2> QED  BY <1>1, <2>1 DEF Places
<1> QED  BY <1>4, <1>5 DEF X

\* The end shows no request.
LEMMA FinishesShowNone ==
    ASSUME Sound, Finishes, NEW phase, NEW k
    PROVE  Shown(phase, k)' = Shown(phase, k) /\ processor'.asked = processor.asked
<1> DEFINE X == {Interrupt(phase, k)}
<1>1. /\ Good(processor) /\ processor.out \in Seq(Outputs)
      /\ said \in Seq(Nat) /\ counted \in Usages
  <2>1. said \in Seq(1 .. produced) /\ produced \in Nat
    BY ScenariosAssumption DEF Sound, Typed, StreamTypeOK
  <2>2. said \in Seq(Nat)
    BY <2>1, SeqMonotonic
  <2> QED  BY <2>2 DEF Sound, Typed, StreamTypeOK, Good, Processors
<1>2. ASSUME NEW s \in Seq(Outputs), NEW o \in Outputs, o.kind # "interrupt"
      PROVE  Places(Append(s, o), X) = Places(s, X) /\ Append(s, o) \in Seq(Outputs)
  <2>1. o \notin X
    BY <1>2, InterruptIs
  <2> HIDE DEF X
  <2>2. Append(s, o) \in Seq(Outputs)
    OBVIOUS
  <2>3. Places(Append(s, o), X) = Places(s, X) \cup (IF o \in X THEN {Len(s) + 1} ELSE {})
    BY PlacesAppend
  <2> QED  BY <2>1, <2>2, <2>3
<1>3. /\ ErrorArtifact \in Outputs /\ ErrorArtifact.kind # "interrupt"
      /\ \A state \in {"failed", "canceled"} :
            Final(state, NoUsage) \in Outputs /\ Final(state, NoUsage).kind # "interrupt"
      /\ Final("input_required", counted) \in Outputs
      /\ Final("input_required", counted).kind # "interrupt"
  BY <1>1, FinalIs, FailedIs, NoUsageIs DEF ErrorArtifact
<1> HIDE DEF X
<1>4. /\ Places(Failed(processor).out, X) = Places(processor.out, X)
      /\ Failed(processor).asked = processor.asked
  <2>1. /\ Failed(processor).out = Append(Append(processor.out, ErrorArtifact), Final("failed", NoUsage))
        /\ Failed(processor).asked = processor.asked
    BY <1>1, FailedIs
  <2> DEFINE s == Append(processor.out, ErrorArtifact)
  <2>2. Places(s, X) = Places(processor.out, X) /\ s \in Seq(Outputs)
    BY <1>1, <1>2, <1>3
  <2> HIDE DEF s
  <2>3. Places(Append(s, Final("failed", NoUsage)), X) = Places(s, X)
    BY <1>2, <1>3, <2>2
  <2> QED  BY <2>1, <2>2, <2>3 DEF s
<1>5. /\ Places(WithFinal(processor, "canceled", NoUsage).out, X) = Places(processor.out, X)
      /\ WithFinal(processor, "canceled", NoUsage).asked = processor.asked
  <2>1. /\ WithFinal(processor, "canceled", NoUsage).out = Append(processor.out, Final("canceled", NoUsage))
        /\ WithFinal(processor, "canceled", NoUsage).asked = processor.asked
    BY <1>1, FinalIs, NoUsageIs
  <2> QED  BY <1>1, <1>2, <1>3, <2>1
<1>6. /\ Places(Completed(processor, said, counted).out, X) = Places(processor.out, X)
      /\ Completed(processor, said, counted).asked = processor.asked
  <2> DEFINE q == Completed(processor, said, counted)
             o == Final("input_required", counted)
             s == Snapshot(processor, said)
  <2>1. /\ q.asked = processor.asked
        /\ \/ q.out = Append(processor.out, o)
           \/ q.out = Append(Append(processor.out, s), o) /\ s \in Outputs /\ s.kind # "interrupt"
    BY <1>1, CompletedIs DEF IsArtifact
  <2> HIDE DEF q, s, o
  <2>2. o \in Outputs /\ o.kind # "interrupt"
    BY <1>3 DEF o
  <2>3. \A t \in Seq(Outputs) : Places(Append(t, o), X) = Places(t, X)
    BY <1>2, <2>2
  <2>4. ASSUME s \in Outputs, s.kind # "interrupt"
        PROVE  Places(Append(processor.out, s), X) = Places(processor.out, X)
               /\ Append(processor.out, s) \in Seq(Outputs)
    BY <1>1, <1>2, <2>4
  <2>5. Places(q.out, X) = Places(processor.out, X)
    <3>1. CASE q.out = Append(processor.out, o)
      BY <1>1, <2>3, <3>1
    <3>2. CASE q.out = Append(Append(processor.out, s), o) /\ s \in Outputs /\ s.kind # "interrupt"
      <4> DEFINE t == Append(processor.out, s)
      <4>1. t \in Seq(Outputs) /\ Places(t, X) = Places(processor.out, X)
        BY <2>4, <3>2
      <4>2. q.out = Append(t, o)
        BY <3>2
      <4> HIDE DEF t
      <4> QED  BY <2>3, <4>1, <4>2
    <3> QED  BY <2>1, <3>1, <3>2
  <2> QED  BY <2>1, <2>5 DEF q
<1>7. Places(processor'.out, X) = Places(processor.out, X) /\ processor'.asked = processor.asked
  BY <1>4, <1>5, <1>6 DEF Finishes
<1> QED  BY <1>7, ShownIs DEF X

\* Every step keeps what is shown of a request.
LEMMA ShownStays ==
    ASSUME Sound, NEW k \in Requests, QueuedOnce(k), ShownInTurn(k), [Next]_vars
    PROVE  ShownInTurn(k)'
<1>1. Progress /\ [InterruptsNext]_interruptVars /\ Good(processor) /\ Good(processor')
  BY NextIs, RequestsGoOn, SoundSteps DEF Sound
<1>2. answers[k] > 0 => answers'[k] > 0
  BY <1>1, RequestsGrow DEF Sound
<1>3. processor \in Processors /\ processor' \in Processors
  BY <1>1 DEF Good
<1>4. ASSUME \A phase \in {"asked", "resolved"} : Shown(phase, k)' = Shown(phase, k),
             processor'.asked = processor.asked,
             AsksIn(handled, k) # {} => AsksIn(handled', k) # {}
      PROVE  ShownInTurn(k)'
  BY <1>2, <1>4 DEF ShownInTurn
<1>5. CASE Rests
  <2>1. processor' = processor /\ handled' = handled
    BY <1>5 DEF Rests
  <2>2. \A phase \in {"asked", "resolved"} : Shown(phase, k)' = Shown(phase, k)
    BY <2>1 DEF Shown, out
  <2> QED  BY <1>4, <2>1, <2>2
<1>6. ASSUME NEW S, Adds(processor, processor', S), \A o \in S : o.kind = "artifact",
             processor'.asked = processor.asked,
             AsksIn(handled, k) # {} => AsksIn(handled', k) # {}
      PROVE  ShownInTurn(k)'
  <2>1. ASSUME NEW phase \in {"asked", "resolved"} PROVE Shown(phase, k)' = Shown(phase, k)
    <3>1. Places(processor'.out, {Interrupt(phase, k)}) = Places(processor.out, {Interrupt(phase, k)})
      BY <1>3, <1>6, ArtifactsShowNone
    <3> QED  BY <3>1, ShownIs
  <2> QED  BY <1>4, <1>6, <2>1
<1>7. \A o \in Streamed : o.kind = "artifact"
  BY DEF Streamed
<1>8. CASE Flushes
  <2>1. Adds(processor, processor', Streamed) /\ processor'.asked = processor.asked /\ handled' = handled
    BY <1>1, <1>8, FlushStreams DEF Flushes, Streams, Same
  <2> QED  BY <1>6, <1>7, <2>1
<1>9. CASE Finishes
  BY <1>4, <1>9, FinishesShowNone DEF Finishes
<1>10. ASSUME NEW late \in BOOLEAN, Handles(late) PROVE ShownInTurn(k)'
  <2> DEFINE e == Head(queue)
  <2>1. /\ AsksIn(handled', k) = AsksIn(handled, k) \cup
                (IF e.type = "asked" /\ e.request = k THEN {Len(handled) + 1} ELSE {})
        /\ e.type = "asked" /\ e.request = k => AsksIn(handled, k) = {}
        /\ e.type = "resolved" /\ e.request = k => answers[k] > 0
    BY <1>1, <1>10, TakenOnce
  <2>2. e \in Events /\ (IsPartEvent(e) => Tells(e)) /\ processor' = HandleEvent(processor, e, late)
    <3>1. queue \in Seq(Events) /\ queue # <<>>
      BY <1>10 DEF Sound, Typed, StreamTypeOK, Handles
    <3>2. 1 \in DOMAIN queue /\ e = queue[1]
      BY <3>1
    <3> QED  BY <1>10, <3>1, <3>2 DEF Sound, Typed, QueueTells, Handles
  <2> HIDE DEF e
  <2>3. \/ Says(processor, processor')
        \/ Shows(processor, processor', e)
        \/ /\ e.type = "asked" /\ e.request \in Nat \ processor.asked
           /\ Prompts(processor, processor', "asked", e.request)
           /\ processor'.asked = processor.asked \cup {e.request}
        \/ /\ e.type = "resolved" /\ e.request \in processor.asked
           /\ Prompts(processor, processor', "resolved", e.request)
           /\ processor'.asked = processor.asked \ {e.request}
    BY <1>1, <2>2, HandleEventIs
  <2>4. CASE Says(processor, processor')
    BY <1>6, <1>7, <2>1, <2>4 DEF Says
  <2>5. CASE Shows(processor, processor', e)
    <3> DEFINE o == processor'.out[Len(processor'.out)]
    <3>1. \/ Adds(processor, processor', Streamed)
          \/ Adds(processor, processor', Streamed \cup {o}) /\ o.kind = "artifact"
      BY <2>5 DEF Shows, IsArtifact
    <3>2. processor'.asked = processor.asked
      BY <2>5 DEF Shows
    <3> HIDE DEF o
    <3> QED  BY <1>6, <1>7, <2>1, <3>1, <3>2
  <2>6. CASE /\ e.type = "asked" /\ e.request \in Nat \ processor.asked
             /\ Prompts(processor, processor', "asked", e.request)
             /\ processor'.asked = processor.asked \cup {e.request}
    <3>1. /\ Shown("asked", k)' = Shown("asked", k)
                  \cup (IF e.request = k THEN {Len(out')} ELSE {})
          /\ Shown("resolved", k)' = Shown("resolved", k)
      <4>1. \A phase \in {"asked", "resolved"} :
              /\ Shown(phase, k)' = Shown(phase, k)
                    \cup (IF "asked" = phase /\ e.request = k THEN {Len(out')} ELSE {})
              /\ \A n \in Shown(phase, k) : n < Len(out')
        <5> TAKE phase \in {"asked", "resolved"}
        <5>1. /\ Places(processor'.out, {Interrupt(phase, k)}) =
                    Places(processor.out, {Interrupt(phase, k)})
                    \cup (IF "asked" = phase /\ e.request = k THEN {Len(processor'.out)} ELSE {})
              /\ \A n \in Places(processor.out, {Interrupt(phase, k)}) : n < Len(processor'.out)
          BY <1>3, <2>6, PromptIsShown
        <5> QED  BY <5>1, ShownIs DEF out
      <4> QED  BY <4>1
    <3>2. CASE e.request = k
      <4>1. Shown("asked", k) = {} /\ Shown("resolved", k) = {} /\ AsksIn(handled', k) # {}
        BY <2>1, <2>6, <3>2 DEF ShownInTurn
      <4>2. Shown("asked", k)' = {Len(out')} /\ Shown("resolved", k)' = {}
        BY <3>1, <3>2, <4>1
      <4>3. Shown("asked", k)' # {} /\ \A m, n \in Shown("asked", k)' : m = n
        BY <4>2
      <4>4. /\ \A m, n \in Shown("resolved", k)' : m = n
            /\ \A n \in Shown("resolved", k)' : answers'[k] > 0 /\ \E m \in Shown("asked", k)' : m < n
        BY <4>2
      <4> QED  BY <4>1, <4>2, <4>3, <4>4 DEF ShownInTurn
    <3>3. CASE e.request # k
      <4>1. /\ Shown("asked", k)' = Shown("asked", k) /\ Shown("resolved", k)' = Shown("resolved", k)
            /\ k \in processor'.asked <=> k \in processor.asked
        BY <2>6, <3>1, <3>3
      <4> QED  BY <1>2, <2>1, <4>1 DEF ShownInTurn
    <3> QED  BY <3>2, <3>3
  <2>7. CASE /\ e.type = "resolved" /\ e.request \in processor.asked
             /\ Prompts(processor, processor', "resolved", e.request)
             /\ processor'.asked = processor.asked \ {e.request}
    <3>1. /\ Shown("resolved", k)' = Shown("resolved", k)
                  \cup (IF e.request = k THEN {Len(out')} ELSE {})
          /\ Shown("asked", k)' = Shown("asked", k)
          /\ \A n \in Shown("asked", k) : n < Len(out')
      <4>1. \A phase \in {"asked", "resolved"} :
              /\ Shown(phase, k)' = Shown(phase, k)
                    \cup (IF "resolved" = phase /\ e.request = k THEN {Len(out')} ELSE {})
              /\ \A n \in Shown(phase, k) : n < Len(out')
        <5> TAKE phase \in {"asked", "resolved"}
        <5>1. /\ Places(processor'.out, {Interrupt(phase, k)}) =
                    Places(processor.out, {Interrupt(phase, k)})
                    \cup (IF "resolved" = phase /\ e.request = k THEN {Len(processor'.out)} ELSE {})
              /\ \A n \in Places(processor.out, {Interrupt(phase, k)}) : n < Len(processor'.out)
          BY <1>3, <2>7, PromptIsShown
        <5> QED  BY <5>1, ShownIs DEF out
      <4> QED  BY <4>1
    <3>2. CASE e.request = k
      <4>1. /\ Shown("resolved", k) = {} /\ Shown("asked", k) # {} /\ answers'[k] > 0
            /\ k \notin processor'.asked /\ AsksIn(handled, k) # {}
        BY <1>2, <2>1, <2>7, <3>2 DEF ShownInTurn
      <4>2. Shown("resolved", k)' = {Len(out')}
        BY <3>1, <3>2, <4>1
      <4>3. Shown("asked", k)' = Shown("asked", k) /\ AsksIn(handled', k) # {}
        BY <2>1, <3>1, <4>1
      <4>4. \A m, n \in Shown("asked", k) : m = n
        BY DEF ShownInTurn
      <4>5. \A n \in Shown("resolved", k)' : answers'[k] > 0 /\ \E m \in Shown("asked", k)' : m < n
        BY <3>1, <4>1, <4>2, <4>3
      <4> QED  BY <4>1, <4>2, <4>3, <4>4, <4>5 DEF ShownInTurn
    <3>3. CASE e.request # k
      <4>1. /\ Shown("asked", k)' = Shown("asked", k) /\ Shown("resolved", k)' = Shown("resolved", k)
            /\ k \in processor'.asked <=> k \in processor.asked
        BY <2>7, <3>1, <3>3
      <4> QED  BY <1>2, <2>1, <4>1 DEF ShownInTurn
    <3> QED  BY <3>2, <3>3
  <2> QED  BY <2>3, <2>4, <2>5, <2>6, <2>7
<1> QED  BY <1>1, <1>5, <1>8, <1>9, <1>10 DEF Progress

\* It holds in every state.
LEMMA PairsHold == Spec => []Pairs
<1>1. Init => Pairs
  <2> SUFFICES ASSUME Init PROVE Pairs
    OBVIOUS
  <2>1. /\ DOMAIN queue = {} /\ DOMAIN handled = {} /\ DOMAIN out = {} /\ processor.asked = {}
    BY DEF Init, out, NewProcessor
  <2> QED  BY <2>1 DEF Pairs, QueuedOnce, ShownInTurn, AsksIn, Shown
<1>2. Sound /\ Pairs /\ [Next]_vars => Pairs'
  BY QueuedOnceStays, ShownStays DEF Pairs
<1> QED  BY <1>1, <1>2, SoundHolds, PTL DEF Spec

\* A request is shown as asked once, as resolved once at most, after it was asked and after
\* Codex has got an answer (pending_interrupt_request_ids).
THEOREM InterruptsComeInPairs == Spec => []InterruptsPair
<1>1. Pairs => InterruptsPair
  BY DEF Pairs, ShownInTurn, InterruptsPair
<1> QED  BY <1>1, PairsHold, PTL

-----------------------------------------------------------------------------
(* The state of a tool call.                                               *)

\* The outputs that show the state of a tool call.
StateOutputs(i) == {o \in Outputs : IsArtifact(o) /\ o.part = i /\ IsState(o.payload)}

\* Where the states of a tool call are shown, as places of the sequence of outputs.
LEMMA StatesShownIs ==
    ASSUME out \in Seq(Outputs), NEW i
    PROVE  StatesShown(i) = Places(out, StateOutputs(i))
<1>1. \A n \in DOMAIN out : out[n] \in Outputs
  OBVIOUS
<1> QED  BY <1>1 DEF StatesShown, Places, StateOutputs

\* The state a tool call was given last is the one that is shown.
LastIsShown(i) ==
    LET shown == StatesShown(i)
        last == LastState(processor.parts[i])
    IN  /\ shown = {} => last = None
        /\ shown # {} => out[Max(shown)].payload = last
        /\ \A m, n \in shown :
              m < n /\ out[m].payload = out[n].payload => \E l \in shown : m < l /\ l < n

\* It is the one that was reported last.
LastIsReported(i) ==
    LET reported == StatesReported(i)
        last == LastState(processor.parts[i])
    IN  /\ reported = {} => last = None
        /\ reported # {} => ReportOf(handled[Max(reported)]) = last

\* A tool call that was sent has been counted.
CallsAreCounted ==
    \A n \in DOMAIN processor.sent["tool_call"] :
        CallCount(processor.parts[processor.sent["tool_call"][n].call]) > 0

\* The inductive invariant of the tool calls.
Tools == CallsAreCounted /\ \A i \in Items : LastIsShown(i) /\ LastIsReported(i)

\* It is kept where no state of the call is shown, ...
LEMMA ShownAsBefore ==
    ASSUME Sound, [Next]_vars, NEW i \in Items, LastIsShown(i),
           StatesShown(i)' = StatesShown(i),
           \A n \in StatesShown(i) : out'[n] = out[n],
           LastState(processor'.parts[i]) = LastState(processor.parts[i])
    PROVE  LastIsShown(i)'
<1>1. StatesShown(i) \in SUBSET (1 .. Len(out)) /\ Len(out) \in Nat
  BY SoundSteps DEF StatesShown
<1> DEFINE S == StatesShown(i)
<1>2. S # {} => Max(S) \in S
  BY <1>1, GreatestElement
<1>3. S' = S /\ \A n \in S : out'[n] = out[n]
  OBVIOUS
<1> HIDE DEF S
<1>4. /\ S = {} => LastState(processor.parts[i]) = None
      /\ S # {} => out[Max(S)].payload = LastState(processor.parts[i])
      /\ \A m, n \in S :
            m < n /\ out[m].payload = out[n].payload => \E l \in S : m < l /\ l < n
  BY DEF LastIsShown, S
<1>5. /\ S' = {} => LastState(processor'.parts[i]) = None
      /\ S' # {} => out'[Max(S')].payload = LastState(processor'.parts[i])
      /\ \A m, n \in S' :
            m < n /\ out'[m].payload = out'[n].payload => \E l \in S' : m < l /\ l < n
  BY <1>2, <1>3, <1>4
<1> QED  BY <1>5 DEF LastIsShown, S

\* ... and where the new one is.
LEMMA ShownAnew ==
    ASSUME Sound, [Next]_vars, NEW i \in Items, LastIsShown(i),
           NEW g \in Nat, g > Len(out),
           StatesShown(i)' = StatesShown(i) \cup {g},
           \A n \in StatesShown(i) : out'[n] = out[n],
           out'[g].payload = LastState(processor'.parts[i]),
           LastState(processor'.parts[i]) # LastState(processor.parts[i])
    PROVE  LastIsShown(i)'
<1>1. StatesShown(i) \in SUBSET (1 .. Len(out)) /\ Len(out) \in Nat
  BY SoundSteps DEF StatesShown
<1> DEFINE S == StatesShown(i)
           last == LastState(processor.parts[i])
           now == LastState(processor'.parts[i])
<1>2. S # {} => Max(S) \in S /\ \A m \in S : m <= Max(S)
  BY <1>1, GreatestElement
<1>3. S \in SUBSET Nat /\ (\A m \in S : 0 < m /\ m < g) /\ 0 < g
  BY <1>1
<1>4. Max(S \cup {g}) = g
  <2> HIDE DEF S
  <2> QED  BY <1>3, NewGreatest
<1>5. S' = S \cup {g} /\ \A n \in S : out'[n] = out[n]
  OBVIOUS
<1> HIDE DEF S
<1>6. /\ S # {} => out[Max(S)].payload = last
      /\ \A m, n \in S :
            m < n /\ out[m].payload = out[n].payload => \E l \in S : m < l /\ l < n
  BY DEF LastIsShown, S
<1> HIDE DEF last, now
<1>7. out'[g].payload = now /\ now # last
  BY DEF now, last
<1>8. ASSUME NEW m \in S', NEW n \in S', m < n, out'[m].payload = out'[n].payload
      PROVE  \E l \in S' : m < l /\ l < n
  <2>1. m \in S
    BY <1>3, <1>5, <1>8
  <2>2. CASE n \in S
    BY <1>5, <1>6, <1>8, <2>1, <2>2
  <2>3. CASE n = g
    <3>1. out[m].payload = now
      BY <1>5, <1>7, <1>8, <2>1, <2>3
    <3>2. m # Max(S) /\ Max(S) \in S /\ m <= Max(S)
      BY <1>2, <1>6, <1>7, <2>1, <3>1
    <3>3. m < Max(S) /\ Max(S) < g
      BY <1>3, <2>1, <3>2
    <3> QED  BY <1>5, <2>3, <3>2, <3>3
  <2> QED  BY <1>5, <2>2, <2>3
<1>9. S' # {} /\ out'[Max(S')].payload = now
  BY <1>4, <1>5, <1>7
<1> QED  BY <1>8, <1>9 DEF LastIsShown, S, now

\* What the next event reports of a tool call.
LEMMA ReportedAsBefore ==
    ASSUME Sound, [Next]_vars, NEW i \in Items, LastIsReported(i),
           LastState(processor'.parts[i]) = LastState(processor.parts[i]),
           handled' = handled
    PROVE  LastIsReported(i)'
  BY DEF LastIsReported, StatesReported, Handled

\* The next event is the last report, if it reports a state of the call.
LEMMA ReportedNext ==
    ASSUME Sound, [Next]_vars, NEW i \in Items, LastIsReported(i),
           NEW e \in Events, handled' = Append(handled, e),
           IF e.type = "message.part.updated" /\ e.part = i /\ IsState(ReportOf(e))
           THEN LastState(processor'.parts[i]) = ReportOf(e)
           ELSE LastState(processor'.parts[i]) = LastState(processor.parts[i])
    PROVE  LastIsReported(i)'
<1> DEFINE S == StatesReported(i)
           l == Len(handled) + 1
           Reported == e.type = "message.part.updated" /\ e.part = i /\ IsState(ReportOf(e))
<1>1. /\ handled \in Seq(Events) /\ Len(handled) \in Nat /\ DOMAIN handled = 1 .. Len(handled)
      /\ DOMAIN handled' = 1 .. l /\ l \in Nat /\ 0 < l
      /\ \A n \in 1 .. Len(handled) : handled'[n] = handled[n]
      /\ handled'[l] = e
      /\ 1 .. l = (1 .. Len(handled)) \cup {l}
  BY DEF Sound, Typed, StreamTypeOK
<1>2. S \in SUBSET (1 .. Len(handled))
  BY <1>1 DEF StatesReported, Handled
<1>3. S # {} => Max(S) \in S
  BY <1>1, <1>2, GreatestElement
<1> HIDE DEF l
<1>4. S' = IF Reported THEN S \cup {l} ELSE S
  BY <1>1 DEF StatesReported, Handled
<1>5. /\ S = {} => LastState(processor.parts[i]) = None
      /\ S # {} => ReportOf(handled[Max(S)]) = LastState(processor.parts[i])
  BY DEF LastIsReported
<1> HIDE DEF S
<1>6. CASE Reported
  <2>1. \A m \in S : 0 < m /\ m < l /\ m \in Nat
    BY <1>1, <1>2 DEF l
  <2>2. Max(S \cup {l}) = l
    BY <1>1, <2>1, NewGreatest
  <2>3. S' # {} /\ ReportOf(handled'[Max(S')]) = LastState(processor'.parts[i])
    BY <1>1, <1>4, <1>6, <2>2
  <2> QED  BY <2>3 DEF LastIsReported, S
<1>7. CASE ~Reported
  <2>1. /\ S' = S
        /\ S' # {} => handled'[Max(S')] = handled[Max(S)]
    BY <1>1, <1>2, <1>3, <1>4, <1>7
  <2>2. LastState(processor'.parts[i]) = LastState(processor.parts[i])
    BY <1>7
  <2>3. /\ S' = {} => LastState(processor'.parts[i]) = None
        /\ S' # {} => ReportOf(handled'[Max(S')]) = LastState(processor'.parts[i])
    BY <1>5, <2>1, <2>2
  <2> QED  BY <2>3 DEF LastIsReported, S
<1> QED  BY <1>6, <1>7

\* What is added changes nothing that was there.
LEMMA AddedOnly ==
    ASSUME Sound, [Next]_vars, NEW S, Adds(processor, processor', S), NEW i,
           S \cap StateOutputs(i) = {}
    PROVE  /\ StatesShown(i)' = StatesShown(i)
           /\ \A n \in StatesShown(i) : out'[n] = out[n]
<1>1. /\ processor \in Processors /\ processor' \in Processors
      /\ out \in Seq(Outputs) /\ out' \in Seq(Outputs) /\ DOMAIN out = 1 .. Len(out)
  BY SoundSteps DEF Good
<1>2. Places(processor'.out, StateOutputs(i)) = Places(processor.out, StateOutputs(i))
  BY <1>1, PlacesKeep
<1>3. /\ StatesShown(i) = Places(out, StateOutputs(i))
      /\ StatesShown(i)' = Places(out', StateOutputs(i))
  <2>1. StatesShown(i) = Places(out, StateOutputs(i))
    BY <1>1, StatesShownIs
  <2>2. \A n \in DOMAIN out' : out'[n] \in Outputs
    BY <1>1
  <2>3. StatesShown(i)' = Places(out', StateOutputs(i))
    BY <2>2 DEF StatesShown, Places, StateOutputs
  <2> QED  BY <2>1, <2>3
<1>4. \A n \in StatesShown(i) : out'[n] = out[n]
  BY <1>1 DEF StatesShown, Adds, out
<1> QED  BY <1>2, <1>3, <1>4 DEF out

\* Text, requests and the end show no state of a tool call.
LEMMA OthersShowNoState ==
    ASSUME NEW i \in Items
    PROVE  /\ Streamed \cap StateOutputs(i) = {}
           /\ \A ph, k : Interrupt(ph, k) \notin StateOutputs(i)
           /\ \A o \in Outputs : o.kind = "final" \/ (o.kind = "artifact" /\ o.payload = None)
                    => o \notin StateOutputs(i)
  BY DEF Streamed, StateOutputs, IsState, IsArtifact, Interrupt

\* A step in which no tool call changes.
LEMMA ToolsAsBefore ==
    ASSUME Sound, Tools, [Next]_vars,
           NEW S, Adds(processor, processor', S), \A i \in Items : S \cap StateOutputs(i) = {},
           \A i \in Items : Kept(processor.parts[i], processor'.parts[i]),
           processor'.sent["tool_call"] = processor.sent["tool_call"],
           \/ handled' = handled
           \/ \E e \in Events :
                 /\ handled' = Append(handled, e)
                 /\ IsPartEvent(e) /\ IsState(ReportOf(e)) =>
                        ReportOf(e) = LastState(processor.parts[e.part])
    PROVE  Tools'
<1>1. /\ processor \in Processors
      /\ \A n \in DOMAIN processor.sent["tool_call"] : processor.sent["tool_call"][n].call \in Items
  <2>1. processor \in Processors /\ processor.sent["tool_call"] \in Seq(Payloads)
    BY SoundSteps DEF Good, Processors
  <2> QED  BY <2>1 DEF Payloads
<1>2. CallsAreCounted'
  BY <1>1 DEF Tools, CallsAreCounted, Kept
<1>3. ASSUME NEW i \in Items PROVE LastIsShown(i)' /\ LastIsReported(i)'
  <2>1. LastState(processor'.parts[i]) = LastState(processor.parts[i])
    BY DEF Kept
  <2>2. LastIsShown(i)'
    BY <2>1, AddedOnly, ShownAsBefore DEF Tools
  <2>3. CASE handled' = handled
    BY <2>1, <2>2, <2>3, ReportedAsBefore DEF Tools
  <2>4. ASSUME NEW e \in Events, handled' = Append(handled, e),
               IsPartEvent(e) /\ IsState(ReportOf(e)) => ReportOf(e) = LastState(processor.parts[e.part])
        PROVE  LastIsReported(i)'
    <3>1. i # None
      BY NoneIsNoDatum
    <3>2. IF e.type = "message.part.updated" /\ e.part = i /\ IsState(ReportOf(e))
          THEN LastState(processor'.parts[i]) = ReportOf(e)
          ELSE LastState(processor'.parts[i]) = LastState(processor.parts[i])
      BY <2>1, <2>4, <3>1 DEF IsPartEvent
    <3> QED  BY <2>4, <3>2, ReportedNext DEF Tools
  <2> QED  BY <2>2, <2>3, <2>4
<1> QED  BY <1>2, <1>3 DEF Tools

\* A step that shows a tool call.
LEMMA ToolsAnew ==
    ASSUME Sound, Tools, [Next]_vars,
           NEW e \in Events, IsPartEvent(e), e.part \in Items, handled' = Append(handled, e),
           Shows(processor, processor', e), ReportOf(e) \in Payloads, ReportOf(e).call = e.part
    PROVE  Tools'
<1> DEFINE p == processor
           q == processor'
           k == e.part
           payload == ReportOf(e)
           o == Last(q.out)
           g == Len(q.out)
<1>0. /\ p \in Processors /\ q \in Processors
      /\ out \in Seq(Outputs) /\ out' \in Seq(Outputs) /\ Len(out) \in Nat /\ Len(out') \in Nat
      /\ DOMAIN out = 1 .. Len(out) /\ DOMAIN out' = 1 .. Len(out')
      /\ p.sent["tool_call"] \in Seq(Payloads)
  BY SoundSteps DEF Good, Processors
<1>1. /\ \A j \in Items \ {k} : q.parts[j] = p.parts[j]
      /\ CallCount(q.parts[k]) > 0
      /\ LastState(q.parts[k]) = IF IsState(payload) THEN payload ELSE LastState(p.parts[k])
      /\ IsState(payload) => payload # LastState(p.parts[k])
  BY DEF Shows
<1>2. ASSUME CallCount(p.parts[k]) = 0, p.sent["tool_call"] = <<payload>> PROVE FALSE
  <2>1. 1 \in DOMAIN p.sent["tool_call"] /\ p.sent["tool_call"][1] = payload
    BY <1>2
  <2>2. CallCount(p.parts[payload.call]) > 0
    BY <2>1 DEF Tools, CallsAreCounted
  <2> QED  BY <1>2, <2>2
<1>3. /\ Len(q.out) > Len(p.out) /\ Adds(p, q, Streamed \cup {o})
      /\ \A n \in Len(p.out) + 1 .. Len(q.out) - 1 : q.out[n] \in Streamed
      /\ o \in Outputs /\ IsArtifact(o) /\ o.part = k /\ o.payload = payload
      /\ q.sent["tool_call"] \in {<<payload>>, Append(p.sent["tool_call"], payload)}
  BY <1>2 DEF Shows, Last
<1>4. AddsLast(p, q, Streamed) /\ o = q.out[g] /\ g \in Nat
  BY <1>0, <1>3 DEF AddsLast, Adds, Last, out
<1> HIDE DEF o, payload
<1>5. CallsAreCounted'
  <2>1. ASSUME NEW n \in DOMAIN q.sent["tool_call"]
        PROVE  CallCount(q.parts[q.sent["tool_call"][n].call]) > 0
    <3> DEFINE c == q.sent["tool_call"][n]
    <3>1. \/ c = payload
          \/ n \in DOMAIN p.sent["tool_call"] /\ c = p.sent["tool_call"][n]
      <4>1. CASE q.sent["tool_call"] = <<payload>>
        BY <4>1
      <4>2. CASE q.sent["tool_call"] = Append(p.sent["tool_call"], payload)
        BY <1>0, <4>2
      <4> QED  BY <1>3, <4>1, <4>2
    <3> HIDE DEF c
    <3>2. CASE c = payload
      BY <1>1, <3>2 DEF c, payload
    <3>3. CASE n \in DOMAIN p.sent["tool_call"] /\ c = p.sent["tool_call"][n]
      <4>1. CallCount(p.parts[c.call]) > 0
        BY <3>3 DEF Tools, CallsAreCounted
      <4>2. c.call \in Items
        BY <1>0, <3>3 DEF Payloads
      <4> QED  BY <1>1, <4>1, <4>2 DEF c
    <3> QED  BY <3>1, <3>2, <3>3
  <2> QED  BY <2>1 DEF CallsAreCounted
<1>6. ASSUME NEW i \in Items PROVE LastIsShown(i)' /\ LastIsReported(i)'
  <2>1. /\ StatesShown(i) = Places(p.out, StateOutputs(i))
        /\ StatesShown(i)' = Places(q.out, StateOutputs(i))
    <3>1. StatesShown(i) = Places(out, StateOutputs(i))
      BY <1>0, StatesShownIs
    <3>2. \A n \in DOMAIN out' : out'[n] \in Outputs
      BY <1>0
    <3>3. StatesShown(i)' = Places(out', StateOutputs(i))
      BY <3>2 DEF StatesShown, Places, StateOutputs
    <3> QED  BY <3>1, <3>3 DEF out
  <2>2. \A n \in StatesShown(i) : out'[n] = out[n]
    BY <1>0, <1>3 DEF StatesShown, Adds, out
  <2>3. o \in StateOutputs(i) <=> i = k /\ IsState(payload)
    BY <1>3 DEF StateOutputs
  <2>4. Streamed \cap StateOutputs(i) = {}
    BY OthersShowNoState
  <2>5. CASE i = k /\ IsState(payload)
    <3>1. Places(q.out, StateOutputs(i)) = Places(p.out, StateOutputs(i)) \cup {g}
      BY <1>0, <1>4, <2>3, <2>4, <2>5, PlacesGrow DEF o
    <3>2. /\ LastState(q.parts[i]) = payload /\ payload # LastState(p.parts[i])
          /\ out'[g].payload = payload /\ g > Len(out)
      BY <1>1, <1>3, <1>4, <2>5 DEF out
    <3>3. LastIsShown(i)'
      BY <1>4, <2>1, <2>2, <3>1, <3>2, ShownAnew DEF Tools
    <3>4. LastIsReported(i)'
      BY <2>5, <3>2, ReportedNext DEF Tools, IsPartEvent, payload
    <3> QED  BY <3>3, <3>4
  <2>6. CASE ~(i = k /\ IsState(payload))
    <3>1. LastState(q.parts[i]) = LastState(p.parts[i])
      BY <1>1, <2>6
    <3>2. StatesShown(i)' = StatesShown(i)
      <4> DEFINE T == Streamed \cup {o}
      <4>1. Adds(p, q, T) /\ T \cap StateOutputs(i) = {}
        BY <1>3, <2>3, <2>4, <2>6
      <4> HIDE DEF T
      <4> QED  BY <1>0, <2>1, <4>1, PlacesKeep
    <3>3. LastIsShown(i)'
      BY <2>2, <3>1, <3>2, ShownAsBefore DEF Tools
    <3>4. LastIsReported(i)'
      BY <2>6, <3>1, ReportedNext DEF Tools, payload
    <3> QED  BY <3>3, <3>4
  <2> QED  BY <2>5, <2>6
<1> QED  BY <1>5, <1>6 DEF Tools

\* The end adds a final status, and an artifact without a payload at most.
LEMMA FinishesAdds ==
    ASSUME Sound, Finishes
    PROVE  /\ Adds(processor, processor', {o \in Outputs : o.kind = "final" \/ (o.kind = "artifact" /\ o.payload = None)})
           /\ processor'.parts = processor.parts
           /\ processor'.sent["tool_call"] = processor.sent["tool_call"]
<1> DEFINE p == processor
           q == processor'
           S == {o \in Outputs : o.kind = "final" \/ (o.kind = "artifact" /\ o.payload = None)}
<1>1. /\ Good(p) /\ p.out \in Seq(Outputs) /\ Len(p.out) \in Nat
      /\ said \in Seq(Nat) /\ counted \in Usages
  <2>1. said \in Seq(1 .. produced) /\ produced \in Nat
    BY ScenariosAssumption DEF Sound, Typed, StreamTypeOK
  <2>2. said \in Seq(Nat)
    BY <2>1, SeqMonotonic
  <2> QED  BY <2>2 DEF Sound, Typed, StreamTypeOK, Good, Processors
<1>2. /\ ErrorArtifact \in S
      /\ \A state \in {"failed", "canceled"} : Final(state, NoUsage) \in S
      /\ Final("input_required", counted) \in S
  <2>1. ErrorArtifact \in Outputs
    BY <1>1, FailedIs
  <2>2. ErrorArtifact \in S
    BY <2>1 DEF ErrorArtifact
  <2> QED  BY <1>1, <2>2, FinalIs, NoUsageIs
<1> HIDE DEF S
<1>3. ASSUME NEW o \in S, q.out = Append(p.out, o) PROVE Adds(p, q, S)
  BY <1>1, <1>3 DEF Adds
<1>4. ASSUME NEW a \in S, NEW o \in S, q.out = Append(Append(p.out, a), o) PROVE Adds(p, q, S)
  <2>1. /\ Len(q.out) = Len(p.out) + 2
        /\ \A n \in 1 .. Len(p.out) : q.out[n] = p.out[n]
        /\ q.out[Len(p.out) + 1] = a /\ q.out[Len(p.out) + 2] = o
    BY <1>1, <1>4
  <2>2. \A n \in Len(p.out) + 1 .. Len(q.out) : n = Len(p.out) + 1 \/ n = Len(p.out) + 2
    BY <1>1, <2>1
  <2>3. Len(p.out) <= Len(q.out)
    BY <1>1, <2>1
  <2> QED  BY <2>1, <2>2, <2>3 DEF Adds
<1>5. CASE q = Failed(p)
  <2>1. /\ q.out = Append(Append(p.out, ErrorArtifact), Final("failed", NoUsage))
        /\ q.parts = p.parts /\ q.sent = p.sent
    BY <1>1, <1>5, FailedIs
  <2> QED  BY <1>2, <1>4, <2>1 DEF S
<1>6. CASE q = WithFinal(p, "canceled", NoUsage)
  <2> DEFINE f == WithFinal(p, "canceled", NoUsage)
  <2>0. /\ f.out = Append(p.out, Final("canceled", NoUsage))
        /\ f.parts = p.parts /\ f.sent = p.sent
    BY <1>1, FinalIs, NoUsageIs
  <2> HIDE DEF f
  <2>1. /\ q.out = Append(p.out, Final("canceled", NoUsage))
        /\ q.parts = p.parts /\ q.sent = p.sent
    BY <1>6, <2>0 DEF f
  <2> QED  BY <1>2, <1>3, <2>1 DEF S
<1>7. CASE q = Completed(p, said, counted)
  <2> DEFINE o == Final("input_required", counted)
             a == Snapshot(p, said)
  <2>1. /\ q.parts = p.parts /\ q.sent["tool_call"] = p.sent["tool_call"]
        /\ \/ q.out = Append(p.out, o)
           \/ q.out = Append(Append(p.out, a), o) /\ a \in Outputs /\ a.kind = "artifact" /\ a.payload = None
    BY <1>1, <1>7, CompletedIs DEF IsArtifact
  <2> HIDE DEF a
  <2>2. Adds(p, q, S)
    <3>1. CASE q.out = Append(p.out, o)
      BY <1>2, <1>3, <3>1
    <3>2. CASE q.out = Append(Append(p.out, a), o) /\ a \in Outputs /\ a.kind = "artifact" /\ a.payload = None
      <4>1. a \in S
        BY <3>2 DEF S
      <4> QED  BY <1>2, <1>4, <3>2, <4>1
    <3> QED  BY <2>1, <3>1, <3>2
  <2> QED  BY <2>1, <2>2 DEF S
<1> QED  BY <1>5, <1>6, <1>7 DEF Finishes

\* Every step keeps what is shown of the tool calls.
LEMMA ToolsStay ==
    ASSUME Sound, Tools, [Next]_vars
    PROVE  Tools'
<1>1. Progress /\ Good(processor) /\ processor \in Processors
  BY SoundSteps DEF Good
<1>2. \A i \in Items : Streamed \cap StateOutputs(i) = {}
  BY OthersShowNoState
<1>3. CASE Rests
  <2>1. processor' = processor /\ handled' = handled
    BY <1>3 DEF Rests
  <2>2. Adds(processor, processor', {})
    BY <1>1, <2>1, AddsNothing
  <2>3. \A i \in Items : Kept(processor.parts[i], processor'.parts[i])
    BY <2>1 DEF Kept
  <2> QED  BY <2>1, <2>2, <2>3, ToolsAsBefore
<1>4. ASSUME Says(processor, processor'),
             \/ handled' = handled
             \/ \E e \in Events :
                   /\ handled' = Append(handled, e)
                   /\ IsPartEvent(e) /\ IsState(ReportOf(e)) =>
                        ReportOf(e) = LastState(processor.parts[e.part])
      PROVE  Tools'
  <2>1. /\ Adds(processor, processor', Streamed)
        /\ \A i \in Items : Kept(processor.parts[i], processor'.parts[i])
        /\ processor'.sent["tool_call"] = processor.sent["tool_call"]
    BY <1>4 DEF Says
  <2> QED  BY <1>2, <1>4, <2>1, ToolsAsBefore
<1>5. CASE Flushes
  <2>1. Says(processor, processor') /\ handled' = handled
    BY <1>1, <1>5, FlushStreams, StreamsSays DEF Flushes
  <2> QED  BY <1>4, <2>1
<1>6. CASE Finishes
  <2> DEFINE S == {o \in Outputs : o.kind = "final" \/ (o.kind = "artifact" /\ o.payload = None)}
  <2>1. /\ Adds(processor, processor', S)
        /\ processor'.parts = processor.parts
        /\ processor'.sent["tool_call"] = processor.sent["tool_call"]
    BY <1>6, FinishesAdds
  <2>2. \A i \in Items : S \cap StateOutputs(i) = {}
    BY OthersShowNoState
  <2> HIDE DEF S
  <2>3. \A i \in Items : Kept(processor.parts[i], processor'.parts[i])
    BY <2>1 DEF Kept
  <2>4. handled' = handled
    BY <1>6 DEF Finishes
  <2> QED  BY <2>1, <2>2, <2>3, <2>4, ToolsAsBefore
<1>7. ASSUME NEW late \in BOOLEAN, Handles(late) PROVE Tools'
  <2> DEFINE e == Head(queue)
  <2>1. /\ e \in Events /\ (IsPartEvent(e) => Tells(e))
        /\ processor' = HandleEvent(processor, e, late) /\ handled' = Append(handled, e)
    <3>1. queue \in Seq(Events) /\ queue # <<>>
      BY <1>7 DEF Sound, Typed, StreamTypeOK, Handles
    <3>2. 1 \in DOMAIN queue /\ e = queue[1]
      BY <3>1
    <3> QED  BY <1>7, <3>1, <3>2 DEF Sound, Typed, QueueTells, Handles
  <2> HIDE DEF e
  <2>2. \/ /\ Says(processor, processor')
           /\ IsPartEvent(e) /\ IsState(ReportOf(e)) => ReportOf(e) = LastState(processor.parts[e.part])
        \/ /\ IsPartEvent(e) /\ e.part \in Items
           /\ Shows(processor, processor', e) /\ ReportOf(e) \in Payloads /\ ReportOf(e).call = e.part
        \/ e.type = "asked" /\ Prompts(processor, processor', "asked", e.request)
        \/ e.type = "resolved" /\ Prompts(processor, processor', "resolved", e.request)
    BY <1>1, <2>1, HandleEventIs
  <2>3. CASE /\ Says(processor, processor')
             /\ IsPartEvent(e) /\ IsState(ReportOf(e)) => ReportOf(e) = LastState(processor.parts[e.part])
    BY <1>4, <2>1, <2>3
  <2>4. CASE /\ IsPartEvent(e) /\ e.part \in Items
             /\ Shows(processor, processor', e) /\ ReportOf(e) \in Payloads /\ ReportOf(e).call = e.part
    BY <2>1, <2>4, ToolsAnew
  <2>5. ASSUME NEW ph, e.type \in {"asked", "resolved"}, Prompts(processor, processor', ph, e.request)
        PROVE  Tools'
    <3> DEFINE S == Streamed \cup {Interrupt(ph, e.request)}
    <3>1. Adds(processor, processor', S) /\ \A i \in Items : S \cap StateOutputs(i) = {}
      BY <2>5, OthersShowNoState DEF Prompts
    <3>2. /\ \A i \in Items : Kept(processor.parts[i], processor'.parts[i])
          /\ processor'.sent["tool_call"] = processor.sent["tool_call"]
      BY <2>5 DEF Prompts, Kept
    <3>3. ~IsPartEvent(e)
      BY <2>5 DEF IsPartEvent
    <3> HIDE DEF S
    <3> QED  BY <2>1, <3>1, <3>2, <3>3, ToolsAsBefore
  <2> QED  BY <2>2, <2>3, <2>4, <2>5
<1> QED  BY <1>1, <1>3, <1>5, <1>6, <1>7 DEF Progress

\* It holds in every state.
LEMMA ToolsHold == Spec => []Tools
<1>1. Init => Tools
  <2> SUFFICES ASSUME Init PROVE Tools
    OBVIOUS
  <2>1. /\ DOMAIN handled = {} /\ DOMAIN out = {} /\ DOMAIN processor.sent["tool_call"] = {}
        /\ \A i \in Items : processor.parts[i] = None
    BY DEF Init, out, NewProcessor
  <2> QED  BY <2>1 DEF Tools, CallsAreCounted, LastIsShown, LastIsReported, StatesShown,
              StatesReported, Handled, LastState
<1>2. Sound /\ Tools /\ [Next]_vars => Tools'
  BY ToolsStay
<1> QED  BY <1>1, <1>2, SoundHolds, PTL DEF Spec

\* The tool call a client shows is in the state that was reported last, and each change of it
\* was sent once (emit_tool_payload_chunk).
THEOREM LastStateIsShown == Spec => []ToolStateIsShown
<1>1. Sound /\ Tools => ToolStateIsShown
  <2> SUFFICES ASSUME Sound, Tools, NEW i \in Items
               PROVE  /\ StatesReported(i) # {} =>
                            /\ StatesShown(i) # {}
                            /\ out[Max(StatesShown(i))].payload = ReportOf(handled[Max(StatesReported(i))])
                      /\ \A m, n \in StatesShown(i) :
                            m < n /\ out[m].payload = out[n].payload => \E l \in StatesShown(i) : m < l /\ l < n
    BY DEF ToolStateIsShown
  <2>1. ASSUME StatesReported(i) # {} PROVE ReportOf(handled[Max(StatesReported(i))]) # None
    <3>1. StatesReported(i) \in SUBSET (1 .. Len(handled)) /\ Len(handled) \in Nat
      BY DEF Sound, Typed, StreamTypeOK, StatesReported, Handled
    <3>2. Max(StatesReported(i)) \in StatesReported(i)
      BY <2>1, <3>1, GreatestElement
    <3> QED  BY <3>2 DEF StatesReported, IsState
  <2>2. LastIsShown(i) /\ LastIsReported(i)
    BY DEF Tools
  <2> QED  BY <2>1, <2>2 DEF LastIsShown, LastIsReported
<1> QED  BY <1>1, ToolsHold, SoundHolds, PTL

-----------------------------------------------------------------------------
(* Nothing is forgotten.                                                   *)

\* A turn that brings its text in pieces, in none of the forms of Whole.
InPieces == \A note \in scenario.notes : note.method \notin Whole

\* The fragments that were sent or are to be, and those that were handled.
Past == ToSet(Sent) \cup {handled[n].fragment : n \in Handled("message.part.updated")}

\* The events of q bring one fragment each at most, in the order they were produced, after
\* all of P and up to k.
Lines(q, P, k) ==
    /\ P \subseteq 0 .. k
    /\ \A n \in DOMAIN q :
          /\ InPiece(q[n]) /\ Number(q[n]) \in 0 .. k
          /\ Number(q[n]) # 0 => \A x \in P : x < Number(q[n])
          /\ q[n].type = "asked" => q[n].request \in Requests
    /\ \A m, n \in DOMAIN q : m < n /\ Number(q[n]) # 0 => Number(q[m]) < Number(q[n])

\* They do so when there is more, ...
LEMMA LinesLonger ==
    ASSUME NEW k \in Nat, NEW l \in Nat, k <= l, NEW P, NEW q, Lines(q, P, k)
    PROVE  Lines(q, P, l)
<1>1. 0 .. k \subseteq 0 .. l
  OBVIOUS
<1> QED  BY <1>1 DEF Lines

\* ... when there is nothing, ...
LEMMA LinesEmpty ==
    ASSUME NEW k \in Nat, NEW P, NEW R, NEW q, Lines(q, P, k), R \subseteq P \cup {0}
    PROVE  Lines(<<>>, R, k) /\ Lines(q, R, k)
<1>1. R \subseteq 0 .. k
  BY DEF Lines
<1>2. ASSUME NEW n \in DOMAIN q, Number(q[n]) # 0, NEW x \in R PROVE x < Number(q[n])
  <2>1. x \in P \/ x = 0
    OBVIOUS
  <2>2. Number(q[n]) \in 0 .. k
    BY DEF Lines
  <2> QED  BY <1>2, <2>1, <2>2 DEF Lines
<1>3. Lines(q, R, k)
  BY <1>1, <1>2 DEF Lines
<1> QED  BY <1>1, <1>3 DEF Lines

\* ... when an event arrives, ...
LEMMA LinesArrive ==
    ASSUME NEW k \in Nat, NEW l \in Nat, k <= l, NEW P,
           NEW q \in Seq(Events), NEW r \in Seq(Events), NEW e \in Events, NEW d \in Nat,
           Rest(r, Append(q, e), d), Lines(q, P, k),
           InPiece(e), Number(e) \in 0 .. l, Number(e) # 0 => k < Number(e),
           e.type = "asked" => e.request \in Requests
    PROVE  Lines(r, P, l)
<1> DEFINE t == Append(q, e)
<1>0. /\ t \in Seq(Events) /\ DOMAIN t = 1 .. Len(q) + 1 /\ Len(t) = Len(q) + 1 /\ Len(q) \in Nat
      /\ DOMAIN q = 1 .. Len(q)
      /\ \A n \in 1 .. Len(q) : t[n] = q[n]
      /\ t[Len(q) + 1] = e
  OBVIOUS
<1> HIDE DEF t
<1>1. Lines(q, P, l)
  BY LinesLonger
<1>2. ASSUME NEW n \in DOMAIN t
      PROVE  /\ InPiece(t[n]) /\ Number(t[n]) \in 0 .. l
             /\ Number(t[n]) # 0 => \A x \in P : x < Number(t[n])
             /\ t[n].type = "asked" => t[n].request \in Requests
  <2>1. CASE n \in 1 .. Len(q)
    BY <1>0, <1>1, <2>1 DEF Lines
  <2>2. CASE n = Len(q) + 1
    <3>1. t[n] = e /\ \A x \in P : x \in 0 .. k
      BY <1>0, <2>2 DEF Lines
    <3> QED  BY <3>1
  <2> QED  BY <1>0, <2>1, <2>2
<1>3. ASSUME NEW m \in DOMAIN t, NEW n \in DOMAIN t, m < n, Number(t[n]) # 0
      PROVE  Number(t[m]) < Number(t[n])
  <2>0. m \in 1 .. Len(q)
    BY <1>0, <1>3
  <2>1. CASE n \in 1 .. Len(q)
    BY <1>0, <1>1, <1>3, <2>0, <2>1 DEF Lines
  <2>2. CASE n = Len(q) + 1
    <3>1. t[n] = e /\ Number(t[m]) \in 0 .. k
      BY <1>0, <2>0, <2>2 DEF Lines
    <3> QED  BY <1>3, <3>1
  <2> QED  BY <1>0, <2>1, <2>2
<1>4. /\ DOMAIN r = 1 .. Len(r) /\ Len(r) \in Nat
      /\ \A n \in DOMAIN r : n + d \in DOMAIN t /\ r[n] = t[n + d]
  BY <1>0 DEF Rest, t
<1>5. \A m, n \in DOMAIN r : m < n => m + d < n + d
  BY <1>4
<1>6. P \subseteq 0 .. l
  BY <1>1 DEF Lines
<1> QED  BY <1>2, <1>3, <1>4, <1>5, <1>6 DEF Lines

\* ... and when one is taken.
LEMMA LinesTaken ==
    ASSUME NEW k \in Nat, NEW P, NEW R, NEW q \in Seq(Events), q # <<>>, Lines(q, P, k),
           R \subseteq P \cup {0, Number(Head(q))}
    PROVE  Lines(Tail(q), R, k)
<1> DEFINE e == Head(q)
           t == Tail(q)
<1>0. /\ 1 \in DOMAIN q /\ e = q[1]
      /\ DOMAIN t = 1 .. Len(q) - 1 /\ Len(q) \in Nat
      /\ \A n \in DOMAIN t : n + 1 \in DOMAIN q /\ t[n] = q[n + 1] /\ 1 < n + 1
  OBVIOUS
<1> HIDE DEF t, e
<1>1. Number(e) \in 0 .. k
  BY <1>0 DEF Lines
<1>2. R \subseteq 0 .. k
  BY <1>1 DEF Lines, e
<1>3. ASSUME NEW n \in DOMAIN t, Number(t[n]) # 0, NEW x \in R PROVE x < Number(t[n])
  <2>1. x \in P \/ x = 0 \/ x = Number(e)
    BY DEF e
  <2>2. n + 1 \in DOMAIN q /\ t[n] = q[n + 1] /\ 1 < n + 1
    BY <1>0
  <2>3. Number(e) < Number(t[n])
    BY <1>0, <1>3, <2>2 DEF Lines
  <2>4. Number(t[n]) \in 0 .. k /\ (x \in P => x < Number(t[n]))
    BY <1>3, <2>2 DEF Lines
  <2> QED  BY <1>3, <2>1, <2>3, <2>4
<1>4. \A m, n \in DOMAIN t : m < n => m + 1 < n + 1
  BY <1>0
<1>5. \A m, n \in DOMAIN t : m < n /\ Number(t[n]) # 0 => Number(t[m]) < Number(t[n])
  BY <1>0, <1>4 DEF Lines
<1>6. \A n \in DOMAIN t : /\ InPiece(t[n]) /\ Number(t[n]) \in 0 .. k
                          /\ t[n].type = "asked" => t[n].request \in Requests
  BY <1>0 DEF Lines
<1> QED  BY <1>2, <1>3, <1>5, <1>6 DEF Lines, t

\* What the processor has of the text: nothing is held, all is in order, and nothing that is
\* for the client is missing.
SentInLine ==
    /\ \A i \in Items : processor.held[i] = <<>>
    /\ Ordered(Sent)
    /\ \A n \in DOMAIN handled :
          InPiece(handled[n]) /\ (Owes(handled[n]) => handled[n].fragment \in ToSet(Sent))

InLine == Lines(queue, Past, produced) /\ SentInLine

\* Notifications are counted, and what Codex may say is settled.
LEMMA ProducedGrows ==
    ASSUME Sound, [Next]_vars
    PROVE  scenario' = scenario /\ produced \in Nat /\ produced' \in Nat
           /\ (produced' = produced \/ produced' = produced + 1)
<1>1. produced \in Nat
  BY ScenariosAssumption DEF Sound, Typed, StreamTypeOK
<1>2. CASE \E note \in scenario.notes : Speaks(note)
  <2>1. scenario' = scenario /\ produced' = produced + 1
    BY <1>2 DEF Speaks
  <2> QED  BY <1>1, <2>1
<1>3. CASE UNCHANGED codexVars
  BY <1>1, <1>3 DEF codexVars
<1>4. ASSUME Next, ~ \E note \in scenario.notes : Speaks(note) PROVE UNCHANGED codexVars
  <2>1. CASE \/ \E k \in Requests, kind \in Kinds : Asks(k, kind)
             \/ \E c \in Callbacks : Answered(c)
             \/ CallbackSteps /\ UNCHANGED <<codexVars, streamVars>>
    BY <2>1 DEF Asks, Answered
  <2>2. CASE Connect \/ ConnectFails \/ Retry \/ (\E late \in BOOLEAN : TakeEvent(late)) \/ WaitTimesOut
    BY <2>2 DEF Connect, ConnectFails, Retry, TakeEvent, WaitTimesOut
  <2>3. CASE DrainTimesOut("short") \/ DrainTimesOut("idle") \/ SubscriptionEnds \/ StreamCancelled
    BY <2>3 DEF DrainTimesOut, SubscriptionEnds, StreamCancelled, StreamEnded
  <2>4. CASE TurnCompletes \/ TurnFails \/ TaskCanceled \/ Unwinds
    BY <2>4 DEF TurnCompletes, TurnFails, TaskCanceled, Unwinds, Reports
  <2> QED  BY <1>4, <2>1, <2>2, <2>3, <2>4 DEF Next
<1> QED  BY <1>2, <1>3, <1>4 DEF vars

\* What is published comes after all there was.
LEMMA ComesInLine ==
    ASSUME Sound, InPieces, [Next]_vars, NEW e \in Events, Comes(e), NEW d \in Nat,
           Rest(queue', Append(queue, e), d), NEW P, Lines(queue, P, produced)
    PROVE  Lines(queue', P, produced')
<1>1. /\ produced \in Nat /\ produced' \in Nat /\ produced <= produced'
      /\ queue \in Seq(Events) /\ queue' \in Seq(Events)
  <2>1. queue' \in Seq(Events)
    BY NextIs DEF Sound, QueueOK
  <2> QED  BY <2>1, ProducedGrows DEF Sound, Typed, StreamTypeOK
<1>2. CASE Proper(e) /\ Noted(e) /\ produced' = produced + 1
  <2>1. PICK note \in scenario.notes : note \in Notes /\ e = EventOf(note, produced + 1, message', said')
    BY <1>2 DEF Noted
  <2>2. InPiece(e) /\ Number(e) \in {0, produced + 1}
    <3>1. note.method \notin Whole /\ produced + 1 \in Nat
      BY <1>1 DEF InPieces
    <3> QED  BY <2>1, <3>1, NotedInPieces
  <2>3. e.type # "asked"
    BY <1>2 DEF Proper
  <2>4. Number(e) \in 0 .. produced' /\ (Number(e) # 0 => produced < Number(e))
    BY <1>1, <1>2, <2>2
  <2> QED  BY <1>1, <2>2, <2>3, <2>4, LinesArrive
<1>3. CASE e.request \in Requests /\ (AsksFor(e) \/ AnswersIt(e))
  <2>1. e.type \in {"asked", "resolved"}
    BY <1>3 DEF AsksFor, AnswersIt
  <2>2. InPiece(e) /\ Number(e) = 0
    BY <2>1 DEF InPiece, Number
  <2>3. Number(e) \in 0 .. produced'
    BY <1>1, <2>2
  <2> QED  BY <1>1, <1>3, <2>2, <2>3, LinesArrive
<1> QED  BY <1>2, <1>3 DEF Comes

\* The event that is taken next.
LEMMA TakenIs ==
    ASSUME Sound, NEW late, Handles(late)
    PROVE  /\ queue \in Seq(Events) /\ queue # <<>> /\ handled \in Seq(Events)
           /\ 1 \in DOMAIN queue /\ Head(queue) = queue[1]
           /\ Head(queue) \in Events /\ (IsPartEvent(Head(queue)) => Tells(Head(queue)))
           /\ processor' = HandleEvent(processor, Head(queue), late)
           /\ handled' = Append(handled, Head(queue)) /\ queue' = Tail(queue)
<1>1. queue \in Seq(Events) /\ queue # <<>> /\ handled \in Seq(Events)
  BY DEF Sound, Typed, StreamTypeOK, Handles
<1>2. 1 \in DOMAIN queue /\ Head(queue) = queue[1] /\ Head(queue) \in Events
  BY <1>1
<1> QED  BY <1>1, <1>2 DEF Sound, Typed, QueueTells, Handles

\* What the next event does to what is sent: it is said, or is nothing for the client.
LEMMA TakenIsSaid ==
    ASSUME Sound, Tools, InLine, NEW late, Handles(late)
    PROVE  LET e == Head(queue)
           IN  /\ InPiece(e) /\ Number(e) \in 0 .. produced
               /\ \A i \in Items : processor'.held[i] = <<>>
               /\ Ordered(SentBy(processor'))
               /\ ToSet(SentBy(processor')) \subseteq ToSet(SentBy(processor)) \cup {Number(e)}
               /\ ToSet(SentBy(processor)) \subseteq ToSet(SentBy(processor')) \cup {0}
               /\ Owes(e) => e.fragment \in ToSet(SentBy(processor'))
<1> DEFINE e == Head(queue)
           s == SentBy(processor)
           t == SentBy(processor')
<1>1. /\ 1 \in DOMAIN queue /\ e = queue[1] /\ e \in Events
      /\ IsPartEvent(e) => Tells(e)
      /\ processor' = HandleEvent(processor, e, late)
  BY TakenIs
<1>2. /\ InPiece(e) /\ Number(e) \in 0 .. produced
      /\ Number(e) # 0 => \A x \in Past : x < Number(e)
  BY <1>1 DEF InLine, Lines
<1>3. Good(processor) /\ Good(processor')
  <2>1. Good(processor)
    BY DEF Sound, Typed
  <2> QED  BY <1>1, <2>1, HandledRuns
<1>4. s \in Seq(Nat) /\ t \in Seq(Nat)
  BY <1>3, SaidIsSeq
<1>5. CallIsKnown(processor)
  <2> SUFFICES ASSUME NEW payload \in Payloads, processor.sent["tool_call"] = <<payload>>
               PROVE  CallCount(processor.parts[payload.call]) > 0
    BY DEF CallIsKnown
  <2>1. 1 \in DOMAIN processor.sent["tool_call"] /\ processor.sent["tool_call"][1] = payload
    OBVIOUS
  <2> QED  BY <2>1 DEF Tools, CallsAreCounted
<1>6. \A i \in Items : processor.held[i] = <<>>
  BY DEF InLine, SentInLine
<1> HIDE DEF e
<1>7. /\ processor'.held = processor.held
      /\ \/ Drops(s, t) /\ ~Owes(e)
         \/ IsPartEvent(e) /\ SaysNext(s, t, Number(e))
  BY <1>1, <1>2, <1>3, <1>5, <1>6, EventIsSaid
<1>8. Ordered(s) /\ (Number(e) # 0 => \A x \in ToSet(s) : x < Number(e))
  <2>1. Ordered(s) /\ ToSet(s) \subseteq Past
    BY DEF InLine, SentInLine, Sent, Past
  <2> QED  BY <1>2, <2>1
<1>9. Number(e) \in Nat /\ produced \in Nat
  <2>1. produced \in Nat
    BY ScenariosAssumption DEF Sound, Typed, StreamTypeOK
  <2> QED  BY <1>2, <2>1
<1>10. Owes(e) => e.fragment = Number(e) /\ e.fragment # 0
  BY <1>2 DEF InPiece, Owes, IsPartEvent
<1> HIDE DEF s, t
<1>11. /\ Ordered(t) /\ ToSet(t) \subseteq ToSet(s) \cup {Number(e)}
       /\ ToSet(s) \subseteq ToSet(t) \cup {0}
       /\ Owes(e) => e.fragment \in ToSet(t)
  <2>1. CASE Drops(s, t) /\ ~Owes(e)
    BY <1>4, <1>8, <2>1, DroppedInOrder
  <2>2. CASE SaysNext(s, t, Number(e))
    <3>1. /\ Ordered(t) /\ ToSet(t) \subseteq ToSet(s) \cup {Number(e)}
          /\ ToSet(s) \cup {Number(e)} \subseteq ToSet(t) \cup {0}
      BY <1>4, <1>8, <1>9, <2>2, SaidInOrder
    <3> QED  BY <1>10, <3>1
  <2> QED  BY <1>7, <2>1, <2>2
<1> QED  BY <1>2, <1>6, <1>7, <1>11 DEF e, s, t

\* Without an event, what is sent may lose the prompt at most.
LEMMA InLineWithoutEvent ==
    ASSUME Sound, InLine, [Next]_vars, handled' = handled, processor'.held = processor.held,
           Drops(SentBy(processor), SentBy(processor')), queue' = queue \/ queue' = <<>>
    PROVE  InLine'
<1>1. SentBy(processor) \in Seq(Nat) /\ SentBy(processor') \in Seq(Nat)
  BY SoundSteps, SaidIsSeq
<1>2. Sent = SentBy(processor) /\ Sent' = SentBy(processor')
  BY DEF Sent
<1>3. Ordered(Sent') /\ ToSet(Sent') \subseteq ToSet(Sent) /\ ToSet(Sent) \subseteq ToSet(Sent') \cup {0}
  BY <1>1, <1>2, DroppedInOrder DEF InLine, SentInLine
<1>4. SentInLine'
  <2>1. ASSUME NEW n \in DOMAIN handled', Owes(handled'[n]) PROVE handled'[n].fragment \in ToSet(Sent')
    <3>1. handled'[n].fragment # 0 /\ handled'[n].fragment \in ToSet(Sent)
      BY <2>1 DEF InLine, SentInLine, Owes
    <3> QED  BY <1>3, <3>1
  <2>2. \A n \in DOMAIN handled' : InPiece(handled'[n])
    BY DEF InLine, SentInLine
  <2>3. \A i \in Items : processor'.held[i] = <<>>
    BY DEF InLine, SentInLine
  <2> QED  BY <1>3, <2>1, <2>2, <2>3 DEF SentInLine
<1>5. Past' \subseteq Past
  BY <1>3 DEF Past, Handled
<1>6. produced \in Nat /\ produced' \in Nat /\ produced <= produced'
  BY ProducedGrows
<1> DEFINE R == Past'
<1>7. R \subseteq Past \cup {0}
  BY <1>5
<1> HIDE DEF R
<1>8. Lines(<<>>, R, produced) /\ Lines(queue, R, produced)
  BY <1>6, <1>7, LinesEmpty DEF InLine
<1>9. Lines(<<>>, R, produced') /\ Lines(queue, R, produced')
  BY <1>6, <1>8, LinesLonger
<1>10. Lines(queue', R, produced')
  BY <1>9
<1> QED  BY <1>4, <1>10 DEF InLine, R

\* With one, it is said.
LEMMA InLineWithEvent ==
    ASSUME Sound, Tools, InLine, [Next]_vars, NEW late, Handles(late)
    PROVE  InLine' /\ Past' \subseteq Past \cup {0, Number(Head(queue))}
<1> DEFINE e == Head(queue)
<1>1. /\ queue \in Seq(Events) /\ queue # <<>> /\ handled \in Seq(Events)
      /\ handled' = Append(handled, e) /\ queue' = Tail(queue)
  BY TakenIs
<1>2. /\ InPiece(e) /\ Number(e) \in 0 .. produced
      /\ \A i \in Items : processor'.held[i] = <<>>
      /\ Ordered(Sent')
      /\ ToSet(Sent') \subseteq ToSet(Sent) \cup {Number(e)}
      /\ ToSet(Sent) \subseteq ToSet(Sent') \cup {0}
      /\ Owes(e) => e.fragment \in ToSet(Sent')
  BY TakenIsSaid DEF Sent
<1> HIDE DEF e
<1>3. /\ DOMAIN handled' = 1 .. Len(handled) + 1 /\ Len(handled) \in Nat /\ DOMAIN handled = 1 .. Len(handled)
      /\ \A n \in 1 .. Len(handled) : handled'[n] = handled[n]
      /\ handled'[Len(handled) + 1] = e
  BY <1>1
<1>4. ASSUME NEW n \in DOMAIN handled'
      PROVE  handled'[n] = e \/ (n \in DOMAIN handled /\ handled'[n] = handled[n])
  BY <1>3
<1>5. SentInLine'
  <2>1. ASSUME NEW n \in DOMAIN handled'
        PROVE  InPiece(handled'[n]) /\ (Owes(handled'[n]) => handled'[n].fragment \in ToSet(Sent'))
    <3>1. CASE handled'[n] = e
      BY <1>2, <3>1
    <3>2. CASE n \in DOMAIN handled /\ handled'[n] = handled[n]
      <4>1. /\ InPiece(handled[n])
            /\ Owes(handled[n]) => handled[n].fragment # 0 /\ handled[n].fragment \in ToSet(Sent)
        BY <3>2 DEF InLine, SentInLine, Owes
      <4> QED  BY <1>2, <3>2, <4>1
    <3> QED  BY <1>4, <3>1, <3>2
  <2> QED  BY <1>2, <2>1 DEF SentInLine
<1> DEFINE R == Past'
<1>6. R \subseteq Past \cup {0, Number(e)}
  <2>1. ASSUME NEW n \in DOMAIN handled', handled'[n].type = "message.part.updated"
        PROVE  handled'[n].fragment \in Past \cup {0, Number(e)}
    <3>1. CASE handled'[n] = e
      BY <1>2, <2>1, <3>1 DEF InPiece
    <3>2. CASE n \in DOMAIN handled /\ handled'[n] = handled[n]
      BY <2>1, <3>2 DEF Past, Handled
    <3> QED  BY <1>4, <3>1, <3>2
  <2>2. ToSet(Sent') \subseteq Past \cup {Number(e)}
    BY <1>2 DEF Past
  <2> QED  BY <2>1, <2>2 DEF Past, Handled
<1>7. produced \in Nat /\ produced' \in Nat /\ produced <= produced'
  BY ProducedGrows
<1>8. Lines(queue', R, produced')
  <2> HIDE DEF R
  <2>1. Lines(Tail(queue), R, produced)
    BY <1>1, <1>6, <1>7, LinesTaken DEF InLine, e
  <2> QED  BY <1>1, <1>7, <2>1, LinesLonger
<1> QED  BY <1>5, <1>6, <1>8 DEF InLine, e

\* Every step keeps the order.
LEMMA InLineStays ==
    ASSUME Sound, Tools, InPieces, InLine, [Next]_vars
    PROVE  InLine'
<1>1. Progress /\ Good(processor) /\ said \in Seq(Nat) /\ counted \in Usages
  BY SoundSteps
<1>2. CASE Rests
  <2>1. processor' = processor /\ handled' = handled
    BY <1>2 DEF Rests
  <2>2. SentInLine'
    BY <2>1 DEF InLine, SentInLine, Sent
  <2>3. Past' = Past
    BY <2>1 DEF Past, Sent, Handled
  <2>4. CASE queue' = queue
    <3>1. produced \in Nat /\ produced' \in Nat /\ produced <= produced'
      BY ProducedGrows
    <3>2. Lines(queue, Past, produced')
      BY <3>1, LinesLonger DEF InLine
    <3> QED  BY <2>2, <2>3, <2>4, <3>2 DEF InLine
  <2>5. ASSUME NEW e \in Events, Comes(e), NEW d \in Nat, Rest(queue', Append(queue, e), d)
        PROVE  InLine'
    <3>1. Lines(queue', Past, produced')
      BY <2>5, ComesInLine DEF InLine
    <3> QED  BY <2>2, <2>3, <3>1 DEF InLine
  <2> QED  BY <1>2, <2>4, <2>5 DEF Rests
<1>3. CASE Flushes
  <2>1. /\ processor'.held = processor.held /\ Drops(SentBy(processor), SentBy(processor'))
        /\ handled' = handled /\ (queue' = queue \/ queue' = <<>>)
    BY <1>1, <1>3, FlushStreams, FlushDrops DEF Flushes, Streams, Same
  <2> QED  BY <2>1, InLineWithoutEvent
<1>4. CASE Finishes
  <2>1. /\ processor' \in {Failed(processor), WithFinal(processor, "canceled", NoUsage),
                           Completed(processor, said, counted)}
        /\ handled' = handled /\ queue' = queue
    BY <1>4 DEF Finishes
  <2>2. SentBy(processor') = SentBy(processor) /\ processor'.held = processor.held
    BY <1>1, <2>1, EndSaysNothing
  <2> QED  BY <2>1, <2>2, InLineWithoutEvent DEF Drops
<1>5. ASSUME NEW late \in BOOLEAN, Handles(late) PROVE InLine'
  BY <1>5, InLineWithEvent
<1> QED  BY <1>1, <1>2, <1>3, <1>4, <1>5 DEF Progress

\* It holds in every state.
LEMMA InLineHolds == Spec => [](InPieces => InLine)
<1>1. Init => InLine
  <2> SUFFICES ASSUME Init PROVE InLine
    OBVIOUS
  <2>1. /\ queue = <<>> /\ handled = <<>> /\ processor = NewProcessor /\ produced = 0
    BY DEF Init
  <2>2. Sent = <<>>
    <3>1. StreamedOf(<<>>) = <<>>
      <4> DEFINE ss == [n \in DOMAIN <<>> |-> IF IsArtifact(<<>>[n]) /\ ~IsSnapshot(<<>>[n]) THEN <<>>[n].content ELSE <<>>]
      <4>1. StreamedOf(<<>>) = FlattenSeq(ss) /\ ss = <<>>
        BY DEF StreamedOf
      <4> HIDE DEF ss
      <4>2. <<>> \in Seq(Seq(Nat)) /\ ss = <<>>
        BY <4>1
      <4> QED  BY <4>1, <4>2, FlattenIsSeq
    <3>2. processor.out = <<>> /\ processor.buffer = None
      BY <2>1 DEF NewProcessor
    <3> QED  BY <3>1, <3>2 DEF Sent, SentBy
  <2>3. ToSet(<<>>) = {} /\ Ordered(<<>>)
    BY DEF ToSet, Ordered
  <2>4. SentInLine
    <3>1. \A i \in Items : processor.held[i] = <<>>
      BY <2>1 DEF NewProcessor
    <3> QED  BY <2>1, <2>2, <2>3, <3>1 DEF SentInLine
  <2>5. Past = {}
    BY <2>1, <2>2, <2>3 DEF Past, Handled
  <2>6. Lines(queue, Past, produced)
    BY <2>1, <2>5 DEF Lines
  <2> QED  BY <2>4, <2>6 DEF InLine
<1>2. Sound /\ Tools /\ (InPieces => InLine) /\ [Next]_vars => (InPieces => InLine)'
  <2> SUFFICES ASSUME Sound, Tools, InPieces => InLine, [Next]_vars, InPieces' PROVE InLine'
    OBVIOUS
  <2>1. scenario' = scenario
    BY ProducedGrows
  <2>2. InPieces
    BY <2>1 DEF InPieces
  <2> QED  BY <2>2, InLineStays
<1> QED  BY <1>1, <1>2, SoundHolds, ToolsHold, PTL DEF Spec

\* In a turn that brings its text in pieces nothing is lost or said twice: every fragment of text,
\* reasoning and tool output that was handled and is for the client was sent, or is in the
\* buffer, once (emit_chunks, emit_chunk, flush and the echo filter).
THEOREM NothingIsForgotten == Spec => [](InPieces => NothingForgotten)
<1>1. Sound /\ InLine => NothingForgotten
  <2> SUFFICES ASSUME Sound, InLine PROVE NothingForgotten
    OBVIOUS
  <2>1. Sent \in Seq(Nat)
    BY SaidIsSeq DEF Sound, Typed, Sent
  <2>2. \A i, j \in DOMAIN Sent : Sent[i] = Sent[j] /\ Sent[i] # 0 => i = j
    BY <2>1, OrderedOnce DEF InLine, SentInLine
  <2>3. ASSUME NEW e \in ToSet(handled), IsOwed(e) PROVE e.fragment \in ToSet(Sent)
    <3>1. PICK n \in DOMAIN handled : e = handled[n]
      BY <2>3 DEF ToSet
    <3>2. InPiece(e) /\ (Owes(e) => e.fragment \in ToSet(Sent))
      BY <3>1 DEF InLine, SentInLine
    <3>3. e.type # "message.part.delta"
      BY <3>2 DEF InPiece
    <3>4. Owes(e)
      BY <2>3, <3>3 DEF IsOwed, Owes, IsPartEvent
    <3> QED  BY <3>2, <3>4
  <2>4. Owed \subseteq ToSet(Sent)
    BY <2>3 DEF Owed
  <2> QED  BY <2>2, <2>4 DEF NothingForgotten
<1> QED  BY <1>1, SoundHolds, InLineHolds, PTL

-----------------------------------------------------------------------------
(* The timeline.                                                           *)

\* What was said before the j-th event is sent up to the i-th output, if it is sent.
Told(j, i) ==
    SaidBefore(j) \cap ToSet(Sent)
        \subseteq UNION {ToSet(out[n].content) : n \in {n \in 1 .. i : IsArtifact(out[n])}}

\* A request is shown after what was said before it.
AskedInTime ==
    \A j \in Handled("asked") : \A i \in DOMAIN out :
        out[i] = Interrupt("asked", handled[j].request) => Told(j, i)

\* What was handled stays handled.
LEMMA HandledGrows ==
    ASSUME Sound, handled' = handled \/ \E e \in Events : handled' = Append(handled, e),
           NEW j \in DOMAIN handled
    PROVE  /\ j \in DOMAIN handled' /\ handled'[j] = handled[j]
           /\ SaidBefore(j)' = SaidBefore(j) /\ SaidBefore(j) \subseteq Past \ {0}
<1>1. handled \in Seq(Events) /\ Len(handled) \in Nat /\ DOMAIN handled = 1 .. Len(handled)
  BY DEF Sound, Typed, StreamTypeOK
<1>2. /\ DOMAIN handled \subseteq DOMAIN handled'
      /\ \A n \in DOMAIN handled : handled'[n] = handled[n]
      /\ \A n \in DOMAIN handled' : n < j => n \in DOMAIN handled
  BY <1>1
<1>3. SaidBefore(j)' = SaidBefore(j)
  BY <1>2 DEF SaidBefore, Handled
<1>4. SaidBefore(j) \subseteq Past \ {0}
  BY DEF SaidBefore, Past
<1> QED  BY <1>2, <1>3, <1>4

\* What is said next was not said before.
LEMMA ToldStays ==
    ASSUME Sound, handled' = handled \/ \E e \in Events : handled' = Append(handled, e),
           NEW j \in DOMAIN handled, NEW i \in 1 .. Len(out), Len(out) \in Nat,
           \A n \in 1 .. Len(out) : out'[n] = out[n],
           NEW x, x # 0 => x \notin Past, ToSet(Sent') \subseteq ToSet(Sent) \cup {0, x},
           Told(j, i)
    PROVE  Told(j, i)'
<1>1. SaidBefore(j)' = SaidBefore(j) /\ SaidBefore(j) \subseteq Past \ {0}
  BY HandledGrows
<1>2. SaidBefore(j)' \cap ToSet(Sent') \subseteq SaidBefore(j) \cap ToSet(Sent)
  BY <1>1
<1>3. \A n \in 1 .. i : out'[n] = out[n]
  OBVIOUS
<1>4. {ToSet(out[n].content) : n \in {n \in 1 .. i : IsArtifact(out[n])}}
        = {ToSet(out'[n].content) : n \in {n \in 1 .. i : IsArtifact(out'[n])}}
  BY <1>3
<1> QED  BY <1>2, <1>4 DEF Told

\* Where nothing is asked, nothing changes.
LEMMA AskedAsBefore ==
    ASSUME Sound, AskedInTime, [Next]_vars,
           \/ handled' = handled
           \/ \E e \in Events : handled' = Append(handled, e) /\ e.type # "asked",
           \A k : Shown("asked", k)' = Shown("asked", k),
           \A n \in 1 .. Len(out) : out'[n] = out[n],
           NEW x, x # 0 => x \notin Past, ToSet(Sent') \subseteq ToSet(Sent) \cup {0, x}
    PROVE  AskedInTime'
<1>1. handled \in Seq(Events) /\ Len(handled) \in Nat /\ DOMAIN handled = 1 .. Len(handled)
  BY DEF Sound, Typed, StreamTypeOK
<1>2. Len(out) \in Nat /\ DOMAIN out = 1 .. Len(out)
  BY SoundSteps
<1>3. ASSUME NEW j \in DOMAIN handled', handled'[j].type = "asked"
      PROVE  j \in Handled("asked") /\ handled'[j] = handled[j]
  BY <1>1, <1>3 DEF Handled
<1>4. ASSUME NEW j \in DOMAIN handled', handled'[j].type = "asked",
             NEW i \in DOMAIN out', out'[i] = Interrupt("asked", handled'[j].request)
      PROVE  Told(j, i)'
  <2>1. j \in Handled("asked") /\ j \in DOMAIN handled /\ handled'[j] = handled[j]
    BY <1>3, <1>4 DEF Handled
  <2>0. PICK k : k = handled[j].request
    OBVIOUS
  <2>2. i \in Shown("asked", k)'
    BY <1>4, <2>0, <2>1 DEF Shown
  <2>3. i \in Shown("asked", k)
    BY <2>2
  <2>4. i \in DOMAIN out /\ out[i] = Interrupt("asked", k)
    BY <2>3 DEF Shown
  <2>5. Told(j, i) /\ i \in 1 .. Len(out)
    BY <1>2, <2>0, <2>1, <2>4 DEF AskedInTime
  <2>6. handled' = handled \/ \E e \in Events : handled' = Append(handled, e)
    OBVIOUS
  <2> QED  BY <1>2, <2>1, <2>5, <2>6, ToldStays
<1> QED  BY <1>4 DEF AskedInTime, Handled

\* The end of a flush, of an event that asks nothing, or of the execution.
LEMMA ShowsNoRequest ==
    ASSUME Sound, [Next]_vars, NEW S, Adds(processor, processor', S), \A o \in S : o.kind = "artifact"
    PROVE  /\ \A k : Shown("asked", k)' = Shown("asked", k)
           /\ \A n \in 1 .. Len(out) : out'[n] = out[n]
<1>1. processor \in Processors /\ processor' \in Processors
  BY SoundSteps DEF Good
<1>2. ASSUME NEW k PROVE Shown("asked", k)' = Shown("asked", k)
  <2>1. Places(processor'.out, {Interrupt("asked", k)}) = Places(processor.out, {Interrupt("asked", k)})
    BY <1>1, ArtifactsShowNone
  <2> QED  BY <2>1, ShownIs
<1>3. \A n \in 1 .. Len(out) : out'[n] = out[n]
  BY DEF Adds, out
<1> QED  BY <1>2, <1>3

\* Where one is asked or answered, it is shown last.
LEMMA ShowsRequest ==
    ASSUME Sound, [Next]_vars, NEW phase, NEW r, Prompts(processor, processor', phase, r)
    PROVE  /\ \A k : Shown("asked", k)' = Shown("asked", k)
                        \cup (IF phase = "asked" /\ r = k THEN {Len(out')} ELSE {})
           /\ \A n \in 1 .. Len(out) : out'[n] = out[n]
<1>1. processor \in Processors /\ processor' \in Processors
  BY SoundSteps DEF Good
<1>2. ASSUME NEW k
      PROVE  Shown("asked", k)' = Shown("asked", k)
                \cup (IF phase = "asked" /\ r = k THEN {Len(out')} ELSE {})
  <2>1. /\ Places(processor'.out, {Interrupt("asked", k)}) = Places(processor.out, {Interrupt("asked", k)})
                \cup (IF phase = "asked" /\ r = k THEN {Len(processor'.out)} ELSE {})
        /\ \A n \in Places(processor.out, {Interrupt("asked", k)}) : n < Len(processor'.out)
    BY <1>1, PromptIsShown
  <2>2. Len(processor'.out) = Len(out')
    BY DEF out
  <2>3. /\ Shown("asked", k) = Places(processor.out, {Interrupt("asked", k)})
        /\ Shown("asked", k)' = Places(processor'.out, {Interrupt("asked", k)})
    BY ShownIs
  <2> QED  BY <2>1, <2>2, <2>3
<1>3. \A n \in 1 .. Len(out) : out'[n] = out[n]
  BY DEF Prompts, Adds, out
<1> QED  BY <1>2, <1>3

\* A request that is shown is shown after all that was sent.
LEMMA ShownIsTold ==
    ASSUME Good(processor'), processor'.buffer = None, NEW j, NEW i, i = Len(out')
    PROVE  Told(j, i)'
<1>1. Sent' = StreamedOf(out') /\ out' \in Seq(Outputs)
  BY SaidIsSeq DEF Sent, out, Good, Processors
<1>2. ASSUME NEW x \in ToSet(Sent')
      PROVE  x \in UNION {ToSet(out'[n].content) : n \in {n \in 1 .. Len(out') : IsArtifact(out'[n])}}
  <2>1. PICK n \in 1 .. Len(out') : IsArtifact(out'[n]) /\ x \in ToSet(out'[n].content)
    BY <1>1, <1>2, StreamedIsContent
  <2> QED  BY <2>1
<1> QED  BY <1>2 DEF Told

\* Where a request is asked, it is shown after all that was said.
LEMMA AskedNow ==
    ASSUME Sound, Pairs, AskedInTime, [Next]_vars,
           NEW e \in Events, e.type = "asked", e.request \in Requests, AsksIn(handled, e.request) = {},
           handled' = Append(handled, e), Prompts(processor, processor', "asked", e.request),
           NEW x, x # 0 => x \notin Past, ToSet(Sent') \subseteq ToSet(Sent) \cup {0, x}
    PROVE  AskedInTime'
<1>1. handled \in Seq(Events) /\ Len(handled) \in Nat /\ DOMAIN handled = 1 .. Len(handled)
  BY DEF Sound, Typed, StreamTypeOK
<1>2. Len(out) \in Nat /\ DOMAIN out = 1 .. Len(out)
  BY SoundSteps
<1>3. /\ \A k : Shown("asked", k)' = Shown("asked", k)
                   \cup (IF "asked" = "asked" /\ e.request = k THEN {Len(out')} ELSE {})
      /\ \A n \in 1 .. Len(out) : out'[n] = out[n]
  BY ShowsRequest
<1>4. ASSUME NEW j \in DOMAIN handled', handled'[j].type = "asked",
             NEW i \in DOMAIN out', out'[i] = Interrupt("asked", handled'[j].request)
      PROVE  Told(j, i)'
  <2>1. PICK k : k = handled'[j].request
    OBVIOUS
  <2>2. i \in Shown("asked", k)'
    BY <1>4, <2>1 DEF Shown
  <2>3. i \in Shown("asked", k) \/ (e.request = k /\ i = Len(out'))
    BY <1>3, <2>2
  <2>4. CASE e.request = k
    <3>1. Shown("asked", k) = {}
      BY <2>4 DEF Pairs, ShownInTurn
    <3>2. i = Len(out')
      BY <2>3, <3>1
    <3>3. Good(processor') /\ processor'.buffer = None
      BY DEF Prompts
    <3> QED  BY <3>2, <3>3, ShownIsTold
  <2>5. CASE e.request # k
    <3>1. i \in DOMAIN out /\ out[i] = Interrupt("asked", k)
      BY <2>3, <2>5 DEF Shown
    <3>2. j \in DOMAIN handled /\ handled'[j] = handled[j]
      BY <1>1, <2>1, <2>5
    <3>3. j \in Handled("asked") /\ k = handled[j].request
      BY <1>4, <2>1, <3>2 DEF Handled
    <3>4. Told(j, i) /\ i \in 1 .. Len(out)
      BY <1>2, <3>1, <3>3 DEF AskedInTime
    <3>5. handled' = handled \/ \E f \in Events : handled' = Append(handled, f)
      OBVIOUS
    <3> QED  BY <1>2, <1>3, <3>2, <3>4, <3>5, ToldStays
  <2> QED  BY <2>4, <2>5
<1> QED  BY <1>4 DEF AskedInTime, Handled

\* Whatever event is handled.
LEMMA HandledInTime ==
    ASSUME Sound, Tools, Pairs, InLine, AskedInTime, [Next]_vars, NEW late, Handles(late)
    PROVE  AskedInTime'
<1> DEFINE e == Head(queue)
           x == Number(e)
<1>1. /\ 1 \in DOMAIN queue /\ e = queue[1] /\ e \in Events
      /\ IsPartEvent(e) => Tells(e)
      /\ processor' = HandleEvent(processor, e, late)
      /\ handled' = Append(handled, e)
  BY TakenIs
<1>2. /\ x # 0 => \A y \in Past : y < x
      /\ e.type = "asked" => e.request \in Requests
      /\ x \in 0 .. produced
  BY <1>1 DEF InLine, Lines
<1>3. x # 0 => x \notin Past
  BY <1>2
<1>4. ToSet(Sent') \subseteq ToSet(Sent) \cup {0, x}
  BY TakenIsSaid DEF Sent
<1>5. Good(processor) /\ [InterruptsNext]_interruptVars
  BY RequestsGoOn DEF Sound, Typed
<1>6. e.type = "asked" => AsksIn(handled, e.request) = {} /\ e.request \notin processor.asked
  <2> SUFFICES ASSUME e.type = "asked"
               PROVE  AsksIn(handled, e.request) = {} /\ e.request \notin processor.asked
    OBVIOUS
  <2>1. PICK k \in Requests : k = e.request
    BY <1>2
  <2>2. QueuedOnce(k) /\ ShownInTurn(k)
    BY DEF Pairs
  <2>3. e.type = "asked" /\ e.request = k => AsksIn(handled, k) = {}
    BY <1>5, <2>2, TakenOnce
  <2> QED  BY <2>1, <2>2, <2>3 DEF ShownInTurn
<1> HIDE DEF e, x
<1>7. \/ Says(processor, processor') /\ (e.type = "asked" => e.request \in processor.asked)
      \/ IsPartEvent(e) /\ Shows(processor, processor', e)
      \/ e.type = "asked" /\ Prompts(processor, processor', "asked", e.request)
      \/ e.type = "resolved" /\ Prompts(processor, processor', "resolved", e.request)
  BY <1>1, <1>5, HandleEventIs
<1>8. \A o \in Streamed : o.kind = "artifact"
  BY DEF Streamed
<1>9. ASSUME NEW S, Adds(processor, processor', S), \A o \in S : o.kind = "artifact", e.type # "asked"
      PROVE  AskedInTime'
  <2>1. /\ \A k : Shown("asked", k)' = Shown("asked", k)
        /\ \A n \in 1 .. Len(out) : out'[n] = out[n]
    BY <1>9, ShowsNoRequest
  <2>2. \E f \in Events : handled' = Append(handled, f) /\ f.type # "asked"
    BY <1>1, <1>9
  <2> QED  BY <1>3, <1>4, <2>1, <2>2, AskedAsBefore
<1>10. CASE Says(processor, processor') /\ (e.type = "asked" => e.request \in processor.asked)
  BY <1>6, <1>8, <1>9, <1>10 DEF Says
<1>11. CASE IsPartEvent(e) /\ Shows(processor, processor', e)
  <2> DEFINE o == processor'.out[Len(processor'.out)]
  <2>1. \/ Adds(processor, processor', Streamed)
        \/ Adds(processor, processor', Streamed \cup {o}) /\ o.kind = "artifact"
    BY <1>11 DEF Shows, IsArtifact
  <2>2. e.type # "asked"
    BY <1>11 DEF IsPartEvent
  <2> HIDE DEF o
  <2> QED  BY <1>8, <1>9, <2>1, <2>2
<1>12. CASE e.type = "asked" /\ Prompts(processor, processor', "asked", e.request)
  BY <1>1, <1>2, <1>3, <1>4, <1>6, <1>12, AskedNow
<1>13. CASE e.type = "resolved" /\ Prompts(processor, processor', "resolved", e.request)
  <2>1. /\ \A k : Shown("asked", k)' = Shown("asked", k)
                     \cup (IF "resolved" = "asked" /\ e.request = k THEN {Len(out')} ELSE {})
        /\ \A n \in 1 .. Len(out) : out'[n] = out[n]
    BY <1>13, ShowsRequest
  <2>2. \A k : Shown("asked", k)' = Shown("asked", k)
    BY <2>1
  <2>3. \E f \in Events : handled' = Append(handled, f) /\ f.type # "asked"
    BY <1>1, <1>13
  <2> QED  BY <1>3, <1>4, <2>1, <2>2, <2>3, AskedAsBefore
<1> QED  BY <1>7, <1>10, <1>11, <1>12, <1>13

\* No step shows a request too early.
LEMMA AskedInTimeStays ==
    ASSUME Sound, Tools, Pairs, InLine, AskedInTime, [Next]_vars
    PROVE  AskedInTime'
<1>1. Progress /\ Good(processor) /\ said \in Seq(Nat) /\ counted \in Usages
  BY SoundSteps
<1>2. CASE Rests
  <2>1. processor' = processor /\ handled' = handled
    BY <1>2 DEF Rests
  <2>2. \A j \in DOMAIN handled : \A i : Told(j, i)' <=> Told(j, i)
    BY <2>1 DEF Told, SaidBefore, Handled, Sent, out
  <2> QED  BY <2>1, <2>2 DEF AskedInTime, Handled, out
<1>3. ASSUME handled' = handled, ToSet(Sent') \subseteq ToSet(Sent),
             \A k : Shown("asked", k)' = Shown("asked", k),
             \A n \in 1 .. Len(out) : out'[n] = out[n]
      PROVE  AskedInTime'
  <2>1. ToSet(Sent') \subseteq ToSet(Sent) \cup {0, 0}
    BY <1>3
  <2> QED  BY <1>3, <2>1, AskedAsBefore
<1>4. CASE Flushes
  <2>1. /\ Drops(SentBy(processor), SentBy(processor'))
        /\ Adds(processor, processor', Streamed) /\ handled' = handled
    BY <1>1, <1>4, FlushStreams, FlushDrops DEF Flushes, Streams
  <2>2. ToSet(Sent') \subseteq ToSet(Sent)
    <3>1. SentBy(processor) \in Seq(Nat) /\ SentBy(processor') \in Seq(Nat)
      BY SoundSteps, SaidIsSeq
    <3>2. Sent = SentBy(processor) /\ Sent' = SentBy(processor')
      BY DEF Sent
    <3> QED  BY <2>1, <3>1, <3>2, DroppedInOrder DEF InLine, SentInLine
  <2>3. /\ \A k : Shown("asked", k)' = Shown("asked", k)
        /\ \A n \in 1 .. Len(out) : out'[n] = out[n]
    <3>1. \A o \in Streamed : o.kind = "artifact"
      BY DEF Streamed
    <3> QED  BY <2>1, <3>1, ShowsNoRequest
  <2> QED  BY <1>3, <2>1, <2>2, <2>3
<1>5. CASE Finishes
  <2>1. /\ processor' \in {Failed(processor), WithFinal(processor, "canceled", NoUsage),
                           Completed(processor, said, counted)}
        /\ handled' = handled
    BY <1>5 DEF Finishes
  <2>2. SentBy(processor') = SentBy(processor)
    BY <1>1, <2>1, EndSaysNothing
  <2>3. ToSet(Sent') \subseteq ToSet(Sent)
    BY <2>2 DEF Sent
  <2>4. \A k : Shown("asked", k)' = Shown("asked", k)
    BY <1>5, FinishesShowNone
  <2>5. \A n \in 1 .. Len(out) : out'[n] = out[n]
    BY <1>5, FinishesAdds DEF Adds, out
  <2> QED  BY <1>3, <2>1, <2>3, <2>4, <2>5
<1>6. ASSUME NEW late \in BOOLEAN, Handles(late) PROVE AskedInTime'
  BY <1>6, HandledInTime
<1> QED  BY <1>1, <1>2, <1>4, <1>5, <1>6 DEF Progress

\* It holds in every state.
LEMMA AskedInTimeHolds == Spec => [](InPieces => AskedInTime)
<1>1. Init => AskedInTime
  BY DEF Init, AskedInTime, Handled
<1>2. /\ Sound /\ Tools /\ Pairs /\ (InPieces => InLine) /\ (InPieces => AskedInTime) /\ [Next]_vars
      => (InPieces => AskedInTime)'
  <2> SUFFICES ASSUME Sound, Tools, Pairs, InPieces => InLine, InPieces => AskedInTime,
                      [Next]_vars, InPieces'
               PROVE  AskedInTime'
    OBVIOUS
  <2>1. scenario' = scenario
    BY ProducedGrows
  <2>2. InPieces
    BY <2>1 DEF InPieces
  <2> QED  BY <2>2, AskedInTimeStays
<1> QED  BY <1>1, <1>2, SoundHolds, ToolsHold, PairsHold, InLineHolds, PTL DEF Spec

\* In such a turn the timeline is Codex's: of two fragments the one Codex produced first is sent
\* first, and a request is shown after all that was said before it (emit_interrupt_status
\* flushes the buffer, emit_chunk where the block changes).
THEOREM TimelineIsKept == Spec => [](InPieces => TimelineKept)
<1>1. Sound /\ InLine /\ AskedInTime => TimelineKept
  <2> SUFFICES ASSUME Sound, InLine, AskedInTime PROVE TimelineKept
    OBVIOUS
  <2>1. Sent \in Seq(Nat)
    BY SaidIsSeq DEF Sound, Typed, Sent
  <2>2. InOrder
    BY <2>1, OrderedOnce DEF InLine, SentInLine, InOrder
  <2> QED  BY <2>2 DEF TimelineKept, AskedInTime, Told
<1> QED  BY <1>1, SoundHolds, InLineHolds, AskedInTimeHolds, PTL
=============================================================================
