-------------------------- MODULE CodexClientProofs --------------------------
(***************************************************************************)
(* What CodexClient keeps for any number of callers and processes.         *)
(***************************************************************************)
EXTENDS CodexClient, TLAPS

Places == {"idle", "queued", "spawning", "opening", "initializing", "announcing", "posting",
           "asking", "turning", "done"}
Futures == {"none", "pending", "result", "error", "cancelled"}
Outcomes == {"none", "ok", "failed", "cancelled"}

\* A caller's request is one of the table's, wherever the caller is.
LEMMA RequestTypes ==
    ASSUME NEW c \in Callers PROVE \A place : RequestAt(c, place) \in Requests
  BY DEF RequestAt, Requests

\* Registering a request keeps the types of the request table.
LEMMA RegisterTypes ==
    ASSUME TypeOK, NEW x \in Requests, Register(x)
    PROVE  pending' \subseteq Requests /\ future' \in [Requests -> Futures]
  BY DEF TypeOK, Register, Futures

\* Writing to a process that was started keeps the types of what it changes.
LEMMA WriteTypes ==
    ASSUME TypeOK, NEW c \in Callers, NEW place \in Writing, NEW n \in Nat, spawned <= n,
           NEW g \in 0 .. n, Write(c, place, g)
    PROVE  /\ askedOf' \in [Requests -> 0 .. n]
           /\ target' \in [Callers -> 0 .. n]
           /\ writer' \in Callers \cup {None}
           /\ pc' \in [Callers -> Places]
           /\ outcome' \in [Callers -> Outcomes]
<1>1. 0 .. spawned \subseteq 0 .. n  BY DEF TypeOK
<1>2. RequestAt(c, place) \in Requests  BY RequestTypes
<1>3. askedOf \in [Requests -> 0 .. n] /\ target \in [Callers -> 0 .. n]
  BY <1>1 DEF TypeOK
<1>4. askedOf' \in [Requests -> 0 .. n]
  BY <1>2, <1>3 DEF Write, Written
<1>5. target' \in [Callers -> 0 .. n]
  BY <1>3 DEF Write
<1>6. /\ writer' \in Callers \cup {None}
      /\ pc' \in [Callers -> Places]
      /\ outcome' \in [Callers -> Outcomes]
  BY DEF Write, Writing, TypeOK, Places, Outcomes
<1>7. QED  BY <1>4, <1>5, <1>6

\* So does a caller's request, which moves the caller on or ends its call.
LEMMA AskTypes ==
    ASSUME TypeOK, NEW c \in Callers, Ask(c)
    PROVE  /\ pending' \subseteq Requests
           /\ future' \in [Requests -> Futures]
           /\ askedOf' \in [Requests -> 0 .. spawned]
           /\ target' \in [Callers -> 0 .. spawned]
           /\ writer' \in Callers \cup {None}
           /\ pc' \in [Callers -> Places]
           /\ outcome' \in [Callers -> Outcomes]
<1>1. <<c, "call">> \in Requests  BY DEF Requests
<1>2. current \in 0 .. spawned /\ spawned \in Nat /\ spawned <= spawned /\ 0 \in 0 .. spawned
  BY DEF TypeOK
<1>3. pending' \subseteq Requests /\ future' \in [Requests -> Futures]
  BY <1>1, RegisterTypes DEF Ask
<1>4. CASE Write(c, "posting", current)
  BY <1>2, <1>3, <1>4, WriteTypes DEF Writing
<1>5. CASE End(c, "failed") /\ LeaveWrite(c) /\ UNCHANGED askedOf
  BY <1>2, <1>3, <1>5 DEF End, LeaveWrite, TypeOK, Places, Outcomes
<1>6. QED  BY <1>4, <1>5 DEF Ask

\* The request a caller awaits is one of its own.
LEMMA AwaitedTypes == ASSUME NEW c \in Callers PROVE Awaited(c) \in Requests
  BY RequestTypes DEF Awaited

\* Failing the registered requests keeps the types of the futures.
LEMMA FailAllTypes == ASSUME TypeOK PROVE FailAll \in [Requests -> Futures]
  BY DEF TypeOK, FailAll, Futures

\* Every variable keeps its type under every step.
LEMMA NextTypeOK == TypeOK /\ [Next]_vars => TypeOK'
<1> SUFFICES ASSUME TypeOK, [Next]_vars PROVE TypeOK'
    OBVIOUS
<1> USE DEF processVars, requestVars, writeVars, turnVars
<1>1. CASE UNCHANGED vars
  BY <1>1 DEF TypeOK, vars
<1>2. ASSUME NEW c \in Callers, Call(c) PROVE TypeOK'
  <2>1. CASE Ask(c)
    BY <1>2, <2>1, AskTypes DEF Call, TypeOK, End, Places, Futures, Outcomes
  <2>2. CASE ~Ask(c)
    BY <1>2, <2>2 DEF Call, TypeOK, End
  <2>3. QED  BY <2>1, <2>2
<1>3. ASSUME NEW c \in Callers, EnterStart(c) PROVE TypeOK'
  <2>1. CASE Ask(c)
    BY <1>3, <2>1, AskTypes DEF EnterStart, TypeOK, End, Places, Futures, Outcomes
  <2>2. CASE ~Ask(c)
    BY <1>3, <2>2 DEF EnterStart, TypeOK, End
  <2>3. QED  BY <2>1, <2>2
<1>4. ASSUME NEW c \in Callers, Spawn(c) PROVE TypeOK'
  <2>1. <<c, "initialize">> \in Requests  BY DEF Requests
  <2>2. spawned' = spawned + 1 /\ spawned' \in 0 .. MaxProcesses
    BY <1>4, MaxProcessesAssumption DEF Spawn, TypeOK
  <2>3. 1 .. spawned \subseteq 1 .. spawned' /\ spawned' \in 1 .. spawned'
    BY <2>2 DEF TypeOK
  <2>4. spawned' \in Nat /\ spawned <= spawned' /\ spawned' \in 0 .. spawned'
    BY <2>2 DEF TypeOK
  <2>5. /\ current' \in 0 .. spawned'
        /\ alive' \subseteq 1 .. spawned'
        /\ reading' \subseteq 1 .. spawned'
        /\ stopping' \subseteq 1 .. spawned'
    <3>1. /\ current' = spawned'
          /\ alive' = alive \cup {spawned'}
          /\ reading' = reading \cup {spawned'}
          /\ stopping' = stopping
      BY <1>4, <2>2 DEF Spawn
    <3>2. QED  BY <3>1, <2>3, <2>4 DEF TypeOK
  <2>6. exited' \subseteq (1 .. spawned') \ alive'
    <3>1. spawned' \notin 1 .. spawned  BY <2>2 DEF TypeOK
    <3>2. exited' = exited /\ alive' \subseteq alive \cup {spawned'}
      BY <1>4, <2>2 DEF Spawn
    <3>3. QED  BY <3>1, <3>2, <2>3 DEF TypeOK
  <2>7. /\ askedOf' \in [Requests -> 0 .. spawned']
        /\ target' \in [Callers -> 0 .. spawned']
        /\ writer' \in Callers \cup {None}
        /\ pc' \in [Callers -> Places]
        /\ outcome' \in [Callers -> Outcomes]
    <3>1. Write(c, "opening", spawned')  BY <1>4, <2>2 DEF Spawn
    <3>2. "opening" \in Writing  BY DEF Writing
    <3>3. QED  BY <3>1, <3>2, <2>4, WriteTypes
  <2>8. pending' \subseteq Requests /\ future' \in [Requests -> Futures]
    BY <1>4, <2>1, RegisterTypes DEF Spawn
  <2>9. UNCHANGED <<initialized, closed, starter, answered, turnVars>>
    BY <1>4 DEF Spawn
  <2>10. QED
    BY <2>2, <2>5, <2>6, <2>7, <2>8, <2>9 DEF TypeOK, Places, Futures, Outcomes
<1>5. ASSUME NEW c \in Callers, SpawnFails(c) PROVE TypeOK'
  BY <1>5 DEF SpawnFails, TypeOK, End, LeaveStart
<1>6. ASSUME NEW c \in Callers, FinishStart(c) PROVE TypeOK'
  <2>1. CASE current # 0
    <3>1. current \in 0 .. spawned /\ spawned \in Nat /\ spawned <= spawned
      BY DEF TypeOK
    <3>2. /\ askedOf' \in [Requests -> 0 .. spawned]
          /\ target' \in [Callers -> 0 .. spawned]
          /\ writer' \in Callers \cup {None}
          /\ pc' \in [Callers -> Places]
          /\ outcome' \in [Callers -> Outcomes]
      BY <1>6, <2>1, <3>1, WriteTypes DEF FinishStart, Writing
    <3>3. QED  BY <1>6, <2>1, <3>2 DEF FinishStart, TypeOK, Places, Outcomes
  <2>2. CASE current = 0
    BY <1>6, <2>2 DEF FinishStart, TypeOK, End, LeaveStart
  <2>3. QED  BY <2>1, <2>2
<1>7. ASSUME NEW c \in Callers, GotAnswer(c) PROVE TypeOK'
  BY <1>7 DEF GotAnswer, TypeOK, End
<1>8. ASSUME NEW c \in Callers, GotError(c) PROVE TypeOK'
  BY <1>8 DEF GotError, TypeOK, End, LeaveStart
<1>9. ASSUME NEW c \in Callers, TimerFires(c) PROVE TypeOK'
  BY <1>9, AwaitedTypes DEF TimerFires, TypeOK
<1>10. ASSUME NEW c \in Callers, TimedOut(c) PROVE TypeOK'
  BY <1>10 DEF TimedOut, TypeOK, End, LeaveStart
<1>11. ASSUME NEW c \in Callers, TurnDone(c) PROVE TypeOK'
  BY <1>11 DEF TurnDone, TypeOK, End
<1>12. ASSUME NEW c \in Callers, TurnTimesOut(c) PROVE TypeOK'
  BY <1>12 DEF TurnTimesOut, TypeOK, End
<1>13. ASSUME NEW c \in Callers, CancelCaller(c) PROVE TypeOK'
  <2>1. /\ future' \in [Requests -> Futures]
        /\ tracker' \in [Callers -> {"none", "open", "ok", "failed"}]
    BY <1>13, AwaitedTypes DEF CancelCaller, TypeOK, Futures
  <2>2. target' \in [Callers -> 0 .. spawned] /\ writer' \in Callers \cup {None}
    BY <1>13 DEF CancelCaller, LeaveWrite, TypeOK
  <2>3. QED  BY <1>13, <2>1, <2>2 DEF CancelCaller, TypeOK, End, LeaveStart, Futures
<1>14. ASSUME NEW c \in Callers, TurnNotified(c) PROVE TypeOK'
  BY <1>14 DEF TurnNotified, TypeOK
<1>15. ASSUME NEW c \in Callers, NEW how \in {"ok", "failed"}, TurnCompleted(c, how)
       PROVE  TypeOK'
  BY <1>15 DEF TurnCompleted, TypeOK
<1>16. ASSUME NEW x \in Requests, NEW what \in {"result", "error"}, Reply(x, what)
       PROVE  TypeOK'
  <2>1. CASE x \notin pending
    BY <1>16, <2>1 DEF Reply, TypeOK
  <2>2. CASE x \in pending /\ future[x] = "pending"
    <3>1. /\ answered' = [answered EXCEPT ![x] = what]
          /\ future' = [future EXCEPT ![x] = what]
          /\ pending' = pending \ {x}
      BY <1>16, <2>2 DEF Reply
    <3>2. UNCHANGED <<current, spawned, alive, exited, reading, stopping, initialized, closed,
                      starter, writeVars, pc, askedOf, turnVars, outcome>>
      BY <1>16, <2>2 DEF Reply
    <3>3. answered' \in [Requests -> {"none", "result", "error"}]
      BY <3>1 DEF TypeOK
    <3>4. future' \in [Requests -> Futures] /\ pending' \subseteq Requests
      BY <3>1 DEF TypeOK, Futures
    <3>5. QED  BY <3>2, <3>3, <3>4 DEF TypeOK, Futures
  <2>3. CASE x \in pending /\ future[x] # "pending"
    <3>1. LoopEnds(askedOf[x])  BY <1>16, <2>3 DEF Reply
    <3>2. /\ answered' = [answered EXCEPT ![x] = what]
          /\ UNCHANGED <<current, spawned, alive, exited, stopping, initialized, closed,
                         starter, writeVars, pc, askedOf, turnVars, outcome>>
      BY <1>16 DEF Reply
    <3>3. future' \in [Requests -> Futures] /\ pending' = {} /\ reading' \subseteq reading
      BY <3>1, FailAllTypes DEF LoopEnds
    <3>4. answered' \in [Requests -> {"none", "result", "error"}] /\ reading' \subseteq 1 .. spawned
      BY <3>2, <3>3 DEF TypeOK
    <3>5. QED  BY <3>2, <3>3, <3>4 DEF TypeOK, Futures
  <2>4. QED  BY <2>1, <2>2, <2>3
<1>17. ASSUME NEW g \in Processes, ProcessDies(g) PROVE TypeOK'
  BY <1>17 DEF ProcessDies, TypeOK
<1>18. ASSUME NEW g \in Processes, ReturnCodeSet(g) PROVE TypeOK'
  BY <1>18 DEF ReturnCodeSet, TypeOK
<1>19. ASSUME NEW g \in Processes, LoopStops(g) PROVE TypeOK'
  BY <1>19, FailAllTypes DEF LoopStops, LoopEnds, TypeOK, Futures
<1>20. ASSUME Close PROVE TypeOK'
  BY <1>20, FailAllTypes DEF Close, TypeOK, Futures
<1>21. ASSUME NEW c \in Callers, EnterWrite(c) PROVE TypeOK'
  <2>1. RequestAt(c, pc[c]) \in Requests  BY RequestTypes
  <2>2. askedOf' \in [Requests -> 0 .. spawned]
    BY <1>21, <2>1 DEF EnterWrite, Written, TypeOK
  <2>3. QED  BY <1>21, <2>2 DEF EnterWrite, TypeOK
<1>22. ASSUME NEW c \in Callers, Flushed(c) PROVE TypeOK'
  <2>1. CASE pc[c] = "announcing"
    <3>1. Ask(c) /\ LeaveStart(c) /\ initialized' = TRUE
      BY <1>22, <2>1 DEF Flushed
    <3>2. starter' \in Callers \cup {None}  BY <3>1 DEF LeaveStart, TypeOK
    <3>3. UNCHANGED <<processVars, turnVars, closed, answered>>  BY <1>22 DEF Flushed
    <3>4. QED  BY <3>1, <3>2, <3>3, AskTypes DEF TypeOK, Places, Futures, Outcomes
  <2>2. CASE pc[c] # "announcing"
    BY <1>22, <2>2 DEF Flushed, LeaveWrite, TypeOK
  <2>3. QED  BY <2>1, <2>2
<1>23. ASSUME NEW c \in Callers, WriteFails(c) PROVE TypeOK'
  BY <1>23 DEF WriteFails, LeaveWrite, LeaveStart, End, TypeOK
<1>24. QED
  BY <1>1, <1>2, <1>3, <1>4, <1>5, <1>6, <1>7, <1>8, <1>9, <1>10, <1>11, <1>12, <1>13,
     <1>14, <1>15, <1>16, <1>17, <1>18, <1>19, <1>20, <1>21, <1>22, <1>23
     DEF Next, Resumes, SpawnEnds, WriteEnds

\* Initially every variable has its type.
LEMMA InitTypeOK == Init => TypeOK
<1> SUFFICES ASSUME Init PROVE TypeOK
    OBVIOUS
<1>1. 0 \in 0 .. MaxProcesses /\ 0 \in 0 .. 0
  BY MaxProcessesAssumption
<1>2. QED  BY <1>1 DEF Init, TypeOK

\* Every variable of the client keeps its type, however many callers share it.
THEOREM SpecTypeOK == Spec => []TypeOK
  BY InitTypeOK, NextTypeOK, PTL DEF Spec

-----------------------------------------------------------------------------
(* The inductive invariant.  The tracker must be exact already while the   *)
(* answer is awaited, and results be tied to what Codex answered, for the  *)
(* properties of a call that has returned to be kept.                      *)

TurnInv ==
    \A c \in Callers :
        /\ pc[c] = "turning" => tracker[c] # "none"
        /\ tracker[c] \in {"ok", "failed"} => tracker[c] = ended[c]
        /\ pc[c] # "done" /\ ended[c] # "none" => tracker[c] = ended[c]

AnswerInv ==
    /\ \A x \in Requests : future[x] = "result" => answered[x] = "result"
    /\ \A c \in Callers :
           /\ pc[c] = "turning" => answered[<<c, "call">>] = "result"
           /\ outcome[c] # "none" => pc[c] = "done"
           /\ outcome[c] = "ok" =>
                  /\ answered[<<c, "call">>] = "result"
                  /\ c \in Turns => ended[c] = "ok" /\ tracker[c] = "none"

Handshaken == \E q \in Callers : answered[<<q, "initialize">>] = "result"

HandshakeInv ==
    /\ initialized => Handshaken
    /\ \A c \in Callers : pc[c] \in {"announcing", "posting"} => Handshaken
    /\ \A c \in Callers : askedOf[<<c, "call">>] # 0 => Handshaken

IInv == TypeOK /\ OneStarter /\ AwaitedIsRegistered /\ TurnInv /\ AnswerInv /\ HandshakeInv

\* The start lock is held exactly by the one caller that starts a process, after every step.
LEMMA NextOneStarter ==
    ASSUME TypeOK, OneStarter, [Next]_vars PROVE OneStarter'
<1> USE NoCallerAssumption DEF processVars, requestVars, writeVars, turnVars
<1>1. CASE UNCHANGED vars
  BY <1>1 DEF TypeOK, OneStarter, vars
<1>2. ASSUME NEW c \in Callers, Call(c) PROVE OneStarter'
  BY <1>2 DEF TypeOK, OneStarter, Call, Ask, Write, End
<1>3. ASSUME NEW c \in Callers, EnterStart(c) PROVE OneStarter'
  BY <1>3 DEF TypeOK, OneStarter, EnterStart, Ask, Write, End
<1>4. ASSUME NEW c \in Callers, Spawn(c) PROVE OneStarter'
  BY <1>4 DEF TypeOK, OneStarter, Spawn, Write
<1>5. ASSUME NEW c \in Callers, SpawnFails(c) PROVE OneStarter'
  BY <1>5 DEF TypeOK, OneStarter, SpawnFails, End, LeaveStart
<1>6. ASSUME NEW c \in Callers, FinishStart(c) PROVE OneStarter'
  BY <1>6 DEF TypeOK, OneStarter, FinishStart, Write, End, LeaveStart
<1>7. ASSUME NEW c \in Callers, GotAnswer(c) PROVE OneStarter'
  BY <1>7 DEF TypeOK, OneStarter, GotAnswer, End
<1>8. ASSUME NEW c \in Callers, GotError(c) PROVE OneStarter'
  BY <1>8 DEF TypeOK, OneStarter, GotError, End, LeaveStart
<1>9. ASSUME NEW c \in Callers, TimerFires(c) PROVE OneStarter'
  BY <1>9 DEF TypeOK, OneStarter, TimerFires
<1>10. ASSUME NEW c \in Callers, TimedOut(c) PROVE OneStarter'
  BY <1>10 DEF TypeOK, OneStarter, TimedOut, End, LeaveStart
<1>11. ASSUME NEW c \in Callers, TurnDone(c) PROVE OneStarter'
  BY <1>11 DEF TypeOK, OneStarter, TurnDone, End
<1>12. ASSUME NEW c \in Callers, TurnTimesOut(c) PROVE OneStarter'
  BY <1>12 DEF TypeOK, OneStarter, TurnTimesOut, End
<1>13. ASSUME NEW c \in Callers, CancelCaller(c) PROVE OneStarter'
  BY <1>13 DEF TypeOK, OneStarter, CancelCaller, End, LeaveStart
<1>14. ASSUME NEW c \in Callers, TurnNotified(c) PROVE OneStarter'
  BY <1>14 DEF TypeOK, OneStarter, TurnNotified
<1>15. ASSUME NEW c \in Callers, NEW how \in {"ok", "failed"}, TurnCompleted(c, how)
       PROVE  OneStarter'
  BY <1>15 DEF TypeOK, OneStarter, TurnCompleted
<1>16. ASSUME NEW x \in Requests, NEW what \in {"result", "error"}, Reply(x, what)
       PROVE  OneStarter'
  BY <1>16 DEF TypeOK, OneStarter, Reply
<1>17. ASSUME NEW g \in Processes, ProcessDies(g) PROVE OneStarter'
  BY <1>17 DEF TypeOK, OneStarter, ProcessDies
<1>18. ASSUME NEW g \in Processes, ReturnCodeSet(g) PROVE OneStarter'
  BY <1>18 DEF TypeOK, OneStarter, ReturnCodeSet
<1>19. ASSUME NEW g \in Processes, LoopStops(g) PROVE OneStarter'
  BY <1>19 DEF TypeOK, OneStarter, LoopStops
<1>20. ASSUME Close PROVE OneStarter'
  BY <1>20 DEF TypeOK, OneStarter, Close
<1>21. ASSUME NEW c \in Callers, EnterWrite(c) PROVE OneStarter'
  BY <1>21 DEF TypeOK, OneStarter, EnterWrite
<1>22. ASSUME NEW c \in Callers, Flushed(c) PROVE OneStarter'
  BY <1>22 DEF TypeOK, OneStarter, Flushed, Ask, Write, End, LeaveStart
<1>23. ASSUME NEW c \in Callers, WriteFails(c) PROVE OneStarter'
  BY <1>23 DEF TypeOK, OneStarter, WriteFails, End, LeaveStart
<1>24. QED
  BY <1>1, <1>2, <1>3, <1>4, <1>5, <1>6, <1>7, <1>8, <1>9, <1>10, <1>11, <1>12, <1>13,
     <1>14, <1>15, <1>16, <1>17, <1>18, <1>19, <1>20, <1>21, <1>22, <1>23
     DEF Next, Resumes, SpawnEnds, WriteEnds

\* A caller that awaits an open future has its request in the table, after every step.
LEMMA NextAwaitedIsRegistered ==
    ASSUME TypeOK, AwaitedIsRegistered, [Next]_vars PROVE AwaitedIsRegistered'
<1> USE DEF processVars, requestVars, writeVars, turnVars
<1>1. CASE UNCHANGED vars
  BY <1>1 DEF TypeOK, AwaitedIsRegistered, Awaiting, Awaited, RequestAt, Requests, vars
<1>2. ASSUME NEW c \in Callers, Call(c) PROVE AwaitedIsRegistered'
  BY <1>2 DEF TypeOK, AwaitedIsRegistered, Awaiting, Awaited, RequestAt, Requests, Call, Ask, Write, End, Register
<1>3. ASSUME NEW c \in Callers, EnterStart(c) PROVE AwaitedIsRegistered'
  BY <1>3 DEF TypeOK, AwaitedIsRegistered, Awaiting, Awaited, RequestAt, Requests, EnterStart, Ask, Write, End, Register
<1>4. ASSUME NEW c \in Callers, Spawn(c) PROVE AwaitedIsRegistered'
  BY <1>4 DEF TypeOK, AwaitedIsRegistered, Awaiting, Awaited, RequestAt, Requests, Spawn, Write, Register
<1>5. ASSUME NEW c \in Callers, SpawnFails(c) PROVE AwaitedIsRegistered'
  BY <1>5 DEF TypeOK, AwaitedIsRegistered, Awaiting, Awaited, RequestAt, Requests, SpawnFails, End, LeaveStart
<1>6. ASSUME NEW c \in Callers, FinishStart(c) PROVE AwaitedIsRegistered'
  BY <1>6 DEF TypeOK, AwaitedIsRegistered, Awaiting, Awaited, RequestAt, Requests, FinishStart, Write, End
<1>7. ASSUME NEW c \in Callers, GotAnswer(c) PROVE AwaitedIsRegistered'
  BY <1>7 DEF TypeOK, AwaitedIsRegistered, Awaiting, Awaited, RequestAt, Requests, GotAnswer, End
<1>8. ASSUME NEW c \in Callers, GotError(c) PROVE AwaitedIsRegistered'
  BY <1>8 DEF TypeOK, AwaitedIsRegistered, Awaiting, Awaited, RequestAt, Requests, GotError, End, LeaveStart
<1>9. ASSUME NEW c \in Callers, TimerFires(c) PROVE AwaitedIsRegistered'
  BY <1>9 DEF TypeOK, AwaitedIsRegistered, Awaiting, Awaited, RequestAt, Requests, TimerFires
<1>10. ASSUME NEW c \in Callers, TimedOut(c) PROVE AwaitedIsRegistered'
  BY <1>10 DEF TypeOK, AwaitedIsRegistered, Awaiting, Awaited, RequestAt, Requests, TimedOut, End, LeaveStart
<1>11. ASSUME NEW c \in Callers, TurnDone(c) PROVE AwaitedIsRegistered'
  BY <1>11 DEF TypeOK, AwaitedIsRegistered, Awaiting, Awaited, RequestAt, Requests, TurnDone, End
<1>12. ASSUME NEW c \in Callers, TurnTimesOut(c) PROVE AwaitedIsRegistered'
  BY <1>12 DEF TypeOK, AwaitedIsRegistered, Awaiting, Awaited, RequestAt, Requests, TurnTimesOut, End
<1>13. ASSUME NEW c \in Callers, CancelCaller(c) PROVE AwaitedIsRegistered'
  BY <1>13 DEF TypeOK, AwaitedIsRegistered, Awaiting, Awaited, RequestAt, Requests,
         CancelCaller, End, LeaveStart
<1>14. ASSUME NEW c \in Callers, TurnNotified(c) PROVE AwaitedIsRegistered'
  BY <1>14 DEF TypeOK, AwaitedIsRegistered, Awaiting, Awaited, RequestAt, Requests, TurnNotified
<1>15. ASSUME NEW c \in Callers, NEW how \in {"ok", "failed"}, TurnCompleted(c, how)
       PROVE  AwaitedIsRegistered'
  BY <1>15 DEF TypeOK, AwaitedIsRegistered, Awaiting, Awaited, RequestAt, Requests, TurnCompleted
<1>16. ASSUME NEW x \in Requests, NEW what \in {"result", "error"}, Reply(x, what)
       PROVE  AwaitedIsRegistered'
  BY <1>16 DEF TypeOK, AwaitedIsRegistered, Awaiting, Awaited, RequestAt, Requests, Reply, FailAll, LoopEnds
<1>17. ASSUME NEW g \in Processes, ProcessDies(g) PROVE AwaitedIsRegistered'
  BY <1>17 DEF TypeOK, AwaitedIsRegistered, Awaiting, Awaited, RequestAt, Requests, ProcessDies
<1>18. ASSUME NEW g \in Processes, ReturnCodeSet(g) PROVE AwaitedIsRegistered'
  BY <1>18 DEF TypeOK, AwaitedIsRegistered, Awaiting, Awaited, RequestAt, Requests, ReturnCodeSet
<1>19. ASSUME NEW g \in Processes, LoopStops(g) PROVE AwaitedIsRegistered'
  BY <1>19 DEF TypeOK, AwaitedIsRegistered, Awaiting, Awaited, RequestAt, Requests,
         LoopStops, FailAll, LoopEnds
<1>20. ASSUME Close PROVE AwaitedIsRegistered'
  BY <1>20 DEF TypeOK, AwaitedIsRegistered, Awaiting, Awaited, RequestAt, Requests, Close, FailAll
<1>21. ASSUME NEW c \in Callers, EnterWrite(c) PROVE AwaitedIsRegistered'
  BY <1>21 DEF TypeOK, AwaitedIsRegistered, Awaiting, Awaited, RequestAt, Requests, EnterWrite
<1>22. ASSUME NEW c \in Callers, Flushed(c) PROVE AwaitedIsRegistered'
  BY <1>22 DEF TypeOK, AwaitedIsRegistered, Awaiting, Awaited, RequestAt, Requests, Flushed, Ask, Write, End, Register
<1>23. ASSUME NEW c \in Callers, WriteFails(c) PROVE AwaitedIsRegistered'
  BY <1>23 DEF TypeOK, AwaitedIsRegistered, Awaiting, Awaited, RequestAt, Requests, WriteFails, End
<1>24. QED
  BY <1>1, <1>2, <1>3, <1>4, <1>5, <1>6, <1>7, <1>8, <1>9, <1>10, <1>11, <1>12, <1>13,
     <1>14, <1>15, <1>16, <1>17, <1>18, <1>19, <1>20, <1>21, <1>22, <1>23
     DEF Next, Resumes, SpawnEnds, WriteEnds

\* The tracker of a turn tells what was notified of it, until its caller is gone.
LEMMA NextTurnInv ==
    ASSUME TypeOK, TurnInv, [Next]_vars PROVE TurnInv'
<1> USE DEF processVars, requestVars, writeVars, turnVars
<1>1. CASE UNCHANGED vars
  BY <1>1 DEF TypeOK, TurnInv, vars
<1>2. ASSUME NEW c \in Callers, Call(c) PROVE TurnInv'
  BY <1>2 DEF TypeOK, TurnInv, Call, Ask, Write, End
<1>3. ASSUME NEW c \in Callers, EnterStart(c) PROVE TurnInv'
  BY <1>3 DEF TypeOK, TurnInv, EnterStart, Ask, Write, End
<1>4. ASSUME NEW c \in Callers, Spawn(c) PROVE TurnInv'
  BY <1>4 DEF TypeOK, TurnInv, Spawn, Write
<1>5. ASSUME NEW c \in Callers, SpawnFails(c) PROVE TurnInv'
  BY <1>5 DEF TypeOK, TurnInv, SpawnFails, End, LeaveStart
<1>6. ASSUME NEW c \in Callers, FinishStart(c) PROVE TurnInv'
  BY <1>6 DEF TypeOK, TurnInv, FinishStart, Write, End, LeaveStart
<1>7. ASSUME NEW c \in Callers, GotAnswer(c) PROVE TurnInv'
  BY <1>7 DEF TypeOK, TurnInv, GotAnswer, End
<1>8. ASSUME NEW c \in Callers, GotError(c) PROVE TurnInv'
  BY <1>8 DEF TypeOK, TurnInv, GotError, End, LeaveStart
<1>9. ASSUME NEW c \in Callers, TimerFires(c) PROVE TurnInv'
  BY <1>9 DEF TypeOK, TurnInv, TimerFires
<1>10. ASSUME NEW c \in Callers, TimedOut(c) PROVE TurnInv'
  BY <1>10 DEF TypeOK, TurnInv, TimedOut, End, LeaveStart
<1>11. ASSUME NEW c \in Callers, TurnDone(c) PROVE TurnInv'
  BY <1>11 DEF TypeOK, TurnInv, TurnDone, End
<1>12. ASSUME NEW c \in Callers, TurnTimesOut(c) PROVE TurnInv'
  BY <1>12 DEF TypeOK, TurnInv, TurnTimesOut, End
<1>13. ASSUME NEW c \in Callers, CancelCaller(c) PROVE TurnInv'
  BY <1>13 DEF TypeOK, TurnInv, CancelCaller, End, LeaveStart
<1>14. ASSUME NEW c \in Callers, TurnNotified(c) PROVE TurnInv'
  BY <1>14 DEF TypeOK, TurnInv, TurnNotified, TurnRuns
<1>15. ASSUME NEW c \in Callers, NEW how \in {"ok", "failed"}, TurnCompleted(c, how)
       PROVE  TurnInv'
  BY <1>15 DEF TypeOK, TurnInv, TurnCompleted, TurnRuns
<1>16. ASSUME NEW x \in Requests, NEW what \in {"result", "error"}, Reply(x, what)
       PROVE  TurnInv'
  BY <1>16 DEF TypeOK, TurnInv, Reply
<1>17. ASSUME NEW g \in Processes, ProcessDies(g) PROVE TurnInv'
  BY <1>17 DEF TypeOK, TurnInv, ProcessDies
<1>18. ASSUME NEW g \in Processes, ReturnCodeSet(g) PROVE TurnInv'
  BY <1>18 DEF TypeOK, TurnInv, ReturnCodeSet
<1>19. ASSUME NEW g \in Processes, LoopStops(g) PROVE TurnInv'
  BY <1>19 DEF TypeOK, TurnInv, LoopStops
<1>20. ASSUME Close PROVE TurnInv'
  BY <1>20 DEF TypeOK, TurnInv, Close
<1>21. ASSUME NEW c \in Callers, EnterWrite(c) PROVE TurnInv'
  BY <1>21 DEF TypeOK, TurnInv, EnterWrite
<1>22. ASSUME NEW c \in Callers, Flushed(c) PROVE TurnInv'
  BY <1>22 DEF TypeOK, TurnInv, Flushed, Ask, Write, End
<1>23. ASSUME NEW c \in Callers, WriteFails(c) PROVE TurnInv'
  BY <1>23 DEF TypeOK, TurnInv, WriteFails, End
<1>24. QED
  BY <1>1, <1>2, <1>3, <1>4, <1>5, <1>6, <1>7, <1>8, <1>9, <1>10, <1>11, <1>12, <1>13,
     <1>14, <1>15, <1>16, <1>17, <1>18, <1>19, <1>20, <1>21, <1>22, <1>23
     DEF Next, Resumes, SpawnEnds, WriteEnds

\* A step in which nothing is answered, notified or returned keeps AnswerInv.
LEMMA AnswerKept ==
    ASSUME AnswerInv, UNCHANGED <<answered, tracker, ended>>,
           \A x \in Requests : future'[x] = "result" => future[x] = "result",
           \A c \in Callers : /\ pc'[c] = "turning" => pc[c] = "turning"
                              /\ outcome'[c] # "none" => pc'[c] = "done"
                              /\ outcome'[c] = "ok" => outcome[c] = "ok"
    PROVE  AnswerInv'
  BY DEF AnswerInv

Before == Places \ {"turning", "done"}

\* A caller that moves on short of its turn, or fails, returns nothing.
LEMMA MoveReturnsNothing ==
    ASSUME TypeOK, AnswerInv, NEW c \in Callers, pc[c] # "done",
           \/ End(c, "failed")
           \/ \E place \in Before :
                  pc' = [pc EXCEPT ![c] = place] /\ UNCHANGED outcome
    PROVE  \A q \in Callers : /\ pc'[q] = "turning" => pc[q] = "turning"
                              /\ outcome'[q] # "none" => pc'[q] = "done"
                              /\ outcome'[q] = "ok" => outcome[q] = "ok"
<1> SUFFICES ASSUME NEW q \in Callers
             PROVE  /\ pc'[q] = "turning" => pc[q] = "turning"
                    /\ outcome'[q] # "none" => pc'[q] = "done"
                    /\ outcome'[q] = "ok" => outcome[q] = "ok"
    OBVIOUS
<1>1. outcome[q] # "none" => pc[q] = "done"
  BY DEF AnswerInv
<1>2. CASE q = c
  BY <1>1, <1>2 DEF End, TypeOK, Before, Places
<1>3. CASE q # c
  BY <1>1, <1>3 DEF End, TypeOK
<1>4. QED  BY <1>2, <1>3

\* Writing is such a step, and asking is.
LEMMA WriteKeepsAnswers ==
    ASSUME TypeOK, AnswerInv, NEW c \in Callers, pc[c] # "done", NEW place \in Writing,
           NEW g, Write(c, place, g), UNCHANGED <<answered, tracker, ended>>,
           \A x \in Requests : future'[x] = "result" => future[x] = "result"
    PROVE  AnswerInv'
<1>1. \E p \in Before : pc' = [pc EXCEPT ![c] = p] /\ UNCHANGED outcome
  BY DEF Write, Writing, Before, Places
<1>2. QED  BY <1>1, MoveReturnsNothing, AnswerKept

LEMMA AskKeepsAnswers ==
    ASSUME TypeOK, AnswerInv, NEW c \in Callers, pc[c] # "done", Ask(c),
           UNCHANGED <<answered, tracker, ended>>
    PROVE  AnswerInv'
<1>1. \A x \in Requests : future'[x] = "result" => future[x] = "result"
  BY DEF Ask, Register, TypeOK
<1>2. CASE Write(c, "posting", current)
  BY <1>1, <1>2, WriteKeepsAnswers DEF Writing
<1>3. CASE End(c, "failed")
  BY <1>1, <1>3, MoveReturnsNothing, AnswerKept
<1>4. QED  BY <1>2, <1>3 DEF Ask

\* Results come from Codex, and what a call returned stands, after every step.
LEMMA NextAnswerInv ==
    ASSUME TypeOK, TurnInv, AnswerInv, [Next]_vars PROVE AnswerInv'
<1> USE DEF processVars, requestVars, writeVars, turnVars
<1>1. CASE UNCHANGED vars
  BY <1>1 DEF TypeOK, AnswerInv, vars
<1>2. ASSUME NEW c \in Callers, Call(c) PROVE AnswerInv'
  <2>1. pc[c] # "done" /\ UNCHANGED <<answered, tracker, ended>>
    BY <1>2 DEF Call
  <2>2. CASE Ask(c)
    BY <2>1, <2>2, AskKeepsAnswers
  <2>3. CASE ~Ask(c)
    <3>1. \A x \in Requests : future'[x] = "result" => future[x] = "result"
      BY <1>2, <2>3 DEF Call
    <3>2. \/ End(c, "failed")
          \/ \E place \in Before :
                 pc' = [pc EXCEPT ![c] = place] /\ UNCHANGED outcome
      BY <1>2, <2>3 DEF Call, Before, Places
    <3>3. QED  BY <2>1, <3>1, <3>2, MoveReturnsNothing, AnswerKept
  <2>4. QED  BY <2>2, <2>3
<1>3. ASSUME NEW c \in Callers, EnterStart(c) PROVE AnswerInv'
  <2>1. pc[c] # "done" /\ UNCHANGED <<answered, tracker, ended>>
    BY <1>3 DEF EnterStart
  <2>2. CASE Ask(c)
    BY <2>1, <2>2, AskKeepsAnswers
  <2>3. CASE ~Ask(c)
    <3>1. \A x \in Requests : future'[x] = "result" => future[x] = "result"
      BY <1>3, <2>3 DEF EnterStart
    <3>2. \/ End(c, "failed")
          \/ \E place \in Before :
                 pc' = [pc EXCEPT ![c] = place] /\ UNCHANGED outcome
      BY <1>3, <2>3 DEF EnterStart, Before, Places
    <3>3. QED  BY <2>1, <3>1, <3>2, MoveReturnsNothing, AnswerKept
  <2>4. QED  BY <2>2, <2>3
<1>4. ASSUME NEW c \in Callers, Spawn(c) PROVE AnswerInv'
  <2>1. \A x \in Requests : future'[x] = "result" => future[x] = "result"
    BY <1>4 DEF Spawn, Register, TypeOK
  <2>2. /\ Write(c, "opening", spawned + 1) /\ "opening" \in Writing /\ pc[c] # "done"
        /\ UNCHANGED <<answered, tracker, ended>>
    BY <1>4 DEF Spawn, Writing
  <2>3. QED  BY <2>1, <2>2, WriteKeepsAnswers
<1>5. ASSUME NEW c \in Callers, SpawnFails(c) PROVE AnswerInv'
  BY <1>5 DEF TypeOK, AnswerInv, SpawnFails, End, LeaveStart
<1>6. ASSUME NEW c \in Callers, FinishStart(c) PROVE AnswerInv'
  <2>1. pc[c] # "done" /\ UNCHANGED <<future, answered, tracker, ended>>
    BY <1>6 DEF FinishStart
  <2>2. CASE Write(c, "announcing", current)
    BY <2>1, <2>2, WriteKeepsAnswers DEF Writing
  <2>3. CASE End(c, "failed")
    BY <2>1, <2>3, MoveReturnsNothing, AnswerKept
  <2>4. QED  BY <1>6, <2>2, <2>3 DEF FinishStart
<1>7. ASSUME NEW c \in Callers, GotAnswer(c) PROVE AnswerInv'
  <2>1. /\ pc[c] = "asking" /\ answered[<<c, "call">>] = "result"
        /\ UNCHANGED <<future, answered, ended>>
    BY <1>7 DEF GotAnswer, AnswerInv, Requests
  <2>2. CASE c \in Turns
    <3>1. /\ pc' = [pc EXCEPT ![c] = "turning"]
          /\ \A q \in Callers \ {c} : tracker'[q] = tracker[q]
          /\ UNCHANGED outcome
      BY <1>7, <2>2 DEF GotAnswer, TypeOK
    <3>2. QED  BY <2>1, <3>1 DEF AnswerInv, TypeOK
  <2>3. CASE c \notin Turns
    <3>1. End(c, "ok") /\ UNCHANGED tracker
      BY <1>7, <2>3 DEF GotAnswer
    <3>2. QED  BY <2>1, <2>3, <3>1 DEF AnswerInv, TypeOK, End
  <2>4. QED  BY <2>2, <2>3
<1>8. ASSUME NEW c \in Callers, GotError(c) PROVE AnswerInv'
  BY <1>8 DEF TypeOK, AnswerInv, GotError, End, LeaveStart
<1>9. ASSUME NEW c \in Callers, TimerFires(c) PROVE AnswerInv'
  BY <1>9 DEF TypeOK, AnswerInv, TimerFires, Awaiting, Awaited, Requests
<1>10. ASSUME NEW c \in Callers, TimedOut(c) PROVE AnswerInv'
  BY <1>10 DEF TypeOK, AnswerInv, TimedOut, End, LeaveStart
<1>11. ASSUME NEW c \in Callers, TurnDone(c) PROVE AnswerInv'
  BY <1>11 DEF TypeOK, AnswerInv, TurnDone, End, TurnInv
<1>12. ASSUME NEW c \in Callers, TurnTimesOut(c) PROVE AnswerInv'
  BY <1>12 DEF TypeOK, AnswerInv, TurnTimesOut, End
<1>13. ASSUME NEW c \in Callers, CancelCaller(c) PROVE AnswerInv'
  BY <1>13 DEF TypeOK, AnswerInv, CancelCaller, End, LeaveStart, Awaiting, Awaited, Requests
<1>14. ASSUME NEW c \in Callers, TurnNotified(c) PROVE AnswerInv'
  BY <1>14 DEF TypeOK, AnswerInv, TurnNotified, TurnRuns
<1>15. ASSUME NEW c \in Callers, NEW how \in {"ok", "failed"}, TurnCompleted(c, how)
       PROVE  AnswerInv'
  BY <1>15 DEF TypeOK, AnswerInv, TurnCompleted, TurnRuns
<1>16. ASSUME NEW x \in Requests, NEW what \in {"result", "error"}, Reply(x, what)
       PROVE  AnswerInv'
  BY <1>16 DEF TypeOK, AnswerInv, Reply, FailAll, LoopEnds
<1>17. ASSUME NEW g \in Processes, ProcessDies(g) PROVE AnswerInv'
  BY <1>17 DEF TypeOK, AnswerInv, ProcessDies
<1>18. ASSUME NEW g \in Processes, ReturnCodeSet(g) PROVE AnswerInv'
  BY <1>18 DEF TypeOK, AnswerInv, ReturnCodeSet
<1>19. ASSUME NEW g \in Processes, LoopStops(g) PROVE AnswerInv'
  BY <1>19 DEF TypeOK, AnswerInv, LoopStops, FailAll, LoopEnds
<1>20. ASSUME Close PROVE AnswerInv'
  BY <1>20 DEF TypeOK, AnswerInv, Close, FailAll
<1>21. ASSUME NEW c \in Callers, EnterWrite(c) PROVE AnswerInv'
  BY <1>21 DEF TypeOK, AnswerInv, EnterWrite
<1>22. ASSUME NEW c \in Callers, Flushed(c) PROVE AnswerInv'
  <2>1. pc[c] # "done" /\ UNCHANGED <<answered, tracker, ended>>
    BY <1>22 DEF Flushed
  <2>2. CASE Ask(c)
    BY <2>1, <2>2, AskKeepsAnswers
  <2>3. CASE ~ Ask(c)
    <3>1. UNCHANGED future /\ \E p \in Before : pc' = [pc EXCEPT ![c] = p] /\ UNCHANGED outcome
      BY <1>22, <2>3 DEF Flushed, Before, Places
    <3>2. QED  BY <2>1, <3>1, MoveReturnsNothing, AnswerKept
  <2>4. QED  BY <2>2, <2>3
<1>23. ASSUME NEW c \in Callers, WriteFails(c) PROVE AnswerInv'
  <2>1. CASE pc[c] # "done"
    BY <1>23, <2>1, MoveReturnsNothing, AnswerKept DEF WriteFails
  <2>2. CASE pc[c] = "done"
    BY <1>23, <2>2 DEF WriteFails, End, TypeOK, AnswerInv
  <2>3. QED  BY <2>1, <2>2
<1>24. QED
  BY <1>1, <1>2, <1>3, <1>4, <1>5, <1>6, <1>7, <1>8, <1>9, <1>10, <1>11, <1>12, <1>13,
     <1>14, <1>15, <1>16, <1>17, <1>18, <1>19, <1>20, <1>21, <1>22, <1>23
     DEF Next, Resumes, SpawnEnds, WriteEnds

\* The client is initialized, and used, only after some process answered the handshake.
LEMMA NextHandshakeInv ==
    ASSUME TypeOK, AnswerInv, HandshakeInv, [Next]_vars PROVE HandshakeInv'
<1> USE DEF processVars, requestVars, writeVars, turnVars
<1>1. \/ answered' = answered
      \/ \E x \in Requests, what \in {"result", "error"} : Reply(x, what)
  BY DEF Next, Resumes, SpawnEnds, WriteEnds, vars, Call, EnterStart, Spawn, SpawnFails,
         FinishStart, EnterWrite, Flushed, WriteFails, GotAnswer, GotError, TimerFires, TimedOut, TurnDone, TurnTimesOut, CancelCaller,
         TurnNotified, TurnCompleted, ProcessDies, ReturnCodeSet, LoopStops, Close
<1>2. ASSUME Handshaken PROVE Handshaken'
  <2>1. PICK q \in Callers : answered[<<q, "initialize">>] = "result"
    BY <1>2 DEF Handshaken
  <2>2. <<q, "initialize">> \in Requests  BY DEF Requests
  <2>3. answered'[<<q, "initialize">>] = "result"
    BY <1>1, <2>1, <2>2 DEF Reply, TypeOK
  <2>4. QED  BY <2>3 DEF Handshaken
<1>3. ASSUME NEW c \in Callers, FinishStart(c) PROVE Handshaken
  BY <1>3 DEF FinishStart, AnswerInv, Handshaken, Requests
<1>4. ASSUME NEW c \in Callers, Call(c) \/ EnterStart(c) \/ Flushed(c), ~ Handshaken
      PROVE  /\ UNCHANGED <<initialized, askedOf>>
             /\ \A q \in Callers : pc'[q] \notin {"announcing", "posting"}
  BY <1>4 DEF Call, EnterStart, Flushed, Ready, HandshakeInv, TypeOK, End
<1>5. ASSUME NEW c \in Callers, Spawn(c), ~ Handshaken
      PROVE  /\ UNCHANGED initialized
             /\ \A q \in Callers : askedOf'[<<q, "call">>] = askedOf[<<q, "call">>]
             /\ \A q \in Callers : pc'[q] \notin {"announcing", "posting"}
  BY <1>5 DEF Spawn, Write, Written, RequestAt, Requests, HandshakeInv, TypeOK
<1>6. ASSUME NEW c \in Callers, EnterWrite(c), ~ Handshaken
      PROVE  /\ UNCHANGED <<initialized, pc>>
             /\ \A q \in Callers : askedOf'[<<q, "call">>] = askedOf[<<q, "call">>]
  BY <1>6 DEF EnterWrite, Written, RequestAt, Requests, Writing, HandshakeInv, TypeOK
<1>7. \/ UNCHANGED <<initialized, askedOf>>
      \/ \E c \in Callers :
             Call(c) \/ EnterStart(c) \/ Flushed(c) \/ Spawn(c) \/ EnterWrite(c) \/ FinishStart(c)
  BY DEF Next, Resumes, SpawnEnds, WriteEnds, vars, SpawnFails, GotAnswer, GotError, TimerFires,
         TimedOut, TurnDone, TurnTimesOut, CancelCaller, TurnNotified, TurnCompleted, WriteFails,
         Reply, ProcessDies, ReturnCodeSet, LoopStops, Close
<1>8. \/ \A q \in Callers : pc'[q] \in {"announcing", "posting"} => pc'[q] = pc[q]
      \/ \E c \in Callers :
             Call(c) \/ EnterStart(c) \/ Flushed(c) \/ Spawn(c) \/ EnterWrite(c) \/ FinishStart(c)
  <2>1. \/ pc' = pc
        \/ \E c \in Callers, place \in {"turning", "done"} : pc' = [pc EXCEPT ![c] = place]
        \/ \E c \in Callers :
               Call(c) \/ EnterStart(c) \/ Flushed(c) \/ Spawn(c) \/ EnterWrite(c) \/ FinishStart(c)
    BY DEF Next, Resumes, SpawnEnds, WriteEnds, vars, SpawnFails, GotAnswer, GotError, TimerFires,
           TimedOut, TurnDone, TurnTimesOut, CancelCaller, TurnNotified, TurnCompleted,
           WriteFails, Reply, ProcessDies, ReturnCodeSet, LoopStops, Close, End
  <2>2. QED  BY <2>1 DEF TypeOK
<1>9. CASE Handshaken
  BY <1>2, <1>9 DEF HandshakeInv
<1>10. CASE ~ Handshaken
  <2>1. /\ ~ initialized
        /\ \A q \in Callers : askedOf[<<q, "call">>] = 0 /\ pc[q] \notin {"announcing", "posting"}
    BY <1>10 DEF HandshakeInv
  <2>2. /\ ~ initialized'
        /\ \A q \in Callers : askedOf'[<<q, "call">>] = 0 /\ pc'[q] \notin {"announcing", "posting"}
    BY <1>3, <1>4, <1>5, <1>6, <1>7, <1>8, <1>10, <2>1
  <2>3. QED  BY <2>2 DEF HandshakeInv
<1>11. QED  BY <1>9, <1>10

\* The inductive invariant holds initially.
LEMMA InitIInv == Init => IInv
<1> SUFFICES ASSUME Init PROVE IInv
    OBVIOUS
<1>1. TypeOK  BY InitTypeOK
<1>2. OneStarter /\ AwaitedIsRegistered /\ TurnInv
  BY NoCallerAssumption DEF Init, OneStarter, AwaitedIsRegistered, TurnInv
<1>3. AnswerInv  BY DEF Init, AnswerInv
<1>4. HandshakeInv  BY DEF Init, HandshakeInv, Requests
<1>5. QED  BY <1>1, <1>2, <1>3, <1>4 DEF IInv

\* Every step keeps the inductive invariant.
LEMMA NextIInv == IInv /\ [Next]_vars => IInv'
  BY NextTypeOK, NextOneStarter, NextAwaitedIsRegistered, NextTurnInv, NextAnswerInv,
     NextHandshakeInv DEF IInv

\* The inductive invariant of the client, for any number of callers and processes.
THEOREM SpecIInv == Spec => []IInv
  BY InitIInv, NextIInv, PTL DEF Spec

\* At any time at most one caller starts a process, and only it holds the start lock.
THEOREM SpecOneStarter == Spec => []OneStarter
<1>1. IInv => OneStarter  BY DEF IInv
<1>2. QED  BY <1>1, SpecIInv, PTL

\* A caller that waits for an answer has its request in the table, whatever loop ended.
THEOREM SpecAwaitedIsRegistered == Spec => []AwaitedIsRegistered
<1>1. IInv => AwaitedIsRegistered  BY DEF IInv
<1>2. QED  BY <1>1, SpecIInv, PTL

\* send_message never misses the completion of its turn, however early it comes.
THEOREM SpecCompletionIsHeard == Spec => []CompletionIsHeard
<1>1. IInv => CompletionIsHeard  BY DEF IInv, TypeOK, TurnInv, CompletionIsHeard
<1>2. QED  BY <1>1, SpecIInv, PTL

\* A call succeeds only if Codex accepted it, and a turn only if it completed unfailed.
THEOREM SpecSuccessIsGenuine == Spec => []SuccessIsGenuine
<1>1. IInv => SuccessIsGenuine  BY DEF IInv, AnswerInv, SuccessIsGenuine
<1>2. QED  BY <1>1, SpecIInv, PTL

\* No process is sent a request before some process answered a handshake.
THEOREM SpecNothingBeforeHandshake == Spec => []NothingBeforeHandshake
<1>1. IInv => NothingBeforeHandshake
  BY DEF IInv, HandshakeInv, Handshaken, NothingBeforeHandshake
<1>2. QED  BY <1>1, SpecIInv, PTL
=============================================================================
