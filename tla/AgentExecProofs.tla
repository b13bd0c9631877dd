---------------------------- MODULE AgentExecProofs ----------------------------
(***************************************************************************)
(* A host that gets the exit line has all output and the true status,      *)
(* for every number of chunks and every size of the pipes.                 *)
(*                                                                         *)
(* Most of the invariant is about the time before the host has gone: until *)
(* then no write fails, so no reader does, and the handler gets to its     *)
(* exit line only over two readers that have come to the end of their      *)
(* pipes.  What the host has of a stream and what is on the wire are its   *)
(* chunks, each once and in their order.                                   *)
(***************************************************************************)
EXTENDS AgentExec, Integers, SequenceTheorems, TLAPS

Connected == host \in {"start", "reading"}

\* Before sh there is nothing.
BeforeShell ==
    /\ main = "accept" => sh = "none" /\ joined = 0 /\ dones = 0 /\ errs = 0
    /\ sh = "none" =>
          /\ main \in {"accept", "ended"}
          /\ ~background
          /\ ctx = "live"
          /\ \A s \in Streams : written[s] = 0 /\ taken[s] = 0 /\ reader[s] = "off"
    /\ \A s \in Streams : reader[s] = "off" => sh = "none"

\* The pipes are open until Wait closes them, after the end of sh.
HandlerAt ==
    /\ main = "join" => joined \in 0 .. 1
    /\ main \in {"join", "wait"} => pipes
    /\ main = "exit" => sh \in DOMAIN ShellStatus /\ code = ShellStatus[sh]
    /\ ctx = "live" => sh # "killed"

\* Chunks of s that have been written to the connection.
Sent(s) == IF reader[s] = "encode" THEN taken[s] - 1 ELSE taken[s]

AtEncode == \A s \in Streams : reader[s] = "encode" => taken[s] > 0

Drained(s) == taken[s] = written[s] /\ NobodyWrites

Ended(s) == IF reader[s] = "ended" THEN 1 ELSE 0

\* While the host is there, no reader fails.
NoFailure ==
    /\ ~broken
    /\ errs = 0
    /\ ctx # "cancelled"
    /\ result.end = "none"
    /\ \A s \in Streams : reader[s] # "error"

\* A reader that has ended has read all there will ever be.
ReadToTheEnd ==
    \A s \in Streams : reader[s] \in {"done", "ended"} => Drained(s)

\* The handler goes on when both have.
Joined ==
    /\ joined + dones = Ended("stdout") + Ended("stderr")
    /\ main \in {"wait", "exit"} => joined = 2
    /\ main = "ended" => sh = "none" \/ (joined = 2 /\ sh \in DOMAIN ShellStatus)

OnWire(s, n) == \E i \in 1 .. Len(wire) : wire[i] = [kind |-> s, n |-> n]

\* What the host has, and what it is going to get.
Delivered(s) ==
    /\ result.out[s] = [i \in 1 .. Len(result.out[s]) |-> i]
    /\ Len(result.out[s]) <= Sent(s)
    /\ \A n \in Nat : OnWire(s, n) <=> n \in Len(result.out[s]) + 1 .. Sent(s)
    /\ \A i, j \in 1 .. Len(wire) :
          wire[i].kind = s /\ wire[j].kind = s /\ i < j => wire[i].n < wire[j].n

StatusIs(n) ==
    \/ sh \in {"ok", "failed"} /\ n = ShellStatus[sh]
    \/ n = TimedOut /\ ctx = "expired"
    \/ n = 1 /\ sh = "none"

ExitLineIsLast ==
    \A i \in 1 .. Len(wire) :
       wire[i].kind = "exit" => i = Len(wire) /\ main = "ended" /\ StatusIs(wire[i].n)

WhileConnected ==
    /\ NoFailure
    /\ ReadToTheEnd
    /\ Joined
    /\ \A s \in Streams : Delivered(s)
    /\ ExitLineIsLast

AfterExitLine ==
    result.end = "exit" =>
       /\ main = "ended"
       /\ NobodyWrites
       /\ OutputIsComplete
       /\ StatusIsOfShell

IInv ==
    /\ TypeOK
    /\ BeforeShell
    /\ HandlerAt
    /\ AtEncode
    /\ Connected => WhileConnected
    /\ AfterExitLine

-----------------------------------------------------------------------------
LEMMA InitInv == Init => IInv
<1> SUFFICES ASSUME Init PROVE IInv
  OBVIOUS
<1>1. TypeOK
  <2>1. NoOutput \in [Streams -> Seq(1 .. MaxChunks)]
    BY DEF NoOutput
  <2>2. taken \in [Streams -> 0 .. MaxChunks] /\ written = taken
    BY BoundsAssumption DEF Init
  <2>3. reader \in [Streams -> {"off", "read", "encode", "error", "done", "ended"}]
    BY DEF Init
  <2>4. wire \in Seq(Line)
    BY DEF Init
  <2>5. result \in [end : {"none", "exit", "eof", "error"}, code : Nat,
                    out : [Streams -> Seq(1 .. MaxChunks)]]
    BY <2>1 DEF Init
  <2>6. \A s \in Streams : taken[s] <= written[s]
    BY DEF Init
  <2>7. /\ host = "start" /\ main = "accept" /\ sh = "none" /\ ctx = "live"
        /\ joined = 0 /\ code = 0 /\ dones = 0 /\ errs = 0
        /\ {closed, broken, pipes, background, up} \subseteq BOOLEAN
    BY DEF Init
  <2> QED
    BY <2>2, <2>3, <2>4, <2>5, <2>6, <2>7 DEF TypeOK, ChannelSize
<1>2. BeforeShell /\ HandlerAt /\ AtEncode
  BY DEF Init, BeforeShell, HandlerAt, AtEncode
<1>3. WhileConnected
  <2>1. NoFailure /\ ReadToTheEnd /\ Joined /\ ExitLineIsLast
    BY DEF Init, NoFailure, ReadToTheEnd, Joined, Ended, Streams, ExitLineIsLast
  <2>2. \A s \in Streams : Delivered(s)
    BY DEF Init, Delivered, OnWire, Sent, NoOutput
  <2> QED
    BY <2>1, <2>2 DEF WhileConnected
<1>4. AfterExitLine
  BY DEF Init, AfterExitLine
<1> QED
  BY <1>1, <1>2, <1>3, <1>4 DEF IInv

\* A line of output that the host takes is one of its stream's chunks.
LEMMA HeadIsNext ==
    ASSUME TypeOK, WhileConnected, wire # <<>>, Head(wire).kind # "exit"
    PROVE  /\ Head(wire).kind \in Streams
           /\ Head(wire).n = Len(result.out[Head(wire).kind]) + 1
           /\ Head(wire).n \in 1 .. MaxChunks
<1> DEFINE s == Head(wire).kind
           next == Len(result.out[s]) + 1
<1>1. wire \in Seq(Line) /\ Len(wire) \in Nat \ {0} /\ Head(wire) = wire[1] /\ wire[1] \in Line
  BY DEF TypeOK
<1>2. s \in Streams /\ wire[1].n \in Nat /\ wire[1] = [kind |-> s, n |-> wire[1].n]
  BY <1>1 DEF Line
<1>3. Delivered(s)
  BY <1>2 DEF WhileConnected
<1>4. taken[s] \in 0 .. MaxChunks /\ MaxChunks \in Nat
  BY <1>2, BoundsAssumption DEF TypeOK
<1>5. result.out[s] \in Seq(1 .. MaxChunks)
  BY <1>2 DEF TypeOK
<1>6. next \in Nat
  BY <1>5
<1>7. OnWire(s, wire[1].n)
  BY <1>1, <1>2 DEF OnWire
<1>8. wire[1].n \in next .. Sent(s)
  BY <1>2, <1>3, <1>7 DEF Delivered
<1>9. OnWire(s, next)
  <2>1. Sent(s) \in Int
    BY <1>4 DEF Sent
  <2>2. next \in next .. Sent(s)
    BY <1>2, <1>6, <1>8, <2>1
  <2> QED
    BY <1>3, <1>6, <2>2 DEF Delivered
<1>10. PICK i \in 1 .. Len(wire) : wire[i] = [kind |-> s, n |-> next]
  BY <1>9 DEF OnWire
<1>11. i = 1
  <2>1. CASE i > 1
    <3>1. wire[1].n < wire[i].n
      BY <1>1, <1>2, <1>3, <1>10, <2>1 DEF Delivered
    <3> QED
      BY <1>2, <1>6, <1>8, <1>10, <3>1 DEF Sent
  <2> QED
    BY <1>1, <2>1
<1>12. wire[1].n = next
  BY <1>10, <1>11
<1> QED
  BY <1>1, <1>2, <1>4, <1>6, <1>8, <1>12 DEF Sent

LEMMA WriteType ==
    ASSUME wire \in Seq(Line), NEW line \in Line, WriteOK(line) \/ WriteFails
    PROVE  wire' \in Seq(Line) /\ broken' \in {broken, TRUE}
<1>1. CASE WriteOK(line)
  BY <1>1 DEF WriteOK
<1>2. CASE WriteFails
  BY <1>2 DEF WriteFails
<1> QED
  BY <1>1, <1>2

LEMMA TypeInv == IInv /\ [Next]_vars => TypeOK'
<1> SUFFICES ASSUME IInv, [Next]_vars PROVE TypeOK'
  OBVIOUS
<1> USE BoundsAssumption DEF ChannelSize
<1>0. TypeOK /\ BeforeShell /\ HandlerAt
  BY DEF IInv
<1>1. CASE Request
  <2>1. CASE Return("error", 0) /\ UNCHANGED wire
    BY <1>0, <2>1 DEF TypeOK, Return, guest, processes
  <2>2. CASE ~(Return("error", 0) /\ UNCHANGED wire)
    BY <1>0, <1>1, <2>2 DEF TypeOK, Request, guest, processes
  <2> QED
    BY <2>1, <2>2
<1>2. CASE Receive
  <2>1. wire' \in Seq(Line) /\ Head(wire) \in Line
    BY <1>0, <1>2 DEF TypeOK, Receive
  <2>2. CASE Head(wire).kind = "exit"
    <3>1. Return("exit", Head(wire).n) /\ Head(wire).n \in Nat
      BY <1>2, <2>1, <2>2 DEF Receive, Line
    <3>2. PICK status \in Nat : Return("exit", status)
      BY <3>1
    <3>3. result' \in [end : {"none", "exit", "eof", "error"}, code : Nat,
                       out : [Streams -> Seq(1 .. MaxChunks)]]
      BY <1>0, <3>2 DEF TypeOK, Return
    <3> QED
      BY <1>0, <2>1, <3>2, <3>3 DEF TypeOK, Return, guest, processes
  <2>3. CASE Head(wire).kind # "exit"
    <3>1. WhileConnected
      BY <1>2 DEF IInv, Receive, Connected
    <3>2. Head(wire).kind \in Streams /\ Head(wire).n \in 1 .. MaxChunks
      BY <1>0, <1>2, <2>3, <3>1, HeadIsNext DEF Receive
    <3>3. Append(result.out[Head(wire).kind], Head(wire).n) \in Seq(1 .. MaxChunks)
      BY <1>0, <3>2 DEF TypeOK
    <3>4. result' = [result EXCEPT !.out = [@ EXCEPT ![Head(wire).kind] =
                         Append(result.out[Head(wire).kind], Head(wire).n)]]
      BY <1>0, <1>2, <2>3, <3>2 DEF TypeOK, Receive
    <3>5. result' \in [end : {"none", "exit", "eof", "error"}, code : Nat,
                       out : [Streams -> Seq(1 .. MaxChunks)]]
      BY <1>0, <3>3, <3>4 DEF TypeOK
    <3> QED
      BY <1>0, <1>2, <2>1, <2>3, <3>5 DEF TypeOK, Receive, guest, processes
  <2> QED
    BY <2>2, <2>3
<1>3. CASE Eof
  BY <1>0, <1>3 DEF TypeOK, Eof, Return, guest, processes
<1>4. CASE Deadline
  BY <1>0, <1>4 DEF TypeOK, Deadline, Return, guest, processes
<1>5. CASE Interrupt
  BY <1>0, <1>5 DEF TypeOK, Interrupt, guest, processes
<1>6. CASE Refuse
  BY <1>0, <1>6 DEF TypeOK, Refuse, processes
<1>7. CASE StartFails
  <2>0. [kind |-> "exit", n |-> 1] \in Line
    BY DEF Line
  <2>1. wire' \in Seq(Line) /\ broken' \in {broken, TRUE}
    BY <1>0, <1>7, <2>0, WriteType DEF TypeOK, StartFails
  <2> QED
    BY <1>0, <1>7, <2>1 DEF TypeOK, StartFails, processes
<1>8. CASE Start
  BY <1>0, <1>8 DEF TypeOK, Start, processes
<1>9. CASE Join
  <2>1. CASE ReaderDone
    BY <1>0, <1>9, <2>1 DEF TypeOK, Join, ReaderDone, HandlerAt, processes
  <2>2. CASE ReaderFailed
    BY <1>0, <1>9, <2>2 DEF TypeOK, Join, ReaderFailed, processes
  <2> QED
    BY <1>9, <2>1, <2>2 DEF Join
<1>10. CASE Wait
  <2>1. code' \in Nat
    BY <1>10 DEF Wait, ShellStatus
  <2> QED
    BY <1>0, <1>10, <2>1 DEF TypeOK, Wait, processes
<1>11. CASE Exit
  <2>1. [kind |-> "exit", n |-> IF ctx # "live" THEN TimedOut ELSE code] \in Line
    BY <1>0 DEF TypeOK, Line, TimedOut
  <2>2. wire' \in Seq(Line) /\ broken' \in {broken, TRUE}
    BY <1>0, <1>11, <2>1, WriteType DEF TypeOK, Exit
  <2> QED
    BY <1>0, <1>11, <2>2 DEF TypeOK, Exit, processes
<1>12. ASSUME NEW s \in Streams, Reader(s) PROVE TypeOK'
  <2>1. CASE Read(s)
    <3>1. taken' \in [Streams -> 0 .. MaxChunks] /\ \A t \in Streams : taken'[t] <= written[t]
      <4>1. taken \in [Streams -> 0 .. MaxChunks] /\ written \in [Streams -> 0 .. MaxChunks]
        BY <1>0 DEF TypeOK
      <4>2. CASE UNCHANGED taken
        BY <1>0, <4>1, <4>2 DEF TypeOK
      <4>3. CASE taken[s] < written[s] /\ taken' = [taken EXCEPT ![s] = @ + 1]
        <5>1. taken[s] + 1 \in 0 .. MaxChunks /\ taken[s] + 1 <= written[s]
          BY <4>1, <4>3
        <5> QED
          BY <1>0, <4>1, <4>3, <5>1 DEF TypeOK
      <4> QED
        BY <2>1, <4>2, <4>3 DEF Read
    <3>2. reader' \in [Streams -> {"off", "read", "encode", "error", "done", "ended"}]
      BY <1>0, <2>1 DEF TypeOK, Read
    <3>3. UNCHANGED <<wire, broken, dones, errs>>
      BY <2>1 DEF Read
    <3>4. /\ {taken, written}' \subseteq [Streams -> 0 .. MaxChunks]
          /\ \A t \in Streams : taken'[t] <= written'[t]
      BY <1>0, <1>12, <3>1 DEF TypeOK, Reader, processes
    <3> QED
      BY <1>0, <1>12, <3>1, <3>2, <3>3, <3>4 DEF TypeOK, Reader, processes
  <2>2. CASE Encode(s)
    <3>1. [kind |-> s, n |-> taken[s]] \in Line
      BY <1>0 DEF TypeOK, Line
    <3>2. wire' \in Seq(Line) /\ broken' \in {broken, TRUE}
      BY <1>0, <2>2, <3>1, WriteType DEF TypeOK, Encode
    <3>3. reader' \in [Streams -> {"off", "read", "encode", "error", "done", "ended"}]
      BY <1>0, <2>2 DEF TypeOK, Encode
    <3> QED
      BY <1>0, <1>12, <2>2, <3>2, <3>3 DEF TypeOK, Reader, Encode, processes
  <2>3. CASE SendError(s)
    BY <1>0, <1>12, <2>3 DEF TypeOK, Reader, SendError, processes
  <2>4. CASE SendDone(s)
    BY <1>0, <1>12, <2>4 DEF TypeOK, Reader, SendDone, processes
  <2> QED
    BY <1>12, <2>1, <2>2, <2>3, <2>4 DEF Reader
<1>13. CASE Expire
  BY <1>0, <1>13 DEF TypeOK, Expire, processes
<1>14. CASE KillShell
  BY <1>0, <1>14 DEF TypeOK, KillShell, guest, ShellStatus
<1>15. CASE ShellExits
  BY <1>0, <1>15 DEF TypeOK, ShellExits, Process, guest, ShellStatus
<1>16. CASE ShellForks
  BY <1>0, <1>16 DEF TypeOK, ShellForks, Process, guest
<1>17. CASE BackgroundEnds
  BY <1>0, <1>17 DEF TypeOK, BackgroundEnds, Process, guest
<1>18. ASSUME NEW s \in Streams, WriteOutput(s) PROVE TypeOK'
  <2>1. /\ written[s] < MaxChunks /\ written' = [written EXCEPT ![s] = @ + 1]
        /\ UNCHANGED <<sh, background, host, result, wire, guest, up>>
    BY <1>18 DEF WriteOutput, Process, guest
  <2>2. written' \in [Streams -> 0 .. MaxChunks] /\ \A t \in Streams : taken[t] <= written'[t]
    BY <1>0, <2>1 DEF TypeOK
  <2> QED
    BY <1>0, <2>1, <2>2 DEF TypeOK, guest
<1>19. CASE Stop
  <2>1. {closed', broken', pipes', background', up'} \subseteq BOOLEAN
    BY <1>0, <1>19 DEF TypeOK, Stop, processes
  <2>2. UNCHANGED <<host, result, wire, main, joined, code, dones, errs, reader, taken, ctx,
                    written, sh>>
    BY <1>19 DEF Stop, processes
  <2> QED
    BY <1>0, <2>1, <2>2 DEF TypeOK
<1>20. CASE UNCHANGED vars
  BY <1>0, <1>20 DEF TypeOK, vars, guest, processes
<1> QED
  BY <1>1, <1>2, <1>3, <1>4, <1>5, <1>6, <1>7, <1>8, <1>9, <1>10, <1>11, <1>12, <1>13,
     <1>14, <1>15, <1>16, <1>17, <1>18, <1>19, <1>20
     DEF Next, Host, Guest, Handler, Processes, Finished

LEMMA ShapeInv == IInv /\ [Next]_vars => (BeforeShell /\ HandlerAt /\ AtEncode)'
<1> SUFFICES ASSUME IInv, [Next]_vars PROVE (BeforeShell /\ HandlerAt /\ AtEncode)'
  OBVIOUS
<1> USE DEF BeforeShell, HandlerAt, AtEncode
<1>0. TypeOK /\ BeforeShell /\ HandlerAt /\ AtEncode
  BY DEF IInv
<1>t. /\ reader \in [Streams -> {"off", "read", "encode", "error", "done", "ended"}]
      /\ taken \in [Streams -> 0 .. MaxChunks]
      /\ written \in [Streams -> 0 .. MaxChunks]
  BY <1>0 DEF TypeOK
<1>1. CASE Request
  BY <1>0, <1>1 DEF Request, Return, guest, processes
<1>2. CASE Receive
  BY <1>0, <1>2 DEF Receive, Return, guest, processes
<1>3. CASE Eof
  BY <1>0, <1>3 DEF Eof, Return, guest, processes
<1>4. CASE Deadline
  BY <1>0, <1>4 DEF Deadline, Return, guest, processes
<1>5. CASE Interrupt
  BY <1>0, <1>5 DEF Interrupt, guest, processes
<1>6. CASE Refuse
  BY <1>0, <1>6 DEF Refuse, Accept, processes
<1>7. CASE StartFails
  BY <1>0, <1>7 DEF StartFails, Accept, processes
<1>8. CASE Start
  BY <1>0, <1>8 DEF Start, Accept, processes
<1>9. CASE Join
  BY <1>0, <1>9 DEF TypeOK, Join, ReaderDone, ReaderFailed, processes
<1>10. CASE Wait
  BY <1>0, <1>10 DEF TypeOK, Wait, ShellStatus, processes
<1>11. CASE Exit
  BY <1>0, <1>11 DEF Exit, processes
<1>12. ASSUME NEW s \in Streams, Reader(s) PROVE (BeforeShell /\ HandlerAt /\ AtEncode)'
  <2>1. reader[s] # "off" /\ sh # "none"
    BY <1>0, <1>12 DEF Reader, Read, Encode, SendError, SendDone
  <2>2. UNCHANGED <<main, joined, code, pipes, ctx, sh, background>>
    BY <1>12 DEF Reader, processes
  <2>3. AtEncode'
    BY <1>0, <1>t, <1>12 DEF Reader, Read, Encode, SendError, SendDone
  <2>4. \A t \in Streams : reader'[t] = "off" => reader[t] = "off"
    BY <1>0, <1>t, <1>12, <2>1 DEF Reader, Read, Encode, SendError, SendDone
  <2> QED
    BY <1>0, <2>1, <2>2, <2>3, <2>4
<1>13. CASE Expire
  BY <1>0, <1>13 DEF Expire, processes
<1>14. CASE KillShell
  BY <1>0, <1>14 DEF KillShell, guest, ShellStatus
<1>15. CASE ShellExits
  BY <1>0, <1>15 DEF ShellExits, Process, guest, ShellStatus
<1>16. CASE ShellForks
  BY <1>0, <1>16 DEF ShellForks, Process, guest
<1>17. CASE BackgroundEnds
  BY <1>0, <1>17 DEF BackgroundEnds, Process, guest
<1>18. ASSUME NEW s \in Streams, WriteOutput(s) PROVE (BeforeShell /\ HandlerAt /\ AtEncode)'
  BY <1>0, <1>18 DEF WriteOutput, Process, guest, NobodyWrites
<1>19. CASE Stop
  BY <1>0, <1>19 DEF Stop, processes
<1>20. CASE UNCHANGED vars
  BY <1>0, <1>20 DEF vars, guest, processes
<1> QED
  BY <1>1, <1>2, <1>3, <1>4, <1>5, <1>6, <1>7, <1>8, <1>9, <1>10, <1>11, <1>12, <1>13,
     <1>14, <1>15, <1>16, <1>17, <1>18, <1>19, <1>20
     DEF Next, Host, Guest, Handler, Processes, Finished

-----------------------------------------------------------------------------
\* Lines of a stream on the wire are among its chunks.
LEMMA LineIsChunk ==
    ASSUME TypeOK, NEW s \in Streams, Delivered(s),
           NEW i \in 1 .. Len(wire), wire[i].kind = s
    PROVE  wire[i].n \in Len(result.out[s]) + 1 .. Sent(s)
<1>1. wire[i] \in Line
  BY DEF TypeOK
<1>2. wire[i].n \in Nat /\ wire[i] = [kind |-> s, n |-> wire[i].n]
  BY <1>1 DEF Line
<1>3. OnWire(s, wire[i].n)
  BY <1>2 DEF OnWire
<1> QED
  BY <1>2, <1>3 DEF Delivered

\* Nothing is written, nothing received.
LEMMA SameWire ==
    ASSUME UNCHANGED <<wire, result>>, NEW s \in Streams, Delivered(s), Sent(s)' = Sent(s)
    PROVE  Delivered(s)'
  BY DEF Delivered, OnWire

\* A chunk of output on its way.
LEMMA ChunkWritten ==
    ASSUME TypeOK, AtEncode, Connected, NEW s \in Streams,
           reader[s] = "encode", WriteOK([kind |-> s, n |-> taken[s]]),
           reader' = [reader EXCEPT ![s] = "read"], UNCHANGED <<taken, result>>,
           \A t \in Streams : Delivered(t)
    PROVE  \A t \in Streams : Delivered(t)'
<1> DEFINE line == [kind |-> s, n |-> taken[s]]
<1>1. wire \in Seq(Line) /\ Len(wire) \in Nat
  BY DEF TypeOK
<1>2. wire' = Append(wire, line)
  BY DEF WriteOK, HostGone, Connected
<1>3. /\ Len(wire') = Len(wire) + 1
      /\ \A i \in 1 .. Len(wire) : wire'[i] = wire[i]
      /\ wire'[Len(wire) + 1] = line
  BY <1>1, <1>2
<1>4. taken[s] \in Nat \ {0} /\ Sent(s) = taken[s] - 1 /\ Sent(s)' = taken[s]
  BY DEF TypeOK, AtEncode, Sent
<1>5. ASSUME NEW t \in Streams PROVE Delivered(t)'
  <2>0. Delivered(t) /\ UNCHANGED result /\ Len(result.out[t]) \in Nat
    BY DEF TypeOK
  <2>1. CASE t # s
    <3>1. Sent(t)' = Sent(t)
      BY <2>1 DEF TypeOK, Sent
    <3>2. ASSUME NEW n \in Nat PROVE OnWire(t, n)' <=> OnWire(t, n)
      <4>1. line # [kind |-> t, n |-> n]
        BY <2>1
      <4>2. ASSUME NEW l, l # line
            PROVE  (\E i \in 1 .. Len(wire') : wire'[i] = l) <=> \E i \in 1 .. Len(wire) : wire[i] = l
        BY <1>1, <1>3, <4>2
      <4> QED
        BY <4>1, <4>2 DEF OnWire
    <3>3. \A i, j \in 1 .. Len(wire') :
             wire'[i].kind = t /\ wire'[j].kind = t /\ i < j => wire'[i].n < wire'[j].n
      <4>1. \A i \in 1 .. Len(wire') : wire'[i].kind = t => i \in 1 .. Len(wire)
        BY <1>1, <1>3, <2>1
      <4> QED
        BY <1>3, <2>0, <4>1 DEF Delivered
    <3> QED
      BY <2>0, <3>1, <3>2, <3>3 DEF Delivered
  <2>2. CASE t = s
    <3>1. ASSUME NEW n \in Nat
          PROVE  OnWire(s, n)' <=> n \in Len(result.out[s]) + 1 .. Sent(s)'
      <4>1. OnWire(s, n)' <=> OnWire(s, n) \/ n = taken[s]
        BY <1>1, <1>3 DEF OnWire
      <4>2. OnWire(s, n) <=> n \in Len(result.out[s]) + 1 .. taken[s] - 1
        BY <1>4, <2>0, <2>2 DEF Delivered
      <4>3. Len(result.out[s]) < taken[s]
        BY <1>4, <2>0, <2>2 DEF Delivered
      <4> QED
        BY <1>4, <2>0, <2>2, <4>1, <4>2, <4>3
    <3>2. ASSUME NEW i \in 1 .. Len(wire'), NEW j \in 1 .. Len(wire'),
                 wire'[i].kind = s, wire'[j].kind = s, i < j
          PROVE  wire'[i].n < wire'[j].n
      <4>1. i \in 1 .. Len(wire) /\ wire'[i] = wire[i]
        BY <1>1, <1>3, <3>2
      <4>2. wire[i].n \in Len(result.out[s]) + 1 .. taken[s] - 1
        BY <1>4, <2>0, <2>2, <3>2, <4>1, LineIsChunk
      <4>3. CASE j \in 1 .. Len(wire)
        BY <1>3, <2>0, <2>2, <3>2, <4>1, <4>3 DEF Delivered
      <4>4. CASE j = Len(wire) + 1
        BY <1>3, <1>4, <2>0, <2>2, <4>1, <4>2, <4>4
      <4> QED
        BY <1>1, <1>3, <4>3, <4>4
    <3> QED
      BY <1>4, <2>0, <2>2, <3>1, <3>2 DEF Delivered
  <2> QED
    BY <2>1, <2>2
<1> QED
  BY <1>5

\* The exit line on its way.
LEMMA ExitLineWritten ==
    ASSUME TypeOK, Connected, NEW n \in Nat, WriteOK([kind |-> "exit", n |-> n]),
           UNCHANGED <<reader, taken, result>>,
           \A s \in Streams : Delivered(s)
    PROVE  \A s \in Streams : Delivered(s)'
<1> DEFINE line == [kind |-> "exit", n |-> n]
<1>1. wire \in Seq(Line) /\ Len(wire) \in Nat
  BY DEF TypeOK
<1>2. wire' = Append(wire, line)
  BY DEF WriteOK, HostGone, Connected
<1>3. /\ Len(wire') = Len(wire) + 1
      /\ \A i \in 1 .. Len(wire) : wire'[i] = wire[i]
      /\ wire'[Len(wire) + 1] = line
  BY <1>1, <1>2
<1>4. ASSUME NEW t \in Streams PROVE Delivered(t)'
  <2>1. Delivered(t) /\ UNCHANGED result /\ Sent(t)' = Sent(t) /\ t # "exit"
    BY DEF Sent, Streams
  <2>2. ASSUME NEW m \in Nat PROVE OnWire(t, m)' <=> OnWire(t, m)
    <3>1. line # [kind |-> t, n |-> m]
      BY <2>1
    <3> QED
      BY <1>1, <1>3, <3>1 DEF OnWire
  <2>3. \A i, j \in 1 .. Len(wire') :
           wire'[i].kind = t /\ wire'[j].kind = t /\ i < j => wire'[i].n < wire'[j].n
    <3>1. \A i \in 1 .. Len(wire') : wire'[i].kind = t => i \in 1 .. Len(wire)
      BY <1>1, <1>3, <2>1
    <3> QED
      BY <1>3, <2>1, <3>1 DEF Delivered
  <2> QED
    BY <2>1, <2>2, <2>3 DEF Delivered
<1> QED
  BY <1>4

\* The host takes a chunk.
LEMMA ChunkReceived ==
    ASSUME TypeOK, WhileConnected, wire # <<>>, Head(wire).kind # "exit",
           wire' = Tail(wire), UNCHANGED <<reader, taken>>,
           result' = [result EXCEPT !.out[Head(wire).kind] = Append(@, Head(wire).n)]
    PROVE  \A s \in Streams : Delivered(s)'
<1> DEFINE s == Head(wire).kind
           n == Head(wire).n
<1>1. wire \in Seq(Line) /\ Len(wire) \in Nat \ {0} /\ Head(wire) = wire[1] /\ wire[1] \in Line
  BY DEF TypeOK
<1>2. s \in Streams /\ n = Len(result.out[s]) + 1 /\ n \in 1 .. MaxChunks
  BY HeadIsNext
<1>3. Len(wire') = Len(wire) - 1 /\ \A i \in 1 .. Len(wire') : wire'[i] = wire[i + 1]
  BY <1>1
<1>4. /\ result.out \in [Streams -> Seq(1 .. MaxChunks)]
      /\ result'.out = [result.out EXCEPT ![s] = Append(@, n)]
  BY <1>2 DEF TypeOK
<1>5. ASSUME NEW t \in Streams PROVE Delivered(t)'
  <2>0. Delivered(t) /\ Len(result.out[t]) \in Nat
    BY <1>4 DEF WhileConnected
  <2>1. Sent(t)' = Sent(t) /\ Sent(t) \in Int
    BY DEF Sent, TypeOK
  <2>2. \A i, j \in 1 .. Len(wire') :
           wire'[i].kind = t /\ wire'[j].kind = t /\ i < j => wire'[i].n < wire'[j].n
    BY <1>1, <1>3, <2>0 DEF Delivered
  <2>3. CASE t # s
    <3>1. result'.out[t] = result.out[t]
      BY <1>4, <2>3
    <3>2. ASSUME NEW m \in Nat PROVE OnWire(t, m)' <=> OnWire(t, m)
      <4>1. wire[1] # [kind |-> t, n |-> m]
        BY <1>1, <2>3
      <4>2. OnWire(t, m) => OnWire(t, m)'
        <5> SUFFICES ASSUME NEW i \in 1 .. Len(wire), wire[i] = [kind |-> t, n |-> m]
                     PROVE  OnWire(t, m)'
          BY DEF OnWire
        <5>1. i - 1 \in 1 .. Len(wire')
          BY <1>1, <1>3, <4>1
        <5>2. wire'[i - 1] = wire[i]
          BY <1>3, <5>1
        <5> QED
          BY <5>1, <5>2 DEF OnWire
      <4> QED
        BY <1>1, <1>3, <4>2 DEF OnWire
    <3> QED
      BY <2>0, <2>1, <2>2, <3>1, <3>2 DEF Delivered
  <2>4. CASE t = s
    <3>1. result'.out[t] = Append(result.out[t], n) /\ Len(result'.out[t]) = n
      BY <1>2, <1>4, <2>0, <2>4
    <3>2. result'.out[t] = [i \in 1 .. n |-> i]
      <4>1. \A i \in 1 .. n : Append(result.out[t], n)[i] = i
        BY <1>2, <1>4, <2>0, <2>4 DEF Delivered
      <4>2. Append(result.out[t], n) \in Seq(1 .. MaxChunks)
        BY <1>2, <1>4, <2>4
      <4>3. Append(result.out[t], n) \in [1 .. n -> 1 .. MaxChunks]
        BY <3>1, <4>2, LenProperties
      <4> QED
        BY <3>1, <4>1, <4>3
    <3>3. n <= Sent(t)
      <4>1. wire[1].n \in Len(result.out[t]) + 1 .. Sent(t)
        BY <1>1, <2>0, <2>4, LineIsChunk
      <4> QED
        BY <1>1, <1>2, <2>1, <4>1
    <3>4. ASSUME NEW m \in Nat PROVE OnWire(t, m)' <=> m \in n + 1 .. Sent(t)
      <4>1. OnWire(t, m) <=> m \in n .. Sent(t)
        BY <1>2, <2>0, <2>4 DEF Delivered
      <4>2. ASSUME NEW i \in 1 .. Len(wire'), wire'[i] = [kind |-> t, n |-> m] PROVE m > n
        <5>1. i + 1 \in 1 .. Len(wire) /\ wire[i + 1].kind = t /\ wire[i + 1].n = m
          BY <1>1, <1>3, <4>2
        <5>2. 1 \in 1 .. Len(wire) /\ wire[1].kind = t /\ 1 < i + 1
          BY <1>1, <2>4
        <5>3. wire[1].n < wire[i + 1].n
          BY <2>0, <5>1, <5>2 DEF Delivered
        <5> QED
          BY <1>1, <5>1, <5>3
      <4>3. OnWire(t, m)' => OnWire(t, m)
        BY <1>1, <1>3 DEF OnWire
      <4>4. OnWire(t, m)' => m > n
        BY <4>2 DEF OnWire
      <4>5. ASSUME OnWire(t, m), m > n PROVE OnWire(t, m)'
        <5>1. PICK i \in 1 .. Len(wire) : wire[i] = [kind |-> t, n |-> m]
          BY <4>5 DEF OnWire
        <5>2. i # 1
          BY <1>1, <1>2, <4>5, <5>1
        <5>3. i - 1 \in 1 .. Len(wire') /\ wire'[i - 1] = wire[i]
          BY <1>1, <1>3, <5>2
        <5> QED
          BY <5>1, <5>3 DEF OnWire
      <4> QED
        BY <1>2, <2>1, <4>1, <4>3, <4>4, <4>5
    <3> QED
      BY <2>1, <2>2, <3>1, <3>2, <3>3, <3>4 DEF Delivered
  <2> QED
    BY <2>3, <2>4
<1> QED
  BY <1>5

\* The exit line comes after everything else.
LEMMA NoExitLineBefore ==
    ASSUME ExitLineIsLast, main # "ended"
    PROVE  \A i \in 1 .. Len(wire) : wire[i].kind # "exit"
  BY DEF ExitLineIsLast

\* A handler that waits for sh, or has done so, has heard of both readers.
LEMMA JoinedBoth ==
    ASSUME TypeOK, Joined, joined = 2
    PROVE  \A s \in Streams : reader[s] = "ended"
  BY DEF TypeOK, Joined, Ended, Streams, ChannelSize

\* The output of a command whose end the handler has seen is all sent.
LEMMA EndIsDrained ==
    ASSUME TypeOK, BeforeShell, ReadToTheEnd, Joined, main = "ended"
    PROVE  NobodyWrites /\ \A s \in Streams : Sent(s) = written[s]
<1>1. CASE sh = "none"
  BY <1>1 DEF BeforeShell, NobodyWrites, Sent
<1>2. CASE joined = 2
  BY <1>2, JoinedBoth DEF ReadToTheEnd, Drained, Sent, Streams
<1> QED
  BY <1>1, <1>2 DEF Joined

\* The line that Exit writes has the status of sh.
LEMMA ExitStatus ==
    ASSUME TypeOK, HandlerAt, WhileConnected, main = "exit"
    PROVE  StatusIs(IF ctx # "live" THEN TimedOut ELSE code)
<1>1. sh \in {"ok", "failed", "killed"} /\ code = ShellStatus[sh]
  BY DEF HandlerAt, ShellStatus
<1>2. CASE ctx # "live"
  <2>1. ctx = "expired"
    BY <1>2 DEF TypeOK, WhileConnected, NoFailure
  <2> QED
    BY <1>2, <2>1 DEF StatusIs
<1>3. CASE ctx = "live"
  <2>1. sh \in {"ok", "failed"}
    BY <1>1, <1>3 DEF HandlerAt
  <2> QED
    BY <1>1, <1>3, <2>1 DEF StatusIs
<1> QED
  BY <1>2, <1>3

\* A step that touches neither the connection nor the readers.
LEMMA QuietStep ==
    ASSUME TypeOK, WhileConnected,
           UNCHANGED <<wire, result, broken, errs, dones, joined, reader, taken>>,
           main' = "ended" <=> main = "ended",
           main = "ended" => UNCHANGED <<sh, ctx>>,
           main' \in {"wait", "exit"} => joined = 2,
           ctx' # "cancelled", 
           \A s \in Streams : Drained(s) => Drained(s)'
    PROVE  WhileConnected'
<1>1. NoFailure'
  BY DEF WhileConnected, NoFailure
<1>2. ReadToTheEnd'
  BY DEF WhileConnected, ReadToTheEnd
<1>3. Joined'
  BY DEF WhileConnected, Joined, Ended
<1>4. \A s \in Streams : Delivered(s)'
  <2>1. \A s \in Streams : Sent(s)' = Sent(s)
    BY DEF Sent
  <2> QED
    BY <2>1, SameWire DEF WhileConnected
<1>5. ExitLineIsLast'
  BY DEF WhileConnected, ExitLineIsLast, StatusIs
<1> QED
  BY <1>1, <1>2, <1>3, <1>4, <1>5 DEF WhileConnected

LEMMA ConnectedInv ==
    ASSUME IInv, [Next]_vars, Connected'
    PROVE  WhileConnected'
<1>1. Connected /\ ~HostGone
  <2>1. host' = host \/ host = "start" \/ host' \in {"returned", "interrupted"}
    BY DEF Next, Host, Request, Receive, Eof, Deadline, Interrupt, Return, Guest, Refuse,
           StartFails, Handler, Start, Join, Wait, Exit, Expire, KillShell, Reader, Processes,
           ShellExits, ShellForks, BackgroundEnds, WriteOutput, Process, Stop, Finished, vars
  <2> QED
    BY <2>1 DEF Connected, HostGone
<1>2. TypeOK /\ BeforeShell /\ HandlerAt /\ AtEncode /\ WhileConnected
  BY <1>1 DEF IInv
<1>3. NoFailure /\ ReadToTheEnd /\ Joined /\ ExitLineIsLast /\ \A s \in Streams : Delivered(s)
  BY <1>2 DEF WhileConnected
<1>4. ~WriteFails
  BY <1>1, <1>3 DEF WriteFails, NoFailure
<1>5. ~HostGone' /\ \A end, c : ~Return(end, c)
  BY DEF Connected, HostGone, Return
<1> USE DEF guest, processes
<1>6. CASE Request \/ Stop \/ UNCHANGED vars
  <2>1. UNCHANGED <<wire, result, broken, main, joined, code, dones, errs, reader, taken, ctx,
                    processes>>
    BY <1>5, <1>6 DEF Request, Stop, vars
  <2>2. /\ UNCHANGED <<wire, result, broken, errs, dones, joined, reader, taken, main, sh, ctx>>
        /\ main' \in {"wait", "exit"} => joined = 2
        /\ ctx' # "cancelled"
    BY <1>3, <2>1 DEF Joined, NoFailure
  <2>3. \A s \in Streams : Drained(s) => Drained(s)'
    BY <2>1 DEF Drained, NobodyWrites
  <2> QED
    BY <1>2, <2>2, <2>3, QuietStep
<1>7. CASE Receive
  <2>1. /\ Head(wire).kind # "exit" /\ wire # <<>> /\ wire' = Tail(wire)
        /\ result' = [result EXCEPT !.out[Head(wire).kind] = Append(@, Head(wire).n)]
        /\ UNCHANGED <<guest, processes>>
    BY <1>5, <1>7 DEF Receive
  <2>2. \A s \in Streams : Delivered(s)'
    BY <1>2, <2>1, ChunkReceived
  <2>3. NoFailure' /\ ReadToTheEnd' /\ Joined'
    <3>1. result'.end = result.end
      BY <2>1
    <3> QED
      BY <1>3, <2>1, <3>1 DEF NoFailure, ReadToTheEnd, Drained, NobodyWrites, Joined, Ended
  <2>4. ExitLineIsLast'
    <3>1. wire \in Seq(Line) /\ Len(wire) \in Nat \ {0}
      BY <1>2, <2>1 DEF TypeOK
    <3>2. Len(wire') = Len(wire) - 1 /\ \A i \in 1 .. Len(wire') : wire'[i] = wire[i + 1]
      BY <2>1, <3>1
    <3> QED
      BY <1>3, <2>1, <3>1, <3>2 DEF ExitLineIsLast, StatusIs
  <2> QED
    BY <2>2, <2>3, <2>4 DEF WhileConnected
<1>8. CASE Eof \/ Deadline \/ Interrupt
  BY <1>5, <1>8 DEF Eof, Deadline, Interrupt, HostGone
<1>9. CASE Refuse \/ StartFails
  <2>0. /\ main = "accept" /\ sh = "none" /\ main' = "ended"
        /\ UNCHANGED <<result, sh, background, ctx, reader, taken, written, joined, dones, errs>>
    BY <1>2, <1>9 DEF Refuse, StartFails, Accept, BeforeShell
  <2>1. UNCHANGED <<wire, broken>> \/ WriteOK([kind |-> "exit", n |-> 1])
    BY <1>4, <1>9 DEF Refuse, StartFails
  <2>2. \A s \in Streams : Delivered(s)'
    <3>1. CASE UNCHANGED wire
      BY <1>3, <2>0, <3>1, SameWire DEF Sent
    <3>2. CASE WriteOK([kind |-> "exit", n |-> 1])
      BY <1>1, <1>2, <1>3, <2>0, <3>2, ExitLineWritten
    <3> QED
      BY <2>1, <3>1, <3>2
  <2>3. NoFailure' /\ ReadToTheEnd' /\ Joined'
    <3>1. broken' = broken
      BY <2>1 DEF WriteOK
    <3> QED
      BY <1>3, <2>0, <3>1 DEF NoFailure, ReadToTheEnd, Drained, NobodyWrites, Joined, Ended
  <2>4. ExitLineIsLast'
    <3>1. \A i \in 1 .. Len(wire) : wire[i].kind # "exit"
      BY <1>3, <2>0, NoExitLineBefore
    <3>2. CASE UNCHANGED wire
      BY <3>1, <3>2 DEF ExitLineIsLast
    <3>3. CASE wire' = Append(wire, [kind |-> "exit", n |-> 1])
      <4>1. wire \in Seq(Line) /\ Len(wire) \in Nat
        BY <1>2 DEF TypeOK
      <4>2. /\ Len(wire') = Len(wire) + 1
            /\ \A i \in 1 .. Len(wire) : wire'[i] = wire[i]
            /\ wire'[Len(wire) + 1].n = 1
        BY <3>3, <4>1
      <4>3. StatusIs(1)'
        BY <2>0 DEF StatusIs
      <4> QED
        BY <2>0, <3>1, <4>1, <4>2, <4>3 DEF ExitLineIsLast, StatusIs
    <3> QED
      BY <1>1, <2>1, <3>2, <3>3 DEF WriteOK
  <2> QED
    BY <2>2, <2>3, <2>4 DEF WhileConnected
<1>10. CASE Exit
  <2>0. /\ main = "exit" /\ main' = "ended"
        /\ UNCHANGED <<result, sh, background, ctx, code, reader, taken, written, joined, dones, errs>>
    BY <1>10 DEF Exit
  <2> DEFINE status == IF ctx # "live" THEN TimedOut ELSE code
  <2>1. WriteOK([kind |-> "exit", n |-> status])
    BY <1>4, <1>10 DEF Exit
  <2>2. status \in Nat
    BY <1>2 DEF TypeOK, TimedOut
  <2>3. \A s \in Streams : Delivered(s)'
    BY <1>1, <1>2, <1>3, <2>0, <2>1, <2>2, ExitLineWritten
  <2>4. NoFailure' /\ ReadToTheEnd' /\ Joined'
    <3>1. broken' = broken
      BY <2>1 DEF WriteOK
    <3>2. sh \in DOMAIN ShellStatus
      BY <1>2, <2>0 DEF HandlerAt
    <3> QED
      BY <1>3, <2>0, <3>1, <3>2 DEF NoFailure, ReadToTheEnd, Drained, NobodyWrites, Joined, Ended
  <2>5. ExitLineIsLast'
    <3>1. \A i \in 1 .. Len(wire) : wire[i].kind # "exit"
      BY <1>3, <2>0, NoExitLineBefore
    <3>2. wire \in Seq(Line) /\ Len(wire) \in Nat
      BY <1>2 DEF TypeOK
    <3>3. wire' = Append(wire, [kind |-> "exit", n |-> status])
      BY <1>1, <2>1 DEF WriteOK
    <3>4. /\ Len(wire') = Len(wire) + 1
          /\ \A i \in 1 .. Len(wire) : wire'[i] = wire[i]
          /\ wire'[Len(wire) + 1].n = status
      BY <3>2, <3>3
    <3>5. StatusIs(status)
      BY <1>2, <2>0, ExitStatus
    <3>6. \A n : StatusIs(n) => StatusIs(n)'
      BY <2>0 DEF StatusIs
    <3> HIDE DEF status
    <3> QED
      BY <2>0, <3>1, <3>2, <3>4, <3>5, <3>6 DEF ExitLineIsLast
  <2> QED
    BY <2>3, <2>4, <2>5 DEF WhileConnected
<1>11. CASE Start
  <2>0. sh = "none" /\ main = "accept" /\ \A s \in Streams : taken[s] = 0 /\ reader[s] = "off"
    BY <1>2, <1>11 DEF Start, Accept, BeforeShell
  <2>1. \A s \in Streams : Sent(s)' = Sent(s) /\ reader'[s] = "read"
    BY <1>11, <2>0 DEF Start, Sent
  <2>2. UNCHANGED <<wire, result, broken, errs, dones, joined, ctx>> /\ main' = "join"
    BY <1>11 DEF Start
  <2>3. \A s \in Streams : Delivered(s)'
    BY <1>3, <2>1, <2>2, SameWire
  <2>4. NoFailure' /\ ReadToTheEnd' /\ Joined'
    BY <1>3, <2>0, <2>1, <2>2 DEF NoFailure, ReadToTheEnd, Joined, Ended, Streams
  <2>5. ExitLineIsLast'
    BY <1>3, <2>0, <2>2, NoExitLineBefore DEF ExitLineIsLast
  <2> QED
    BY <2>3, <2>4, <2>5 DEF WhileConnected
<1>12. CASE Join
  <2>1. CASE ReaderFailed
    BY <1>3, <2>1 DEF ReaderFailed, NoFailure
  <2>2. CASE ReaderDone
    <3>1. UNCHANGED <<wire, result, broken, errs, reader, taken, written, sh, background, ctx>>
      BY <1>12, <2>2 DEF Join, ReaderDone
    <3>2. main = "join" /\ main' # "ended"
      BY <1>12, <2>2 DEF Join, ReaderDone
    <3>3. Joined'
      BY <1>2, <1>3, <1>12, <2>2, <3>1 DEF TypeOK, Join, ReaderDone, Joined, Ended, ChannelSize
    <3>4. \A s \in Streams : Delivered(s)'
      BY <1>3, <3>1, SameWire DEF Sent
    <3>5. NoFailure' /\ ReadToTheEnd'
      BY <1>3, <3>1 DEF NoFailure, ReadToTheEnd, Drained, NobodyWrites
    <3>6. ExitLineIsLast'
      BY <1>3, <3>1, <3>2, NoExitLineBefore DEF ExitLineIsLast
    <3> QED
      BY <3>3, <3>4, <3>5, <3>6 DEF WhileConnected
  <2> QED
    BY <1>12, <2>1, <2>2 DEF Join
<1>13. CASE Wait
  <2>1. /\ UNCHANGED <<wire, result, broken, errs, dones, joined, reader, taken, sh, ctx>>
        /\ main = "wait" /\ main' = "exit" /\ joined = 2 /\ ctx' # "cancelled"
    BY <1>3, <1>13 DEF Wait, Joined, NoFailure
  <2>2. \A s \in Streams : Drained(s) => Drained(s)'
    BY <1>13 DEF Wait, Drained, NobodyWrites
  <2> QED
    BY <1>2, <2>1, <2>2, QuietStep
<1>14. ASSUME NEW s \in Streams, Reader(s) PROVE WhileConnected'
  <2>0. /\ reader \in [Streams -> {"off", "read", "encode", "error", "done", "ended"}]
        /\ UNCHANGED <<result, main, joined, code, pipes, ctx, written, sh, background>>
        /\ sh # "none"
    BY <1>2, <1>14 DEF TypeOK, Reader, BeforeShell, Read, Encode, SendError, SendDone
  <2>1. CASE Read(s) /\ reader[s] = "read"
    <3>1. /\ UNCHANGED <<wire, broken, dones, errs>>
          /\ reader[s] # "ended" /\ joined # 2
      BY <1>2, <1>3, <2>1, JoinedBoth DEF Read
    <3>2. pipes
      BY <1>2, <1>3, <2>0, <3>1 DEF TypeOK, HandlerAt, Joined, BeforeShell
    <3>3. /\ \A t \in Streams : Sent(t)' = Sent(t)
          /\ \A t \in Streams : reader'[t] # "error"
          /\ \A t \in Streams : reader'[t] = "ended" <=> reader[t] = "ended"
          /\ ReadToTheEnd'
      <4>1. CASE taken[s] < written[s] /\ taken' = [taken EXCEPT ![s] = @ + 1]
                 /\ reader' = [reader EXCEPT ![s] = "encode"]
        BY <1>2, <1>3, <2>0, <2>1, <4>1
           DEF TypeOK, Sent, NoFailure, ReadToTheEnd, Drained, NobodyWrites
      <4>2. CASE taken[s] = written[s] /\ NobodyWrites /\ UNCHANGED taken
                 /\ reader' = [reader EXCEPT ![s] = "done"]
        BY <1>2, <1>3, <2>0, <2>1, <4>2
           DEF TypeOK, Sent, NoFailure, ReadToTheEnd, Drained, NobodyWrites
      <4> QED
        BY <2>1, <3>2, <4>1, <4>2 DEF Read
    <3>4. \A t \in Streams : Delivered(t)'
      BY <1>3, <2>0, <3>1, <3>3, SameWire
    <3>5. NoFailure' /\ Joined' /\ ExitLineIsLast'
      BY <1>3, <2>0, <3>1, <3>3 DEF NoFailure, Joined, Ended, Streams, ExitLineIsLast, StatusIs
    <3> QED
      BY <3>3, <3>4, <3>5 DEF WhileConnected
  <2>2. CASE Encode(s)
    <3>1. /\ reader[s] = "encode" /\ WriteOK([kind |-> s, n |-> taken[s]])
          /\ reader' = [reader EXCEPT ![s] = "read"]
          /\ UNCHANGED <<taken, dones, errs, broken>>
      BY <1>4, <2>2 DEF Encode, WriteOK
    <3>2. \A t \in Streams : Delivered(t)'
      BY <1>1, <1>2, <1>3, <2>0, <3>1, ChunkWritten
    <3>3. joined # 2 /\ main # "ended"
      BY <1>2, <1>3, <2>0, <3>1, JoinedBoth DEF Joined
    <3>4. NoFailure' /\ Joined' /\ ReadToTheEnd'
      BY <1>3, <2>0, <3>1
         DEF NoFailure, Joined, Ended, Streams, ReadToTheEnd, Drained, NobodyWrites
    <3>5. ExitLineIsLast'
      <4>1. wire \in Seq(Line) /\ wire' = Append(wire, [kind |-> s, n |-> taken[s]])
        BY <1>1, <1>2, <3>1 DEF WriteOK, TypeOK
      <4>2. /\ Len(wire) \in Nat /\ Len(wire') = Len(wire) + 1
            /\ \A i \in 1 .. Len(wire) : wire'[i] = wire[i]
            /\ wire'[Len(wire) + 1].kind = s
        BY <4>1
      <4>3. \A i \in 1 .. Len(wire) : wire[i].kind # "exit"
        BY <1>3, <3>3, NoExitLineBefore
      <4> QED
        BY <4>2, <4>3 DEF ExitLineIsLast, Streams
    <3> QED
      BY <3>2, <3>4, <3>5 DEF WhileConnected
  <2>3. CASE SendError(s)
    BY <1>3, <2>3 DEF SendError, NoFailure
  <2>4. CASE SendDone(s)
    <3>1. /\ reader[s] = "done" /\ reader' = [reader EXCEPT ![s] = "ended"]
          /\ dones' = dones + 1
          /\ UNCHANGED <<wire, broken, taken, errs>>
      BY <2>4 DEF SendDone
    <3>2. \A t \in Streams : Delivered(t)'
      BY <1>3, <2>0, <3>1, SameWire DEF Sent
    <3>3. Joined'
      <4>1. dones \in Nat /\ joined \in Nat
        BY <1>2 DEF TypeOK, ChannelSize
      <4>2. Ended(s) = 0 /\ Ended(s)' = 1 /\ \A t \in Streams \ {s} : Ended(t)' = Ended(t)
        BY <2>0, <3>1 DEF Ended
      <4>3. joined + dones + 1 = (Ended("stdout") + Ended("stderr"))'
        BY <1>3, <4>1, <4>2 DEF Joined, Ended, Streams
      <4> QED
        BY <1>3, <2>0, <3>1, <4>1, <4>3 DEF Joined
    <3>4. NoFailure' /\ ReadToTheEnd' /\ ExitLineIsLast'
      BY <1>3, <2>0, <3>1
         DEF NoFailure, ReadToTheEnd, Drained, NobodyWrites, ExitLineIsLast, StatusIs
    <3> QED
      BY <3>2, <3>3, <3>4 DEF WhileConnected
  <2> QED
    BY <1>14, <2>1, <2>2, <2>3, <2>4 DEF Reader, Read
<1>15. CASE Expire \/ KillShell \/ ShellExits \/ ShellForks \/ BackgroundEnds
  <2>1. UNCHANGED <<wire, result, broken, errs, dones, joined, reader, taken, written, main>>
    BY <1>15 DEF Expire, KillShell, ShellExits, ShellForks, BackgroundEnds, Process
  <2>2. main = "ended" => UNCHANGED <<sh, ctx>>
    BY <1>2, <1>3, <1>15
       DEF Expire, KillShell, ShellExits, ShellForks, BackgroundEnds, Process, Joined, ShellStatus
  <2>3. ctx' # "cancelled" /\ (main' \in {"wait", "exit"} => joined = 2)
    BY <1>3, <1>15, <2>1
       DEF Expire, KillShell, ShellExits, ShellForks, BackgroundEnds, Process, NoFailure, Joined
  <2>4. \A s \in Streams : Drained(s) => Drained(s)'
    BY <1>15, <2>1
       DEF Expire, KillShell, ShellExits, ShellForks, BackgroundEnds, Process, Drained, NobodyWrites
  <2> QED
    BY <1>2, <2>1, <2>2, <2>3, <2>4, QuietStep
<1>16. ASSUME NEW s \in Streams, WriteOutput(s) PROVE WhileConnected'
  <2>1. /\ UNCHANGED <<wire, result, broken, errs, dones, joined, reader, taken, main, sh, ctx>>
        /\ ~NobodyWrites
    BY <1>16 DEF WriteOutput, Process
  <2>2. ctx' # "cancelled" /\ (main' \in {"wait", "exit"} => joined = 2)
    BY <1>3, <2>1 DEF NoFailure, Joined
  <2>3. \A t \in Streams : Drained(t) => Drained(t)'
    BY <2>1 DEF Drained
  <2> QED
    BY <1>2, <2>1, <2>2, <2>3, QuietStep
<1> QED
  BY <1>6, <1>7, <1>8, <1>9, <1>10, <1>11, <1>12, <1>13, <1>14, <1>15, <1>16
     DEF Next, Host, Guest, Handler, Processes, Finished

-----------------------------------------------------------------------------
\* With the exit line the host has the output and the status, for good.
LEMMA AfterExitLineInv ==
    ASSUME IInv, [Next]_vars
    PROVE  AfterExitLine'
<1> USE DEF guest, processes
<1>0. TypeOK /\ BeforeShell /\ AfterExitLine
  BY DEF IInv
<1>1. SUFFICES ASSUME result'.end = "exit" PROVE AfterExitLine'
  BY DEF AfterExitLine
<1>2. CASE result.end = "exit"
  <2>1. main = "ended" /\ NobodyWrites /\ OutputIsComplete /\ StatusIsOfShell
    BY <1>0, <1>2 DEF AfterExitLine
  <2>2. host \notin {"start", "reading"}
    BY <1>2 DEF IInv, Connected, WhileConnected, NoFailure
  <2>3. UNCHANGED <<result, main, written, sh, background, ctx, code>>
    BY <2>1, <2>2 DEF Next, Host, Request, Receive, Eof, Deadline, Interrupt, Return, Guest, Refuse,
           StartFails, Handler, Start, Join, Wait, Exit, Expire, KillShell, Reader, Processes,
           ShellExits, ShellForks, BackgroundEnds, WriteOutput, Process, Stop, Finished, vars,
           Accept, NobodyWrites
  <2> QED
    BY <2>1, <2>3 DEF AfterExitLine, NobodyWrites, OutputIsComplete, StatusIsOfShell
<1>3. CASE result.end # "exit"
  <2>0. Receive
    BY <1>0, <1>1, <1>3 DEF TypeOK, Next, Host, Request, Receive, Eof, Deadline, Interrupt, Return, Guest, Refuse,
           StartFails, Handler, Start, Join, Wait, Exit, Expire, KillShell, Reader, Processes,
           ShellExits, ShellForks, BackgroundEnds, WriteOutput, Process, Stop, Finished, vars
  <2>1. Receive /\ Head(wire).kind = "exit"
    BY <1>0, <1>1, <1>3, <2>0 DEF Receive, TypeOK
  <2>2. WhileConnected
    BY <2>1 DEF IInv, Receive, Connected
  <2>3. wire \in Seq(Line) /\ Len(wire) \in Nat \ {0} /\ Head(wire) = wire[1]
    BY <1>0, <2>1 DEF TypeOK, Receive
  <2>4. Len(wire) = 1 /\ main = "ended" /\ StatusIs(wire[1].n)
    <3>1. 1 \in 1 .. Len(wire) /\ wire[1].kind = "exit"
      BY <2>1, <2>3
    <3> QED
      BY <2>2, <3>1 DEF WhileConnected, ExitLineIsLast
  <2>5. NobodyWrites /\ \A s \in Streams : Sent(s) = written[s]
    BY <1>0, <2>2, <2>4, EndIsDrained DEF WhileConnected
  <2>6. ASSUME NEW s \in Streams PROVE result.out[s] = [i \in 1 .. written[s] |-> i]
    <3>1. Delivered(s) /\ Len(result.out[s]) \in Nat /\ written[s] \in Nat
      BY <1>0, <2>2 DEF WhileConnected, TypeOK
    <3>2. ~OnWire(s, written[s])
      BY <2>1, <2>3, <2>4 DEF OnWire, Streams
    <3>3. Len(result.out[s]) = written[s]
      BY <2>5, <3>1, <3>2 DEF Delivered
    <3> QED
      BY <3>1, <3>3 DEF Delivered
  <2>7. /\ result'.out = result.out /\ result'.code = wire[1].n
        /\ UNCHANGED <<main, written, sh, background, ctx>>
    BY <1>0, <2>1, <2>3 DEF Receive, Return, TypeOK
  <2> QED
    BY <2>4, <2>5, <2>6, <2>7
       DEF AfterExitLine, NobodyWrites, OutputIsComplete, StatusIsOfShell, StatusIs
<1> QED
  BY <1>2, <1>3

LEMMA Inductive == Spec => []IInv
<1>1. IInv /\ [Next]_vars => IInv'
  BY TypeInv, ShapeInv, ConnectedInv, AfterExitLineInv DEF IInv
<1> QED
  BY InitInv, <1>1, PTL DEF Spec

-----------------------------------------------------------------------------
\* The variables of agent, shell and host keep their types; channels and
\* pipes stay within their sizes.
THEOREM TypeCorrect == Spec => []TypeOK
<1>1. IInv => TypeOK
  BY DEF IInv
<1> QED
  BY Inductive, <1>1, PTL

\* A host that ends with the exit line has all output of the command, each
\* stream in its order, however long it is (readBuf and the two joins of
\* handleAgentConn).
THEOREM OutputComplete == Spec => []OutputIsComplete
<1>1. IInv => OutputIsComplete
  BY DEF IInv, AfterExitLine, OutputIsComplete
<1> QED
  BY Inductive, <1>1, PTL

\* The status in it is the one of sh, or 124 after the timeout: never that
\* of a shell the agent has killed, nor 124 for a write that failed.
THEOREM StatusCorrect == Spec => []StatusIsOfShell
<1>1. IInv => StatusIsOfShell
  BY DEF IInv, AfterExitLine, StatusIsOfShell
<1> QED
  BY Inductive, <1>1, PTL
=============================================================================
