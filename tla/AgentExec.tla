------------------------------ MODULE AgentExec ------------------------------
(***************************************************************************)
(* umu exec: one command run in a guest by umu-agent, from the request of  *)
(* the host to the status that the host ends with.                         *)
(*                                                                         *)
(* In the guest a handler starts sh with two pipes and two goroutines that *)
(* read them and write a line for each chunk to the connection.  The       *)
(* handler waits for both on channels, then for sh, and writes an exit     *)
(* line.  A context kills sh when the time is up, and only sh: a process   *)
(* that sh has left in the background keeps the pipes open.                *)
(*                                                                         *)
(* Chunks of output are numbered per stream.  Seq, which the goroutines    *)
(* count up without a lock and no reader of the lines looks at, is left    *)
(* out; so are dialling and sending as steps of their own.  Handlers share *)
(* nothing, so there is one.                                               *)
(***************************************************************************)
EXTENDS Naturals, Sequences

CONSTANTS
    MaxChunks,      \* bound: chunks written to a stream
    PipeSize,       \* chunks a pipe holds
    MayStop         \* the VM or its agent may be stopped

ASSUME BoundsAssumption == MaxChunks \in Nat /\ PipeSize \in Nat \ {0}
ASSUME MayStopAssumption == MayStop \in BOOLEAN

VARIABLES
    host,           \* where ExecCommand is
    result,         \* how it ended, with which code and which output
    wire,           \* lines on their way to the host
    closed,         \* the guest has closed its end of the connection
    broken,         \* a write to the connection has failed
    main,           \* where the handler is
    joined,         \* readers it has heard of
    code,           \* status it has found for sh
    dones, errs,    \* messages in doneCh and errCh
    reader,         \* where the reader of each stream is
    taken,          \* chunks each reader has taken
    written,        \* chunks written to each pipe
    pipes,          \* the read ends of the pipes are open
    sh,             \* the shell
    background,     \* a process that holds the pipes as well
    ctx,            \* the context of the command
    up              \* VM and agent are running

guest == <<closed, broken, main, joined, code, dones, errs, reader, taken, pipes, ctx>>
processes == <<written, sh, background>>
vars == <<host, result, wire, guest, processes, up>>

Streams == {"stdout", "stderr"}

Line == [kind : Streams \cup {"exit"}, n : Nat]

\* How sh may end, with the status that cmd.Wait finds (for a signal, -1).
ShellStatus == [ok |-> 0, failed |-> 1, killed |-> 255]

TimedOut == 124

\* Capacity of doneCh and of errCh.
ChannelSize_Smaller == 1

ChannelSize == 2

NoOutput == [s \in Streams |-> <<>>]

TypeOK ==
    /\ host \in {"start", "reading", "returned", "interrupted"}
    /\ result \in [end : {"none", "exit", "eof", "error"}, code : Nat,
                   out : [Streams -> Seq(1 .. MaxChunks)]]
    /\ wire \in Seq(Line)
    /\ {closed, broken, pipes, background, up} \subseteq BOOLEAN
    /\ main \in {"accept", "join", "wait", "exit", "ended"}
    /\ joined \in 0 .. 2
    /\ code \in Nat
    /\ {dones, errs} \subseteq 0 .. ChannelSize
    /\ reader \in [Streams -> {"off", "read", "encode", "error", "done", "ended"}]
    /\ {taken, written} \subseteq [Streams -> 0 .. MaxChunks]
    /\ \A s \in Streams : taken[s] <= written[s]
    /\ sh \in {"none", "running"} \cup DOMAIN ShellStatus
    /\ ctx \in {"live", "expired", "cancelled"}

Init ==
    /\ host = "start"
    /\ result = [end |-> "none", code |-> 0, out |-> NoOutput]
    /\ wire = <<>>
    /\ closed = FALSE /\ broken = FALSE
    /\ main = "accept"
    /\ joined = 0 /\ code = 0
    /\ dones = 0 /\ errs = 0
    /\ reader = [s \in Streams |-> "off"]
    /\ taken = [s \in Streams |-> 0]
    /\ written = [s \in Streams |-> 0]
    /\ pipes = FALSE
    /\ sh = "none"
    /\ background = FALSE
    /\ ctx = "live"
    /\ up = TRUE

-----------------------------------------------------------------------------
(***************************************************************************)
(* ExecCommand.                                                            *)
(***************************************************************************)
Return(end, c) ==
    /\ host' = "returned"
    /\ result' = [result EXCEPT !.end = end, !.code = c]
    /\ UNCHANGED <<guest, processes, up>>

\* Dial, send the request, set the read deadline.
Request ==
    /\ host = "start"
    /\ \/ /\ up
          /\ host' = "reading"
          /\ UNCHANGED <<result, guest, processes, up>>
       \/ Return("error", 0)
    /\ UNCHANGED wire

Receive ==
    /\ host = "reading"
    /\ wire # <<>>
    /\ wire' = Tail(wire)
    /\ LET line == Head(wire) IN
          IF line.kind = "exit"
          THEN Return("exit", line.n)
          ELSE /\ result' = [result EXCEPT !.out[line.kind] = Append(@, line.n)]
               /\ UNCHANGED <<host, guest, processes, up>>

\* The connection ends without an exit line: a result, with the code 0.
Eof ==
    /\ host = "reading"
    /\ wire = <<>>
    /\ closed
    /\ Return("eof", 0)
    /\ UNCHANGED wire

Deadline_Never == FALSE /\ UNCHANGED vars

\* The read deadline, or an error of the connection.
Deadline ==
    /\ host = "reading"
    /\ Return("error", 0)
    /\ UNCHANGED wire

Interrupt ==
    /\ host \in {"start", "reading"}
    /\ host' = "interrupted"
    /\ UNCHANGED <<result, wire, guest, processes, up>>

-----------------------------------------------------------------------------
(***************************************************************************)
(* The connection, as the guest sees it: a write fails for good once the   *)
(* host has gone, if not at once.                                          *)
(***************************************************************************)
HostGone == host \in {"returned", "interrupted"}

WriteOK(line) ==
    /\ ~broken
    /\ wire' = IF HostGone THEN wire ELSE Append(wire, line)
    /\ UNCHANGED broken

WriteFails ==
    /\ broken \/ HostGone
    /\ broken' = TRUE
    /\ UNCHANGED wire

-----------------------------------------------------------------------------
(***************************************************************************)
(* handleAgentConn.                                                        *)
(***************************************************************************)
Accept == up /\ main = "accept" /\ host # "start"

\* A request that cannot be decoded, an empty command, or no pipes.
Refuse ==
    /\ Accept
    /\ main' = "ended"
    /\ closed' = TRUE
    /\ UNCHANGED <<host, result, wire, broken, joined, code, dones, errs, reader,
                   taken, pipes, ctx, processes, up>>

StartFails ==
    /\ Accept
    /\ WriteOK([kind |-> "exit", n |-> 1]) \/ WriteFails
    /\ main' = "ended"
    /\ closed' = TRUE
    /\ UNCHANGED <<host, result, joined, code, dones, errs, reader, taken, pipes,
                   ctx, processes, up>>

Start ==
    /\ Accept
    /\ main' = "join"
    /\ sh' = "running"
    /\ pipes' = TRUE
    /\ reader' = [s \in Streams |-> "read"]
    /\ UNCHANGED <<host, result, wire, closed, broken, joined, code, dones, errs,
                   taken, ctx, written, background, up>>

\* A second reader is not waited for.
ReaderDone_One ==
    /\ dones > 0
    /\ dones' = dones - 1
    /\ joined' = joined + 1
    /\ main' = "wait"
    /\ UNCHANGED <<errs, ctx>>

ReaderDone ==
    /\ dones > 0
    /\ dones' = dones - 1
    /\ joined' = joined + 1
    /\ main' = IF joined' = 2 THEN "wait" ELSE main
    /\ UNCHANGED <<errs, ctx>>

ReaderFailed ==
    /\ errs > 0
    /\ errs' = errs - 1
    /\ ctx' = IF ctx = "live" THEN "cancelled" ELSE ctx
    /\ main' = "wait"
    /\ UNCHANGED <<dones, joined>>

Join ==
    /\ up /\ main = "join"
    /\ ReaderDone \/ ReaderFailed
    /\ UNCHANGED <<host, result, wire, closed, broken, code, reader, taken, pipes,
                   processes, up>>

Wait_DropsStatus ==
    /\ up /\ main = "wait"
    /\ sh \in DOMAIN ShellStatus
    /\ code' = IF sh = "killed" THEN ShellStatus[sh] ELSE 0
    /\ pipes' = FALSE
    /\ main' = "exit"
    /\ UNCHANGED <<host, result, wire, closed, broken, joined, dones, errs, reader,
                   taken, ctx, processes, up>>

\* cmd.Wait: sh has ended; closes the read ends of the pipes.
Wait ==
    /\ up /\ main = "wait"
    /\ sh \in DOMAIN ShellStatus
    /\ code' = ShellStatus[sh]
    /\ pipes' = FALSE
    /\ main' = "exit"
    /\ UNCHANGED <<host, result, wire, closed, broken, joined, dones, errs, reader,
                   taken, ctx, processes, up>>

\* The exit line, and the deferred Close.
Exit ==
    /\ up /\ main = "exit"
    /\ LET status == IF ctx # "live" THEN TimedOut ELSE code
       IN WriteOK([kind |-> "exit", n |-> status]) \/ WriteFails
    /\ main' = "ended"
    /\ closed' = TRUE
    /\ UNCHANGED <<host, result, joined, code, dones, errs, reader, taken, pipes,
                   ctx, processes, up>>

-----------------------------------------------------------------------------
(***************************************************************************)
(* readBuf, for each stream.                                               *)
(***************************************************************************)
NobodyWrites == sh # "running" /\ ~background

\* A line for an empty read as well.
Read_Empty(s) ==
    /\ reader[s] = "read"
    /\ pipes
    /\ taken' = [taken EXCEPT ![s] = @ + 1]
    /\ reader' = [reader EXCEPT ![s] = "encode"]
    /\ UNCHANGED <<wire, broken, dones, errs>>

Read(s) ==
    /\ reader[s] = "read"
    /\ \/ /\ pipes /\ taken[s] < written[s]
          /\ taken' = [taken EXCEPT ![s] = @ + 1]
          /\ reader' = [reader EXCEPT ![s] = "encode"]
       \/ /\ pipes /\ taken[s] = written[s] /\ NobodyWrites
          /\ reader' = [reader EXCEPT ![s] = "done"]
          /\ UNCHANGED taken
       \/ /\ ~pipes
          /\ reader' = [reader EXCEPT ![s] = "error"]
          /\ UNCHANGED taken
    /\ UNCHANGED <<wire, broken, dones, errs>>

Encode(s) ==
    /\ reader[s] = "encode"
    /\ \/ /\ WriteOK([kind |-> s, n |-> taken[s]])
          /\ reader' = [reader EXCEPT ![s] = "read"]
       \/ /\ WriteFails
          /\ reader' = [reader EXCEPT ![s] = "error"]
    /\ UNCHANGED <<taken, dones, errs>>

SendError(s) ==
    /\ reader[s] = "error"
    /\ errs < ChannelSize
    /\ errs' = errs + 1
    /\ reader' = [reader EXCEPT ![s] = "done"]
    /\ UNCHANGED <<wire, broken, taken, dones>>

SendDone(s) ==
    /\ reader[s] = "done"
    /\ dones < ChannelSize
    /\ dones' = dones + 1
    /\ reader' = [reader EXCEPT ![s] = "ended"]
    /\ UNCHANGED <<wire, broken, taken, errs>>

Reader(s) ==
    /\ up
    /\ Read(s) \/ Encode(s) \/ SendError(s) \/ SendDone(s)
    /\ UNCHANGED <<host, result, closed, main, joined, code, pipes, ctx, processes, up>>

-----------------------------------------------------------------------------
(***************************************************************************)
(* The context and the processes of the guest.                             *)
(***************************************************************************)

\* The time is up.
Expire ==
    /\ up
    /\ ctx = "live"
    /\ main \in {"join", "wait", "exit"}
    /\ ctx' = "expired"
    /\ UNCHANGED <<host, result, wire, closed, broken, main, joined, code, dones,
                   errs, reader, taken, pipes, processes, up>>

KillShell_Never == FALSE /\ UNCHANGED vars

\* exec.CommandContext.
KillShell ==
    /\ up
    /\ ctx # "live"
    /\ sh = "running"
    /\ sh' = "killed"
    /\ UNCHANGED <<host, result, wire, guest, written, background, up>>

Process(change) ==
    /\ up
    /\ change
    /\ UNCHANGED <<host, result, wire, guest, up>>

ShellExits ==
    Process(sh = "running" /\ sh' \in {"ok", "failed"} /\ UNCHANGED <<written, background>>)

ShellForks ==
    Process(sh = "running" /\ background' = TRUE /\ UNCHANGED <<written, sh>>)

BackgroundEnds ==
    Process(background /\ background' = FALSE /\ UNCHANGED <<written, sh>>)

WriteOutput(s) ==
    Process(/\ ~NobodyWrites
            /\ pipes
            /\ written[s] < MaxChunks
            /\ written[s] - taken[s] < PipeSize
            /\ written' = [written EXCEPT ![s] = @ + 1]
            /\ UNCHANGED <<sh, background>>)

\* The kernel closes the connection of an agent that is killed; a VM that is
\* stopped just falls silent.
Stop ==
    /\ MayStop
    /\ up
    /\ up' = FALSE
    /\ closed' \in {closed, TRUE}
    /\ UNCHANGED <<host, result, wire, broken, main, joined, code, dones, errs,
                   reader, taken, pipes, ctx, processes>>

\* All have come to their end.
Finished ==
    /\ HostGone
    /\ ~up \/ main \in {"accept", "ended"}
    /\ UNCHANGED vars

Host == Request \/ Receive \/ Eof
Handler == Start \/ Join \/ Wait \/ Exit
Guest == Refuse \/ StartFails \/ Handler \/ Expire \/ KillShell
            \/ \E s \in Streams : Reader(s)
Processes == ShellExits \/ ShellForks \/ BackgroundEnds
                \/ \E s \in Streams : WriteOutput(s)

Next == Host \/ Deadline \/ Interrupt \/ Guest \/ Processes \/ Stop \/ Finished

\* Goroutines run, timers expire.  sh and its children need not end.
Fairness ==
    /\ WF_vars(Host) /\ WF_vars(Deadline)
    /\ WF_vars(Handler)
    /\ \A s \in Streams : WF_vars(Reader(s))
    /\ WF_vars(Expire) /\ WF_vars(KillShell)

Spec == Init /\ [][Next]_vars

FairSpec == Spec /\ Fairness

-----------------------------------------------------------------------------
(***************************************************************************)
(* Properties.                                                             *)
(***************************************************************************)

\* A host that has seen the exit line has seen all output before it, each
\* stream in its order: the handler waits for both readers (guest.go:136).
OutputIsComplete ==
    result.end = "exit" =>
       \A s \in Streams : result.out[s] = [i \in 1 .. written[s] |-> i]

\* The status in the exit line is the one of sh, 124 only when the time was
\* up, and never that of a shell the agent has killed (guest.go:148-158).
StatusIsOfShell ==
    result.end = "exit" =>
       \/ sh \in {"ok", "failed"} /\ result.code = ShellStatus[sh]
       \/ result.code = TimedOut /\ ctx = "expired"
       \/ result.code = 1 /\ sh = "none"

\* ExecCommand returns, whatever becomes of the command, the agent and the VM
\* (the read deadline, host.go:53).
HostReturns == <>HostGone

\* Once nothing but sh holds the pipes, the handler comes to its end, by the
\* timeout if not before (guest.go:71).
HandlerEnds ==
    <>[]~background => [](main # "accept" => <>(main = "ended" \/ ~up))

\* The readers of a handler that has ended end as well, although nobody
\* receives from their channels any more (doneCh and errCh, guest.go:106).
ReadersEnd ==
    \A s \in Streams :
       main = "ended" /\ reader[s] # "off" ~> reader[s] = "ended" \/ ~up
=============================================================================
