------------------------------ MODULE Console ------------------------------
(***************************************************************************)
(* The console of one container: DockerContainerHandle.stream_logs with    *)
(* its two pumps and their finalizer (runtime/docker.py), RunTask's        *)
(* _pump_console and the end of _supervise, which waits for it 10 s        *)
(* (agent.py).  An agent that dies, or is stopped, leaves the container    *)
(* running; the next one attaches to it and follows its logs anew.         *)
(*                                                                         *)
(* What happens to a line after emit_console is in LogPipeline.  Left out: *)
(* empty chunks, which are skipped, and the masking of the run's token.    *)
(***************************************************************************)
EXTENDS Integers, Sequences

CONSTANTS
  Streams,        \* stdout and stderr
  Lines,          \* bound: lines a container prints to a stream
  QueueSize,      \* maxsize of the queue of stream_logs
  MaxAttachments  \* bound: agents that follow the container, one after the other

VARIABLES
  container,   \* "running", "exited"
  printed,     \* lines the container has printed to each stream
  supervisor,  \* where _supervise is; "away" while there is no agent
  pump,        \* [Streams -> the pump's state and the lines it has read]
  queue,       \* lines <<stream, number>>, then End
  console,     \* _pump_console: "get" waits on the queue, "emit" has a line in hand
  emitted,     \* [Streams -> numbers of the lines handed to the sink since the agent attached]
  attachments

vars == <<container, printed, supervisor, pump, queue, console, emitted, attachments>>
engine == <<container, printed>>
agent == <<supervisor, attachments>>

-----------------------------------------------------------------------------
End == <<"end">>
Line == Streams \X (1..Lines)
NoLine == <<"none">>

TypeOK ==
  /\ container \in {"running", "exited"}
  /\ printed \in [Streams -> 0..Lines]
  /\ supervisor \in {"wait", "kill", "drain", "done", "away"}
  /\ pump \in [Streams -> [pc: {"open", "ended", "failed", "cancelled"}, read: 0..Lines]]
  /\ queue \in Seq(Line \cup {End}) /\ Len(queue) <= QueueSize
  /\ console \in [pc: {"get", "emit", "ended", "cancelled"}, line: Line \cup {NoLine}]
  /\ emitted \in [Streams -> Seq(1..Lines)]
  /\ attachments \in 1..MaxAttachments

Attached ==
  /\ supervisor' = "wait"
  /\ pump' = [s \in Streams |-> [pc |-> "open", read |-> 0]]
  /\ queue' = <<>> /\ console' = [pc |-> "get", line |-> NoLine]
  /\ emitted' = [s \in Streams |-> <<>>]

Init ==
  /\ container = "running" /\ printed = [s \in Streams |-> 0]
  /\ supervisor = "wait"
  /\ pump = [s \in Streams |-> [pc |-> "open", read |-> 0]]
  /\ queue = <<>> /\ console = [pc |-> "get", line |-> NoLine]
  /\ emitted = [s \in Streams |-> <<>>] /\ attachments = 1

-----------------------------------------------------------------------------
(* The container and its engine *)

Write(s) ==
  /\ container = "running" /\ printed[s] < Lines
  /\ printed' = [printed EXCEPT ![s] = @ + 1]
  /\ UNCHANGED <<container, agent, pump, queue, console, emitted>>

\* By itself, or killed by a cancel or a lost lease.
Exit ==
  /\ container = "running"
  /\ container' = "exited"
  /\ UNCHANGED <<printed, agent, pump, queue, console, emitted>>

-----------------------------------------------------------------------------
(* stream_logs *)

\* A pump waits while the queue is full.
Pump(s) ==
  LET n == pump[s].read + 1 IN
  /\ pump[s].pc = "open" /\ n <= printed[s] /\ Len(queue) < QueueSize
  /\ queue' = Append(queue, <<s, n>>)
  /\ pump' = [pump EXCEPT ![s].read = n]
  /\ UNCHANGED <<engine, agent, console, emitted>>

\* The engine closes the log of a container that has exited, after its last line.
EndOfLog(s) ==
  /\ pump[s].pc = "open" /\ container = "exited" /\ pump[s].read = printed[s]
  /\ pump' = [pump EXCEPT ![s].pc = "ended"]
  /\ UNCHANGED <<engine, agent, queue, console, emitted>>

\* A DockerError or OSError ends the pump without a word.
LogFails(s) ==
  /\ pump[s].pc = "open"
  /\ pump' = [pump EXCEPT ![s].pc = "failed"]
  /\ UNCHANGED <<engine, agent, queue, console, emitted>>

Gathered_First == \E s \in Streams : pump[s].pc \in {"ended", "failed"}

\* gather of both pumps
Gathered == \A s \in Streams : pump[s].pc \in {"ended", "failed"}

\* finalize puts the end marker behind the last line, once there is room.
Finalize ==
  /\ Gathered /\ console.pc \in {"get", "emit"}
  /\ Len(queue) < QueueSize /\ (\A i \in DOMAIN queue : queue[i] # End)
  /\ queue' = Append(queue, End)
  /\ UNCHANGED <<engine, agent, pump, console, emitted>>

Cancelled == [s \in Streams |-> IF pump[s].pc = "open" THEN [pump[s] EXCEPT !.pc = "cancelled"]
                                ELSE pump[s]]

-----------------------------------------------------------------------------
(* _pump_console *)

Get ==
  /\ console.pc = "get" /\ queue # <<>>
  /\ queue' = Tail(queue)
  /\ IF Head(queue) = End
     THEN console' = [console EXCEPT !.pc = "ended"] /\ pump' = Cancelled
     ELSE console' = [pc |-> "emit", line |-> Head(queue)] /\ UNCHANGED pump
  /\ UNCHANGED <<engine, agent, emitted>>

\* emit_console returns; it may have waited for another run's batch.
Emit ==
  LET s == console.line[1] IN
  /\ console.pc = "emit"
  /\ emitted' = [emitted EXCEPT ![s] = Append(@, console.line[2])]
  /\ console' = [pc |-> "get", line |-> NoLine]
  /\ UNCHANGED <<engine, agent, pump, queue>>

-----------------------------------------------------------------------------
(* _supervise *)

WaitReturns ==
  /\ supervisor = "wait" /\ container = "exited"
  /\ supervisor' = "drain"
  /\ UNCHANGED <<engine, attachments, pump, queue, console, emitted>>

\* The deadline has passed, or wait raised: kill, which takes an engine that cannot
\* signal the container for one that has stopped it.
KillIt ==
  /\ supervisor = "wait"
  /\ supervisor' = "kill"
  /\ container' \in {container, "exited"}
  /\ UNCHANGED <<printed, attachments, pump, queue, console, emitted>>

\* _safe_wait ends after 30 s at the latest.
SafeWait ==
  /\ supervisor = "kill"
  /\ supervisor' = "drain"
  /\ UNCHANGED <<engine, attachments, pump, queue, console, emitted>>

\* job.complete follows: sink.flush has what was emitted until now.
Drained ==
  /\ supervisor = "drain" /\ console.pc = "ended"
  /\ supervisor' = "done"
  /\ UNCHANGED <<engine, attachments, pump, queue, console, emitted>>

\* 10 s are over: the console is cancelled, with what is in the queue and in hand.
DrainTimeout ==
  /\ supervisor = "drain" /\ console.pc \in {"get", "emit"}
  /\ supervisor' = "done"
  /\ console' = [pc |-> "cancelled", line |-> NoLine]
  /\ queue' = <<>> /\ pump' = Cancelled
  /\ UNCHANGED <<engine, attachments, emitted>>

Die ==
  /\ supervisor \in {"wait", "kill", "drain"} /\ attachments < MaxAttachments
  /\ supervisor' = "away"
  /\ console' = [pc |-> "cancelled", line |-> NoLine]
  /\ queue' = <<>> /\ pump' = Cancelled
  /\ UNCHANGED <<engine, attachments, emitted>>

\* recover: get_by_name finds the container, whether it runs or not.
Recover ==
  /\ supervisor = "away"
  /\ attachments' = attachments + 1
  /\ Attached
  /\ UNCHANGED engine

-----------------------------------------------------------------------------
Next == \/ \E s \in Streams : Write(s) \/ Pump(s) \/ EndOfLog(s) \/ LogFails(s)
        \/ Exit \/ Finalize \/ Get \/ Emit \/ WaitReturns \/ KillIt \/ SafeWait
        \/ Drained \/ DrainTimeout \/ Die \/ Recover

Spec == Init /\ [][Next]_vars

-----------------------------------------------------------------------------
(* Properties. *)

\* Whoever attaches hands the sink the lines of each stream from the first on, in
\* order, none skipped or repeated; and when the drain ended by itself and neither log
\* broke off, the sink has all the container printed before the run is completed, and
\* the container has exited (stream_logs, _pump_console, _supervise).
ConsoleComplete ==
  /\ \A s \in Streams : \A i \in DOMAIN emitted[s] : emitted[s][i] = i
  /\ supervisor = "done" /\ console.pc = "ended" /\ (\A s \in Streams : pump[s].pc # "failed") =>
       container = "exited" /\ \A s \in Streams : Len(emitted[s]) = printed[s]
=============================================================================
