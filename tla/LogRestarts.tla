----------------------------- MODULE LogRestarts -----------------------------
(***************************************************************************)
(* LogPipeline with what makes an agent count its batches anew: a restart  *)
(* (agent.py recover) and the retry of a lost run.  The server goes on     *)
(* deduplicating by run and sequence.                                      *)
(***************************************************************************)
EXTENDS LogPipeline

CONSTANT MaxSinks  \* bound: sinks built for the run

\* Every sink counts from 1, whatever was sent for the run before.
Rebuild == sink.id < MaxSinks /\ sink' = NewSink(sink.id + 1, sink.type)

\* A restarted agent re-attaches and reads the container's output from its start.
RestartAgent ==
  /\ owned
  /\ Rebuild /\ pos' = 0 /\ batch' = NoSend /\ cut' = {}
  /\ UNCHANGED <<attempt, owned, server, kafka, dropped>>

\* The retry of a lost run: another container, and a sink that does not know the run.
NextAttempt ==
  /\ ~owned /\ Unlocked /\ sink.buffer = <<>>
  /\ Rebuild /\ owned' = TRUE /\ attempt' = attempt + 1 /\ pos' = 0 /\ cut' = {}
  /\ UNCHANGED <<batch, server, kafka, dropped>>

-----------------------------------------------------------------------------
RestartSpec == Init /\ [][Next \/ RestartAgent \/ NextAttempt]_vars
=============================================================================
