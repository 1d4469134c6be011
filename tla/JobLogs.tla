------------------------------ MODULE JobLogs ------------------------------
(***************************************************************************)
(* The structured log of a run: LogClient of the SDK in the job's process, *)
(* under the life cycle of job.main, and RunLogsView at the server.  A     *)
(* later attempt of the run is another process, which the earlier one may  *)
(* survive.  Entries of an attempt are numbered in the order they were     *)
(* buffered; a batch is a range of them.                                   *)
(*                                                                         *)
(* Limitations: one run; the 24 h after which the server forgets a         *)
(* sequence do not pass; what is logged is in Secrets.                     *)
(***************************************************************************)
EXTENDS Integers

CONSTANTS
  Attempts,    \* bound: attempts of the run
  MaxEntries,  \* bound: entries of an attempt
  BatchSize,   \* entries that fill a batch
  Oversize,    \* numbers of entries longer than a request may be
  Retries,     \* of a request, by the session
  MaxFailures  \* bound: lost replies, timeouts, errors and deaths of a server process

VARIABLES
  proc,     \* the processes: entries buffered and taken from the buffer, batches,
            \* entries before the final flush
  post,     \* the request a process waits for; the buffer's lock is held meanwhile
  token,    \* the attempt whose token the server knows
  calls,    \* requests at the server; the process may have turned away
  stored,   \* JobLogEntry rows
  marks,    \* sequences marked as ingested, and by whose batch
  warned,   \* entries whose batch the process warned it could not ship
  replayed, \* entries of a batch dropped for another attempt's sequence
  failures

vars == <<proc, post, token, calls, stored, marks, warned, replayed, failures>>
server == <<token, calls, stored, marks, replayed>>

-----------------------------------------------------------------------------
Runs == 1..Attempts
Entry == Runs \X (1..MaxEntries)
Batch == [a: Runs, seq: Nat, from: Nat, upto: Nat]
Entries(b) == {<<b.a, n>> : n \in b.from..b.upto}

Process == [phase: {"none", "running", "closing", "exited", "killed"},
            last: 0..MaxEntries, taken: 0..MaxEntries, seq: Nat, closed: 0..MaxEntries]
NoProcess == [phase |-> "none", last |-> 0, taken |-> 0, seq |-> 0, closed |-> 0]
NoPost == [by |-> "nobody", b |-> [a |-> 0, seq |-> 0, from |-> 0, upto |-> 0], left |-> 0]
Began(a) == [NoProcess EXCEPT !.phase = "running"]

TypeOK ==
  /\ proc \in [Runs -> Process]
  /\ \A a \in Runs : proc[a].taken <= proc[a].last
  /\ \A a \in Runs : post[a] = NoPost \/ (post[a].b \in Batch /\ post[a].left \in 0..Retries)
  /\ token \in Runs
  /\ \A q \in calls : q.b \in Batch /\ q.step \in {"check", "write", "mark"}
  /\ stored \subseteq Entry /\ warned \subseteq Entry /\ replayed \subseteq Entry
  /\ failures \in 0..MaxFailures

Init ==
  /\ proc = [a \in Runs |-> IF a = 1 THEN Began(1) ELSE NoProcess]
  /\ post = [a \in Runs |-> NoPost]
  /\ token = 1 /\ calls = {} /\ stored = {} /\ marks = {}
  /\ warned = {} /\ replayed = {} /\ failures = 0

\* The run was reaped, queued and claimed again: its token is another one.
Retry ==
  /\ token < Attempts
  /\ token' = token + 1
  /\ proc' = [proc EXCEPT ![token + 1] = Began(token + 1)]
  /\ UNCHANGED <<post, calls, stored, marks, warned, replayed, failures>>

-----------------------------------------------------------------------------
(* The job's process. *)

Free(a) == post[a] = NoPost
Call(b, left) == [b |-> b, left |-> left, step |-> "check", open |-> TRUE]

\* _flush_locked: empty the buffer, take the next sequence, send and wait.
Flush(a, by, last) ==
  LET b == [a |-> a, seq |-> proc[a].seq + 1, from |-> proc[a].taken + 1, upto |-> last] IN
  /\ proc' = [proc EXCEPT ![a].last = last, ![a].taken = last, ![a].seq = b.seq]
  /\ post' = [post EXCEPT ![a] = [by |-> by, b |-> b, left |-> Retries]]
  /\ calls' = calls \cup {Call(b, Retries)}
  /\ UNCHANGED <<token, stored, marks, warned, replayed, failures>>

\* add, from any thread: a full batch, or two seconds since the last, are shipped at once.
\* A thread the job left behind may log until the interpreter ends.
Add(a, flushes) ==
  LET last == proc[a].last + 1 IN
  /\ proc[a].phase \in {"running", "closing", "exited"} /\ Free(a) /\ last <= MaxEntries
  /\ last - proc[a].taken >= BatchSize \/ last \in Oversize => flushes
  /\ IF flushes THEN Flush(a, "thread", last)
     ELSE /\ proc' = [proc EXCEPT ![a].last = last]
          /\ UNCHANGED <<post, server, warned, failures>>

\* The flusher, every two seconds.
Tick(a) ==
  /\ proc[a].phase \in {"running", "closing"} /\ Free(a) /\ proc[a].taken < proc[a].last
  /\ Flush(a, "flusher", proc[a].last)

\* run returned or raised: close sets the stop event, and waits for the flusher not longer
\* than four seconds.
Close(a) ==
  /\ proc[a].phase = "running"
  /\ proc' = [proc EXCEPT ![a].phase = "closing"]
  /\ UNCHANGED <<post, server, warned, failures>>

Exited(a) == [proc EXCEPT ![a].phase = "exited", ![a].closed = proc[a].last]

FinalFlush_None(a) ==
  /\ proc[a].phase = "closing" /\ Free(a)
  /\ proc' = Exited(a)
  /\ UNCHANGED <<post, server, warned, failures>>

\* stop's own flush, once it has the lock.
FinalFlush(a) ==
  /\ proc[a].phase = "closing" /\ Free(a)
  /\ IF proc[a].taken < proc[a].last THEN Flush(a, "main", proc[a].last)
     ELSE /\ proc' = Exited(a)
          /\ UNCHANGED <<post, server, warned, failures>>

\* A signal, a timeout or a cancel: nothing is flushed.
Kill(a) ==
  /\ proc[a].phase \in {"running", "closing", "exited"}
  /\ proc' = [proc EXCEPT ![a].phase = "killed"]
  /\ post' = [post EXCEPT ![a] = NoPost]
  /\ calls' = {[q EXCEPT !.open = @ /\ q.b.a # a] : q \in calls}
  /\ UNCHANGED <<token, stored, marks, warned, replayed, failures>>

-----------------------------------------------------------------------------
(* How a request ends for the process, if it still waits for it. *)

Done(a) ==
  /\ post' = [post EXCEPT ![a] = NoPost]
  /\ proc' = IF post[a].by = "main" THEN Exited(a) ELSE proc

\* rest: the requests at the server, without this one or with this one left open no more.
Answer(q, status, rest) ==
  LET a == q.b.a
      left == post[a].left - 1
  IN IF ~q.open THEN calls' = rest /\ UNCHANGED <<proc, post, warned>>
     ELSE IF status = "error" /\ post[a].left > 0
     THEN /\ post' = [post EXCEPT ![a].left = left]
          /\ calls' = rest \cup {Call(q.b, left)}
          /\ UNCHANGED <<proc, warned>>
     ELSE /\ Done(a)
          /\ calls' = rest
          /\ warned' = IF status = "ok" THEN warned ELSE warned \cup Entries(q.b)

Timeout(q) ==
  /\ q.open /\ failures < MaxFailures
  /\ failures' = failures + 1
  /\ Answer(q, "error", (calls \ {q}) \cup {[q EXCEPT !.open = FALSE]})
  /\ UNCHANGED <<token, stored, marks, replayed>>

\* The request or its reply is lost, or the server process dies.
Lose(q) ==
  /\ failures < MaxFailures
  /\ failures' = failures + 1
  /\ Answer(q, "error", calls \ {q})
  /\ UNCHANGED <<token, stored, marks, replayed>>

-----------------------------------------------------------------------------
(* RunLogsView.post and write_log_batch. *)

\* Token, limits, sequence.
Check(q) ==
  LET others == {m[2] : m \in {x \in marks : x[1] = q.b.seq}} IN
  /\ q.step = "check"
  /\ IF token # q.b.a \/ (\E n \in Oversize : <<q.b.a, n>> \in Entries(q.b))
     THEN Answer(q, "refused", calls \ {q}) /\ UNCHANGED replayed
     ELSE IF others # {}
     THEN /\ Answer(q, "ok", calls \ {q})
          /\ replayed' = IF q.b.a \in others THEN replayed ELSE replayed \cup Entries(q.b)
     ELSE /\ calls' = (calls \ {q}) \cup {[q EXCEPT !.step = "write"]}
          /\ UNCHANGED <<proc, post, warned, replayed>>
  /\ UNCHANGED <<token, stored, marks, failures>>

Write(q) ==
  /\ q.step = "write"
  /\ stored' = stored \cup Entries(q.b)
  /\ calls' = (calls \ {q}) \cup {[q EXCEPT !.step = "mark"]}
  /\ UNCHANGED <<proc, post, token, marks, warned, replayed, failures>>

Mark(q) ==
  /\ q.step = "mark"
  /\ marks' = marks \cup {<<q.b.seq, q.b.a>>}
  /\ Answer(q, "ok", calls \ {q})
  /\ UNCHANGED <<token, stored, replayed, failures>>

-----------------------------------------------------------------------------
Next == \/ Retry
        \/ \E a \in Runs : \/ \E flushes \in BOOLEAN : Add(a, flushes)
                           \/ Tick(a) \/ Close(a) \/ FinalFlush(a) \/ Kill(a)
        \/ \E q \in calls : Timeout(q) \/ Lose(q) \/ Check(q) \/ Write(q) \/ Mark(q)

Spec == Init /\ [][Next]_vars

-----------------------------------------------------------------------------
(* Properties. *)

\* A process that ended by itself has lost no entry it logged before its final flush in
\* silence: it is stored, or a warning tells of it, or the server took its batch for a
\* replay of an earlier attempt's (LogClient.stop, add, write_log_batch).
EntriesAccounted ==
  \A a \in Runs : proc[a].phase = "exited" =>
    \A n \in 1..proc[a].closed : <<a, n>> \in stored \cup warned \cup replayed
=============================================================================
