----------------------------- MODULE LogPipeline -----------------------------
(***************************************************************************)
(* From a container's output to Nautobot's log rows: the agent's console   *)
(* pump (agent.py), its batching sink over HTTP or Kafka (sinks/), the     *)
(* ingestion endpoint and the Kafka consumer, which share write_*_batch    *)
(* and its deduplication by sequence (api/ingestion.py).  One run, one     *)
(* kind of entry: nothing relates two of them but the sequence counter.    *)
(*                                                                         *)
(* A POST is a record of its own from the moment it is sent, so that one   *)
(* the client has stopped waiting for goes on at the server and races its  *)
(* retry.  Deduplication marks live 24 h, longer than anything here.       *)
(***************************************************************************)
EXTENDS Integers, Sequences

CONSTANTS
  Lines,        \* bound: the lines one container writes
  BatchMax,     \* FLUSH_MAX_ENTRIES, the byte limit included
  MaxAttempts,  \* DEFAULT_MAX_ATTEMPTS of the HTTP sink
  MaxCrashes    \* bound: deaths of a request handler or of the consumer

ASSUME PipelineAssumption ==
  /\ {Lines, BatchMax, MaxAttempts} \subseteq Nat \ {0}
  /\ MaxCrashes \in Nat

VARIABLES
  pos,       \* lines of the container the pump has handed to the sink
  attempt,   \* the run's attempt: which container
  sink,      \* the current sink: [id, type, seq, buffer]
  batch,     \* the batch _send is delivering, under the sink's lock
  owned,     \* the run is still this worker's
  requests,  \* write_console_batch calls under way at the server
  cache,     \* sequences marked as ingested
  db,        \* JobConsoleEntry rows, in the order they were created, by batch
  topic,     \* the Kafka partition of the run
  consumer,  \* [committed, next, upto]: offset committed, next and last polled
  dropped,   \* lines whose loss somebody logged
  cut,       \* lines in a batch whose sender, the pump, was cancelled
  shared,    \* batches that were ingested by two calls at once, or died unmarked
  crashes    \* deaths so far

vars == <<pos, attempt, sink, batch, owned, requests, cache, db, topic,
          consumer, dropped, cut, shared, crashes>>
client == <<pos, attempt, sink, batch, owned, cut>>
server == <<requests, cache, db, shared, crashes>>
kafka == <<topic, consumer>>

-----------------------------------------------------------------------------
Line == [attempt: Nat \ {0}, n: Nat \ {0}]
Batch == [sink: Nat, seq: Nat, lines: Seq(Line)]
NoBatch == [sink |-> 0, seq |-> 0, lines |-> <<>>]
Request == [sink: Nat, seq: Nat, lines: Seq(Line), via: {"http", "kafka"}, try: Nat,
            pc: {"check", "write", "mark", "ok", "rejected", "error"}]
Elements(s) == {s[i] : i \in DOMAIN s}

TypeOK ==
  /\ pos \in 0..Lines /\ attempt \in Nat \ {0}
  /\ sink \in [id: Nat \ {0}, type: {"http", "kafka"}, seq: Nat, buffer: Seq(Line)]
  /\ Len(sink.buffer) < BatchMax
  /\ batch \in [b: Batch, try: 0..MaxAttempts, pc: {"none", "send", "wait"}]
  /\ owned \in BOOLEAN
  /\ \A q \in requests : q \in Request
  /\ \A s \in cache : s \in Nat
  /\ db \in Seq(Batch) /\ topic \in Seq(Batch)
  /\ consumer \in [committed: Nat, next: Nat, upto: Nat]
  /\ \A l \in dropped \cup cut : l \in Line
  /\ \A k \in shared : k \in Nat \X Nat
  /\ crashes \in 0..MaxCrashes

NewSink(id, type) == [id |-> id, type |-> type, seq |-> 0, buffer |-> <<>>]
NoSend == [b |-> NoBatch, try |-> 0, pc |-> "none"]

Init ==
  /\ pos = 0 /\ attempt = 1 /\ owned = TRUE
  /\ \E type \in {"http", "kafka"} : sink = NewSink(1, type)
  /\ batch = NoSend
  /\ requests = {} /\ cache = {} /\ db = <<>> /\ topic = <<>>
  /\ consumer = [committed |-> 0, next |-> 1, upto |-> 0]
  /\ dropped = {} /\ cut = {} /\ shared = {} /\ crashes = 0

-----------------------------------------------------------------------------
(* The sink: BatchingLogSink *)

Unlocked == batch.pc = "none"

\* _flush_locked: pop the buffer, take the next sequence, go to _send.
Pop(lines) ==
  /\ sink' = [sink EXCEPT !.seq = @ + 1, !.buffer = <<>>]
  /\ batch' = [b |-> [sink |-> sink.id, seq |-> sink.seq + 1, lines |-> lines],
               try |-> 0, pc |-> "send"]

\* emit_console of the pump's next line, unless it was cancelled; a full buffer is flushed
\* at once, by the pump itself.
Emit ==
  LET lines == Append(sink.buffer, [attempt |-> attempt, n |-> pos + 1]) IN
  /\ Unlocked /\ pos < Lines /\ cut = {}
  /\ pos' = pos + 1
  /\ IF Len(lines) >= BatchMax THEN Pop(lines)
     ELSE sink' = [sink EXCEPT !.buffer = lines] /\ UNCHANGED batch
  /\ UNCHANGED <<attempt, owned, server, kafka, dropped, cut>>

FlushExpired_WhenFull ==
  /\ Unlocked /\ Len(sink.buffer) >= BatchMax
  /\ Pop(sink.buffer)
  /\ UNCHANGED <<pos, attempt, owned, server, kafka, dropped, cut>>

\* maybe_flush_expired two seconds after the first entry, and flush when the run
\* ends or the sink is closed.
FlushExpired ==
  /\ Unlocked /\ sink.buffer # <<>>
  /\ Pop(sink.buffer)
  /\ UNCHANGED <<pos, attempt, owned, server, kafka, dropped, cut>>

\* Every attempt has failed: the exception is logged and the entries are gone.
GiveUp ==
  /\ batch' = NoSend
  /\ dropped' = dropped \cup Elements(batch.b.lines)

Failed_OneMore ==
  IF batch.try > MaxAttempts THEN GiveUp
  ELSE batch' = [batch EXCEPT !.pc = "send"] /\ UNCHANGED dropped

\* An attempt of the HTTP sink failed.
Failed ==
  IF batch.try >= MaxAttempts THEN GiveUp
  ELSE batch' = [batch EXCEPT !.pc = "send"] /\ UNCHANGED dropped

-----------------------------------------------------------------------------
(* HTTP: HttpLogSink._send and the ingestion endpoint *)

Call(b, via, try) ==
  [sink |-> b.sink, seq |-> b.seq, lines |-> b.lines, via |-> via, try |-> try, pc |-> "check"]

Key(q) == <<q.sink, q.seq>>

Move(q, pc) == requests' = (requests \ {q}) \cup {[q EXCEPT !.pc = pc]}

\* A POST reaches the server, while an earlier one may still be there.
Post ==
  LET q == Call(batch.b, "http", batch.try + 1) IN
  /\ batch.pc = "send" /\ sink.type = "http"
  /\ batch' = [batch EXCEPT !.try = batch.try + 1, !.pc = "wait"]
  /\ requests' = requests \cup {q}
  /\ shared' = IF \E p \in requests : Key(p) = Key(q) THEN shared \cup {Key(q)} ELSE shared
  /\ UNCHANGED <<pos, attempt, sink, owned, cut, cache, db, crashes, kafka, dropped>>

Check_NoDedupe(q) ==
  /\ q.pc = "check"
  /\ IF q.via = "http" /\ ~owned THEN Move(q, "rejected") ELSE Move(q, "write")
  /\ UNCHANGED <<client, cache, db, shared, crashes, kafka, dropped>>

\* get_authorized_run (HTTP only), then _already_ingested.
Check(q) ==
  /\ q.pc = "check"
  /\ IF q.via = "http" /\ ~owned THEN Move(q, "rejected")
     ELSE IF q.seq \in cache THEN Move(q, "ok")
     ELSE Move(q, "write")
  /\ UNCHANGED <<client, cache, db, shared, crashes, kafka, dropped>>

Write_MarksFirst(q) ==
  /\ q.pc = "write"
  /\ cache' = cache \cup {q.seq}
  /\ \/ Move(q, "mark") /\ db' = Append(db, [sink |-> q.sink, seq |-> q.seq, lines |-> q.lines])
     \/ Move(q, "error") /\ UNCHANGED db
  /\ UNCHANGED <<client, shared, crashes, kafka, dropped>>

\* bulk_create, all rows or none.
Write(q) ==
  /\ q.pc = "write"
  /\ \/ Move(q, "mark") /\ db' = Append(db, [sink |-> q.sink, seq |-> q.seq, lines |-> q.lines])
     \/ Move(q, "error") /\ UNCHANGED db
  /\ UNCHANGED <<client, cache, shared, crashes, kafka, dropped>>

\* _mark_ingested
Mark(q) ==
  /\ q.pc = "mark"
  /\ Move(q, "ok") /\ cache' = cache \cup {q.seq}
  /\ UNCHANGED <<client, db, shared, crashes, kafka, dropped>>

\* The client is waiting for exactly this call.
Awaited(q) ==
  /\ q.via = "http" /\ batch.pc = "wait" /\ q.try = batch.try
  /\ Key(q) = <<batch.b.sink, batch.b.seq>>

\* The response: 2xx ends the batch, a 4xx drops it with an error, a 5xx is retried.
\* Nobody reads the response of a call that timed out.
Reply(q) ==
  /\ q.via = "http" /\ q.pc \in {"ok", "rejected", "error"}
  /\ requests' = requests \ {q}
  /\ \/ ~Awaited(q) /\ UNCHANGED <<batch, dropped>>
     \/ Awaited(q) /\ q.pc = "ok" /\ batch' = NoSend /\ UNCHANGED dropped
     \/ Awaited(q) /\ q.pc = "rejected" /\ GiveUp
     \/ Awaited(q) /\ q.pc = "error" /\ Failed
  /\ UNCHANGED <<pos, attempt, sink, owned, cut, cache, db, shared, crashes, kafka>>

Timeout_AsDelivered ==
  /\ batch.pc = "wait" /\ batch' = NoSend
  /\ UNCHANGED <<pos, attempt, sink, owned, cut, server, kafka, dropped>>

\* No response in 15 s: the request was lost, its reply was, or it is still running.
Timeout ==
  /\ batch.pc = "wait" /\ Failed
  /\ UNCHANGED <<pos, attempt, sink, owned, cut, server, kafka>>

\* The web process dies with the call.
HandlerDies(q) ==
  /\ q.via = "http" /\ q.pc \in {"check", "write", "mark"} /\ crashes < MaxCrashes
  /\ crashes' = crashes + 1
  /\ requests' = requests \ {q}
  /\ shared' = IF q.pc = "mark" THEN shared \cup {Key(q)} ELSE shared
  /\ UNCHANGED <<client, cache, db, kafka, dropped>>

-----------------------------------------------------------------------------
(* Kafka: KafkaLogSink._send and remote_jobs_log_consumer *)

\* send_and_wait of the idempotent producer: appended once, or it raises, which
\* does not tell whether the broker has the message.
Produce ==
  /\ batch.pc = "send" /\ sink.type = "kafka"
  /\ \/ topic' = Append(topic, batch.b) /\ batch' = NoSend /\ UNCHANGED dropped
     \/ topic' = Append(topic, batch.b) /\ GiveUp
     \/ topic' = topic /\ GiveUp
  /\ UNCHANGED <<pos, attempt, sink, owned, cut, server, consumer>>

Consuming == {q \in requests : q.via = "kafka"}

Poll ==
  /\ consumer.next > consumer.upto /\ consumer.upto = consumer.committed
  /\ \E n \in (consumer.upto + 1)..Len(topic) : consumer' = [consumer EXCEPT !.upto = n]
  /\ UNCHANGED <<client, server, topic, dropped>>

\* The next message of the poll goes through write_console_batch.
Consume ==
  /\ consumer.next <= consumer.upto /\ Consuming = {}
  /\ requests' = requests \cup {Call(topic[consumer.next], "kafka", 0)}
  /\ UNCHANGED <<client, cache, db, shared, crashes, kafka, dropped>>

\* A batch that could not be written is logged and counts as processed.
Consumed(q) ==
  /\ q \in Consuming /\ q.pc \in {"ok", "error"}
  /\ requests' = requests \ {q}
  /\ consumer' = [consumer EXCEPT !.next = @ + 1]
  /\ dropped' = IF q.pc = "error" THEN dropped \cup Elements(q.lines) ELSE dropped
  /\ UNCHANGED <<client, cache, db, shared, crashes, topic>>

CommitOffset ==
  /\ consumer.next > consumer.upto /\ consumer.upto > consumer.committed
  /\ consumer' = [consumer EXCEPT !.committed = consumer.upto]
  /\ UNCHANGED <<client, server, topic, dropped>>

\* It starts again from the committed offset.
ConsumerDies ==
  /\ crashes < MaxCrashes /\ crashes' = crashes + 1
  /\ consumer' = [consumer EXCEPT !.next = consumer.committed + 1, !.upto = consumer.committed]
  /\ requests' = requests \ Consuming
  /\ shared' = shared \cup {Key(q) : q \in {p \in Consuming : p.pc = "mark"}}
  /\ UNCHANGED <<client, cache, db, topic, dropped>>

-----------------------------------------------------------------------------
(* The run *)

\* Ten seconds after the container's end, or when the agent shuts down, the pump is
\* cancelled.  Nobody catches that in _send: the lock is free, the batch forgotten, and a
\* POST under way goes on.  A pump that is not sending only reads no more.
PumpSends == batch.pc # "none" /\ Len(batch.b.lines) >= BatchMax

CancelPump ==
  /\ PumpSends
  /\ batch' = NoSend /\ cut' = cut \cup Elements(batch.b.lines)
  /\ UNCHANGED <<pos, attempt, sink, owned, server, kafka, dropped>>

\* The run is reaped and re-queued: its batches are now "not yours".
LoseRun ==
  /\ owned /\ owned' = FALSE
  /\ UNCHANGED <<pos, attempt, sink, batch, cut, server, kafka, dropped>>

-----------------------------------------------------------------------------
Serve == \E q \in requests : Check(q) \/ Write(q) \/ Mark(q)
Send == Post \/ Timeout \/ Produce
Ship == Poll \/ Consume \/ CommitOffset \/ \E q \in requests : Consumed(q)

Next ==
  \/ Emit \/ FlushExpired \/ Send \/ Serve \/ Ship
  \/ \E q \in requests : Reply(q) \/ HandlerDies(q)
  \/ ConsumerDies \/ LoseRun \/ CancelPump

Spec == Init /\ [][Next]_vars

\* The flusher polls twice a second, a POST ends by a reply or its timeout, and the
\* consumer keeps consuming.
FairSpec ==
  /\ Spec
  /\ WF_vars(FlushExpired) /\ WF_vars(Send) /\ WF_vars(Serve) /\ WF_vars(Ship)

-----------------------------------------------------------------------------
Stored == UNION {Elements(db[i].lines) : i \in DOMAIN db}
Queued == UNION {Elements(topic[i].lines) : i \in {j \in DOMAIN topic : j >= consumer.next}}

\* ingestion.py:58: the mark comes after the write so that nothing is lost silently:
\* a line the pump has read is in the sink, in the topic, or in the database, or
\* somebody logged that it was dropped, or the pump was cancelled while it sent it.
Accounted ==
  \A n \in 1..pos :
    [attempt |-> attempt, n |-> n]
      \in Elements(sink.buffer) \cup Elements(batch.b.lines) \cup Stored \cup Queued \cup dropped \cup cut

\* ingestion.py:61: a batch is written twice only if two calls for it were under way
\* at once, or the process died between its write and its mark.
DuplicatesExplained ==
  \A i, j \in DOMAIN db : (i # j /\ Key(db[i]) = Key(db[j])) => Key(db[i]) \in shared

\* The first time line l was stored.
FirstStored(l) ==
  CHOOSE i \in DOMAIN db : l \in Elements(db[i].lines)
                             /\ \A j \in 1..(i - 1) : l \notin Elements(db[j].lines)

\* sinks/base.py:72: "serializes batches": lines appear in the order the container wrote
\* them, late calls and retries notwithstanding, unless the earlier one was given up.
OrderKept ==
  \A k, l \in Stored :
    (k.attempt = l.attempt /\ k.n < l.n /\ k \notin dropped) => FirstStored(k) <= FirstStored(l)

\* SPEC.md 10: a line that was read is stored in the end, or its loss logged, or its
\* sender cancelled.
Delivered ==
  \A n \in 1..Lines :
    (pos >= n) ~> ([attempt |-> 1, n |-> n] \in Stored \cup dropped \cup cut)
=============================================================================
