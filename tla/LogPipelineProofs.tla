------------------------ MODULE LogPipelineProofs ------------------------
(***************************************************************************)
(* LogPipeline is type correct, loses no line silently, stores no batch    *)
(* twice without a reason and keeps the lines in order.                    *)
(*                                                                         *)
(* Accounted is not inductive: it rests on what a sequence number stands   *)
(* for.  All copies of a batch hold the same lines (OneContent), a number  *)
(* is marked, and its call answered, only when they are stored (Marked,    *)
(* Done), and the consumer's call is about the message its position points *)
(* at (Polled, InTopic).  DuplicatesExplained rests on there being one     *)
(* call at a time of a batch that nothing disturbed (OneCall), which       *)
(* leaves it marked or about to be (Unmarked, FirstWrite).  OrderKept      *)
(* rests on what a batch finds behind it on its way: nothing that its      *)
(* lines follow on is missing where it arrives (Follows).                  *)
(***************************************************************************)
EXTENDS LogPipeline, TLAPS, WellFoundedInduction

LEMMA Bounds ==
  /\ Lines \in Nat \ {0} /\ BatchMax \in Nat \ {0} /\ MaxAttempts \in Nat \ {0}
  /\ MaxCrashes \in Nat
BY PipelineAssumption DEF PipelineAssumption

-----------------------------------------------------------------------------
(* Types. *)

BatchState == [b: Batch, try: 0..MaxAttempts, pc: {"none", "send", "wait"}]
Sink == [id: Nat \ {0}, type: {"http", "kafka"}, seq: Nat, buffer: Seq(Line)]

\* While the batch may be sent again an attempt is left; an idle sink holds no lines.
Sendable == batch.pc = "send" => batch.try < MaxAttempts
Idle == batch.pc = "none" => batch = NoSend

\* What the consumer polled lies between its committed offset and the end of the topic.
Offsets ==
  /\ consumer.committed < consumer.next
  /\ consumer.committed <= consumer.upto /\ consumer.upto <= Len(topic)

\* TypeOK and these, by the actor whose steps change them.
ClientTyped ==
  /\ pos \in 0..Lines /\ attempt \in Nat \ {0}
  /\ sink \in Sink /\ Len(sink.buffer) < BatchMax
  /\ batch \in BatchState /\ Sendable /\ Idle
  /\ owned \in BOOLEAN
  /\ \A l \in cut : l \in Line
ServerTyped ==
  /\ \A q \in requests : q \in Request
  /\ \A s \in cache : s \in Nat
  /\ db \in Seq(Batch)
  /\ \A k \in shared : k \in Nat \X Nat
  /\ crashes \in 0..MaxCrashes
KafkaTyped ==
  /\ topic \in Seq(Batch)
  /\ consumer \in [committed: Nat, next: Nat, upto: Nat]
  /\ Offsets
DropsTyped == \A l \in dropped : l \in Line
Typed == ClientTyped /\ ServerTyped /\ KafkaTyped /\ DropsTyped

LEMMA TypedIsTypeOK == ASSUME Typed PROVE TypeOK
<1>1. sink \in [id: Nat \ {0}, type: {"http", "kafka"}, seq: Nat, buffer: Seq(Line)]
  BY Zenon DEF Typed, ClientTyped, Sink
<1>2. batch \in [b: Batch, try: 0..MaxAttempts, pc: {"none", "send", "wait"}]
  BY Zenon DEF Typed, ClientTyped, BatchState
<1> QED
  BY <1>1, <1>2, Zenon DEF Typed, ClientTyped, ServerTyped, KafkaTyped, DropsTyped, TypeOK

LEMMA Kept ==
  /\ ClientTyped /\ UNCHANGED client => ClientTyped'
  /\ ServerTyped /\ UNCHANGED server => ServerTyped'
  /\ KafkaTyped /\ UNCHANGED kafka => KafkaTyped'
  /\ DropsTyped /\ UNCHANGED dropped => DropsTyped'
<1>1. ClientTyped /\ UNCHANGED client => ClientTyped'
  BY DEF ClientTyped, client, Sendable, Idle
<1>2. ServerTyped /\ UNCHANGED server => ServerTyped'
  BY DEF ServerTyped, server
<1>3. KafkaTyped /\ UNCHANGED kafka => KafkaTyped'
  BY DEF KafkaTyped, kafka, Offsets
<1>4. DropsTyped /\ UNCHANGED dropped => DropsTyped'
  BY DEF DropsTyped
<1> QED BY <1>1, <1>2, <1>3, <1>4
LEMMA SinkFields ==
  ASSUME NEW s \in Sink
  PROVE  /\ s.id \in Nat \ {0} /\ s.type \in {"http", "kafka"} /\ s.seq \in Nat
         /\ s.buffer \in Seq(Line)
         /\ \A lines \in Seq(Line) : [s EXCEPT !.buffer = lines] \in Sink
         /\ [s EXCEPT !.seq = @ + 1, !.buffer = <<>>] \in Sink
<1>1. /\ s.id \in Nat \ {0} /\ s.type \in {"http", "kafka"} /\ s.seq \in Nat
      /\ s.buffer \in Seq(Line)
  BY DEF Sink
<1>2. ASSUME NEW lines \in Seq(Line) PROVE [s EXCEPT !.buffer = lines] \in Sink
  BY <1>2 DEF Sink
<1>3. [s EXCEPT !.seq = @ + 1, !.buffer = <<>>] \in Sink
  <2>1. PICK t : t = [s EXCEPT !.seq = @ + 1]
    OBVIOUS
  <2>2. t \in Sink
    BY <2>1 DEF Sink
  <2>3. <<>> \in Seq(Line)
    OBVIOUS
  <2>4. [t EXCEPT !.buffer = <<>>] \in Sink
    BY <2>2, <2>3 DEF Sink
  <2>5. [t EXCEPT !.buffer = <<>>] = [s EXCEPT !.seq = @ + 1, !.buffer = <<>>]
    BY <2>1
  <2> QED BY <2>4, <2>5
<1> QED BY <1>1, <1>2, <1>3

LEMMA BatchFields ==
  ASSUME NEW x \in BatchState
  PROVE  /\ x.b \in Batch /\ x.try \in 0..MaxAttempts /\ x.pc \in {"none", "send", "wait"}
         /\ x.b.sink \in Nat /\ x.b.seq \in Nat /\ x.b.lines \in Seq(Line)
BY DEF BatchState, Batch

LEMMA RequestFields ==
  ASSUME NEW q \in Request
  PROVE  /\ q.sink \in Nat /\ q.seq \in Nat /\ q.lines \in Seq(Line) /\ q.via \in {"http", "kafka"}
         /\ \A pc \in {"check", "write", "mark", "ok", "rejected", "error"} :
              [q EXCEPT !.pc = pc] \in Request
         /\ [sink |-> q.sink, seq |-> q.seq, lines |-> q.lines] \in Batch
BY DEF Request, Batch

LEMMA CallType ==
  ASSUME NEW b \in Batch, NEW via \in {"http", "kafka"}, NEW try \in Nat
  PROVE  Call(b, via, try) \in Request
BY DEF Call, Request, Batch

LEMMA MoveType ==
  ASSUME ServerTyped, NEW q \in requests,
         NEW pc \in {"check", "write", "mark", "ok", "rejected", "error"}, Move(q, pc)
  PROVE  \A p \in requests' : p \in Request
BY RequestFields DEF Move, ServerTyped

LEMMA KeyType == ASSUME NEW q \in Request PROVE Key(q) \in Nat \X Nat
BY RequestFields DEF Key

LEMMA NoSendType == NoSend \in BatchState /\ NoSend.pc = "none" /\ NoSend.b.lines = <<>>
BY Bounds DEF NoSend, NoBatch, BatchState, Batch

LEMMA ElementsType ==
  ASSUME NEW s \in Seq(Line) PROVE \A l \in Elements(s) : l \in Line
BY DEF Elements

LEMMA GiveUpType ==
  ASSUME ClientTyped, DropsTyped, GiveUp
  PROVE  batch' \in BatchState /\ Sendable' /\ Idle' /\ DropsTyped'
<1>1. batch.b.lines \in Seq(Line)
  BY BatchFields DEF ClientTyped
<1> QED BY <1>1, NoSendType, ElementsType DEF GiveUp, Sendable, Idle, DropsTyped

LEMMA FailedType ==
  ASSUME ClientTyped, DropsTyped, Failed
  PROVE  batch' \in BatchState /\ Sendable' /\ Idle' /\ DropsTyped'
<1>1. CASE batch.try >= MaxAttempts
  BY <1>1, GiveUpType DEF Failed
<1>2. CASE ~(batch.try >= MaxAttempts)
  <2>1. batch' = [batch EXCEPT !.pc = "send"] /\ dropped' = dropped
    BY <1>2 DEF Failed
  <2>2. batch' \in BatchState /\ batch'.try = batch.try /\ batch'.pc = "send"
    BY <2>1 DEF ClientTyped, BatchState
  <2>3. batch.try < MaxAttempts
    BY <1>2, Bounds, BatchFields DEF ClientTyped
  <2> QED BY <2>1, <2>2, <2>3 DEF Sendable, Idle, DropsTyped
<1> QED BY <1>1, <1>2

LEMMA PopType ==
  ASSUME ClientTyped, NEW lines \in Seq(Line), Pop(lines)
  PROVE  /\ sink' \in Sink /\ sink'.buffer = <<>> /\ sink'.type = sink.type
         /\ sink'.seq = sink.seq + 1 /\ sink'.id = sink.id
         /\ batch' \in BatchState /\ Sendable' /\ Idle'
         /\ batch'.pc = "send" /\ batch'.b.lines = lines
         /\ batch'.b.seq = sink.seq + 1 /\ batch'.b.sink = sink.id
<1>0. sink \in Sink
  BY DEF ClientTyped
<1>1. sink' \in Sink
  BY <1>0, SinkFields DEF Pop
<1>2. sink' = [sink EXCEPT !.seq = @ + 1, !.buffer = <<>>]
  BY DEF Pop
<1>3. sink'.buffer = <<>> /\ sink'.type = sink.type /\ sink'.seq = sink.seq + 1 /\ sink'.id = sink.id
  BY <1>0, <1>2 DEF Sink
<1>4. batch' = [b |-> [sink |-> sink.id, seq |-> sink.seq + 1, lines |-> lines],
                try |-> 0, pc |-> "send"]
  BY DEF Pop
<1>5. batch' \in BatchState
  <2>0. sink.id \in Nat /\ sink.seq + 1 \in Nat
    BY <1>0 DEF Sink
  <2>1. [sink |-> sink.id, seq |-> sink.seq + 1, lines |-> lines] \in Batch
    BY <2>0 DEF Batch
  <2>2. 0 \in 0..MaxAttempts
    BY Bounds
  <2> QED BY <1>4, <2>1, <2>2 DEF BatchState
<1>6. Sendable' /\ Idle'
  BY <1>4, Bounds DEF Sendable, Idle
<1> QED BY <1>1, <1>3, <1>4, <1>5, <1>6

LEMMA LineAt == ASSUME ClientTyped, NEW n \in Nat \ {0} PROVE [attempt |-> attempt, n |-> n] \in Line
BY DEF ClientTyped, Line

LEMMA EmitTyped == ASSUME Typed, Emit PROVE ClientTyped'
<1> USE DEF Typed
<1>1. PICK lines : lines = Append(sink.buffer, [attempt |-> attempt, n |-> pos + 1])
  OBVIOUS
<1>2. sink.buffer \in Seq(Line) /\ sink \in Sink /\ batch \in BatchState /\ pos \in 0..Lines
  BY SinkFields DEF ClientTyped
<1>3. lines \in Seq(Line)
  <2>1. pos + 1 \in Nat \ {0}
    BY <1>2, Bounds
  <2> QED BY <1>1, <1>2, <2>1, LineAt
<1>4. pos' \in 0..Lines
  BY <1>2, Bounds DEF Emit
<1>5. attempt' \in Nat \ {0} /\ owned' \in BOOLEAN /\ cut' = cut
  BY DEF Emit, ClientTyped
<1>6. CASE Len(lines) >= BatchMax
  <2>1. Pop(lines)
    BY <1>1, <1>6 DEF Emit
  <2>2. sink' \in Sink /\ sink'.buffer = <<>> /\ batch' \in BatchState /\ Sendable' /\ Idle'
    BY <1>3, <2>1, PopType
  <2> QED BY <1>4, <1>5, <2>2, Bounds DEF ClientTyped
<1>7. CASE ~(Len(lines) >= BatchMax)
  <2>1. sink' = [sink EXCEPT !.buffer = lines] /\ batch' = batch
    BY <1>1, <1>7 DEF Emit
  <2>2. sink' \in Sink
    BY <1>2, <1>3, <2>1, SinkFields
  <2>3. sink'.buffer = lines
    BY <1>2, <2>1 DEF Sink
  <2>4. Len(sink'.buffer) < BatchMax
    BY <1>3, <1>7, <2>3, Bounds
  <2> QED BY <1>4, <1>5, <2>1, <2>2, <2>4 DEF ClientTyped, Sendable, Idle
<1> QED BY <1>6, <1>7

LEMMA PostTyped == ASSUME Typed, Post PROVE ClientTyped' /\ ServerTyped'
<1> USE DEF Typed
<1>1. PICK q : q = Call(batch.b, "http", batch.try + 1)
  OBVIOUS
<1>2. batch \in BatchState /\ batch.try + 1 \in 0..MaxAttempts
  <2>1. batch \in BatchState
    BY DEF ClientTyped
  <2>2. batch.try < MaxAttempts
    BY DEF ClientTyped, Sendable, Post
  <2> QED BY <2>1, <2>2, BatchFields, Bounds
<1>3. q \in Request
  BY <1>1, <1>2, BatchFields, CallType
<1>4. batch' \in BatchState /\ batch'.pc = "wait"
  BY <1>2 DEF Post, BatchState
<1>5. \A k \in shared' : k \in Nat \X Nat
  BY <1>1, <1>3, KeyType DEF Post, ServerTyped
<1>6. \A p \in requests' : p \in Request
  BY <1>1, <1>3 DEF Post, ServerTyped
<1>7. ClientTyped'
  BY <1>4 DEF Post, ClientTyped, Sendable, Idle
<1> QED BY <1>5, <1>6, <1>7 DEF Post, ServerTyped

\* A client step that changes only the batch.
LEMMA BatchOnly ==
  ASSUME ClientTyped, UNCHANGED <<pos, attempt, sink, owned, cut>>, batch' \in BatchState, Sendable', Idle'
  PROVE  ClientTyped'
BY DEF ClientTyped

LEMMA ReplyTyped ==
  ASSUME Typed, NEW q \in requests, Reply(q)
  PROVE  Typed'
<1> USE DEF Typed
<1>1. batch' \in BatchState /\ Sendable' /\ Idle' /\ DropsTyped'
  <2>1. CASE batch' = batch /\ dropped' = dropped
    BY <2>1 DEF ClientTyped, DropsTyped, Sendable, Idle
  <2>2. CASE batch' = NoSend /\ dropped' = dropped
    BY <2>2, NoSendType DEF DropsTyped, Sendable, Idle
  <2>3. CASE GiveUp \/ Failed
    BY <2>3, GiveUpType, FailedType
  <2> QED BY <2>1, <2>2, <2>3 DEF Reply
<1>2. ClientTyped'
  BY <1>1, BatchOnly DEF Reply
<1>3. ServerTyped'
  BY DEF Reply, ServerTyped
<1>4. KafkaTyped'
  BY Kept DEF Reply
<1> QED BY <1>1, <1>2, <1>3, <1>4

LEMMA ProduceTyped == ASSUME Typed, Produce PROVE Typed'
<1> USE DEF Typed
<1>1. batch.b \in Batch
  BY BatchFields DEF ClientTyped
<1>2. topic' = topic \/ topic' = Append(topic, batch.b)
  BY DEF Produce
<1>3. topic' \in Seq(Batch) /\ Len(topic) <= Len(topic')
  BY <1>1, <1>2 DEF KafkaTyped
<1>4. KafkaTyped'
  BY <1>3 DEF Produce, KafkaTyped, Offsets
<1>5. batch' \in BatchState /\ Sendable' /\ Idle' /\ DropsTyped'
  <2>1. CASE batch' = NoSend /\ dropped' = dropped
    BY <2>1, NoSendType DEF DropsTyped, Sendable, Idle
  <2>2. CASE GiveUp
    BY <2>2, GiveUpType
  <2> QED BY <2>1, <2>2 DEF Produce
<1>6. ClientTyped'
  BY <1>5, BatchOnly DEF Produce
<1>7. ServerTyped'
  BY Kept DEF Produce
<1> QED BY <1>4, <1>5, <1>6, <1>7

LEMMA ConsumeTyped == ASSUME Typed, Consume PROVE ServerTyped' /\ consumer.next \in DOMAIN topic
<1> USE DEF Typed
<1>1. consumer.next \in DOMAIN topic
  BY DEF Consume, KafkaTyped, Offsets
<1>2. topic[consumer.next] \in Batch
  BY <1>1 DEF KafkaTyped
<1>3. Call(topic[consumer.next], "kafka", 0) \in Request
  BY <1>2, CallType
<1> QED BY <1>1, <1>3 DEF Consume, ServerTyped

LEMMA TypedNext == ASSUME Typed, [Next]_vars PROVE Typed'
<1> USE DEF Typed
<1>1. CASE Emit
  <2>1. UNCHANGED server /\ UNCHANGED kafka /\ UNCHANGED dropped
    BY <1>1 DEF Emit
  <2> QED BY <1>1, <2>1, EmitTyped, Kept
<1>2. CASE FlushExpired
  <2>1. sink.buffer \in Seq(Line) /\ Pop(sink.buffer)
    BY <1>2, SinkFields DEF FlushExpired, ClientTyped
  <2>2. ClientTyped'
    BY <1>2, <2>1, PopType, Bounds DEF FlushExpired, ClientTyped
  <2>3. UNCHANGED server /\ UNCHANGED kafka /\ UNCHANGED dropped
    BY <1>2 DEF FlushExpired
  <2> QED BY <2>2, <2>3, Kept
<1>3. CASE Post
  <2>1. UNCHANGED kafka /\ UNCHANGED dropped
    BY <1>3 DEF Post
  <2> QED BY <1>3, <2>1, PostTyped, Kept
<1>4. CASE Timeout
  <2>1. UNCHANGED server /\ UNCHANGED kafka /\ Failed /\ UNCHANGED <<pos, attempt, sink, owned, cut>>
    BY <1>4 DEF Timeout
  <2> QED BY <2>1, FailedType, BatchOnly, Kept
<1>5. CASE Produce
  BY <1>5, ProduceTyped
<1>6. ASSUME NEW q \in requests, Check(q) PROVE Typed'
  <2>1. \A p \in requests' : p \in Request
    BY <1>6, MoveType DEF Check
  <2>2. ServerTyped'
    BY <1>6, <2>1 DEF Check, ServerTyped
  <2>3. UNCHANGED client /\ UNCHANGED kafka /\ UNCHANGED dropped
    BY <1>6 DEF Check
  <2> QED BY <2>2, <2>3, Kept
<1>7. ASSUME NEW q \in requests, Write(q) PROVE Typed'
  <2>1. \A p \in requests' : p \in Request
    BY <1>7, MoveType DEF Write
  <2>2. [sink |-> q.sink, seq |-> q.seq, lines |-> q.lines] \in Batch
    BY RequestFields DEF ServerTyped
  <2>3. db' \in Seq(Batch)
    BY <1>7, <2>2 DEF Write, ServerTyped
  <2>4. ServerTyped'
    BY <1>7, <2>1, <2>3 DEF Write, ServerTyped
  <2>5. UNCHANGED client /\ UNCHANGED kafka /\ UNCHANGED dropped
    BY <1>7 DEF Write
  <2> QED BY <2>4, <2>5, Kept
<1>8. ASSUME NEW q \in requests, Mark(q) PROVE Typed'
  <2>1. \A p \in requests' : p \in Request
    BY <1>8, MoveType DEF Mark
  <2>2. q.seq \in Nat
    BY RequestFields DEF ServerTyped
  <2>3. ServerTyped'
    BY <1>8, <2>1, <2>2 DEF Mark, ServerTyped
  <2>4. UNCHANGED client /\ UNCHANGED kafka /\ UNCHANGED dropped
    BY <1>8 DEF Mark
  <2> QED BY <2>3, <2>4, Kept
<1>9. ASSUME NEW q \in requests, Reply(q) PROVE Typed'
  BY <1>9, ReplyTyped
<1>10. ASSUME NEW q \in requests, HandlerDies(q) PROVE Typed'
  <2>1. crashes' \in 0..MaxCrashes
    BY <1>10, Bounds DEF HandlerDies, ServerTyped
  <2>2. Key(q) \in Nat \X Nat
    BY KeyType DEF ServerTyped
  <2>3. ServerTyped'
    BY <1>10, <2>1, <2>2 DEF HandlerDies, ServerTyped
  <2>4. UNCHANGED client /\ UNCHANGED kafka /\ UNCHANGED dropped
    BY <1>10 DEF HandlerDies
  <2> QED BY <2>3, <2>4, Kept
<1>11. CASE Poll
  <2>1. PICK n \in (consumer.upto + 1)..Len(topic) : consumer' = [consumer EXCEPT !.upto = n]
    BY <1>11 DEF Poll
  <2>2. topic' = topic
    BY <1>11 DEF Poll
  <2>3. KafkaTyped'
    BY <2>1, <2>2 DEF KafkaTyped, Offsets
  <2>4. UNCHANGED client /\ UNCHANGED server /\ UNCHANGED dropped
    BY <1>11 DEF Poll
  <2> QED BY <2>3, <2>4, Kept
<1>12. CASE Consume
  <2>1. UNCHANGED client /\ UNCHANGED kafka /\ UNCHANGED dropped
    BY <1>12 DEF Consume
  <2> QED BY <1>12, <2>1, ConsumeTyped, Kept
<1>13. ASSUME NEW q \in requests, Consumed(q) PROVE Typed'
  <2>1. q.lines \in Seq(Line)
    BY RequestFields DEF ServerTyped
  <2>2. DropsTyped'
    BY <1>13, <2>1, ElementsType DEF Consumed, DropsTyped
  <2>3. KafkaTyped'
    BY <1>13 DEF Consumed, KafkaTyped, Offsets
  <2>4. ServerTyped'
    BY <1>13 DEF Consumed, ServerTyped
  <2>5. UNCHANGED client
    BY <1>13 DEF Consumed
  <2> QED BY <2>2, <2>3, <2>4, <2>5, Kept
<1>14. CASE CommitOffset
  <2>1. KafkaTyped'
    BY <1>14 DEF CommitOffset, KafkaTyped, Offsets
  <2>2. UNCHANGED client /\ UNCHANGED server /\ UNCHANGED dropped
    BY <1>14 DEF CommitOffset
  <2> QED BY <2>1, <2>2, Kept
<1>15. CASE ConsumerDies
  <2>1. crashes' \in 0..MaxCrashes
    BY <1>15, Bounds DEF ConsumerDies, ServerTyped
  <2>2. \A k \in shared' : k \in Nat \X Nat
    BY <1>15, KeyType DEF ConsumerDies, ServerTyped, Consuming
  <2>3. ServerTyped'
    BY <1>15, <2>1, <2>2 DEF ConsumerDies, ServerTyped
  <2>4. PICK c : c = [consumer EXCEPT !.next = consumer.committed + 1]
    OBVIOUS
  <2>6. /\ c \in [committed: Nat, next: Nat, upto: Nat]
        /\ c.committed = consumer.committed /\ c.next = consumer.committed + 1
    BY <2>4 DEF KafkaTyped
  <2>7. consumer' = [c EXCEPT !.upto = consumer.committed]
    BY <1>15, <2>4 DEF ConsumerDies
  <2>8. /\ consumer' \in [committed: Nat, next: Nat, upto: Nat]
        /\ consumer'.committed = consumer.committed /\ consumer'.next = consumer.committed + 1
        /\ consumer'.upto = consumer.committed
    BY <2>6, <2>7 DEF KafkaTyped
  <2>9. KafkaTyped'
    BY <1>15, <2>8 DEF ConsumerDies, KafkaTyped, Offsets
  <2>5. UNCHANGED client /\ UNCHANGED dropped
    BY <1>15 DEF ConsumerDies
  <2> QED BY <2>3, <2>9, <2>5, Kept
<1>16. CASE LoseRun
  <2>1. ClientTyped'
    BY <1>16 DEF LoseRun, ClientTyped, Sendable, Idle
  <2>2. UNCHANGED server /\ UNCHANGED kafka /\ UNCHANGED dropped
    BY <1>16 DEF LoseRun
  <2> QED BY <2>1, <2>2, Kept
<1>18. CASE CancelPump
  <2>1. batch.b.lines \in Seq(Line)
    BY BatchFields DEF ClientTyped
  <2>2. \A l \in cut' : l \in Line
    BY <1>18, <2>1, ElementsType DEF CancelPump, ClientTyped
  <2>3. ClientTyped'
    BY <1>18, <2>2, NoSendType DEF CancelPump, ClientTyped, Sendable, Idle
  <2>4. UNCHANGED server /\ UNCHANGED kafka /\ UNCHANGED dropped
    BY <1>18 DEF CancelPump
  <2> QED BY <2>3, <2>4, Kept
<1>17. CASE UNCHANGED vars
  <2>1. UNCHANGED client /\ UNCHANGED server /\ UNCHANGED kafka /\ UNCHANGED dropped
    BY <1>17 DEF vars, client, server, kafka
  <2> QED BY <2>1, Kept
<1> QED
  BY <1>1, <1>2, <1>3, <1>4, <1>5, <1>6, <1>7, <1>8, <1>9, <1>10, <1>11, <1>12, <1>13,
     <1>14, <1>15, <1>16, <1>17, <1>18 DEF Next, Send, Serve, Ship

LEMMA TypedInit == Init => Typed
<1> SUFFICES ASSUME Init PROVE Typed
  OBVIOUS
<1>1. sink \in Sink /\ sink.buffer = <<>>
  BY DEF Init, NewSink, Sink
<1>2. batch \in BatchState /\ Sendable /\ Idle
  BY NoSendType DEF Init, Sendable, Idle
<1>3. ClientTyped
  BY <1>1, <1>2, Bounds DEF Init, ClientTyped
<1>4. ServerTyped
  BY Bounds DEF Init, ServerTyped
<1>5. KafkaTyped
  BY DEF Init, KafkaTyped, Offsets
<1> QED BY <1>3, <1>4, <1>5 DEF Init, DropsTyped, Typed

\* Every reachable state has the types LogPipeline declares.
THEOREM TypeCorrect == Spec => []TypeOK
<1>1. Init => Typed
  BY TypedInit
<1>2. Typed /\ [Next]_vars => Typed'
  BY TypedNext
<1>3. Typed => TypeOK
  BY TypedIsTypeOK
<1> QED BY <1>1, <1>2, <1>3, PTL DEF Spec

-----------------------------------------------------------------------------
(* What a sequence number stands for. *)

\* f[n] is what the sink popped under sequence n.
Copy(f, x) == x.seq \in 0..sink.seq /\ x.lines = f[x.seq]

SentCopy(f) == batch.pc # "none" => Copy(f, batch.b)
CalledCopies(f) == \A q \in requests : Copy(f, q)
StoredCopies(f) == \A i \in DOMAIN db : Copy(f, db[i])
QueuedCopies(f) == \A i \in DOMAIN topic : Copy(f, topic[i])
Copies(f) == SentCopy(f) /\ CalledCopies(f) /\ StoredCopies(f) /\ QueuedCopies(f)

\* All copies of a batch hold the same lines, wherever they are.
OneContent == \E f \in [Nat -> Seq(Line)] : Copies(f)

Written(n) == \E i \in DOMAIN db : db[i].seq = n

\* A sequence is marked, and a call moves past its write, only when the batch is stored.
Marked == \A n \in cache : Written(n)
Done == \A q \in requests : q.pc \in {"mark", "ok"} => Written(q.seq)

\* The one call of the consumer is about the message its position points at.
Polled ==
  /\ \A q \in requests : q.via = "kafka" =>
       consumer.next \in DOMAIN topic /\ q.lines = topic[consumer.next].lines
  /\ \A p, q \in requests : (p.via = "kafka" /\ q.via = "kafka") => p = q

LEMMA Below ==
  ASSUME NEW n \in Nat, NEW k \in 0..n
  PROVE  k \in Nat /\ k # n + 1 /\ k \in 0..(n + 1)
OBVIOUS

LEMMA AppendAt ==
  ASSUME NEW s \in Seq(Batch), NEW b \in Batch
  PROVE  /\ Len(s) + 1 \in DOMAIN Append(s, b) /\ Append(s, b)[Len(s) + 1] = b
         /\ \A i \in DOMAIN s : i \in DOMAIN Append(s, b) /\ Append(s, b)[i] = s[i]
         /\ \A i \in DOMAIN Append(s, b) :
              (i \in DOMAIN s /\ Append(s, b)[i] = s[i]) \/ (i = Len(s) + 1 /\ Append(s, b)[i] = b)
OBVIOUS

LEMMA MoveFields ==
  ASSUME ServerTyped, NEW q \in requests,
         NEW pc \in {"check", "write", "mark", "ok", "rejected", "error"}
  PROVE  LET r == [q EXCEPT !.pc = pc]
         IN  r.seq = q.seq /\ r.lines = q.lines /\ r.via = q.via /\ r.pc = pc /\ r.sink = q.sink
BY DEF ServerTyped, Request

\* After a step of a call, every call is one of before, or the moved one.
LEMMA MoveCalls ==
  ASSUME ServerTyped, NEW q \in requests,
         NEW pc \in {"check", "write", "mark", "ok", "rejected", "error"}, Move(q, pc)
  PROVE  \A r \in requests' :
           \/ r \in requests /\ r # q
           \/ /\ r = [q EXCEPT !.pc = pc]
              /\ r.seq = q.seq /\ r.lines = q.lines /\ r.via = q.via /\ r.pc = pc /\ r.sink = q.sink
<1>1. PICK x : x = [q EXCEPT !.pc = pc]
  OBVIOUS
<1>2. x.seq = q.seq /\ x.lines = q.lines /\ x.via = q.via /\ x.pc = pc /\ x.sink = q.sink
  BY <1>1, MoveFields
<1>3. requests' = (requests \ {q}) \cup {x}
  BY <1>1 DEF Move
<1>4. \A r \in requests' : (r \in requests /\ r # q) \/ r = x
  BY <1>3
<1> QED BY <1>1, <1>2, <1>4

LEMMA CallFields ==
  ASSUME NEW b, NEW via, NEW try
  PROVE  LET q == Call(b, via, try)
         IN  /\ q.sink = b.sink /\ q.seq = b.seq /\ q.lines = b.lines
             /\ q.via = via /\ q.try = try /\ q.pc = "check"
BY DEF Call

\* A step that leaves the sink alone keeps what it leaves alone.
LEMMA CopiesKept ==
  ASSUME NEW f, Copies(f), UNCHANGED sink
  PROVE  /\ batch' = NoSend \/ (batch.pc # "none" /\ batch'.b = batch.b) \/ batch' = batch => SentCopy(f)'
         /\ (\A r \in requests' : r \in requests \/ \E q \in requests : r.seq = q.seq /\ r.lines = q.lines)
               => CalledCopies(f)'
         /\ UNCHANGED db => StoredCopies(f)'
         /\ UNCHANGED topic => QueuedCopies(f)'
<1>1. \A x : Copy(f, x) <=> Copy(f, x)'
  BY DEF Copy
<1>2. batch' = NoSend \/ (batch.pc # "none" /\ batch'.b = batch.b) \/ batch' = batch => SentCopy(f)'
  BY NoSendType DEF Copies, SentCopy, Copy
<1>3. (\A r \in requests' : r \in requests \/ \E q \in requests : r.seq = q.seq /\ r.lines = q.lines)
        => CalledCopies(f)'
  BY DEF Copies, CalledCopies, Copy
<1>4. UNCHANGED db => StoredCopies(f)'
  BY DEF Copies, StoredCopies, Copy
<1>5. UNCHANGED topic => QueuedCopies(f)'
  BY DEF Copies, QueuedCopies, Copy
<1> QED BY <1>2, <1>3, <1>4, <1>5

LEMMA PopCopies ==
  ASSUME Typed, OneContent, Unlocked, NEW lines \in Seq(Line), Pop(lines),
         UNCHANGED server, UNCHANGED kafka
  PROVE  OneContent'
<1>1. PICK f \in [Nat -> Seq(Line)] : Copies(f)
  BY DEF OneContent
<1>2. sink.seq \in Nat
  BY SinkFields DEF Typed, ClientTyped
<1>3. PICK m \in Nat : m = sink.seq + 1
  BY <1>2
<1>4. PICK g \in [Nat -> Seq(Line)] : g[m] = lines /\ \A n \in Nat \ {m} : g[n] = f[n]
  <2>1. PICK g : g = [n \in Nat |-> IF n = m THEN lines ELSE f[n]]
    OBVIOUS
  <2>2. g \in [Nat -> Seq(Line)]
    BY <2>1
  <2>3. g[m] = lines /\ \A n \in Nat \ {m} : g[n] = f[n]
    BY <2>1
  <2> QED BY <2>2, <2>3
<1>5. /\ sink'.seq = sink.seq + 1 /\ batch'.b.seq = sink.seq + 1 /\ batch'.b.lines = lines
  BY PopType DEF Typed
<1>6. \A x : Copy(f, x) => x.seq \in 0..sink'.seq /\ x.lines = g[x.seq]
  <2> SUFFICES ASSUME NEW x, Copy(f, x) PROVE x.seq \in 0..sink'.seq /\ x.lines = g[x.seq]
    OBVIOUS
  <2>1. x.seq \in 0..sink.seq /\ x.lines = f[x.seq]
    BY DEF Copy
  <2>2. x.seq \in Nat \ {m} /\ x.seq \in 0..(sink.seq + 1)
    BY <1>2, <1>3, <2>1, Below
  <2> QED BY <1>4, <1>5, <2>1, <2>2
<1>7. CalledCopies(g)'
  BY <1>1, <1>6 DEF Copies, CalledCopies, Copy, server
<1>8. StoredCopies(g)'
  BY <1>1, <1>6 DEF Copies, StoredCopies, Copy, server
<1>9. QueuedCopies(g)'
  BY <1>1, <1>6 DEF Copies, QueuedCopies, Copy, kafka
<1>10. SentCopy(g)'
  <2>1. batch'.b.seq = m /\ sink'.seq = m
    BY <1>3, <1>5
  <2>2. m \in 0..m
    OBVIOUS
  <2> QED BY <1>4, <1>5, <2>1, <2>2 DEF SentCopy, Copy
<1> QED BY <1>7, <1>8, <1>9, <1>10 DEF OneContent, Copies

LEMMA FailedBatch ==
  ASSUME ClientTyped, Failed
  PROVE  batch' = NoSend \/ batch'.b = batch.b
BY DEF Failed, GiveUp, ClientTyped, BatchState

\* Every step but those that pop the buffer leaves the numbering as it is.
LEMMA CopiesNext == ASSUME Typed, OneContent, [Next]_vars PROVE OneContent'
<1> USE DEF Typed
<1>1. PICK f \in [Nat -> Seq(Line)] : Copies(f)
  BY DEF OneContent
<1>2. SUFFICES ASSUME ~ \E lines \in Seq(Line) : Unlocked /\ Pop(lines) /\ UNCHANGED server /\ UNCHANGED kafka
               PROVE  OneContent'
  BY PopCopies
<1>0. ClientTyped /\ batch \in BatchState
  BY DEF ClientTyped
<1>3. CASE Emit
  <2>1. PICK lines : lines = Append(sink.buffer, [attempt |-> attempt, n |-> pos + 1])
    OBVIOUS
  <2>2. lines \in Seq(Line)
    <3>1. pos \in 0..Lines /\ sink.buffer \in Seq(Line)
      BY SinkFields DEF ClientTyped
    <3>2. pos + 1 \in Nat \ {0}
      BY <3>1, Bounds
    <3> QED BY <2>1, <3>1, <3>2, LineAt
  <2>3. /\ batch' = batch /\ sink' = [sink EXCEPT !.buffer = lines]
        /\ requests' = requests /\ db' = db /\ topic' = topic
    BY <1>2, <1>3, <2>1, <2>2 DEF Emit, server, kafka
  <2>4. sink'.seq = sink.seq
    BY <2>3 DEF ClientTyped, Sink
  <2>5. \A x : Copy(f, x) => x.seq \in 0..sink'.seq /\ x.lines = f[x.seq]
    BY <2>4 DEF Copy
  <2>6. SentCopy(f)' /\ CalledCopies(f)'
    BY <1>1, <2>3, <2>5 DEF Copies, SentCopy, CalledCopies, Copy
  <2>7. StoredCopies(f)' /\ QueuedCopies(f)'
    BY <1>1, <2>3, <2>5 DEF Copies, StoredCopies, QueuedCopies, Copy
  <2> QED BY <2>6, <2>7 DEF OneContent, Copies
<1>4. CASE FlushExpired
  <2>1. sink.buffer \in Seq(Line)
    BY SinkFields DEF ClientTyped
  <2> QED BY <1>2, <1>4, <2>1 DEF FlushExpired
<1>5. CASE Post
  <2>1. UNCHANGED sink /\ UNCHANGED db /\ UNCHANGED topic
    BY <1>5 DEF Post, kafka
  <2>2. batch.pc # "none" /\ batch'.b = batch.b
    BY <1>0, <1>5 DEF Post, BatchState
  <2>3. Copy(f, Call(batch.b, "http", batch.try + 1))
    BY <1>1, <2>2, CallFields DEF Copies, SentCopy, Copy
  <2>4. CalledCopies(f)'
    BY <1>1, <1>5, <2>1, <2>3 DEF Post, Copies, CalledCopies, Copy
  <2> QED BY <1>1, <2>1, <2>2, <2>4, CopiesKept DEF OneContent, Copies
<1>6. CASE Timeout \/ CancelPump
  <2>1. UNCHANGED sink /\ UNCHANGED db /\ UNCHANGED topic /\ UNCHANGED requests
    BY <1>6 DEF Timeout, CancelPump, server, kafka
  <2>2. batch' = NoSend \/ (batch.pc # "none" /\ batch'.b = batch.b)
    BY <1>0, <1>6, FailedBatch DEF Timeout, CancelPump
  <2> QED BY <1>1, <2>1, <2>2, CopiesKept DEF OneContent, Copies
<1>7. CASE Produce
  <2>1. UNCHANGED sink /\ UNCHANGED db /\ UNCHANGED requests
    BY <1>7 DEF Produce, server
  <2>2. batch' = NoSend /\ batch.pc # "none"
    BY <1>7 DEF Produce, GiveUp
  <2>3. topic' = topic \/ topic' = Append(topic, batch.b)
    BY <1>7 DEF Produce
  <2>4. Copy(f, batch.b) /\ topic \in Seq(Batch)
    BY <1>1, <2>2 DEF Copies, SentCopy, KafkaTyped
  <2>5. QueuedCopies(f)'
    <3>1. CASE topic' = topic
      BY <1>1, <2>1, <3>1 DEF Copies, QueuedCopies, Copy
    <3>2. CASE topic' = Append(topic, batch.b)
      <4>1. \A i \in DOMAIN topic' : (i \in DOMAIN topic /\ topic'[i] = topic[i]) \/ topic'[i] = batch.b
        BY <2>4, <3>2
      <4> QED BY <1>1, <2>1, <2>4, <4>1 DEF Copies, QueuedCopies, Copy
    <3> QED BY <2>3, <3>1, <3>2
  <2> QED BY <1>1, <2>1, <2>2, <2>5, CopiesKept DEF OneContent, Copies
<1>8. ASSUME NEW q \in requests,
             NEW pc \in {"check", "write", "mark", "ok", "rejected", "error"}, Move(q, pc),
             UNCHANGED sink, UNCHANGED batch, UNCHANGED topic,
             UNCHANGED db \/ db' = Append(db, [sink |-> q.sink, seq |-> q.seq, lines |-> q.lines])
      PROVE  OneContent'
  <2>1. \A r \in requests' : r \in requests \/ \E p \in requests : r.seq = p.seq /\ r.lines = p.lines
    BY <1>8, MoveCalls
  <2>2. StoredCopies(f)'
    <3>1. CASE UNCHANGED db
      BY <1>1, <1>8, <3>1 DEF Copies, StoredCopies, Copy
    <3>2. CASE db' = Append(db, [sink |-> q.sink, seq |-> q.seq, lines |-> q.lines])
      <4>1. PICK b : b = [sink |-> q.sink, seq |-> q.seq, lines |-> q.lines]
        OBVIOUS
      <4>4. b.seq = q.seq /\ b.lines = q.lines
        BY <4>1
      <4>2. Copy(f, b)
        BY <1>1, <4>4 DEF Copies, CalledCopies, Copy
      <4>3. \A i \in DOMAIN db' : (i \in DOMAIN db /\ db'[i] = db[i]) \/ db'[i] = b
        <5>1. b \in Batch /\ db \in Seq(Batch)
          BY <4>1, RequestFields DEF ServerTyped
        <5>2. db' = Append(db, b)
          BY <3>2, <4>1, Zenon
        <5>3. \A i \in DOMAIN Append(db, b) :
                (i \in DOMAIN db /\ Append(db, b)[i] = db[i]) \/ Append(db, b)[i] = b
          BY <5>1, AppendAt, SMTT(30)
        <5> QED BY <5>2, <5>3
      <4> QED BY <1>1, <1>8, <4>2, <4>3 DEF Copies, StoredCopies, Copy
    <3> QED BY <1>8, <3>1, <3>2
  <2> QED BY <1>1, <1>8, <2>1, <2>2, CopiesKept DEF OneContent, Copies
<1>9. ASSUME NEW q \in requests, Check(q) \/ Write(q) \/ Mark(q) PROVE OneContent'
  <2>1. UNCHANGED sink /\ UNCHANGED batch /\ UNCHANGED topic
    BY <1>9 DEF Check, Write, Mark, client, kafka
  <2>2. UNCHANGED db \/ db' = Append(db, [sink |-> q.sink, seq |-> q.seq, lines |-> q.lines])
    BY <1>9 DEF Check, Write, Mark
  <2>3. \E pc \in {"check", "write", "mark", "ok", "rejected", "error"} : Move(q, pc)
    BY <1>9 DEF Check, Write, Mark
  <2> QED BY <1>8, <2>1, <2>2, <2>3
<1>10. ASSUME requests' \subseteq requests, UNCHANGED sink, UNCHANGED db, UNCHANGED topic,
              batch' = NoSend \/ (batch.pc # "none" /\ batch'.b = batch.b) \/ batch' = batch
       PROVE  OneContent'
  BY <1>1, <1>10, CopiesKept DEF OneContent, Copies
<1>11. ASSUME NEW q \in requests, Reply(q) PROVE OneContent'
  <2>1. batch' = NoSend \/ (batch.pc # "none" /\ batch'.b = batch.b) \/ batch' = batch
    BY <1>0, <1>11, FailedBatch DEF Reply, GiveUp, Awaited
  <2>2. requests' \subseteq requests /\ UNCHANGED sink /\ UNCHANGED db /\ UNCHANGED topic
    BY <1>11 DEF Reply, kafka
  <2> QED BY <1>10, <2>1, <2>2
<1>12. CASE Consume
  <2>1. UNCHANGED sink /\ UNCHANGED batch /\ UNCHANGED db /\ UNCHANGED topic
    BY <1>12 DEF Consume, client, kafka
  <2>2. Copy(f, Call(topic[consumer.next], "kafka", 0))
    BY <1>1, <1>12, ConsumeTyped, CallFields DEF Copies, QueuedCopies, Copy
  <2>3. CalledCopies(f)'
    BY <1>1, <1>12, <2>1, <2>2 DEF Consume, Copies, CalledCopies, Copy
  <2> QED BY <1>1, <2>1, <2>3, CopiesKept DEF OneContent, Copies
<1>13. ASSUME NEW q \in requests, HandlerDies(q) \/ Consumed(q) PROVE OneContent'
  <2>1. /\ requests' \subseteq requests /\ UNCHANGED sink /\ UNCHANGED db /\ UNCHANGED topic
        /\ UNCHANGED batch
    BY <1>13 DEF HandlerDies, Consumed, client, kafka
  <2> QED BY <1>10, <2>1
<1>14. CASE Poll \/ CommitOffset \/ ConsumerDies \/ LoseRun \/ UNCHANGED vars
  <2>1. /\ requests' \subseteq requests /\ UNCHANGED sink /\ UNCHANGED db /\ UNCHANGED topic
        /\ UNCHANGED batch
    BY <1>14 DEF Poll, CommitOffset, ConsumerDies, LoseRun, CancelPump, vars, client, server, kafka
  <2> QED BY <1>10, <2>1
<1> QED
  BY <1>3, <1>4, <1>5, <1>6, <1>7, <1>9, <1>11, <1>12, <1>13, <1>14
     DEF Next, Send, Serve, Ship

-----------------------------------------------------------------------------
(* Marks. *)

\* The steps of a call, as what they do to requests and db.
LEMMA DbSteps ==
  ASSUME Typed, [Next]_vars
  PROVE  UNCHANGED db \/ \E q \in requests : \E b \in Batch :
           /\ Write(q) /\ Move(q, "mark") /\ db' = Append(db, b)
           /\ b = [sink |-> q.sink, seq |-> q.seq, lines |-> q.lines]
           /\ b.sink = q.sink /\ b.seq = q.seq /\ b.lines = q.lines
<1> USE DEF Typed
<1>1. ASSUME NEW q \in requests, Write(q), ~UNCHANGED db
      PROVE  \E b \in Batch :
               /\ Move(q, "mark") /\ db' = Append(db, b)
               /\ b = [sink |-> q.sink, seq |-> q.seq, lines |-> q.lines]
               /\ b.sink = q.sink /\ b.seq = q.seq /\ b.lines = q.lines
  <2>1. PICK b : b = [sink |-> q.sink, seq |-> q.seq, lines |-> q.lines]
    OBVIOUS
  <2>2. b \in Batch
    BY <2>1, RequestFields DEF ServerTyped
  <2>3. b.sink = q.sink /\ b.seq = q.seq /\ b.lines = q.lines
    BY <2>1
  <2>4. Move(q, "mark") /\ db' = Append(db, b)
    BY <1>1, <2>1 DEF Write
  <2> QED BY <2>1, <2>2, <2>3, <2>4
<1>2. UNCHANGED db \/ \E q \in requests : Write(q)
  BY DEF Next, Send, Serve, Ship, Emit, FlushExpired, Post, Timeout, Produce, Check, Mark, Reply,
         HandlerDies, Poll, Consume, Consumed, CommitOffset, ConsumerDies, LoseRun, CancelPump, vars,
         client, server, kafka
<1> QED BY <1>1, <1>2

LEMMA WrittenKept == ASSUME Typed, [Next]_vars, NEW n, Written(n) PROVE Written(n)'
<1>1. PICK i \in DOMAIN db : db[i].seq = n
  BY DEF Written
<1>2. db \in Seq(Batch)
  BY DEF Typed, ServerTyped
<1>3. UNCHANGED db \/ \E b \in Batch : db' = Append(db, b)
  BY DbSteps
<1>4. i \in DOMAIN db' /\ db'[i] = db[i]
  BY <1>1, <1>2, <1>3, AppendAt
<1> QED BY <1>1, <1>4 DEF Written

LEMMA MarksNext == ASSUME Typed, Marked, Done, [Next]_vars PROVE Marked' /\ Done'
<1> USE DEF Typed
<1>1. \A n : Written(n) => Written(n)'
  BY WrittenKept
<1>2. ASSUME UNCHANGED cache, \A r \in requests' : r \in requests \/ r.pc = "check"
      PROVE  Marked' /\ Done'
  BY <1>1, <1>2 DEF Marked, Done
<1>3. ASSUME NEW q \in requests, Check(q) PROVE Marked' /\ Done'
  <2>1. UNCHANGED cache
    BY <1>3 DEF Check
  <2>2. PICK pc \in {"write", "ok", "rejected"} : Move(q, pc) /\ (pc = "ok" => q.seq \in cache)
    BY <1>3 DEF Check
  <2>3. \A r \in requests' : r \in requests \/ (r.seq = q.seq /\ r.pc = pc)
    BY <2>2, MoveCalls
  <2> QED BY <1>1, <2>1, <2>2, <2>3 DEF Marked, Done
<1>4. ASSUME NEW q \in requests, Write(q) PROVE Marked' /\ Done'
  <2>1. UNCHANGED cache
    BY <1>4 DEF Write
  <2>2. CASE Move(q, "error")
    <3>1. \A r \in requests' : r \in requests \/ r.pc = "error"
      BY <2>2, MoveCalls
    <3> QED BY <1>1, <2>1, <3>1 DEF Marked, Done
  <2>3. CASE Move(q, "mark") /\ db' = Append(db, [sink |-> q.sink, seq |-> q.seq, lines |-> q.lines])
    <3>1. PICK b \in Batch : b = [sink |-> q.sink, seq |-> q.seq, lines |-> q.lines] /\ b.seq = q.seq
      BY RequestFields DEF ServerTyped
    <3>2. Written(q.seq)'
      <4>1. db \in Seq(Batch) /\ db' = Append(db, b)
        BY <2>3, <3>1 DEF ServerTyped
      <4>2. Len(db) + 1 \in DOMAIN db' /\ db'[Len(db) + 1] = b
        BY <4>1, AppendAt
      <4>3. \E i \in DOMAIN db' : db'[i].seq = q.seq
        BY <3>1, <4>2
      <4> QED BY <4>3 DEF Written
    <3>3. \A r \in requests' : r \in requests \/ r.seq = q.seq
      BY <2>3, MoveCalls
    <3> QED BY <1>1, <2>1, <3>2, <3>3 DEF Marked, Done
  <2> QED BY <1>4, <2>2, <2>3 DEF Write
<1>5. ASSUME NEW q \in requests, Mark(q) PROVE Marked' /\ Done'
  <2>1. Written(q.seq)'
    BY <1>1, <1>5 DEF Done, Mark
  <2>2. cache' = cache \cup {q.seq}
    BY <1>5 DEF Mark
  <2>3. \A r \in requests' : r \in requests \/ r.seq = q.seq
    BY <1>5, MoveCalls DEF Mark
  <2> QED BY <1>1, <2>1, <2>2, <2>3 DEF Marked, Done
<1>6. CASE Post
  <2>1. UNCHANGED cache
    BY <1>6 DEF Post
  <2>2. \A r \in requests' : r \in requests \/ r.pc = "check"
    BY <1>6, CallFields DEF Post
  <2> QED BY <1>2, <2>1, <2>2
<1>7. CASE Consume
  <2>1. UNCHANGED cache
    BY <1>7 DEF Consume
  <2>2. \A r \in requests' : r \in requests \/ r.pc = "check"
    BY <1>7, CallFields DEF Consume
  <2> QED BY <1>2, <2>1, <2>2
<1>8. CASE \/ Emit \/ FlushExpired \/ Timeout \/ Produce \/ Poll \/ CommitOffset \/ ConsumerDies \/ LoseRun
           \/ CancelPump \/ UNCHANGED vars \/ \E q \in requests : Reply(q) \/ HandlerDies(q) \/ Consumed(q)
  <2>1. UNCHANGED cache /\ requests' \subseteq requests
    BY <1>8 DEF Emit, FlushExpired, Timeout, Produce, Poll, CommitOffset, ConsumerDies, LoseRun, CancelPump, vars,
                Reply, HandlerDies, Consumed, client, server, kafka
  <2> QED BY <1>2, <2>1
<1> QED
  BY <1>3, <1>4, <1>5, <1>6, <1>7, <1>8 DEF Next, Send, Serve, Ship

LEMMA PolledNext == ASSUME Typed, Polled, [Next]_vars PROVE Polled'
<1> USE DEF Typed
<1>0. topic \in Seq(Batch) /\ batch.b \in Batch
  BY BatchFields DEF KafkaTyped, ClientTyped
<1>1. ASSUME \A r \in requests' : r \in requests \/ r.via = "http",
             UNCHANGED <<topic, consumer>>
      PROVE  Polled'
  BY <1>1 DEF Polled
<1>2. ASSUME NEW q \in requests, Check(q) \/ Write(q) \/ Mark(q) PROVE Polled'
  <2>1. UNCHANGED <<topic, consumer>>
    BY <1>2 DEF Check, Write, Mark, kafka
  <2>2. PICK pc \in {"check", "write", "mark", "ok", "rejected", "error"} : Move(q, pc)
    BY <1>2 DEF Check, Write, Mark
  <2>3. PICK x : x = [q EXCEPT !.pc = pc]
    OBVIOUS
  <2>4. \A r \in requests' : (r \in requests /\ r # q) \/ (r = x /\ r.lines = q.lines /\ r.via = q.via)
    BY <2>2, <2>3, MoveCalls
  <2>5. \A r \in requests' : r.via = "kafka" =>
          consumer.next \in DOMAIN topic /\ r.lines = topic[consumer.next].lines
    BY <2>4 DEF Polled
  <2>6. \A r, p \in requests' : (r.via = "kafka" /\ p.via = "kafka") => r = p
    BY <2>4 DEF Polled
  <2> QED BY <2>1, <2>5, <2>6 DEF Polled
<1>3. CASE Post
  <2>1. \A r \in requests' : r \in requests \/ r.via = "http"
    BY <1>3, CallFields DEF Post
  <2>2. UNCHANGED <<topic, consumer>>
    BY <1>3 DEF Post, kafka
  <2> QED BY <1>1, <2>1, <2>2
<1>4. CASE Produce
  <2>1. UNCHANGED consumer /\ UNCHANGED requests
    BY <1>4 DEF Produce, server
  <2>2. UNCHANGED topic \/ topic' = Append(topic, batch.b)
    BY <1>4 DEF Produce
  <2>3. \A i \in DOMAIN topic : i \in DOMAIN topic' /\ topic'[i] = topic[i]
    BY <1>0, <2>2, AppendAt
  <2> QED BY <2>1, <2>3 DEF Polled
<1>5. CASE Poll
  <2>1. UNCHANGED topic /\ UNCHANGED requests
    BY <1>5 DEF Poll, server
  <2>2. consumer'.next = consumer.next
    BY <1>5 DEF Poll, KafkaTyped
  <2> QED BY <2>1, <2>2 DEF Polled
<1>6. CASE CommitOffset
  <2>1. UNCHANGED topic /\ UNCHANGED requests
    BY <1>6 DEF CommitOffset, server
  <2>2. consumer'.next = consumer.next
    BY <1>6 DEF CommitOffset, KafkaTyped
  <2> QED BY <2>1, <2>2 DEF Polled
<1>7. CASE Consume
  <2>1. PICK x : x = Call(topic[consumer.next], "kafka", 0)
    OBVIOUS
  <2>2. requests' = requests \cup {x} /\ x.lines = topic[consumer.next].lines
    BY <1>7, <2>1, CallFields DEF Consume
  <2>3. \A r \in requests : r.via # "kafka"
    BY <1>7 DEF Consume, Consuming
  <2>4. UNCHANGED <<topic, consumer>> /\ consumer.next \in DOMAIN topic
    BY <1>7, ConsumeTyped DEF Consume, kafka
  <2> QED BY <2>2, <2>3, <2>4 DEF Polled
<1>8. ASSUME \A r \in requests' : r.via # "kafka" PROVE Polled'
  BY <1>8 DEF Polled
<1>9. ASSUME NEW q \in requests, Consumed(q) PROVE Polled'
  <2>1. \A r \in requests' : r.via # "kafka"
    BY <1>9 DEF Consumed, Consuming, Polled
  <2> QED BY <1>8, <2>1
<1>10. CASE ConsumerDies
  <2>1. \A r \in requests' : r.via # "kafka"
    BY <1>10 DEF ConsumerDies, Consuming
  <2> QED BY <1>8, <2>1
<1>11. CASE \/ Emit \/ FlushExpired \/ Timeout \/ LoseRun \/ CancelPump \/ UNCHANGED vars
            \/ \E q \in requests : Reply(q) \/ HandlerDies(q)
  <2>1. UNCHANGED <<topic, consumer>> /\ requests' \subseteq requests
    BY <1>11 DEF Emit, FlushExpired, Timeout, LoseRun, CancelPump, vars, Reply, HandlerDies, client, server, kafka
  <2> QED BY <1>1, <2>1
<1> QED
  BY <1>2, <1>3, <1>4, <1>5, <1>6, <1>7, <1>9, <1>10, <1>11 DEF Next, Send, Serve, Ship

-----------------------------------------------------------------------------
(* Accounted. *)

\* The consumer's position never runs past the end of the topic.
InTopic == consumer.next <= Len(topic) + 1

\* Where a line can be: the sink, the topic, the database, a log of its loss, or a batch whose
\* sender was cancelled.
Held ==
  Elements(sink.buffer) \cup Elements(batch.b.lines) \cup Stored \cup Queued \cup dropped \cup cut

Numbered == OneContent /\ Marked /\ Done /\ Polled /\ InTopic

LEMMA InTopicNext == ASSUME Typed, Polled, InTopic, [Next]_vars PROVE InTopic'
<1> USE DEF Typed
<1>0. /\ topic \in Seq(Batch) /\ batch.b \in Batch /\ consumer.next \in Nat
      /\ consumer.committed \in Nat /\ consumer.upto \in Nat
  BY BatchFields DEF KafkaTyped, ClientTyped
<1>1. ASSUME UNCHANGED topic, consumer'.next = consumer.next PROVE InTopic'
  BY <1>1 DEF InTopic
<1>2. CASE Produce
  <2>1. UNCHANGED consumer
    BY <1>2 DEF Produce
  <2>2. UNCHANGED topic \/ topic' = Append(topic, batch.b)
    BY <1>2 DEF Produce
  <2>3. Len(topic) \in Nat /\ Len(topic') \in Nat /\ Len(topic) <= Len(topic')
    BY <1>0, <2>2
  <2> QED BY <1>0, <2>1, <2>3 DEF InTopic
<1>3. ASSUME NEW q \in requests, Consumed(q) PROVE InTopic'
  <2>1. UNCHANGED topic /\ consumer'.next = consumer.next + 1
    BY <1>3 DEF Consumed, KafkaTyped
  <2>2. consumer.next \in DOMAIN topic
    BY <1>3 DEF Consumed, Consuming, Polled
  <2>3. consumer.next <= Len(topic)
    BY <1>0, <2>2
  <2> QED BY <1>0, <2>1, <2>3 DEF InTopic
<1>4. CASE ConsumerDies
  <2>1. UNCHANGED topic /\ consumer'.next = consumer.committed + 1
    BY <1>4 DEF ConsumerDies, KafkaTyped
  <2>2. consumer.committed <= consumer.upto /\ consumer.upto <= Len(topic)
    BY DEF KafkaTyped, Offsets
  <2>3. Len(topic) \in Nat
    BY <1>0
  <2> QED BY <1>0, <2>1, <2>2, <2>3 DEF InTopic
<1>5. CASE Poll \/ CommitOffset
  <2>1. UNCHANGED topic /\ consumer'.next = consumer.next
    BY <1>5 DEF Poll, CommitOffset, KafkaTyped
  <2> QED BY <1>1, <2>1
<1>6. CASE \/ Emit \/ FlushExpired \/ Post \/ Timeout \/ Consume \/ LoseRun \/ CancelPump \/ UNCHANGED vars
           \/ \E q \in requests : Check(q) \/ Write(q) \/ Mark(q) \/ Reply(q) \/ HandlerDies(q)
  <2>1. UNCHANGED topic /\ UNCHANGED consumer
    BY <1>6 DEF Emit, FlushExpired, Post, Timeout, Consume, LoseRun, CancelPump, vars, Check, Write, Mark, Reply,
                HandlerDies, kafka
  <2> QED BY <1>1, <2>1
<1> QED BY <1>2, <1>3, <1>4, <1>5, <1>6 DEF Next, Send, Serve, Ship

LEMMA NumberedNext == ASSUME Typed, Numbered, [Next]_vars PROVE Numbered'
BY CopiesNext, MarksNext, PolledNext, InTopicNext DEF Numbered

LEMMA StoredGrows == ASSUME Typed, [Next]_vars PROVE Stored \subseteq Stored'
<1> SUFFICES ASSUME NEW l \in Stored PROVE l \in Stored'
  OBVIOUS
<1>1. PICK i \in DOMAIN db : l \in Elements(db[i].lines)
  BY DEF Stored
<1>2. db \in Seq(Batch)
  BY DEF Typed, ServerTyped
<1>3. UNCHANGED db \/ \E b \in Batch : db' = Append(db, b)
  BY DbSteps
<1>4. i \in DOMAIN db' /\ db'[i] = db[i]
  BY <1>1, <1>2, <1>3, AppendAt
<1> QED BY <1>1, <1>4 DEF Stored, Elements

LEMMA QueuedGrows ==
  ASSUME Typed, UNCHANGED topic \/ \E b \in Batch : topic' = Append(topic, b),
         consumer'.next \in Nat, consumer'.next <= consumer.next
  PROVE  Queued \subseteq Queued'
<1> SUFFICES ASSUME NEW l \in Queued PROVE l \in Queued'
  OBVIOUS
<1>1. PICK i \in DOMAIN topic : i >= consumer.next /\ l \in Elements(topic[i].lines)
  BY DEF Queued
<1>2. topic \in Seq(Batch) /\ consumer.next \in Nat
  BY DEF Typed, KafkaTyped
<1>3. i \in DOMAIN topic' /\ topic'[i] = topic[i]
  BY <1>1, <1>2, AppendAt
<1>4. i \in Nat
  BY <1>1, <1>2
<1>5. i >= consumer'.next
  BY <1>1, <1>2, <1>4
<1> QED BY <1>1, <1>3, <1>5 DEF Queued, Elements

\* The lines of a call whose batch is written are stored; so are those of the batch
\* whose call it is.
LEMMA WrittenStored ==
  ASSUME OneContent, NEW q \in requests, Written(q.seq)
  PROVE  /\ Elements(q.lines) \subseteq Stored
         /\ batch.pc # "none" /\ batch.b.seq = q.seq => Elements(batch.b.lines) \subseteq Stored
<1>1. PICK f : Copies(f)
  BY DEF OneContent
<1>2. PICK i \in DOMAIN db : db[i].seq = q.seq
  BY DEF Written
<1>3. q.lines = f[q.seq] /\ db[i].lines = f[q.seq]
  BY <1>1, <1>2 DEF Copies, CalledCopies, StoredCopies, Copy
<1>4. Elements(q.lines) \subseteq Stored
  BY <1>2, <1>3 DEF Stored
<1>5. ASSUME batch.pc # "none", batch.b.seq = q.seq PROVE batch.b.lines = q.lines
  BY <1>1, <1>3, <1>5 DEF Copies, SentCopy, Copy
<1> QED BY <1>4, <1>5

LEMMA AppendElements ==
  ASSUME NEW s \in Seq(Line), NEW l \in Line
  PROVE  Elements(s) \subseteq Elements(Append(s, l)) /\ l \in Elements(Append(s, l))
<1>1. Len(s) + 1 \in DOMAIN Append(s, l) /\ Append(s, l)[Len(s) + 1] = l
  OBVIOUS
<1>2. \A i \in DOMAIN s : i \in DOMAIN Append(s, l) /\ Append(s, l)[i] = s[i]
  OBVIOUS
<1> QED BY <1>1, <1>2 DEF Elements

LEMMA CutGrows == ASSUME [Next]_vars PROVE cut \subseteq cut'
BY DEF Next, Send, Serve, Ship, Emit, FlushExpired, Post, Timeout, Produce, Check, Write, Mark, Reply,
       HandlerDies, Poll, Consume, Consumed, CommitOffset, ConsumerDies, LoseRun, CancelPump, vars, client

\* No step loses track of a line.
LEMMA HeldKept == ASSUME Typed, Numbered, [Next]_vars PROVE Held \subseteq Held'
<1> USE DEF Typed
<1>0. /\ Stored \subseteq Stored'
      /\ batch \in BatchState /\ batch.b \in Batch /\ sink.buffer \in Seq(Line)
      /\ consumer.next \in Nat /\ cut \subseteq cut'
  BY StoredGrows, CutGrows, BatchFields, SinkFields DEF ClientTyped, KafkaTyped
<1>2. UNCHANGED kafka => Queued \subseteq Queued'
  BY DEF kafka, Queued
<1>3. ASSUME Unlocked PROVE Elements(batch.b.lines) = {}
  BY <1>3, NoSendType DEF Unlocked, ClientTyped, Idle, Elements
<1>4. CASE Emit
  <2>1. PICK l : l = [attempt |-> attempt, n |-> pos + 1]
    OBVIOUS
  <2>2. l \in Line
    <3>1. pos \in 0..Lines
      BY DEF ClientTyped
    <3>2. pos + 1 \in Nat \ {0}
      BY <3>1, Bounds
    <3> QED BY <2>1, <3>2, LineAt
  <2>3. /\ Append(sink.buffer, l) \in Seq(Line)
        /\ Elements(sink.buffer) \subseteq Elements(Append(sink.buffer, l))
    BY <1>0, <2>2, AppendElements
  <2>4. \/ Pop(Append(sink.buffer, l))
        \/ sink' = [sink EXCEPT !.buffer = Append(sink.buffer, l)] /\ batch' = batch
    BY <1>4, <2>1 DEF Emit
  <2>5. \/ batch'.b.lines = Append(sink.buffer, l)
        \/ sink'.buffer = Append(sink.buffer, l) /\ batch' = batch
    BY <2>3, <2>4, PopType DEF ClientTyped, Sink
  <2>6. UNCHANGED kafka /\ UNCHANGED dropped /\ Unlocked
    BY <1>4 DEF Emit
  <2> QED BY <1>0, <1>2, <1>3, <2>3, <2>5, <2>6 DEF Held
<1>5. CASE FlushExpired
  <2>1. batch'.b.lines = sink.buffer
    BY <1>0, <1>5, PopType DEF FlushExpired
  <2>2. UNCHANGED kafka /\ UNCHANGED dropped /\ Unlocked
    BY <1>5 DEF FlushExpired
  <2> QED BY <1>0, <1>2, <1>3, <2>1, <2>2 DEF Held
<1>6. CASE Post
  <2>1. batch'.b = batch.b /\ UNCHANGED sink /\ UNCHANGED kafka /\ UNCHANGED dropped
    BY <1>0, <1>6 DEF Post, BatchState
  <2> QED BY <1>0, <1>2, <2>1 DEF Held
<1>7. ASSUME GiveUp \/ Failed
      PROVE  /\ dropped \subseteq dropped'
             /\ Elements(batch.b.lines) \subseteq Elements(batch'.b.lines) \cup dropped'
  <2>1. CASE GiveUp
    BY <2>1 DEF GiveUp
  <2>2. CASE batch' = [batch EXCEPT !.pc = "send"] /\ UNCHANGED dropped
    BY <1>0, <2>2 DEF BatchState
  <2> QED BY <1>7, <2>1, <2>2 DEF Failed
<1>8. CASE Timeout
  <2>1. UNCHANGED sink /\ UNCHANGED kafka
    BY <1>8 DEF Timeout
  <2> QED BY <1>0, <1>2, <1>7, <1>8, <2>1 DEF Held, Timeout
<1>9. CASE Produce
  <2>1. UNCHANGED consumer /\ UNCHANGED sink
    BY <1>9 DEF Produce
  <2>2. UNCHANGED topic \/ topic' = Append(topic, batch.b)
    BY <1>9 DEF Produce
  <2>3. Queued \subseteq Queued'
    BY <1>0, <2>1, <2>2, QueuedGrows
  <2>4. CASE GiveUp
    BY <1>0, <1>7, <2>1, <2>3, <2>4 DEF Held
  <2>5. CASE topic' = Append(topic, batch.b) /\ dropped' = dropped
    <3>1. Len(topic) + 1 \in DOMAIN topic' /\ topic'[Len(topic) + 1] = batch.b
      BY <1>0, <2>5, AppendAt DEF KafkaTyped
    <3>2. Len(topic) + 1 >= consumer'.next
      <4>1. Len(topic) \in Nat
        BY DEF KafkaTyped
      <4> QED BY <1>0, <2>1, <4>1 DEF Numbered, InTopic
    <3>3. Elements(batch.b.lines) \subseteq Queued'
      BY <3>1, <3>2 DEF Queued, Elements
    <3> QED BY <1>0, <2>1, <2>3, <2>5, <3>3 DEF Held
  <2> QED BY <1>9, <2>4, <2>5 DEF Produce
<1>10. ASSUME NEW q \in requests, Reply(q) PROVE Held \subseteq Held'
  <2>1. UNCHANGED sink /\ UNCHANGED kafka
    BY <1>10 DEF Reply
  <2>2. CASE UNCHANGED batch /\ UNCHANGED dropped
    BY <1>0, <1>2, <2>1, <2>2 DEF Held
  <2>3. CASE GiveUp \/ Failed
    BY <1>0, <1>2, <1>7, <2>1, <2>3 DEF Held
  <2>4. CASE Awaited(q) /\ q.pc = "ok" /\ UNCHANGED dropped
    <3>1. batch.pc # "none" /\ batch.b.seq = q.seq
      BY <2>4 DEF Awaited, Key
    <3>2. Written(q.seq)
      BY <2>4 DEF Numbered, Done
    <3>3. Elements(batch.b.lines) \subseteq Stored
      BY <3>1, <3>2, WrittenStored DEF Numbered
    <3> QED BY <1>0, <1>2, <2>1, <2>4, <3>3 DEF Held
  <2> QED BY <1>10, <2>2, <2>3, <2>4 DEF Reply
<1>11. ASSUME NEW q \in requests, Consumed(q) PROVE Held \subseteq Held'
  <2>1. /\ UNCHANGED sink /\ UNCHANGED batch /\ UNCHANGED topic
        /\ q.via = "kafka" /\ q.pc \in {"ok", "error"}
    BY <1>11 DEF Consumed, client, Consuming
  <2>2. consumer'.next = consumer.next + 1
    BY <1>11 DEF Consumed, KafkaTyped
  <2>3. Elements(topic[consumer.next].lines) \subseteq Stored \cup dropped'
    <3>1. q.lines = topic[consumer.next].lines
      BY <2>1 DEF Numbered, Polled
    <3>2. CASE q.pc = "error"
      BY <1>11, <3>1, <3>2 DEF Consumed
    <3>3. CASE q.pc = "ok"
      BY <3>1, <3>3, WrittenStored DEF Numbered, Done
    <3> QED BY <2>1, <3>2, <3>3
  <2>4. dropped \subseteq dropped'
    BY <1>11 DEF Consumed
  <2>5. Queued \subseteq Queued' \cup Elements(topic[consumer.next].lines)
    <3> SUFFICES ASSUME NEW l \in Queued, l \notin Elements(topic[consumer.next].lines) PROVE l \in Queued'
      OBVIOUS
    <3>1. PICK i \in DOMAIN topic : i >= consumer.next /\ l \in Elements(topic[i].lines)
      BY DEF Queued
    <3>2. i # consumer.next /\ i \in Nat
      BY <3>1 DEF KafkaTyped
    <3>3. i >= consumer'.next
      BY <1>0, <2>2, <3>1, <3>2
    <3> QED BY <2>1, <3>1, <3>3 DEF Queued
  <2> QED BY <1>0, <2>1, <2>3, <2>4, <2>5 DEF Held
<1>12. CASE ConsumerDies
  <2>1. UNCHANGED sink /\ UNCHANGED batch /\ UNCHANGED topic /\ UNCHANGED dropped
    BY <1>12 DEF ConsumerDies, client
  <2>2. consumer'.next = consumer.committed + 1
    BY <1>12 DEF ConsumerDies, KafkaTyped
  <2>3. consumer.committed \in Nat /\ consumer.committed < consumer.next
    BY DEF KafkaTyped, Offsets
  <2>4. consumer'.next \in Nat /\ consumer'.next <= consumer.next
    BY <1>0, <2>2, <2>3
  <2>5. Queued \subseteq Queued'
    BY <2>1, <2>4, QueuedGrows
  <2> QED BY <1>0, <2>1, <2>5 DEF Held
<1>13. CASE Poll \/ CommitOffset
  <2>1. UNCHANGED sink /\ UNCHANGED batch /\ UNCHANGED topic /\ UNCHANGED dropped
    BY <1>13 DEF Poll, CommitOffset, client
  <2>2. consumer'.next = consumer.next
    BY <1>13 DEF Poll, CommitOffset, KafkaTyped
  <2>3. Queued \subseteq Queued'
    BY <1>0, <2>1, <2>2, QueuedGrows
  <2> QED BY <1>0, <2>1, <2>3 DEF Held
<1>14. CASE \/ Consume \/ LoseRun \/ UNCHANGED vars
            \/ \E q \in requests : Check(q) \/ Write(q) \/ Mark(q) \/ HandlerDies(q)
  <2>1. UNCHANGED sink /\ UNCHANGED batch /\ UNCHANGED kafka /\ UNCHANGED dropped
    BY <1>14 DEF Consume, LoseRun, CancelPump, vars, Check, Write, Mark, HandlerDies, client, kafka
  <2> QED BY <1>0, <1>2, <2>1 DEF Held
<1>15. CASE CancelPump
  <2>1. UNCHANGED sink /\ UNCHANGED kafka /\ UNCHANGED dropped /\ Elements(batch.b.lines) \subseteq cut'
    BY <1>15 DEF CancelPump
  <2> QED BY <1>0, <1>2, <2>1 DEF Held
<1> QED
  BY <1>4, <1>5, <1>6, <1>8, <1>9, <1>10, <1>11, <1>12, <1>13, <1>14, <1>15 DEF Next, Send, Serve, Ship

\* The line the pump hands over is held from then on.
LEMMA EmitHeld == ASSUME Typed, Emit PROVE [attempt |-> attempt, n |-> pos + 1] \in Held'
<1> USE DEF Typed
<1>1. PICK l : l = [attempt |-> attempt, n |-> pos + 1]
  OBVIOUS
<1>2. l \in Line /\ sink.buffer \in Seq(Line)
  <2>1. pos \in 0..Lines /\ sink.buffer \in Seq(Line)
    BY SinkFields DEF ClientTyped
  <2>2. pos + 1 \in Nat \ {0}
    BY <2>1, Bounds
  <2> QED BY <1>1, <2>1, <2>2, LineAt
<1>3. Append(sink.buffer, l) \in Seq(Line) /\ l \in Elements(Append(sink.buffer, l))
  BY <1>2, AppendElements
<1>4. \/ Pop(Append(sink.buffer, l))
      \/ sink' = [sink EXCEPT !.buffer = Append(sink.buffer, l)]
  BY <1>1 DEF Emit
<1>5. batch'.b.lines = Append(sink.buffer, l) \/ sink'.buffer = Append(sink.buffer, l)
  BY <1>3, <1>4, PopType DEF ClientTyped, Sink
<1> QED BY <1>1, <1>3, <1>5 DEF Held

LEMMA AccountedNext == ASSUME Typed, Numbered, Accounted, [Next]_vars PROVE Accounted'
<1> USE DEF Typed
<1>1. \A n \in 1..pos : [attempt |-> attempt, n |-> n] \in Held
  BY DEF Accounted, Held
<1>2. Held \subseteq Held'
  BY HeldKept
<1>3. attempt' = attempt /\ (pos' = pos \/ Emit)
  BY DEF Next, Send, Serve, Ship, Emit, FlushExpired, Post, Timeout, Produce, Check, Write, Mark, Reply,
         HandlerDies, Poll, Consume, Consumed, CommitOffset, ConsumerDies, LoseRun, CancelPump, vars,
         client, server, kafka
<1>4. \A n \in 1..pos' : [attempt |-> attempt, n |-> n] \in Held'
  <2>1. CASE pos' = pos
    BY <1>1, <1>2, <2>1
  <2>2. CASE Emit
    <3>1. pos' = pos + 1 /\ pos \in Nat
      BY <2>2, Bounds DEF Emit, ClientTyped
    <3>2. \A n \in 1..pos' : n \in 1..pos \/ n = pos + 1
      BY <3>1
    <3> QED BY <1>1, <1>2, <2>2, <3>2, EmitHeld
  <2> QED BY <1>3, <2>1, <2>2
<1> QED BY <1>3, <1>4 DEF Accounted, Held

LEMMA AccountedInit == Init => Numbered /\ Accounted
<1> SUFFICES ASSUME Init PROVE Numbered /\ Accounted
  OBVIOUS
<1>1. PICK f : f = [n \in Nat |-> <<>>]
  OBVIOUS
<1>2. f \in [Nat -> Seq(Line)]
  BY <1>1
<1>3. Copies(f)
  BY NoSendType DEF Init, Copies, SentCopy, CalledCopies, StoredCopies, QueuedCopies
<1>4. OneContent
  BY <1>2, <1>3 DEF OneContent
<1>5. Marked /\ Done /\ Polled /\ InTopic
  BY DEF Init, Marked, Done, Polled, InTopic
<1> QED BY <1>4, <1>5 DEF Numbered, Init, Accounted

\* ingestion.py:58, for any number of lines, attempts and crashes and any batch size: a line
\* the pump has read is in the sink, in the topic, in the database, or logged as dropped, or the
\* pump was cancelled while it sent it.
THEOREM NothingLost == Spec => []Accounted
<1>1. Init => Typed /\ Numbered /\ Accounted
  BY TypedInit, AccountedInit
<1>2. Typed /\ Numbered /\ Accounted /\ [Next]_vars => (Typed /\ Numbered /\ Accounted)'
  BY TypedNext, NumberedNext, AccountedNext
<1> QED BY <1>1, <1>2, PTL DEF Spec

-----------------------------------------------------------------------------
(* DuplicatesExplained. *)

\* A run has one kind of sink, and the topic is fed by the Kafka sink only.
OneSource ==
  /\ \A q \in requests : q.via = sink.type
  /\ topic # <<>> => sink.type = "kafka"

\* Of an unshared batch there is one call at a time,
OneCall == \A p, q \in requests : (Key(p) = Key(q) /\ Key(p) \notin shared) => p = q

\* once it is stored it is marked or the call about to mark it is there,
Unmarked ==
  \A i \in DOMAIN db : Key(db[i]) \notin shared =>
    db[i].seq \in cache \/ \E q \in requests : Key(q) = Key(db[i]) /\ q.pc = "mark"

\* and a call that is about to write it is the first to.
FirstWrite ==
  \A q \in requests : (q.pc = "write" /\ Key(q) \notin shared) =>
    \A i \in DOMAIN db : Key(db[i]) # Key(q)

Once == OneCall /\ Unmarked /\ FirstWrite /\ DuplicatesExplained

LEMMA SinkType == ASSUME Typed, [Next]_vars PROVE sink'.type = sink.type
<1> USE DEF Typed
<1>1. CASE Emit
  <2>1. \/ sink' = [sink EXCEPT !.seq = @ + 1, !.buffer = <<>>]
        \/ \E lines : sink' = [sink EXCEPT !.buffer = lines]
    BY <1>1 DEF Emit, Pop
  <2> QED BY <2>1 DEF ClientTyped, Sink
<1>2. CASE FlushExpired
  BY <1>2 DEF FlushExpired, Pop, ClientTyped, Sink
<1>3. Emit \/ FlushExpired \/ UNCHANGED sink
  BY DEF Next, Send, Serve, Ship, Post, Timeout, Produce, Check, Write, Mark, Reply,
         HandlerDies, Poll, Consume, Consumed, CommitOffset, ConsumerDies, LoseRun, CancelPump, vars, client
<1> QED BY <1>1, <1>2, <1>3

LEMMA OneSourceNext == ASSUME Typed, OneSource, [Next]_vars PROVE OneSource'
<1> USE DEF Typed
<1>1. sink'.type = sink.type
  BY SinkType
<1>2. CASE Post
  <2>1. \A r \in requests' : r \in requests \/ (r.via = "http" /\ sink.type = "http")
    BY <1>2, CallFields DEF Post
  <2>2. UNCHANGED topic
    BY <1>2 DEF Post, kafka
  <2> QED BY <1>1, <2>1, <2>2 DEF OneSource
<1>3. CASE Produce
  BY <1>1, <1>3 DEF Produce, OneSource, server
<1>4. CASE Consume
  <2>1. topic # <<>>
    BY <1>4, ConsumeTyped
  <2>2. \A r \in requests' : r \in requests \/ r.via = "kafka"
    BY <1>4, CallFields DEF Consume
  <2>3. UNCHANGED topic
    BY <1>4 DEF Consume, kafka
  <2> QED BY <1>1, <2>1, <2>2, <2>3 DEF OneSource
<1>5. ASSUME NEW q \in requests, Check(q) \/ Write(q) \/ Mark(q) PROVE OneSource'
  <2>1. PICK pc \in {"check", "write", "mark", "ok", "rejected", "error"} : Move(q, pc)
    BY <1>5 DEF Check, Write, Mark
  <2>2. \A r \in requests' : r \in requests \/ r.via = q.via
    BY <2>1, MoveCalls
  <2>3. UNCHANGED topic
    BY <1>5 DEF Check, Write, Mark, kafka
  <2> QED BY <1>1, <2>2, <2>3 DEF OneSource
<1>6. CASE \/ Emit \/ FlushExpired \/ Timeout \/ Poll \/ CommitOffset \/ ConsumerDies \/ LoseRun \/ CancelPump
           \/ UNCHANGED vars \/ \E q \in requests : Reply(q) \/ HandlerDies(q) \/ Consumed(q)
  <2>1. UNCHANGED topic /\ requests' \subseteq requests
    BY <1>6 DEF Emit, FlushExpired, Timeout, Poll, CommitOffset, ConsumerDies, LoseRun, CancelPump, vars, Reply,
                HandlerDies, Consumed, client, server, kafka
  <2> QED BY <1>1, <2>1 DEF OneSource
<1> QED BY <1>2, <1>3, <1>4, <1>5, <1>6 DEF Next, Send, Serve, Ship

\* Calls leave, and one that leaves between its write and its mark is explained.
LEMMA OnceFewer ==
  ASSUME Once, requests' \subseteq requests, UNCHANGED db, UNCHANGED cache, shared \subseteq shared',
         \A q \in requests \ requests' : q.pc = "mark" => Key(q) \in shared'
  PROVE  Once'
<1>1. OneCall' /\ FirstWrite' /\ DuplicatesExplained'
  BY DEF Once, OneCall, FirstWrite, DuplicatesExplained, Key
<1>2. ASSUME NEW i \in DOMAIN db, Key(db[i]) \notin shared'
      PROVE  db[i].seq \in cache \/ \E q \in requests' : Key(q) = Key(db[i]) /\ q.pc = "mark"
  BY <1>2 DEF Once, Unmarked
<1>3. Unmarked'
  BY <1>2 DEF Unmarked, Key
<1> QED BY <1>1, <1>3 DEF Once

\* A call arrives; if another of its batch is there, both are explained.
LEMMA OnceMore ==
  ASSUME Once, NEW x, x.pc = "check", requests' = requests \cup {x},
         UNCHANGED db, UNCHANGED cache, shared \subseteq shared',
         Key(x) \notin shared' => \A p \in requests : Key(p) # Key(x)
  PROVE  Once'
<1>1. OneCall'
  BY DEF Once, OneCall, Key
<1>2. Unmarked'
  BY DEF Once, Unmarked, Key
<1>3. FirstWrite' /\ DuplicatesExplained'
  BY DEF Once, FirstWrite, DuplicatesExplained, Key
<1> QED BY <1>1, <1>2, <1>3 DEF Once

\* A call takes a step that leaves shared alone.
LEMMA MoveOnce ==
  ASSUME ServerTyped, Once, NEW q \in requests,
         NEW pc \in {"check", "write", "mark", "ok", "rejected", "error"}, Move(q, pc), UNCHANGED shared
  PROVE  /\ OneCall'
         /\ \A r \in requests' : (r \in requests /\ r # q) \/ (r.pc = pc /\ Key(r) = Key(q))
         /\ \A r \in requests : r # q => r \in requests'
         /\ \E r \in requests' : r.pc = pc /\ Key(r) = Key(q)
<1>1. PICK x : x = [q EXCEPT !.pc = pc]
  OBVIOUS
<1>2. requests' = (requests \ {q}) \cup {x} /\ Key(x) = Key(q) /\ x.pc = pc
  BY <1>1, MoveFields DEF Move, Key
<1>3. OneCall'
  BY <1>2 DEF Once, OneCall, Key
<1> QED BY <1>2, <1>3

LEMMA OnceNext == ASSUME Typed, OneSource, Once, [Next]_vars PROVE Once'
<1> USE DEF Typed
<1>0. \A p, q : Key(p) = Key(q) => p.seq = q.seq
  BY DEF Key
<1>1. CASE Post
  <2>1. PICK q : q = Call(batch.b, "http", batch.try + 1)
    OBVIOUS
  <2>2. q.pc = "check" /\ requests' = requests \cup {q} /\ UNCHANGED db /\ UNCHANGED cache
    BY <1>1, <2>1, CallFields DEF Post
  <2>3. shared \subseteq shared' /\ (Key(q) \notin shared' => \A p \in requests : Key(p) # Key(q))
    BY <1>1, <2>1 DEF Post
  <2> QED BY <2>2, <2>3, OnceMore
<1>2. CASE Consume
  <2>1. PICK q : q = Call(topic[consumer.next], "kafka", 0)
    OBVIOUS
  <2>2. /\ q.pc = "check" /\ requests' = requests \cup {q}
        /\ UNCHANGED db /\ UNCHANGED cache /\ UNCHANGED shared
    BY <1>2, <2>1, CallFields DEF Consume
  <2>3. topic # <<>>
    BY <1>2, ConsumeTyped
  <2>4. requests = {}
    BY <1>2, <2>3 DEF Consume, Consuming, OneSource
  <2> QED BY <2>2, <2>4, OnceMore
<1>3. ASSUME NEW q \in requests, Check(q) PROVE Once'
  <2>1. /\ UNCHANGED cache /\ UNCHANGED db /\ UNCHANGED shared /\ q.pc = "check"
    BY <1>3 DEF Check
  <2>2. PICK pc \in {"write", "ok", "rejected"} : Move(q, pc) /\ (pc = "write" => q.seq \notin cache)
    BY <1>3 DEF Check
  <2>3. /\ OneCall'
        /\ \A r \in requests' : (r \in requests /\ r # q) \/ (r.pc = pc /\ Key(r) = Key(q))
        /\ \A r \in requests : r # q => r \in requests'
    BY <2>1, <2>2, MoveOnce
  <2>4. Unmarked'
    <3> SUFFICES ASSUME NEW i \in DOMAIN db, Key(db[i]) \notin shared
                 PROVE  db[i].seq \in cache \/ \E r \in requests' : Key(r) = Key(db[i]) /\ r.pc = "mark"
      BY <2>1 DEF Unmarked, Key
    <3> QED BY <2>1, <2>3 DEF Once, Unmarked
  <2>5. FirstWrite'
    <3> SUFFICES ASSUME NEW r \in requests', r.pc = "write", Key(r) \notin shared, NEW i \in DOMAIN db,
                        Key(db[i]) = Key(r)
                 PROVE  FALSE
      BY <2>1 DEF FirstWrite, Key
    <3>1. ~(r \in requests /\ r # q)
      BY DEF Once, FirstWrite
    <3>2. pc = "write" /\ Key(r) = Key(q) /\ q.seq \notin cache
      BY <2>2, <2>3, <3>1
    <3>3. PICK p \in requests : Key(p) = Key(db[i]) /\ p.pc = "mark"
      BY <1>0, <3>2 DEF Once, Unmarked
    <3>4. p = q
      BY <3>2, <3>3 DEF Once, OneCall
    <3> QED BY <2>1, <3>3, <3>4
  <2>6. DuplicatesExplained'
    BY <2>1 DEF Once, DuplicatesExplained, Key
  <2> QED BY <2>3, <2>4, <2>5, <2>6 DEF Once
<1>4. ASSUME NEW q \in requests, Write(q), UNCHANGED db PROVE Once'
  <2>1. UNCHANGED cache /\ UNCHANGED shared /\ q.pc = "write"
    BY <1>4 DEF Write
  <2>2. \/ Move(q, "error")
        \/ /\ Move(q, "mark")
           /\ db' = Append(db, [sink |-> q.sink, seq |-> q.seq, lines |-> q.lines])
    BY <1>4 DEF Write
  <2>3. Move(q, "error")
    <3>1. db \in Seq(Batch) /\ [sink |-> q.sink, seq |-> q.seq, lines |-> q.lines] \in Batch
      BY RequestFields DEF ServerTyped
    <3>2. PICK b \in Batch : b = [sink |-> q.sink, seq |-> q.seq, lines |-> q.lines]
      BY <3>1
    <3>3. Len(Append(db, b)) # Len(db)
      BY <3>1
    <3> QED BY <1>4, <2>2, <3>2, <3>3
  <2>4. /\ OneCall'
        /\ \A r \in requests' : (r \in requests /\ r # q) \/ (r.pc = "error" /\ Key(r) = Key(q))
        /\ \A r \in requests : r # q => r \in requests'
    BY <2>1, <2>3, MoveOnce
  <2>5. Unmarked'
    <3> SUFFICES ASSUME NEW i \in DOMAIN db, Key(db[i]) \notin shared
                 PROVE  db[i].seq \in cache \/ \E r \in requests' : Key(r) = Key(db[i]) /\ r.pc = "mark"
      BY <1>4, <2>1 DEF Unmarked, Key
    <3> QED BY <2>1, <2>4 DEF Once, Unmarked
  <2>6. FirstWrite' /\ DuplicatesExplained'
    BY <1>4, <2>1, <2>4 DEF Once, FirstWrite, DuplicatesExplained, Key
  <2> QED BY <2>4, <2>5, <2>6 DEF Once
<1>5. ASSUME NEW q \in requests, NEW b \in Batch, Write(q), Move(q, "mark"), db' = Append(db, b),
             b.sink = q.sink, b.seq = q.seq
      PROVE  Once'
  <2>1. UNCHANGED cache /\ UNCHANGED shared /\ q.pc = "write" /\ db \in Seq(Batch) /\ Key(b) = Key(q)
    BY <1>5 DEF Write, ServerTyped, Key
  <2>2. \A i \in DOMAIN db' : (i \in DOMAIN db /\ db'[i] = db[i]) \/ (i = Len(db) + 1 /\ db'[i] = b)
    BY <1>5, <2>1, AppendAt
  <2>3. /\ OneCall'
        /\ \A r \in requests' : (r \in requests /\ r # q) \/ (r.pc = "mark" /\ Key(r) = Key(q))
        /\ \A r \in requests : r # q => r \in requests'
        /\ \E r \in requests' : r.pc = "mark" /\ Key(r) = Key(q)
    BY <1>5, <2>1, MoveOnce
  <2>4. Unmarked'
    <3> SUFFICES ASSUME NEW i \in DOMAIN db', Key(db'[i]) \notin shared
                 PROVE  db'[i].seq \in cache \/ \E r \in requests' : Key(r) = Key(db'[i]) /\ r.pc = "mark"
      BY <2>1 DEF Unmarked, Key
    <3>1. CASE i \in DOMAIN db /\ db'[i] = db[i]
      BY <2>1, <2>3, <3>1 DEF Once, Unmarked
    <3>2. CASE db'[i] = b
      BY <2>1, <2>3, <3>2
    <3> QED BY <2>2, <3>1, <3>2
  <2>5. FirstWrite'
    <3> SUFFICES ASSUME NEW r \in requests', r.pc = "write", Key(r) \notin shared, NEW i \in DOMAIN db',
                        Key(db'[i]) = Key(r)
                 PROVE  FALSE
      BY <2>1 DEF FirstWrite, Key
    <3>1. r \in requests /\ r # q
      BY <2>3
    <3>2. db'[i] = b
      BY <2>2, <3>1 DEF Once, FirstWrite
    <3>3. Key(r) = Key(q)
      BY <2>1, <3>2
    <3> QED BY <3>1, <3>3 DEF Once, OneCall
  <2>6. DuplicatesExplained'
    <3> SUFFICES ASSUME NEW i \in DOMAIN db', NEW j \in DOMAIN db', i # j, Key(db'[i]) = Key(db'[j])
                 PROVE  Key(db'[i]) \in shared
      BY <2>1 DEF DuplicatesExplained, Key
    <3>1. CASE db'[i] = db[i] /\ i \in DOMAIN db /\ db'[j] = db[j] /\ j \in DOMAIN db
      BY <3>1 DEF Once, DuplicatesExplained
    <3>2. CASE db'[i] = b \/ db'[j] = b
      <4>1. PICK k \in DOMAIN db : Key(db[k]) = Key(q) /\ Key(db'[i]) = Key(q)
        BY <2>1, <2>2, <3>2
      <4> QED BY <2>1, <4>1 DEF Once, FirstWrite
    <3> QED BY <2>2, <3>1, <3>2
  <2> QED BY <2>3, <2>4, <2>5, <2>6 DEF Once
<1>6. ASSUME NEW q \in requests, Mark(q) PROVE Once'
  <2>1. cache' = cache \cup {q.seq} /\ UNCHANGED db /\ UNCHANGED shared /\ Move(q, "ok")
    BY <1>6 DEF Mark
  <2>2. /\ OneCall'
        /\ \A r \in requests' : (r \in requests /\ r # q) \/ (r.pc = "ok" /\ Key(r) = Key(q))
        /\ \A r \in requests : r # q => r \in requests'
    BY <2>1, MoveOnce
  <2>3. Unmarked'
    <3> SUFFICES ASSUME NEW i \in DOMAIN db, Key(db[i]) \notin shared
                 PROVE  db[i].seq \in cache' \/ \E r \in requests' : Key(r) = Key(db[i]) /\ r.pc = "mark"
      BY <2>1 DEF Unmarked, Key
    <3> QED BY <1>0, <2>1, <2>2 DEF Once, Unmarked
  <2>4. FirstWrite' /\ DuplicatesExplained'
    BY <2>1, <2>2 DEF Once, FirstWrite, DuplicatesExplained, Key
  <2> QED BY <2>2, <2>3, <2>4 DEF Once
<1>7. ASSUME NEW q \in requests, Reply(q) \/ Consumed(q) \/ HandlerDies(q) PROVE Once'
  <2>1. /\ requests' = requests \ {q} /\ UNCHANGED db /\ UNCHANGED cache /\ shared \subseteq shared'
        /\ q.pc = "mark" => Key(q) \in shared'
    BY <1>7 DEF Reply, Consumed, HandlerDies
  <2> QED BY <2>1, OnceFewer
<1>8. CASE ConsumerDies
  <2>1. /\ requests' \subseteq requests /\ UNCHANGED db /\ UNCHANGED cache /\ shared \subseteq shared'
        /\ \A q \in requests \ requests' : q.pc = "mark" => Key(q) \in shared'
    BY <1>8 DEF ConsumerDies
  <2> QED BY <2>1, OnceFewer
<1>9. CASE \/ Emit \/ FlushExpired \/ Timeout \/ Produce \/ Poll \/ CommitOffset \/ LoseRun \/ CancelPump
           \/ UNCHANGED vars
  <2>1. UNCHANGED <<requests, db, cache, shared>>
    BY <1>9 DEF Emit, FlushExpired, Timeout, Produce, Poll, CommitOffset, LoseRun, CancelPump, vars, client, server, kafka
  <2> QED BY <2>1, OnceFewer
<1>10. ASSUME NEW q \in requests, Write(q) PROVE Once'
  <2>1. CASE UNCHANGED db
    BY <1>4, <1>10, <2>1
  <2>2. CASE \E p \in requests : \E b \in Batch :
               Write(p) /\ Move(p, "mark") /\ db' = Append(db, b) /\ b.sink = p.sink /\ b.seq = p.seq
    BY <1>5, <2>2
  <2> QED BY <2>1, <2>2, DbSteps
<1> QED
  BY <1>1, <1>2, <1>3, <1>6, <1>7, <1>8, <1>9, <1>10 DEF Next, Send, Serve, Ship

LEMMA OnceInit == Init => OneSource /\ Once
BY DEF Init, OneSource, Once, OneCall, Unmarked, FirstWrite, DuplicatesExplained

\* ingestion.py:61, for any number of batches and crashes: a batch is stored twice only if two
\* calls for it were under way at once or one died between its write and its mark.
THEOREM StoredOnce == Spec => []DuplicatesExplained
<1>1. Init => Typed /\ OneSource /\ Once
  BY TypedInit, OnceInit
<1>2. Typed /\ OneSource /\ Once /\ [Next]_vars => (Typed /\ OneSource /\ Once)'
  BY TypedNext, OneSourceNext, OnceNext
<1>3. Once => DuplicatesExplained
  BY DEF Once
<1> QED BY <1>1, <1>2, <1>3, PTL DEF Spec

-----------------------------------------------------------------------------
(* OrderKept. *)

\* Of whatever lines come before a line of these, none is missing but for those of S.
Follows(lines, S) ==
  \A l \in Elements(lines) : \A n \in 1..(l.n - 1) :
    [attempt |-> l.attempt, n |-> n] \in Elements(lines) \cup S

InRows(i) == UNION {Elements(db[j].lines) : j \in 1..i}
InMessages(i) == UNION {Elements(topic[j].lines) : j \in 1..i}

\* Where the sink's transport takes a batch to.
Shipped == IF sink.type = "http" THEN Stored ELSE InMessages(Len(topic))

\* The buffer holds lines the pump has read; the batch, what follows on all that was shipped
\* or dropped; and so on, on its way.
Buffered == \A l \in Elements(sink.buffer) : l.attempt = attempt /\ l.n \in 1..pos
BatchFollows == Follows(batch.b.lines, dropped \cup Shipped)
CallsFollow == \A q \in requests : Follows(q.lines, dropped \cup Stored)
MessagesFollow == \A i \in DOMAIN topic : Follows(topic[i].lines, dropped \cup InMessages(i - 1))
RowsFollow == \A i \in DOMAIN db : Follows(db[i].lines, dropped \cup InRows(i - 1))

\* What the consumer is past is stored or was dropped; it stores messages only.
Past == \A i \in DOMAIN topic :
  i < consumer.next => Elements(topic[i].lines) \subseteq Stored \cup dropped
FromTopic == sink.type = "kafka" => Stored \subseteq InMessages(Len(topic))

\* The buffer of a batch that is being sent is empty, and after a cancelled pump it stays so.
Emptied == batch.pc # "none" \/ cut # {} => sink.buffer = <<>>

InOrder == Emptied /\ Buffered /\ BatchFollows /\ CallsFollow /\ MessagesFollow /\ RowsFollow /\ Past /\ FromTopic

\* A set of numbers has a least one.
LEMMA LeastOf ==
  ASSUME NEW T, T \subseteq Nat, T # {}
  PROVE  \E x \in T : \A y \in T : x <= y
<1>1. PICK R : R = OpToRel(<, Nat)
  OBVIOUS
<1>2. IsWellFoundedOn(R, Nat)
  BY <1>1, NatLessThanWellFounded
<1>3. PICK x \in T : \A y \in T : <<y, x>> \notin R
  BY <1>2, WFMin
<1>4. \A y, z \in Nat : y < z => <<y, z>> \in R
  BY <1>1 DEF OpToRel
<1>5. \A y \in T : ~(y < x)
  BY <1>3, <1>4
<1>6. \A y \in T : x \in Nat /\ y \in Nat
  OBVIOUS
<1> QED BY <1>5, <1>6

LEMMA FollowsMore ==
  ASSUME NEW lines, NEW S, NEW T, Follows(lines, S), S \subseteq T
  PROVE  Follows(lines, T)
BY DEF Follows

LEMMA StoredInRows == ASSUME Typed PROVE Stored = InRows(Len(db)) /\ DOMAIN db = 1..Len(db) /\ Len(db) \in Nat
<1>1. db \in Seq(Batch)
  BY DEF Typed, ServerTyped
<1>2. DOMAIN db = 1..Len(db) /\ Len(db) \in Nat
  BY <1>1
<1> QED BY <1>2 DEF Stored, InRows

LEMMA MessageCount == ASSUME Typed PROVE Len(topic) \in Nat /\ DOMAIN topic = 1..Len(topic)
<1>1. topic \in Seq(Batch)
  BY DEF Typed, KafkaTyped
<1> QED BY <1>1

\* What is stored, sent or dropped stays so.
LEMMA RowsKept ==
  ASSUME Typed, [Next]_vars
  PROVE  /\ \A i \in 0..Len(db) : InRows(i)' = InRows(i)
         /\ \A i \in DOMAIN db : i \in DOMAIN db' /\ db'[i] = db[i]
<1>1. db \in Seq(Batch) /\ DOMAIN db = 1..Len(db)
  BY DEF Typed, ServerTyped
<1>2. UNCHANGED db \/ \E b \in Batch : db' = Append(db, b)
  BY DbSteps
<1>3. \A i \in DOMAIN db : i \in DOMAIN db' /\ db'[i] = db[i]
  BY <1>1, <1>2, AppendAt
<1>4. \A i \in 0..Len(db) : 1..i \subseteq DOMAIN db
  BY <1>1
<1>5. \A i \in 0..Len(db) : InRows(i)' = InRows(i)
  BY <1>3, <1>4 DEF InRows, Elements
<1> QED BY <1>3, <1>5

LEMMA TopicSteps ==
  ASSUME Typed, [Next]_vars
  PROVE  UNCHANGED topic \/ (Produce /\ sink.type = "kafka" /\ topic' = Append(topic, batch.b) /\ batch.b \in Batch)
<1>1. UNCHANGED topic \/ Produce
  BY DEF Next, Send, Serve, Ship, Emit, FlushExpired, Post, Timeout, Check, Write, Mark, Reply,
         HandlerDies, Poll, Consume, Consumed, CommitOffset, ConsumerDies, LoseRun, CancelPump, vars, kafka
<1>2. Produce => sink.type = "kafka" /\ (UNCHANGED topic \/ topic' = Append(topic, batch.b))
  BY DEF Produce
<1>3. batch.b \in Batch
  BY BatchFields DEF Typed, ClientTyped
<1> QED BY <1>1, <1>2, <1>3

LEMMA MessagesKept ==
  ASSUME Typed, [Next]_vars
  PROVE  /\ \A i \in 0..Len(topic) : InMessages(i)' = InMessages(i)
         /\ \A i \in DOMAIN topic : i \in DOMAIN topic' /\ topic'[i] = topic[i]
         /\ InMessages(Len(topic)) \subseteq InMessages(Len(topic))'
<1>1. topic \in Seq(Batch) /\ DOMAIN topic = 1..Len(topic) /\ Len(topic) \in Nat
  BY DEF Typed, KafkaTyped
<1>2. UNCHANGED topic \/ \E b \in Batch : topic' = Append(topic, b)
  BY TopicSteps
<1>3. \A i \in DOMAIN topic : i \in DOMAIN topic' /\ topic'[i] = topic[i]
  BY <1>1, <1>2, AppendAt
<1>4. \A i \in 0..Len(topic) : 1..i \subseteq DOMAIN topic
  BY <1>1
<1>5. \A i \in 0..Len(topic) : InMessages(i)' = InMessages(i)
  BY <1>3, <1>4 DEF InMessages, Elements
<1>6. DOMAIN topic' = 1..Len(topic')
  BY <1>1, <1>2
<1>7. InMessages(Len(topic)) \subseteq InMessages(Len(topic))'
  BY <1>1, <1>3, <1>6 DEF InMessages, Elements
<1> QED BY <1>3, <1>5, <1>7

LEMMA DropsGrow == ASSUME [Next]_vars PROVE dropped \subseteq dropped'
BY DEF Next, Send, Serve, Ship, Emit, FlushExpired, Post, Timeout, Produce, Check, Write, Mark, Reply,
       HandlerDies, Poll, Consume, Consumed, CommitOffset, ConsumerDies, LoseRun, CancelPump, vars, Failed, GiveUp

LEMMA ShippedGrows == ASSUME Typed, [Next]_vars PROVE Shipped \subseteq Shipped'
BY StoredGrows, MessagesKept, SinkType DEF Shipped

LEMMA PastKept ==
  ASSUME Typed, Numbered, Past, [Next]_vars
  PROVE  Past'
<1> USE DEF Typed
<1>0. /\ Stored \subseteq Stored' /\ dropped \subseteq dropped'
      /\ consumer.next \in Nat /\ consumer.committed \in Nat
      /\ topic \in Seq(Batch)
      /\ \A i \in DOMAIN topic : i \in Nat /\ topic'[i] = topic[i]
  BY StoredGrows, DropsGrow, MessagesKept DEF KafkaTyped
<1>1. ASSUME UNCHANGED topic, consumer'.next \in Nat, consumer'.next <= consumer.next PROVE Past'
  <2>1. \A i \in DOMAIN topic' : i < consumer'.next => i < consumer.next
    BY <1>0, <1>1
  <2> QED BY <1>0, <1>1, <2>1 DEF Past, Elements
<1>2. CASE topic' = Append(topic, batch.b) /\ UNCHANGED consumer
  <2>1. Len(topic) \in Nat /\ batch.b \in Batch
    BY <1>0, BatchFields DEF ClientTyped
  <2>2. \A i \in DOMAIN topic' : i \in DOMAIN topic \/ ~(i < consumer'.next)
    BY <1>0, <1>2, <2>1, AppendAt DEF Numbered, InTopic
  <2> QED BY <1>0, <1>2, <2>2 DEF Past, Elements
<1>3. CASE Produce
  BY <1>0, <1>1, <1>2, <1>3 DEF Produce
<1>4. ASSUME NEW q \in requests, Consumed(q) PROVE Past'
  <2>1. /\ UNCHANGED topic /\ q.via = "kafka" /\ q.pc \in {"ok", "error"}
        /\ consumer'.next = consumer.next + 1
    BY <1>4 DEF Consumed, Consuming, KafkaTyped
  <2>2. q.lines = topic[consumer.next].lines
    BY <2>1 DEF Numbered, Polled
  <2>3. Elements(q.lines) \subseteq Stored \cup dropped'
    <3>1. CASE q.pc = "error"
      BY <1>4, <3>1 DEF Consumed
    <3>2. CASE q.pc = "ok"
      BY <3>2, WrittenStored DEF Numbered, Done
    <3> QED BY <2>1, <3>1, <3>2
  <2>4. \A i \in DOMAIN topic' : i < consumer'.next => i < consumer.next \/ i = consumer.next
    BY <1>0, <2>1
  <2> QED BY <1>0, <2>1, <2>2, <2>3, <2>4 DEF Past, Elements
<1>5. CASE ConsumerDies
  <2>1. UNCHANGED topic /\ consumer'.next = consumer.committed + 1
    BY <1>5 DEF ConsumerDies, KafkaTyped
  <2>2. consumer.committed < consumer.next
    BY DEF KafkaTyped, Offsets
  <2> QED BY <1>0, <1>1, <2>1, <2>2
<1>6. CASE Poll \/ CommitOffset
  <2>1. UNCHANGED topic /\ consumer'.next = consumer.next
    BY <1>6 DEF Poll, CommitOffset, KafkaTyped
  <2> QED BY <1>0, <1>1, <2>1
<1>7. CASE UNCHANGED topic /\ UNCHANGED consumer
  BY <1>0, <1>1, <1>7
<1>8. \/ Produce \/ ConsumerDies \/ Poll \/ CommitOffset \/ (UNCHANGED topic /\ UNCHANGED consumer)
      \/ \E q \in requests : Consumed(q)
  BY DEF Next, Send, Serve, Ship, Emit, FlushExpired, Post, Timeout, Consume, LoseRun, CancelPump, vars, Check, Write,
         Mark, Reply, HandlerDies, kafka
<1> QED BY <1>3, <1>4, <1>5, <1>6, <1>7, <1>8

\* What a call carries.
LEMMA CallsFrom ==
  ASSUME Typed, [Next]_vars
  PROVE  \A r \in requests' :
           \/ \E q \in requests : r.lines = q.lines
           \/ sink.type = "http" /\ r.lines = batch.b.lines
           \/ consumer.next \in DOMAIN topic /\ r.lines = topic[consumer.next].lines
<1> USE DEF Typed
<1>1. ASSUME NEW q \in requests, Check(q) \/ Write(q) \/ Mark(q), NEW r \in requests'
      PROVE  \E p \in requests : r.lines = p.lines
  <2>1. PICK pc \in {"check", "write", "mark", "ok", "rejected", "error"} : Move(q, pc)
    BY <1>1 DEF Check, Write, Mark
  <2> QED BY <2>1, MoveCalls
<1>2. CASE Post
  BY <1>2, CallFields DEF Post
<1>3. CASE Consume
  BY <1>3, CallFields, ConsumeTyped DEF Consume
<1>4. \/ Post \/ Consume \/ requests' \subseteq requests \/ \E q \in requests : Check(q) \/ Write(q) \/ Mark(q)
  BY DEF Next, Send, Serve, Ship, Emit, FlushExpired, Timeout, Produce, Reply, HandlerDies, Poll,
         Consumed, CommitOffset, ConsumerDies, LoseRun, CancelPump, vars, client, server, kafka
<1> QED BY <1>1, <1>2, <1>3, <1>4

LEMMA CallsFollowKept ==
  ASSUME Typed, BatchFollows, CallsFollow, MessagesFollow, Past, [Next]_vars
  PROVE  CallsFollow'
<1> SUFFICES ASSUME NEW r \in requests' PROVE Follows(r.lines, (dropped \cup Stored)')
  BY DEF CallsFollow
<1>0. dropped \cup Stored \subseteq (dropped \cup Stored)'
  BY StoredGrows, DropsGrow
<1>1. CASE \E q \in requests : r.lines = q.lines
  BY <1>0, <1>1, FollowsMore DEF CallsFollow
<1>2. CASE sink.type = "http" /\ r.lines = batch.b.lines
  BY <1>0, <1>2, FollowsMore DEF BatchFollows, Shipped
<1>3. CASE consumer.next \in DOMAIN topic /\ r.lines = topic[consumer.next].lines
  <2>1. InMessages(consumer.next - 1) \subseteq Stored \cup dropped
    <3>1. \A j \in 1..(consumer.next - 1) : j \in DOMAIN topic /\ j < consumer.next
      BY <1>3, MessageCount
    <3> QED BY <3>1 DEF InMessages, Past
  <2> QED BY <1>0, <1>3, <2>1, FollowsMore DEF MessagesFollow
<1> QED BY <1>1, <1>2, <1>3, CallsFrom

LEMMA MessagesFollowKept ==
  ASSUME Typed, BatchFollows, MessagesFollow, [Next]_vars
  PROVE  MessagesFollow'
<1> SUFFICES ASSUME NEW i \in DOMAIN topic' PROVE Follows(topic'[i].lines, dropped' \cup InMessages(i - 1)')
  BY DEF MessagesFollow
<1>0. Len(topic) \in Nat /\ DOMAIN topic = 1..Len(topic)
  BY MessageCount
<1>1. CASE i \in DOMAIN topic
  <2>1. topic'[i] = topic[i] /\ InMessages(i - 1)' = InMessages(i - 1)
    BY <1>0, <1>1, MessagesKept
  <2>2. dropped \cup InMessages(i - 1) \subseteq dropped' \cup InMessages(i - 1)'
    BY <2>1, DropsGrow
  <2> QED BY <1>1, <2>1, <2>2, FollowsMore DEF MessagesFollow
<1>2. CASE i \notin DOMAIN topic
  <2>1. sink.type = "kafka" /\ topic' = Append(topic, batch.b) /\ batch.b \in Batch
    BY <1>2, TopicSteps
  <2>2. i = Len(topic) + 1 /\ topic'[i] = batch.b
    BY <1>2, <2>1, AppendAt DEF Typed, KafkaTyped
  <2>3. InMessages(i - 1)' = InMessages(Len(topic))
    BY <1>0, <2>2, MessagesKept
  <2>4. dropped \cup Shipped \subseteq dropped' \cup InMessages(i - 1)'
    BY <2>1, <2>3, DropsGrow DEF Shipped
  <2> QED BY <2>2, <2>4, FollowsMore DEF BatchFollows
<1> QED BY <1>1, <1>2

LEMMA RowsFollowKept ==
  ASSUME Typed, CallsFollow, RowsFollow, [Next]_vars
  PROVE  RowsFollow'
<1> SUFFICES ASSUME NEW i \in DOMAIN db' PROVE Follows(db'[i].lines, dropped' \cup InRows(i - 1)')
  BY DEF RowsFollow
<1>0. Len(db) \in Nat /\ DOMAIN db = 1..Len(db) /\ Stored = InRows(Len(db))
  BY StoredInRows
<1>1. CASE i \in DOMAIN db
  <2>1. db'[i] = db[i] /\ InRows(i - 1)' = InRows(i - 1)
    BY <1>0, <1>1, RowsKept
  <2>2. dropped \cup InRows(i - 1) \subseteq dropped' \cup InRows(i - 1)'
    BY <2>1, DropsGrow
  <2> QED BY <1>1, <2>1, <2>2, FollowsMore DEF RowsFollow
<1>2. CASE i \notin DOMAIN db
  <2>1. PICK q \in requests, b \in Batch : db' = Append(db, b) /\ b.lines = q.lines
    BY <1>2, DbSteps
  <2>2. i = Len(db) + 1 /\ db'[i] = b
    BY <1>2, <2>1, AppendAt DEF Typed, ServerTyped
  <2>3. InRows(i - 1)' = Stored
    BY <1>0, <2>2, RowsKept
  <2>4. dropped \cup Stored \subseteq dropped' \cup InRows(i - 1)'
    BY <2>3, DropsGrow
  <2> QED BY <2>1, <2>2, <2>4, FollowsMore DEF CallsFollow
<1> QED BY <1>1, <1>2

LEMMA FromTopicKept ==
  ASSUME Typed, Numbered, OneSource, FromTopic, [Next]_vars
  PROVE  FromTopic'
<1> SUFFICES ASSUME sink.type = "kafka" PROVE Stored' \subseteq InMessages(Len(topic))'
  BY SinkType DEF FromTopic
<1>1. InMessages(Len(topic)) \subseteq InMessages(Len(topic))'
  BY MessagesKept
<1>2. CASE UNCHANGED db
  BY <1>1, <1>2 DEF FromTopic, Stored
<1>3. CASE ~UNCHANGED db
  <2>1. PICK q \in requests, b \in Batch : db' = Append(db, b) /\ b.lines = q.lines
    BY <1>3, DbSteps
  <2>2. Stored' \subseteq Stored \cup Elements(q.lines)
    <3>1. \A i \in DOMAIN db' : (i \in DOMAIN db /\ db'[i] = db[i]) \/ db'[i] = b
      BY <2>1, AppendAt DEF Typed, ServerTyped
    <3> QED BY <2>1, <3>1 DEF Stored, Elements
  <2>3. consumer.next \in DOMAIN topic /\ q.lines = topic[consumer.next].lines
    BY DEF OneSource, Numbered, Polled
  <2>4. Elements(q.lines) \subseteq InMessages(Len(topic))
    BY <2>3, MessageCount DEF InMessages
  <2> QED BY <1>1, <2>2, <2>4 DEF FromTopic
<1> QED BY <1>2, <1>3

\* What a flush takes from the buffer follows on all that was shipped or dropped.
LEMMA PopFollows ==
  ASSUME Typed, Accounted, OneSource, FromTopic, Unlocked, cut = {},
         NEW lines, \A l \in Elements(lines) : l.attempt = attempt /\ l.n \in Nat /\ l.n - 1 <= pos,
         Elements(sink.buffer) \subseteq Elements(lines)
  PROVE  Follows(lines, dropped \cup Shipped)
<1>1. Elements(batch.b.lines) = {}
  BY NoSendType DEF Typed, Unlocked, ClientTyped, Idle, Elements
<1>2. Stored \cup Queued \subseteq Shipped
  <2>1. CASE sink.type = "http"
    <3>1. topic = <<>>
      BY <2>1 DEF OneSource
    <3>2. Queued = {}
      BY <3>1 DEF Queued
    <3> QED BY <2>1, <3>2 DEF Shipped
  <2>2. CASE sink.type # "http"
    <3>1. sink.type = "kafka"
      BY <2>2, SinkFields DEF Typed, ClientTyped
    <3>2. Queued \subseteq InMessages(Len(topic))
      BY MessageCount DEF Queued, InMessages
    <3> QED BY <3>1, <3>2 DEF Shipped, FromTopic
  <2> QED BY <2>1, <2>2
<1>3. pos \in Nat
  BY Bounds DEF Typed, ClientTyped
<1>4. \A l \in Elements(lines) : \A n \in 1..(l.n - 1) : n \in 1..pos
  BY <1>3
<1> QED BY <1>1, <1>2, <1>4 DEF Follows, Accounted

LEMMA BufferAndBatchKept ==
  ASSUME Typed, Accounted, OneSource, FromTopic, Emptied, Buffered, BatchFollows, [Next]_vars
  PROVE  Buffered' /\ BatchFollows'
<1> USE DEF Typed
<1>a. dropped \cup Shipped \subseteq (dropped \cup Shipped)'
  BY DropsGrow, ShippedGrows
<1>b. pos \in Nat /\ sink \in Sink /\ batch \in BatchState
  BY Bounds DEF ClientTyped
<1>0. /\ pos \in Nat /\ sink \in Sink /\ sink.buffer \in Seq(Line) /\ batch \in BatchState
      /\ dropped \cup Shipped \subseteq (dropped \cup Shipped)'
  BY <1>a, <1>b, SinkFields
<1>1. ASSUME batch'.b.lines = <<>> \/ batch'.b = batch.b PROVE BatchFollows'
  <2>1. CASE batch'.b.lines = <<>>
    <3>1. Elements(<<>>) = {}
      BY DEF Elements
    <3>2. \A S : Follows(<<>>, S)
      BY <3>1 DEF Follows
    <3>3. Follows(batch'.b.lines, (dropped \cup Shipped)')
      BY <2>1, <3>2
    <3> QED BY <3>3 DEF BatchFollows
  <2>2. CASE batch'.b = batch.b
    BY <1>0, <2>2, FollowsMore DEF BatchFollows
  <2> QED BY <1>1, <2>1, <2>2
<1>2. ASSUME NEW lines \in Seq(Line), Unlocked, Pop(lines), UNCHANGED attempt,
             Follows(lines, dropped \cup Shipped)
      PROVE  Buffered' /\ BatchFollows'
  <2>1. batch'.b.lines = lines /\ sink'.buffer = <<>>
    BY <1>0, <1>2, PopType DEF Sink, Pop
  <2> QED BY <1>0, <1>2, <2>1, FollowsMore DEF BatchFollows, Buffered, Elements
<1>3. CASE Emit
  <2>1. PICK l : l = [attempt |-> attempt, n |-> pos + 1]
    OBVIOUS
  <2>2. l \in Line /\ l.attempt = attempt /\ l.n = pos + 1
    BY <1>0, <2>1, LineAt
  <2>3. PICK lines \in Seq(Line) : lines = Append(sink.buffer, l)
    <3>1. Append(sink.buffer, l) \in Seq(Line)
      BY <1>0, <2>2
    <3> QED BY <3>1
  <2>4. /\ \A i \in DOMAIN lines : (i \in DOMAIN sink.buffer /\ lines[i] = sink.buffer[i]) \/ lines[i] = l
        /\ Elements(sink.buffer) \subseteq Elements(lines)
    BY <1>0, <2>2, <2>3, AppendElements
  <2>5. \A k \in Elements(lines) : k \in Elements(sink.buffer) \/ k = l
    BY <2>4 DEF Elements
  <2>6. \A k \in Elements(lines) : k.attempt = attempt /\ k.n \in 1..(pos + 1)
    BY <1>0, <2>2, <2>5 DEF Buffered
  <2>7. Follows(lines, dropped \cup Shipped)
    <3>1. \A k \in Elements(lines) : k.attempt = attempt /\ k.n \in Nat /\ k.n - 1 <= pos
      BY <1>0, <2>6
    <3> QED BY <1>3, <2>4, <3>1, PopFollows DEF Emit
  <2>8. CASE Pop(lines)
    BY <1>2, <1>3, <2>7, <2>8 DEF Emit
  <2>9. CASE sink' = [sink EXCEPT !.buffer = lines] /\ UNCHANGED batch
    <3>1. sink'.buffer = lines /\ pos' = pos + 1 /\ attempt' = attempt
      BY <1>0, <1>3, <2>9 DEF Emit, Sink
    <3> QED BY <1>1, <2>6, <2>9, <3>1 DEF Buffered
  <2> QED BY <1>3, <2>1, <2>3, <2>8, <2>9 DEF Emit
<1>4. CASE FlushExpired
  <2>1. \A k \in Elements(sink.buffer) : k.attempt = attempt /\ k.n \in Nat /\ k.n - 1 <= pos
    BY <1>0 DEF Buffered
  <2>2. Follows(sink.buffer, dropped \cup Shipped)
    BY <1>4, <2>1, PopFollows DEF FlushExpired, Emptied
  <2> QED BY <1>0, <1>2, <1>4, <2>2 DEF FlushExpired
<1>5. ASSUME UNCHANGED <<sink, pos, attempt>> PROVE Buffered'
  BY <1>5 DEF Buffered
<1>6. \/ Emit \/ FlushExpired
      \/ /\ UNCHANGED <<sink, pos, attempt>>
         /\ \/ UNCHANGED batch \/ batch' = NoSend
            \/ \E try : batch' = [batch EXCEPT !.try = try, !.pc = "wait"]
            \/ batch' = [batch EXCEPT !.pc = "send"]
  BY DEF Next, Send, Serve, Ship, Post, Timeout, Produce, Check, Write, Mark, Reply, HandlerDies, Poll,
         Consume, Consumed, CommitOffset, ConsumerDies, LoseRun, CancelPump, vars, client, server, kafka, Failed, GiveUp
<1>7. ASSUME \/ UNCHANGED batch \/ batch' = NoSend
             \/ \E try : batch' = [batch EXCEPT !.try = try, !.pc = "wait"]
             \/ batch' = [batch EXCEPT !.pc = "send"]
      PROVE  batch'.b.lines = <<>> \/ batch'.b = batch.b
  BY <1>0, <1>7, NoSendType DEF BatchState
<1> QED BY <1>1, <1>3, <1>4, <1>5, <1>6, <1>7

LEMMA EmptiedNext == ASSUME Typed, Emptied, [Next]_vars PROVE Emptied'
<1> USE DEF Typed
<1>1. CASE Emit
  <2>1. CASE \E lines \in Seq(Line) : Pop(lines)
    BY <2>1, PopType DEF Emptied
  <2>2. CASE UNCHANGED batch
    BY <1>1, <2>2 DEF Emit, Unlocked, Emptied
  <2>3. Append(sink.buffer, [attempt |-> attempt, n |-> pos + 1]) \in Seq(Line)
    <3>1. pos \in 0..Lines /\ sink.buffer \in Seq(Line)
      BY SinkFields DEF ClientTyped
    <3>2. pos + 1 \in Nat \ {0}
      BY <3>1, Bounds
    <3> QED BY <3>1, <3>2, LineAt
  <2> QED BY <1>1, <2>1, <2>2, <2>3 DEF Emit
<1>2. CASE FlushExpired
  <2>1. sink.buffer \in Seq(Line)
    BY SinkFields DEF ClientTyped
  <2> QED BY <1>2, <2>1, PopType DEF FlushExpired, Emptied
<1>3. CASE CancelPump
  BY <1>3 DEF CancelPump, PumpSends, Emptied
<1>4. CASE UNCHANGED <<sink, cut>> /\ (batch.pc # "none" \/ UNCHANGED batch)
  BY <1>4 DEF Emptied
<1>5. Emit \/ FlushExpired \/ CancelPump \/ (UNCHANGED <<sink, cut>> /\ (batch.pc # "none" \/ UNCHANGED batch))
  BY DEF Next, Send, Serve, Ship, Post, Timeout, Produce, Check, Write, Mark, Reply, Awaited, HandlerDies, Poll,
         Consume, Consumed, CommitOffset, ConsumerDies, LoseRun, vars, client, server, kafka
<1> QED BY <1>1, <1>2, <1>3, <1>4, <1>5

LEMMA InOrderNext ==
  ASSUME Typed, Numbered, Accounted, OneSource, InOrder, [Next]_vars
  PROVE  InOrder'
BY EmptiedNext, BufferAndBatchKept, CallsFollowKept, MessagesFollowKept, RowsFollowKept, PastKept, FromTopicKept DEF InOrder

LEMMA InOrderInit == Init => InOrder
BY NoSendType DEF Init, InOrder, Emptied, Buffered, BatchFollows, CallsFollow, MessagesFollow, RowsFollow, Past, FromTopic,
                  Follows, Elements, Stored, NewSink

\* A line in a row was stored for the first time in that row or an earlier one.
LEMMA FirstStoredAt ==
  ASSUME Typed, NEW l, NEW i \in DOMAIN db, l \in Elements(db[i].lines)
  PROVE  /\ FirstStored(l) \in DOMAIN db /\ l \in Elements(db[FirstStored(l)].lines)
         /\ FirstStored(l) <= i
<1> DEFINE T == {j \in DOMAIN db : l \in Elements(db[j].lines)}
<1>1. DOMAIN db \subseteq Nat /\ \A j \in DOMAIN db : \A k \in 1..(j - 1) : k \in DOMAIN db /\ k < j
  BY StoredInRows
<1>2. PICK x \in T : \A y \in T : x <= y
  <2>1. T \subseteq Nat /\ T # {}
    BY <1>1
  <2> QED BY <2>1, LeastOf
<1>3. x \in DOMAIN db /\ l \in Elements(db[x].lines) /\ \A j \in 1..(x - 1) : l \notin Elements(db[j].lines)
  BY <1>1, <1>2
<1>4. /\ FirstStored(l) \in DOMAIN db /\ l \in Elements(db[FirstStored(l)].lines)
      /\ \A j \in 1..(FirstStored(l) - 1) : l \notin Elements(db[j].lines)
  BY <1>3 DEF FirstStored
<1>5. FirstStored(l) <= i
  <2>1. ~(i < FirstStored(l))
    <3>1. i \in 1..(FirstStored(l) - 1) => FALSE
      BY <1>4
    <3> QED BY <1>4, <3>1, StoredInRows
  <2> QED BY <1>1, <1>4, <2>1
<1> QED BY <1>4, <1>5

LEMMA OrderFollows == ASSUME Typed, RowsFollow PROVE OrderKept
<1> SUFFICES ASSUME NEW k \in Stored, NEW l \in Stored, k.attempt = l.attempt, k.n < l.n, k \notin dropped
             PROVE  FirstStored(k) <= FirstStored(l)
  BY DEF OrderKept
<1>1. \A x \in Stored : x \in Line /\ \E i \in DOMAIN db : x \in Elements(db[i].lines)
  <2> SUFFICES ASSUME NEW x \in Stored PROVE x \in Line /\ \E i \in DOMAIN db : x \in Elements(db[i].lines)
    OBVIOUS
  <2>1. PICK i \in DOMAIN db : x \in Elements(db[i].lines)
    BY DEF Stored
  <2>2. db[i] \in Batch
    BY DEF Typed, ServerTyped
  <2>3. db[i].lines \in Seq(Line)
    BY <2>2 DEF Batch
  <2> QED BY <2>1, <2>3 DEF Elements
<1>2. PICK i \in DOMAIN db : i = FirstStored(l) /\ l \in Elements(db[i].lines)
  BY <1>1, FirstStoredAt
<1>3. k = [attempt |-> l.attempt, n |-> k.n] /\ k.n \in 1..(l.n - 1)
  BY <1>1 DEF Line
<1>4. k \in Elements(db[i].lines) \/ k \in InRows(i - 1)
  BY <1>2, <1>3 DEF RowsFollow, Follows
<1>5. PICK j \in DOMAIN db : j <= i /\ k \in Elements(db[j].lines)
  <2>1. \A j \in 1..(i - 1) : j \in DOMAIN db /\ j <= i
    BY StoredInRows
  <2>2. i <= i
    BY StoredInRows
  <2> QED BY <1>4, <2>1, <2>2 DEF InRows
<1>6. FirstStored(k) <= j /\ FirstStored(k) \in DOMAIN db
  BY <1>5, FirstStoredAt
<1> QED BY <1>2, <1>5, <1>6, StoredInRows

\* sinks/base.py:72, for any number of lines, attempts and crashes and any batch size: lines
\* are stored in the order the container wrote them, unless the earlier one was given up.
THEOREM StoredInOrder == Spec => []OrderKept
<1>1. Init => Typed /\ Numbered /\ Accounted /\ OneSource /\ InOrder
  BY TypedInit, AccountedInit, OnceInit, InOrderInit
<1>2. /\ Typed /\ Numbered /\ Accounted /\ OneSource /\ InOrder /\ [Next]_vars
      => (Typed /\ Numbered /\ Accounted /\ OneSource /\ InOrder)'
  BY TypedNext, NumberedNext, AccountedNext, OneSourceNext, InOrderNext
<1>3. Typed /\ InOrder => OrderKept
  BY OrderFollows DEF InOrder
<1> QED BY <1>1, <1>2, <1>3, PTL DEF Spec
=============================================================================
