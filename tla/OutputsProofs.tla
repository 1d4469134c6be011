---------------------------- MODULE OutputsProofs ----------------------------
(***************************************************************************)
(* The parts of Outputs.  Each part's invariant is proved of its own       *)
(* specification and carried over to the composition, in which a step of   *)
(* one part leaves the others alone.                                       *)
(***************************************************************************)
EXTENDS Outputs, LogPipelineProofs, FiniteSetTheorems, SequenceTheorems

LEMMA Constants ==
  /\ Retries \in Nat /\ MaxFailures \in Nat /\ UploadFailures \in Nat /\ MaxEdits \in Nat
  /\ MaxEntries \in Nat /\ MaxRewrites \in Nat /\ MaxPushes \in Nat
  /\ Attempts \in Nat \ {0} /\ QueueSize \in Nat \ {0} /\ MaxAttachments \in Nat \ {0}
  /\ Lines \in Nat \ {0} /\ Streams # {}
<1>1. /\ \A n \in {Retries, MaxFailures, UploadFailures, MaxEdits, MaxEntries, MaxRewrites, MaxPushes} : n \in Nat
      /\ \A n \in {Attempts, QueueSize, MaxAttachments} : n \in Nat \ {0}
      /\ Streams # {}
  BY OutputsAssumption, Zenon DEF OutputsAssumption
<1> QED BY <1>1, Bounds

-----------------------------------------------------------------------------
(* The publish command. *)

PubRow == [pc: P!Writing \cup {"head", "token", "get", "published", "failed"},
           digest: P!Digests, token: BOOLEAN, left: 0..Retries]
PubCall == [p: Publishers, kind: P!Writing, key: 0..MaxEdits, left: 0..Retries,
            open: BOOLEAN, copy: P!Record \cup {P!NoRecord}]

PubTyped == pub \in [Publishers -> PubRow] /\ \A q \in writes : q \in PubCall

\* A command waits for the one open request it has.
PubWaits ==
  /\ \A q \in writes : q.open => pub[q.p].pc = q.kind
  /\ \A q, c \in writes : q.open /\ c.open /\ q.p = c.p => q = c

\* What was published was carried; of a command that missed no reply all requests are
\* open, and the record had its payload only if it was told so.
PubTold ==
  /\ \A p \in Publishers : pub[p].pc = "published" => p \in carried
  /\ \A p \in Publishers \ muddled : p \in carried => pub[p].pc = "published"
  /\ \A q \in writes : q.p \notin muddled => q.open

PubSound == PubWaits /\ PubTold

LEMMA PubTypes == P!TypeOK => PubTyped
BY DEF P!TypeOK, PubTyped, PubRow, PubCall

LEMMA AnswerTyped ==
  ASSUME PubTyped, NEW q \in writes, NEW status, NEW rest, \A c \in rest : c \in PubCall,
         P!Answer(q, status, rest)
  PROVE  PubTyped'
<1>1. q.p \in Publishers /\ q.kind \in P!Writing /\ q.key \in 0..MaxEdits
  BY DEF PubTyped, PubCall
<1>2. pub \in [Publishers -> PubRow] /\ pub[q.p].left \in 0..Retries
  BY <1>1 DEF PubTyped, PubRow
<1>3. CASE writes' = rest /\ UNCHANGED pub
  BY <1>3, <1>2 DEF PubTyped
<1>4. CASE /\ pub[q.p].left > 0
           /\ pub' = [pub EXCEPT ![q.p].left = pub[q.p].left - 1]
           /\ writes' = rest \cup {P!Call(q.p, q.kind, q.key, pub[q.p].left - 1)}
  <2>1. pub[q.p].left - 1 \in 0..Retries
    BY <1>2, <1>4, Constants
  <2>2. P!Call(q.p, q.kind, q.key, pub[q.p].left - 1) \in PubCall
    BY <2>1, <1>1 DEF P!Call, PubCall
  <2>3. pub' \in [Publishers -> PubRow]
    BY <1>4, <2>1, <1>2 DEF PubRow
  <2> QED BY <2>2, <2>3, <1>4 DEF PubTyped
<1>5. CASE writes' = rest /\ \E pc \in {"published", "failed"} : P!Moves(q.p, pc)
  <2>1. pub' \in [Publishers -> PubRow]
    BY <1>5, <1>2 DEF PubRow, P!Moves
  <2> QED BY <2>1, <1>5 DEF PubTyped
<1> QED BY <1>3, <1>4, <1>5 DEF P!Answer

LEMMA PayloadTyped ==
  ASSUME P!TypeOK, NEW p \in Publishers, NEW r \in P!Record \cup {P!NoRecord}
  PROVE  P!Payload(p, r) \in P!Record
<1>1. pub[p].digest \in P!Digests /\ pub_edits \in 0..MaxEdits
  BY DEF P!TypeOK
<1>2. CASE r = P!NoRecord
  BY <1>1, <1>2 DEF P!Payload, P!Record
<1>3. CASE r # P!NoRecord
  BY <1>1, <1>3 DEF P!Payload, P!Record
<1> QED BY <1>2, <1>3

LEMMA PubTypedNext == ASSUME P!TypeOK, [P!Next]_P!vars PROVE P!TypeOK'
<1> DEFINE Rest == /\ tag' \in P!Digests /\ record' \in P!Record \cup {P!NoRecord}
                   /\ carried' \subseteq Publishers /\ muddled' \subseteq Publishers
                   /\ pub_edits' \in 0..MaxEdits /\ pub_failures' \in 0..MaxFailures
<1>0. PubTyped /\ (PubTyped' /\ Rest => P!TypeOK')
  BY PubTypes DEF P!TypeOK, PubTyped, PubRow, PubCall
<1>a. /\ tag \in P!Digests /\ record \in P!Record \cup {P!NoRecord}
      /\ carried \subseteq Publishers /\ muddled \subseteq Publishers
      /\ pub_edits \in 0..MaxEdits /\ pub_failures \in 0..MaxFailures
  BY DEF P!TypeOK
<1>b. MaxEdits \in Nat /\ MaxFailures \in Nat /\ MaxPushes \in Nat /\ Retries \in Nat
  BY Constants
<1>1. CASE P!Push
  BY <1>1, <1>0, <1>a, <1>b DEF P!Push, P!Digests, PubTyped
<1>2. CASE \E delete \in BOOLEAN : P!Edit(delete)
  <2>1. record' \in P!Record \cup {P!NoRecord}
    BY <1>2, <1>a DEF P!Edit, P!Record
  <2> QED BY <2>1, <1>2, <1>0, <1>a, <1>b DEF P!Edit, PubTyped
<1>3. ASSUME NEW p \in Publishers, P!Head(p) PROVE P!TypeOK'
  <2>1. pub' \in [Publishers -> PubRow]
    BY <1>3, <1>0, <1>a DEF P!Head, P!Moves, PubTyped, PubRow
  <2> QED BY <2>1, <1>3, <1>0, <1>a DEF P!Head, PubTyped
<1>4. ASSUME NEW p \in Publishers, NEW granted \in BOOLEAN, P!Token(p, granted) PROVE P!TypeOK'
  <2>1. PICK pc \in {"head", "failed"}, b \in BOOLEAN :
          pub' = [pub EXCEPT ![p].pc = pc, ![p].token = b]
    BY <1>4, Zenon DEF P!Token
  <2>2. pub' \in [Publishers -> PubRow]
    BY <2>1, <1>0 DEF PubTyped, PubRow
  <2> QED BY <2>2, <1>4, <1>0, <1>a DEF P!Token, PubTyped
<1>5. ASSUME NEW p \in Publishers, P!Get(p) PROVE P!TypeOK'
  <2> DEFINE kind == IF record = P!NoRecord THEN "post" ELSE "patch"
             key == IF record = P!NoRecord THEN 0 ELSE record.key
  <2>1. kind \in P!Writing /\ key \in 0..MaxEdits /\ Retries \in 0..Retries
    BY <1>a, <1>b DEF P!Record, P!Writing
  <2>2. pub' = [pub EXCEPT ![p].pc = kind, ![p].left = Retries]
        /\ writes' = writes \cup {P!Call(p, kind, key, Retries)}
    BY <1>5 DEF P!Get
  <2> HIDE DEF kind, key
  <2>3. P!Call(p, kind, key, Retries) \in PubCall
    BY <2>1 DEF P!Call, PubCall
  <2>4. pub' \in [Publishers -> PubRow]
    BY <2>1, <2>2, <1>0 DEF PubTyped, PubRow
  <2> QED BY <2>2, <2>3, <2>4, <1>5, <1>0, <1>a DEF P!Get, PubTyped
<1>6. ASSUME NEW p \in Publishers, P!Fail(p) PROVE P!TypeOK'
  <2>1. pub' \in [Publishers -> PubRow]
    BY <1>6, <1>0, <1>a DEF P!Fail, P!Moves, PubTyped, PubRow
  <2> QED BY <2>1, <1>6, <1>0, <1>a, <1>b DEF P!Fail, PubTyped
<1>7. ASSUME NEW q \in writes, P!Create(q) PROVE P!TypeOK'
  <2>1. \A c \in writes \ {q} : c \in PubCall
    BY <1>0 DEF PubTyped
  <2>2. PubTyped'
    BY <1>7, <2>1, <1>0, AnswerTyped DEF P!Create
  <2>3. q.p \in Publishers
    BY <1>0 DEF PubTyped, PubCall
  <2>4. record' \in P!Record \cup {P!NoRecord} /\ carried' \subseteq Publishers
    BY <1>7, <2>3, <1>a, PayloadTyped DEF P!Create
  <2> QED BY <2>2, <2>4, <1>7, <1>0, <1>a DEF P!Create
<1>8. ASSUME NEW q \in writes, P!Load(q) PROVE P!TypeOK'
  <2>1. \A c \in writes \ {q} : c \in PubCall
    BY <1>0 DEF PubTyped
  <2>2. [q EXCEPT !.copy = record] \in PubCall
    BY <1>0, <1>a DEF PubTyped, PubCall
  <2>3. PubTyped'
    <3>1. CASE writes' = (writes \ {q}) \cup {[q EXCEPT !.copy = record]} /\ UNCHANGED pub
      BY <3>1, <2>1, <2>2, <1>0 DEF PubTyped
    <3>2. CASE P!Answer(q, "refused", writes \ {q})
      BY <3>2, <2>1, <1>0, AnswerTyped
    <3> QED BY <3>1, <3>2, <1>8 DEF P!Load
  <2> QED BY <2>3, <1>8, <1>0, <1>a DEF P!Load
<1>9. ASSUME NEW q \in writes, P!SavePatch(q) PROVE P!TypeOK'
  <2>1. \A c \in writes \ {q} : c \in PubCall
    BY <1>0 DEF PubTyped
  <2>2. PubTyped'
    BY <1>9, <2>1, <1>0, AnswerTyped DEF P!SavePatch
  <2>3. q.p \in Publishers /\ q.copy \in P!Record \cup {P!NoRecord}
    BY <1>0 DEF PubTyped, PubCall
  <2>4. record' \in P!Record \cup {P!NoRecord} /\ carried' \subseteq Publishers
    BY <1>9, <2>3, <1>a, PayloadTyped DEF P!SavePatch
  <2> QED BY <2>2, <2>4, <1>9, <1>0, <1>a DEF P!SavePatch
<1>10. ASSUME NEW q \in writes, NEW runsOn \in BOOLEAN, P!Unanswered(q, runsOn) PROVE P!TypeOK'
  <2> DEFINE rest == (writes \ {q}) \cup IF runsOn THEN {[q EXCEPT !.open = FALSE]} ELSE {}
  <2>1. [q EXCEPT !.open = FALSE] \in PubCall /\ q.p \in Publishers
    BY <1>0 DEF PubTyped, PubCall
  <2>2. \A c \in rest : c \in PubCall
    BY <2>1, <1>0 DEF PubTyped
  <2>3. P!Answer(q, "error", rest)
    BY <1>10 DEF P!Unanswered
  <2>4. PubTyped'
    BY <2>2, <2>3, <1>0, AnswerTyped
  <2> QED BY <2>1, <2>4, <1>10, <1>0, <1>a, <1>b DEF P!Unanswered
<1>11. CASE UNCHANGED P!vars
  BY <1>11 DEF P!vars, P!TypeOK
<1> QED
  BY <1>1, <1>2, <1>3, <1>4, <1>5, <1>6, <1>7, <1>8, <1>9, <1>10, <1>11 DEF P!Next

\* Steps that send nothing: a command moves on, and ends only by failing.
PubMoves == /\ writes' = writes /\ carried' = carried /\ muddled' = muddled
            /\ \A p \in Publishers :
                 \/ pub'[p].pc = pub[p].pc
                 \/ /\ pub[p].pc \in {"head", "token", "get"}
                    /\ pub'[p].pc \in {"head", "token", "get", "failed"}

LEMMA PubMovesSound == ASSUME P!TypeOK, PubSound, PubMoves PROVE PubSound'
<1>0. \A q \in writes : q.p \in Publishers /\ q.kind \in P!Writing
  BY PubTypes DEF PubTyped, PubCall
<1>1. PubWaits'
  BY <1>0 DEF PubSound, PubWaits, PubMoves, P!Writing
<1>2. PubTold'
  BY DEF PubSound, PubTold, PubMoves
<1> QED BY <1>1, <1>2 DEF PubSound

\* The end of a request q: what stays at the server is what was there, but for q or
\* with q no longer open.
LEMMA AnswerSound ==
  ASSUME P!TypeOK, PubSound, NEW q \in writes, NEW status \in {"ok", "error", "refused"}, NEW rest,
         P!Answer(q, status, rest), \A c \in rest : c \in writes \ {q} \/ (~c.open /\ c.p = q.p),
         carried' = IF status = "ok" THEN carried \cup {q.p} ELSE carried,
         muddled' = muddled \/ muddled' = muddled \cup {q.p},
         (\A c \in rest : c \in writes \ {q}) \/ q.p \in muddled'
  PROVE  PubSound'
<1>0. /\ \A c \in writes : c.p \in Publishers /\ c.kind \in P!Writing /\ c.open \in BOOLEAN
      /\ pub \in [Publishers -> PubRow]
  BY PubTypes DEF PubTyped, PubCall
<1>1. CASE ~q.open
  <2>1. writes' = rest /\ pub' = pub
    BY <1>1 DEF P!Answer
  <2>2. q.p \in muddled
    BY <1>1 DEF PubSound, PubTold
  <2>3. PubWaits'
    BY <2>1 DEF PubSound, PubWaits
  <2>4. PubTold'
    BY <2>1, <2>2, <1>0 DEF PubSound, PubTold
  <2> QED BY <2>3, <2>4 DEF PubSound
<1>2. CASE q.open /\ status = "error" /\ pub[q.p].left > 0
  <2> DEFINE c == P!Call(q.p, q.kind, q.key, pub[q.p].left - 1)
  <2>1. writes' = rest \cup {c} /\ pub' = [pub EXCEPT ![q.p].left = pub[q.p].left - 1]
    BY <1>2 DEF P!Answer
  <2>2. c.p = q.p /\ c.kind = q.kind /\ c.open
    BY DEF P!Call
  <2> HIDE DEF c
  <2>3. \A p \in Publishers : pub'[p].pc = pub[p].pc
    BY <2>1, <1>0 DEF PubRow
  <2>4. \A d \in rest : d.open => d \in writes /\ d.p # q.p
    BY <1>2 DEF PubSound, PubWaits
  <2>5. PubWaits'
    BY <2>1, <2>2, <2>3, <2>4, <1>0, <1>2 DEF PubSound, PubWaits
  <2>6. PubTold'
    <3>1. \A p \in Publishers : pub'[p].pc = "published" => p \in carried'
      BY <2>3, <1>2 DEF PubSound, PubTold
    <3>2. \A p \in Publishers \ muddled' : p \in carried' => pub'[p].pc = "published"
      BY <2>3, <1>2 DEF PubSound, PubTold
    <3>3. \A d \in writes' : d.p \notin muddled' => d.open
      BY <2>1, <2>2 DEF PubSound, PubTold
    <3> QED BY <3>1, <3>2, <3>3 DEF PubTold
  <2> QED BY <2>5, <2>6 DEF PubSound
<1>3. CASE q.open /\ ~(status = "error" /\ pub[q.p].left > 0)
  <2> DEFINE pc == IF status = "ok" THEN "published" ELSE "failed"
  <2>1. writes' = rest /\ pub' = [pub EXCEPT ![q.p].pc = pc]
    BY <1>3 DEF P!Answer, P!Moves
  <2>2. pub[q.p].pc = q.kind /\ q.kind \notin {"published", "failed"}
    BY <1>3, <1>0 DEF PubSound, PubWaits, P!Writing
  <2>3. pub'[q.p].pc = pc /\ \A p \in Publishers \ {q.p} : pub'[p] = pub[p]
    BY <2>1, <1>0 DEF PubRow
  <2>4. \A d \in rest : d.open => d \in writes /\ d.p # q.p
    BY <1>3 DEF PubSound, PubWaits
  <2>5. PubWaits'
    BY <2>1, <2>3, <2>4, <1>0 DEF PubSound, PubWaits
  <2>6. PubTold'
    <3>1. \A p \in Publishers : pub'[p].pc = "published" => p \in carried'
      BY <2>3 DEF PubSound, PubTold
    <3>2. \A p \in Publishers \ muddled' : p \in carried' => pub'[p].pc = "published"
      BY <2>2, <2>3 DEF PubSound, PubTold
    <3>3. \A d \in writes' : d.p \notin muddled' => d.open
      BY <2>1 DEF PubSound, PubTold
    <3> QED BY <3>1, <3>2, <3>3 DEF PubTold
  <2> QED BY <2>5, <2>6 DEF PubSound
<1> QED BY <1>0, <1>1, <1>2, <1>3

LEMMA PubSoundNext == ASSUME P!TypeOK, PubSound, [P!Next]_P!vars PROVE PubSound'
<1>0. /\ \A c \in writes : c \in PubCall /\ c.p \in Publishers /\ c.kind \in P!Writing
      /\ pub \in [Publishers -> PubRow]
  BY PubTypes DEF PubTyped, PubCall
<1>1. CASE P!Push
  BY <1>1, PubMovesSound DEF P!Push, PubMoves
<1>2. CASE \E delete \in BOOLEAN : P!Edit(delete)
  BY <1>2, PubMovesSound DEF P!Edit, PubMoves
<1>3. ASSUME NEW p \in Publishers, P!Head(p) PROVE PubSound'
  BY <1>3, <1>0, PubMovesSound DEF P!Head, P!Moves, PubMoves, PubRow
<1>4. ASSUME NEW p \in Publishers, NEW granted \in BOOLEAN, P!Token(p, granted) PROVE PubSound'
  BY <1>4, <1>0, PubMovesSound DEF P!Token, PubMoves, PubRow
<1>5. ASSUME NEW p \in Publishers, P!Get(p) PROVE PubSound'
  <2> DEFINE kind == IF record = P!NoRecord THEN "post" ELSE "patch"
             key == IF record = P!NoRecord THEN 0 ELSE record.key
             c == P!Call(p, kind, key, Retries)
  <2>1. /\ pub' = [pub EXCEPT ![p].pc = kind, ![p].left = Retries] /\ writes' = writes \cup {c}
        /\ carried' = carried /\ muddled' = muddled /\ pub[p].pc = "get"
    BY <1>5 DEF P!Get
  <2>2. c.p = p /\ c.kind = kind /\ c.open /\ kind \in P!Writing
    BY DEF P!Call, P!Writing
  <2> HIDE DEF kind, key, c
  <2>3. \A d \in writes : d.open => d.p # p
    BY <2>1, <1>0 DEF PubSound, PubWaits, P!Writing
  <2>4. pub'[p].pc = kind /\ \A x \in Publishers \ {p} : pub'[x] = pub[x]
    BY <2>1, <1>0 DEF PubRow
  <2>5. PubWaits'
    BY <2>1, <2>2, <2>3, <2>4, <1>0 DEF PubSound, PubWaits
  <2>6. PubTold'
    BY <2>1, <2>2, <2>4, <1>0 DEF PubSound, PubTold, P!Writing
  <2> QED BY <2>5, <2>6 DEF PubSound
<1>6. ASSUME NEW p \in Publishers, P!Fail(p) PROVE PubSound'
  BY <1>6, <1>0, PubMovesSound DEF P!Fail, P!Moves, PubMoves, PubRow
<1>7. ASSUME NEW q \in writes, P!Create(q) PROVE PubSound'
  <2>1. CASE P!Answer(q, "ok", writes \ {q}) /\ carried' = carried \cup {q.p}
    BY <2>1, <1>7, AnswerSound DEF P!Create
  <2>2. CASE P!Answer(q, "refused", writes \ {q}) /\ carried' = carried
    BY <2>2, <1>7, AnswerSound DEF P!Create
  <2> QED BY <2>1, <2>2, <1>7 DEF P!Create
<1>8. ASSUME NEW q \in writes, P!Load(q) PROVE PubSound'
  <2>1. CASE P!Answer(q, "refused", writes \ {q})
    BY <2>1, <1>8, AnswerSound DEF P!Load
  <2>2. CASE writes' = (writes \ {q}) \cup {[q EXCEPT !.copy = record]} /\ UNCHANGED pub
    <3> DEFINE c == [q EXCEPT !.copy = record]
    <3>1. c.p = q.p /\ c.kind = q.kind /\ c.open = q.open
      BY <1>0 DEF PubCall
    <3>2. pub' = pub /\ carried' = carried /\ muddled' = muddled /\ writes' = (writes \ {q}) \cup {c}
      BY <2>2, <1>8 DEF P!Load
    <3> HIDE DEF c
    <3>3. PubWaits'
      BY <3>1, <3>2 DEF PubSound, PubWaits
    <3>4. PubTold'
      BY <3>1, <3>2 DEF PubSound, PubTold
    <3> QED BY <3>3, <3>4 DEF PubSound
  <2> QED BY <2>1, <2>2, <1>8 DEF P!Load
<1>9. ASSUME NEW q \in writes, P!SavePatch(q) PROVE PubSound'
  <2>1. CASE P!Answer(q, "ok", writes \ {q}) /\ carried' = carried \cup {q.p}
    BY <2>1, <1>9, AnswerSound DEF P!SavePatch
  <2>2. CASE P!Answer(q, "error", writes \ {q}) /\ carried' = carried
    BY <2>2, <1>9, AnswerSound DEF P!SavePatch
  <2> QED BY <2>1, <2>2, <1>9 DEF P!SavePatch
<1>10. ASSUME NEW q \in writes, NEW runsOn \in BOOLEAN, P!Unanswered(q, runsOn) PROVE PubSound'
  <2> DEFINE rest == (writes \ {q}) \cup IF runsOn THEN {[q EXCEPT !.open = FALSE]} ELSE {}
  <2>1. ~[q EXCEPT !.open = FALSE].open /\ [q EXCEPT !.open = FALSE].p = q.p
    BY <1>0 DEF PubCall
  <2>2. \A c \in rest : c \in writes \ {q} \/ (~c.open /\ c.p = q.p)
    BY <2>1
  <2>3. P!Answer(q, "error", rest) /\ muddled' = muddled \cup {q.p} /\ carried' = carried
    BY <1>10 DEF P!Unanswered
  <2> HIDE DEF rest
  <2> QED BY <2>2, <2>3, AnswerSound
<1>11. CASE UNCHANGED P!vars
  BY <1>11 DEF P!vars, PubSound, PubWaits, PubTold
<1> QED
  BY <1>1, <1>2, <1>3, <1>4, <1>5, <1>6, <1>7, <1>8, <1>9, <1>10, <1>11 DEF P!Next

\* A publish command's verdict is right, however many run, retry and race.
LEMMA PubHonest == P!Spec => [](P!TypeOK /\ PublishHonest)
<1>1. P!Init => P!TypeOK /\ PubSound
  <2>1. P!Init => P!TypeOK
    BY Constants DEF P!Init, P!TypeOK, P!Digests, P!Writing
  <2>2. P!Init => PubSound
    BY DEF P!Init, PubSound, PubWaits, PubTold
  <2> QED BY <2>1, <2>2
<1>2. P!TypeOK /\ PubSound /\ [P!Next]_P!vars => (P!TypeOK /\ PubSound)'
  BY PubTypedNext, PubSoundNext
<1>3. P!TypeOK /\ PubSound => P!TypeOK /\ PublishHonest
  BY DEF PubSound, PubTold, PublishHonest, P!PublishHonest
<1> QED BY <1>1, <1>2, <1>3, PTL DEF P!Spec

-----------------------------------------------------------------------------
(* The console. *)

Following == console.pc \in {"get", "emit"}
InHand(s) == console.pc = "emit" /\ console.line[1] = s
Taken(s) == Len(emitted[s]) + IF InHand(s) THEN 1 ELSE 0

\* What the pump of a stream has read is what the container printed, in the end all of it.
Read ==
  \A s \in Streams : /\ pump[s].read <= printed[s]
                     /\ pump[s].pc = "ended" => container = "exited" /\ pump[s].read = printed[s]

\* The line in hand follows those the sink has.
Handed ==
  /\ \A s \in Streams : \A i \in DOMAIN emitted[s] : emitted[s][i] = i
  /\ console.pc = "emit" =>
       console.line \in C!Line /\ console.line[2] = Len(emitted[console.line[1]]) + 1

\* The queue has, of each stream, the lines behind that one up to the last one read, in
\* order, and behind them the end marker once both pumps are through.
Between ==
  /\ \A i \in DOMAIN queue : queue[i] # C!End =>
       Taken(queue[i][1]) < queue[i][2] /\ queue[i][2] <= pump[queue[i][1]].read
  /\ \A s \in Streams : Taken(s) <= pump[s].read
  /\ \A s \in Streams : \A n \in (Taken(s) + 1)..pump[s].read :
       \E i \in DOMAIN queue : queue[i] = <<s, n>>
Ordered ==
  \A i, j \in DOMAIN queue : i < j =>
    /\ queue[i] # C!End
    /\ queue[j] # C!End /\ queue[i][1] = queue[j][1] => queue[i][2] < queue[j][2]
Marker == (\E i \in DOMAIN queue : queue[i] = C!End) => C!Gathered

Finished == console.pc = "ended" =>
              C!Gathered /\ queue = <<>> /\ \A s \in Streams : Len(emitted[s]) = pump[s].read

\* Nothing is read for a console that is over or given up.
Pumping == \A s \in Streams : pump[s].pc = "open" => Following

ConsoleSound ==
  /\ Read /\ Handed /\ (Following => Between) /\ Ordered /\ Marker /\ Finished /\ Pumping
  /\ supervisor = "away" => attachments < MaxAttachments

LEMMA EndApart == ASSUME NEW x, NEW y PROVE <<x, y>> # C!End
<1>1. Len(<<x, y>>) = 2 /\ Len(C!End) = 1
  BY DEF C!End
<1> QED BY <1>1

\* Types of the console's state, one by one.
LEMMA ConsoleTypes ==
  ASSUME C!TypeOK
  PROVE  /\ printed \in [Streams -> 0..Lines]
         /\ pump \in [Streams -> [pc: {"open", "ended", "failed", "cancelled"}, read: 0..Lines]]
         /\ queue \in Seq(C!Line \cup {C!End}) /\ Len(queue) \in Nat /\ DOMAIN queue = 1..Len(queue)
         /\ \A i \in DOMAIN queue : queue[i] \in C!Line \cup {C!End}
         /\ console.pc \in {"get", "emit", "ended", "cancelled"}
         /\ emitted \in [Streams -> Seq(1..Lines)]
         /\ \A s \in Streams : /\ printed[s] \in Nat /\ pump[s].read \in Nat
                               /\ Len(emitted[s]) \in Nat /\ DOMAIN emitted[s] = 1..Len(emitted[s])
                               /\ Taken(s) \in Nat
         /\ \A l \in C!Line : l[1] \in Streams /\ l[2] \in 1..Lines /\ l = <<l[1], l[2]>> /\ l # C!End
<1>1. /\ printed \in [Streams -> 0..Lines]
      /\ pump \in [Streams -> [pc: {"open", "ended", "failed", "cancelled"}, read: 0..Lines]]
      /\ queue \in Seq(C!Line \cup {C!End})
      /\ console.pc \in {"get", "emit", "ended", "cancelled"}
      /\ emitted \in [Streams -> Seq(1..Lines)]
  BY DEF C!TypeOK
<1>2. Len(queue) \in Nat /\ DOMAIN queue = 1..Len(queue)
      /\ \A i \in DOMAIN queue : queue[i] \in C!Line \cup {C!End}
  BY <1>1
<1>3. ASSUME NEW s \in Streams
      PROVE  /\ printed[s] \in Nat /\ pump[s].read \in Nat
             /\ Len(emitted[s]) \in Nat /\ DOMAIN emitted[s] = 1..Len(emitted[s])
             /\ Taken(s) \in Nat
  <2>1. emitted[s] \in Seq(1..Lines)
    BY <1>1
  <2> QED BY <1>1, <2>1, Constants DEF Taken
<1>4. ASSUME NEW l \in C!Line
      PROVE  l[1] \in Streams /\ l[2] \in 1..Lines /\ l = <<l[1], l[2]>> /\ l # C!End
  BY EndApart DEF C!Line
<1> QED BY <1>1, <1>2, <1>3, <1>4

ConsoleInv == C!TypeOK /\ ConsoleSound

\* Steps of the container and of _supervise, which do not touch what is on its way.
LEMMA AroundSound ==
  ASSUME ConsoleInv, UNCHANGED <<pump, queue, console, emitted>>, C!TypeOK',
         container = "exited" => container' = "exited" /\ printed' = printed,
         \A s \in Streams : printed'[s] \in Nat /\ printed[s] <= printed'[s],
         supervisor' = "away" => attachments' < MaxAttachments
  PROVE  ConsoleInv'
<1>1. Read'
  BY ConsoleTypes DEF ConsoleInv, ConsoleSound, Read
<1>2. Handed' /\ (Following => Between)' /\ Ordered' /\ Marker' /\ Finished' /\ Pumping'
  BY DEF ConsoleInv, ConsoleSound, Handed, Following, Between, Taken, InHand, Ordered, Marker,
         Finished, Pumping, C!Gathered
<1> QED BY <1>1, <1>2 DEF ConsoleInv, ConsoleSound

\* The console is given up: nothing is left of what was on its way.
LEMMA GivenUp ==
  ASSUME ConsoleInv, console' = [pc |-> "cancelled", line |-> C!NoLine], queue' = <<>>,
         pump' = C!Cancelled, UNCHANGED <<container, printed, emitted>>, C!TypeOK',
         supervisor' = "away" => attachments' < MaxAttachments
  PROVE  ConsoleInv'
<1>1. \A s \in Streams : pump'[s].read = pump[s].read
                         /\ (pump'[s].pc = "ended" => pump[s].pc = "ended")
  BY ConsoleTypes DEF C!Cancelled, ConsoleInv
<1>2. Read'
  BY <1>1 DEF ConsoleInv, ConsoleSound, Read
<1>3. Handed' /\ (Following => Between)' /\ Ordered' /\ Marker' /\ Finished' /\ Pumping'
  <2>1. \A s \in Streams : pump'[s].pc # "open"
    BY ConsoleTypes DEF C!Cancelled, ConsoleInv
  <2> QED BY <2>1 DEF ConsoleInv, ConsoleSound, Handed, Following, Ordered, Marker, Finished, Pumping
<1> QED BY <1>2, <1>3 DEF ConsoleInv, ConsoleSound

LEMMA PumpSound == ASSUME ConsoleInv, NEW s \in Streams, C!Pump(s) PROVE ConsoleInv'
<1> DEFINE n == pump[s].read + 1
<1>0. /\ pump[s].pc = "open" /\ n <= printed[s] /\ Len(queue) < QueueSize
      /\ queue' = Append(queue, <<s, n>>) /\ pump' = [pump EXCEPT ![s].read = n]
      /\ UNCHANGED <<container, printed, supervisor, attachments, console, emitted>>
  BY DEF C!Pump, C!engine, C!agent
<1>t. C!TypeOK /\ ConsoleSound /\ Following
  BY <1>0 DEF ConsoleInv, ConsoleSound, Pumping
<1>1. n \in 1..Lines /\ <<s, n>> \in C!Line
  <2>1. printed[s] \in 0..Lines /\ pump[s].read \in Nat
    BY <1>t, ConsoleTypes
  <2>2. Lines \in Nat
    BY Constants
  <2>3. n \in 1..Lines
    BY <2>1, <2>2, <1>0
  <2> QED BY <2>3 DEF C!Line
<1>2. /\ pump'[s].read = n /\ pump'[s].pc = pump[s].pc
      /\ \A x \in Streams \ {s} : pump'[x] = pump[x]
      /\ pump' \in [Streams -> [pc: {"open", "ended", "failed", "cancelled"}, read: 0..Lines]]
  BY <1>0, <1>1, <1>t, ConsoleTypes
<1>3. /\ Len(queue') = Len(queue) + 1 /\ queue' \in Seq(C!Line \cup {C!End})
      /\ DOMAIN queue' = 1..(Len(queue) + 1)
      /\ \A i \in DOMAIN queue : queue'[i] = queue[i]
      /\ queue'[Len(queue) + 1] = <<s, n>>
  BY <1>0, <1>1, <1>t, ConsoleTypes
<1> HIDE DEF n
<1>4. C!TypeOK'
  <2>1. Len(queue') <= QueueSize
    BY <1>0, <1>3, <1>t, ConsoleTypes, Constants
  <2> QED BY <2>1, <1>0, <1>2, <1>3, <1>t DEF C!TypeOK
<1>5. Read'
  BY <1>0, <1>1, <1>2, <1>t DEF ConsoleSound, Read
<1>6. Handed' /\ Finished'
  <2>1. ~C!Gathered
    BY <1>0 DEF C!Gathered
  <2> QED BY <2>1, <1>0, <1>t DEF ConsoleSound, Handed, Finished
<1>7. Ordered'
  <2> SUFFICES ASSUME NEW i \in DOMAIN queue', NEW j \in DOMAIN queue', i < j
               PROVE  /\ queue'[i] # C!End
                      /\ queue'[j] # C!End /\ queue'[i][1] = queue'[j][1] => queue'[i][2] < queue'[j][2]
    BY DEF Ordered
  <2>1. i \in DOMAIN queue /\ queue'[i] = queue[i]
    BY <1>3, <1>t, ConsoleTypes
  <2>2. ~C!Gathered
    BY <1>0 DEF C!Gathered
  <2>3. queue[i] # C!End
    BY <2>1, <2>2, <1>t DEF ConsoleSound, Marker
  <2>4. CASE j \in DOMAIN queue
    BY <2>1, <2>3, <2>4, <1>3, <1>t DEF ConsoleSound, Ordered
  <2>5. CASE j = Len(queue) + 1
    <3>1. queue'[j] = <<s, n>>
      BY <2>5, <1>3
    <3>2. queue[i][2] <= pump[queue[i][1]].read
      BY <2>1, <2>3, <1>t DEF ConsoleSound, Between
    <3>3. queue[i] \in C!Line /\ pump[s].read \in Nat
      BY <2>1, <2>3, <1>t, ConsoleTypes
    <3>4. queue[i][2] \in Nat
      BY <3>3, <1>t, ConsoleTypes
    <3> QED BY <2>1, <2>3, <3>1, <3>2, <3>3, <3>4 DEF n
  <2> QED BY <2>4, <2>5, <1>3, <1>t, ConsoleTypes
<1>8. Between'
  <2>0. \A x \in Streams : Taken(x)' = Taken(x)
    BY <1>0 DEF Taken, InHand
  <2>1. Between
    BY <1>t DEF ConsoleSound
  <2>2. ASSUME NEW i \in DOMAIN queue', queue'[i] # C!End, NEW x, queue'[i][1] = x
        PROVE  Taken(x)' < queue'[i][2] /\ queue'[i][2] <= pump'[x].read
    <3>1. CASE i \in DOMAIN queue
      <4>1. queue'[i] = queue[i] /\ queue[i] \in C!Line
        BY <3>1, <2>2, <1>3, <1>t, ConsoleTypes
      <4>2. x \in Streams /\ queue[i][2] \in Nat /\ pump[x].read \in Nat
        BY <4>1, <2>2, <1>t, ConsoleTypes
      <4>3. Taken(x) < queue[i][2] /\ queue[i][2] <= pump[x].read
        BY <2>1, <2>2, <3>1, <4>1 DEF Between
      <4>4. pump[x].read <= pump'[x].read /\ pump'[x].read \in Nat
        BY <4>2, <1>2, <1>1 DEF n
      <4> QED BY <4>1, <4>2, <4>3, <4>4, <2>0
    <3>2. CASE i = Len(queue) + 1
      <4>1. x = s /\ queue'[i][2] = n
        BY <3>2, <1>3, <2>2
      <4>2. Taken(s) <= pump[s].read /\ Taken(s) \in Nat /\ pump[s].read \in Nat
        BY <2>1, <1>t, ConsoleTypes DEF Between
      <4> QED BY <4>1, <4>2, <1>2, <1>1, <2>0 DEF n
    <3> QED BY <3>1, <3>2, <1>3, <1>t, ConsoleTypes
  <2>3. ASSUME NEW x \in Streams PROVE Taken(x)' <= pump'[x].read
    <3>1. Taken(x) <= pump[x].read /\ Taken(x) \in Nat /\ pump[x].read \in Nat
      BY <2>1, <1>t, ConsoleTypes DEF Between
    <3> QED BY <3>1, <1>2, <1>1, <2>0 DEF n
  <2>4. ASSUME NEW x \in Streams, NEW k \in (Taken(x)' + 1)..pump'[x].read
        PROVE  \E i \in DOMAIN queue' : queue'[i] = <<x, k>>
    <3>0. Taken(x) \in Nat /\ pump[x].read \in Nat
      BY <1>t, ConsoleTypes
    <3>1. CASE k \in (Taken(x) + 1)..pump[x].read
      <4>1. PICK i \in DOMAIN queue : queue[i] = <<x, k>>
        BY <2>1, <3>1 DEF Between
      <4>2. i \in DOMAIN queue' /\ queue'[i] = queue[i]
        BY <1>3, <1>t, ConsoleTypes
      <4> QED BY <4>1, <4>2
    <3>2. CASE x = s /\ k = n
      <4>1. Len(queue) + 1 \in DOMAIN queue'
        BY <1>3, <1>t, ConsoleTypes
      <4> QED BY <4>1, <3>2, <1>3
    <3> QED BY <3>0, <3>1, <3>2, <2>0, <1>2, <1>1 DEF n
  <2> QED BY <2>2, <2>3, <2>4 DEF Between
<1>9. Marker' /\ Pumping'
  <2>1. ~C!Gathered
    BY <1>0 DEF C!Gathered
  <2>2. ASSUME NEW i \in DOMAIN queue' PROVE queue'[i] # C!End
    <3>1. CASE i \in DOMAIN queue
      BY <3>1, <2>1, <1>3, <1>t DEF ConsoleSound, Marker
    <3>2. CASE i = Len(queue) + 1
      BY <3>2, <1>3, EndApart
    <3> QED BY <3>1, <3>2, <1>3, <1>t, ConsoleTypes
  <2>3. Following'
    BY <1>0, <1>t DEF Following
  <2> QED BY <2>2, <2>3 DEF Marker, Pumping
<1> QED BY <1>4, <1>5, <1>6, <1>7, <1>8, <1>9, <1>0, <1>t DEF ConsoleInv, ConsoleSound

\* A log that ends, or breaks off.
LEMMA PumpEnds ==
  ASSUME ConsoleInv, NEW s \in Streams, C!EndOfLog(s) \/ C!LogFails(s)
  PROVE  ConsoleInv'
<1> PICK pc \in {"ended", "failed"} :
      /\ pump[s].pc = "open" /\ pump' = [pump EXCEPT ![s].pc = pc]
      /\ pc = "ended" => container = "exited" /\ pump[s].read = printed[s]
  BY DEF C!EndOfLog, C!LogFails
<1>0. UNCHANGED <<container, printed, supervisor, attachments, queue, console, emitted>>
  BY DEF C!EndOfLog, C!LogFails, C!engine, C!agent
<1>t. C!TypeOK /\ ConsoleSound
  BY DEF ConsoleInv
<1>1. /\ \A x \in Streams : pump'[x].read = pump[x].read
      /\ \A x \in Streams \ {s} : pump'[x] = pump[x]
      /\ pump'[s].pc = pc
      /\ pump' \in [Streams -> [pc: {"open", "ended", "failed", "cancelled"}, read: 0..Lines]]
  BY <1>t, ConsoleTypes
<1>2. C!TypeOK'
  BY <1>0, <1>1, <1>t DEF C!TypeOK
<1>3. ~C!Gathered
  BY DEF C!Gathered
<1>4. Read' /\ Handed' /\ Ordered' /\ Finished'
  BY <1>0, <1>1, <1>3, <1>t DEF ConsoleSound, Read, Handed, Ordered, Finished
<1>5. Marker' /\ Pumping' /\ Following' = Following
  BY <1>0, <1>1, <1>3, <1>t DEF ConsoleSound, Marker, Pumping, Following
<1>6. Between => Between'
  <2>1. \A x \in Streams : Taken(x)' = Taken(x)
    BY <1>0 DEF Taken, InHand
  <2>2. \A i \in DOMAIN queue : queue[i] # C!End => queue[i][1] \in Streams
    BY <1>t, ConsoleTypes
  <2> QED BY <2>1, <2>2, <1>0, <1>1 DEF Between
<1> QED BY <1>0, <1>2, <1>4, <1>5, <1>6, <1>t DEF ConsoleInv, ConsoleSound

LEMMA FinalizeSound == ASSUME ConsoleInv, C!Finalize PROVE ConsoleInv'
<1>0. /\ C!Gathered /\ Following /\ Len(queue) < QueueSize /\ (\A i \in DOMAIN queue : queue[i] # C!End)
      /\ queue' = Append(queue, C!End)
      /\ UNCHANGED <<container, printed, supervisor, attachments, pump, console, emitted>>
  BY DEF C!Finalize, C!engine, C!agent, Following
<1>t. C!TypeOK /\ ConsoleSound
  BY DEF ConsoleInv
<1>1. /\ Len(queue') = Len(queue) + 1 /\ queue' \in Seq(C!Line \cup {C!End})
      /\ DOMAIN queue' = 1..(Len(queue) + 1)
      /\ \A i \in DOMAIN queue : queue'[i] = queue[i]
      /\ queue'[Len(queue) + 1] = C!End
  BY <1>0, <1>t, ConsoleTypes
<1>2. C!TypeOK'
  BY <1>0, <1>1, <1>t, Constants DEF C!TypeOK
<1>3. \A i \in DOMAIN queue' : i \in DOMAIN queue \/ i = Len(queue) + 1
  BY <1>1, <1>t, ConsoleTypes
<1>4. Read' /\ Handed' /\ Pumping' /\ Marker' /\ Finished'
  BY <1>0, <1>t DEF ConsoleSound, Read, Handed, Pumping, Following, Marker, Finished, C!Gathered
<1>5. Ordered'
  <2>1. \A i, j \in DOMAIN queue' : i < j => i \in DOMAIN queue
    BY <1>1, <1>t, ConsoleTypes
  <2> QED BY <2>1, <1>0, <1>1, <1>3, <1>t DEF ConsoleSound, Ordered
<1>6. Between'
  <2>1. \A x \in Streams : Taken(x)' = Taken(x)
    BY <1>0 DEF Taken, InHand
  <2>2. \A i \in DOMAIN queue : queue[i][1] \in Streams
    BY <1>0, <1>t, ConsoleTypes
  <2>3. \A i \in DOMAIN queue : i \in DOMAIN queue'
    BY <1>1, <1>t, ConsoleTypes
  <2>4. Between
    BY <1>0, <1>t DEF ConsoleSound
  <2> QED BY <2>1, <2>2, <2>3, <2>4, <1>0, <1>1, <1>3 DEF Between
<1> QED BY <1>0, <1>2, <1>4, <1>5, <1>6, <1>t DEF ConsoleInv, ConsoleSound

LEMMA GetSound == ASSUME ConsoleInv, C!Get PROVE ConsoleInv'
<1>0. /\ console.pc = "get" /\ queue # <<>> /\ queue' = Tail(queue)
      /\ UNCHANGED <<container, printed, supervisor, attachments, emitted>>
  BY DEF C!Get, C!engine, C!agent
<1>t. C!TypeOK /\ ConsoleSound /\ Following /\ Between
  BY <1>0 DEF ConsoleInv, ConsoleSound, Following
<1>1. /\ 1 \in DOMAIN queue /\ Head(queue) = queue[1] /\ Len(queue') = Len(queue) - 1
      /\ queue' \in Seq(C!Line \cup {C!End}) /\ DOMAIN queue' = 1..(Len(queue) - 1)
      /\ \A i \in DOMAIN queue' : i + 1 \in DOMAIN queue /\ queue'[i] = queue[i + 1] /\ 1 < i + 1
      /\ \A i \in DOMAIN queue : 1 < i => i - 1 \in DOMAIN queue' /\ queue'[i - 1] = queue[i]
      /\ Len(queue') <= QueueSize
  <2>1. queue \in Seq(C!Line \cup {C!End}) /\ Len(queue) <= QueueSize
    BY <1>t DEF C!TypeOK
  <2> QED BY <2>1, <1>0, Constants
<1>2. Ordered'
  <2> SUFFICES ASSUME NEW i \in DOMAIN queue', NEW j \in DOMAIN queue', i < j
               PROVE  /\ queue'[i] # C!End
                      /\ queue'[j] # C!End /\ queue'[i][1] = queue'[j][1] => queue'[i][2] < queue'[j][2]
    BY DEF Ordered
  <2>1. PICK a \in DOMAIN queue : a = i + 1 /\ queue'[i] = queue[a]
    BY <1>1
  <2>2. PICK b \in DOMAIN queue : b = j + 1 /\ queue'[j] = queue[b]
    BY <1>1
  <2>3. a < b
    BY <2>1, <2>2, <1>1, <1>t, ConsoleTypes
  <2>4. Ordered
    BY <1>t DEF ConsoleSound
  <2> QED BY <2>1, <2>2, <2>3, <2>4, Zenon DEF Ordered
<1>3. CASE queue[1] = C!End
  <2>1. console' = [console EXCEPT !.pc = "ended"] /\ pump' = C!Cancelled
    BY <1>3, <1>0, <1>1 DEF C!Get
  <2>2. C!Gathered
    BY <1>3, <1>1, <1>t DEF ConsoleSound, Marker
  <2>3. pump' = pump
    BY <2>1, <2>2, <1>t, ConsoleTypes DEF C!Cancelled, C!Gathered
  <2>4. DOMAIN queue = {1}
    <3>0. Ordered
      BY <1>t DEF ConsoleSound
    <3>1. \A i \in DOMAIN queue : ~(1 < i)
      BY <3>0, <1>1, <1>3, Zenon DEF Ordered
    <3>2. DOMAIN queue = 1..Len(queue) /\ Len(queue) \in Nat
      BY <1>t, ConsoleTypes
    <3> QED BY <3>1, <3>2, <1>1
  <2>5. queue' = <<>>
    <3>1. DOMAIN queue = 1..Len(queue) /\ Len(queue) \in Nat
      BY <1>t, ConsoleTypes
    <3>2. Len(queue) = 1
      <4>1. 1 \in 1..Len(queue)
        BY <3>1, <2>4
      <4>2. Len(queue) \in 1..Len(queue)
        BY <4>1, <3>1
      <4> QED BY <4>2, <3>1, <2>4
    <3>3. Len(queue') = 0 /\ queue' \in Seq(C!Line \cup {C!End})
      BY <3>2, <1>1
    <3> QED BY <3>3
  <2>6. console'.pc = "ended"
    BY <2>1, <1>t DEF C!TypeOK
  <2>7. ASSUME NEW s \in Streams PROVE Len(emitted[s]) = pump[s].read
    <3>1. Taken(s) = Len(emitted[s])
      BY <1>0, <1>t, ConsoleTypes DEF Taken, InHand
    <3>2. Taken(s) <= pump[s].read /\ Taken(s) \in Nat /\ pump[s].read \in Nat
      BY <1>t, ConsoleTypes DEF Between
    <3>3. ASSUME Taken(s) < pump[s].read PROVE FALSE
      <4>1. Taken(s) + 1 \in (Taken(s) + 1)..pump[s].read
        BY <3>2, <3>3
      <4>2. PICK i \in DOMAIN queue : queue[i] = <<s, Taken(s) + 1>>
        BY <4>1, <1>t DEF Between
      <4> QED BY <4>2, <2>4, <1>3, EndApart
    <3> QED BY <3>1, <3>2, <3>3
  <2>8. Finished' /\ Pumping' /\ Handed' /\ Read' /\ Marker' /\ ~Following'
    BY <2>2, <2>3, <2>5, <2>6, <2>7, <1>0, <1>t
       DEF Finished, Pumping, Handed, Read, Marker, Following, ConsoleSound, C!Gathered
  <2>9. C!TypeOK'
    <3>1. console' \in [pc: {"get", "emit", "ended", "cancelled"}, line: C!Line \cup {C!NoLine}]
      BY <2>1, <1>t DEF C!TypeOK
    <3> QED BY <3>1, <2>3, <1>0, <1>1, <1>t DEF C!TypeOK
  <2> QED BY <2>8, <2>9, <1>0, <1>2, <1>t DEF ConsoleInv, ConsoleSound
<1>4. CASE queue[1] # C!End
  <2>1. console' = [pc |-> "emit", line |-> queue[1]] /\ pump' = pump
    BY <1>4, <1>0, <1>1 DEF C!Get
  <2>2. PICK s \in Streams : /\ s = queue[1][1] /\ queue[1] \in C!Line
                            /\ queue[1] = <<s, queue[1][2]>> /\ queue[1][2] \in Nat
    BY <1>1, <1>4, <1>t, ConsoleTypes
  <2>3. /\ \A x \in Streams : Taken(x) = Len(emitted[x]) /\ Taken(x) \in Nat /\ pump[x].read \in Nat
        /\ Taken(s)' = Taken(s) + 1
        /\ \A x \in Streams \ {s} : Taken(x)' = Taken(x)
    BY <2>1, <2>2, <1>0, <1>t, ConsoleTypes DEF Taken, InHand
  \* the head is the first of its stream
  <2>4. queue[1][2] = Taken(s) + 1
    <3>1. Taken(s) < queue[1][2] /\ queue[1][2] <= pump[s].read
      BY <1>1, <1>4, <2>2, <1>t DEF Between
    <3>2. Taken(s) + 1 \in (Taken(s) + 1)..pump[s].read
      BY <3>1, <2>2, <2>3
    <3>3. PICK i \in DOMAIN queue : queue[i] = <<s, Taken(s) + 1>>
      BY <3>2, <2>2, <1>t DEF Between
    <3>4. queue[i][1] = s /\ queue[i][2] = Taken(s) + 1 /\ queue[i] # C!End
      BY <3>3, EndApart
    <3>5. 1 < i => queue[1][2] < queue[i][2]
      BY <3>4, <1>1, <2>2, <1>t DEF ConsoleSound, Ordered
    <3>6. i = 1 \/ 1 < i
      BY <1>t, ConsoleTypes
    <3> QED BY <3>1, <3>4, <3>5, <3>6, <2>2, <2>3
  <2>5. Between'
    <3>1. ASSUME NEW i \in DOMAIN queue', queue'[i] # C!End, NEW x, queue'[i][1] = x
          PROVE  Taken(x)' < queue'[i][2] /\ queue'[i][2] <= pump'[x].read
      <4>1. i + 1 \in DOMAIN queue /\ queue'[i] = queue[i + 1] /\ 1 < i + 1
        BY <1>1
      <4>2. queue[i + 1] \in C!Line /\ x \in Streams /\ queue[i + 1][2] \in Nat
        BY <4>1, <3>1, <1>t, ConsoleTypes
      <4>3. Taken(x) < queue[i + 1][2] /\ queue[i + 1][2] <= pump[x].read
        BY <4>1, <3>1, <1>t DEF Between
      <4>4. x = s => queue[1][2] < queue[i + 1][2]
        BY <4>1, <3>1, <2>2, <1>1, <1>t DEF ConsoleSound, Ordered
      <4> QED BY <4>1, <4>2, <4>3, <4>4, <2>1, <2>2, <2>3, <2>4
    <3>2. ASSUME NEW x \in Streams PROVE Taken(x)' <= pump'[x].read
      <4>1. Taken(x) <= pump[x].read
        BY <1>t DEF Between
      <4>2. x = s => Taken(x) < pump[x].read
        BY <1>1, <1>4, <2>2, <2>3, <2>4, <1>t DEF Between
      <4> QED BY <4>1, <4>2, <2>1, <2>2, <2>3
    <3>3. ASSUME NEW x \in Streams, NEW k \in (Taken(x)' + 1)..pump'[x].read
          PROVE  \E i \in DOMAIN queue' : queue'[i] = <<x, k>>
      <4>1. k \in (Taken(x) + 1)..pump[x].read /\ (x = s => k # Taken(x) + 1)
        BY <2>1, <2>2, <2>3
      <4>2. PICK i \in DOMAIN queue : queue[i] = <<x, k>>
        BY <4>1, <1>t DEF Between
      <4>3. i # 1
        <5>1. i = 1 => x = s /\ k = Taken(s) + 1
          BY <4>2, <2>2, <2>4
        <5> QED BY <5>1, <4>1
      <4>4. 1 < i
        BY <4>2, <4>3, <1>t, ConsoleTypes
      <4> QED BY <4>2, <4>4, <1>1
    <3> QED BY <3>1, <3>2, <3>3 DEF Between
  <2>6. Handed'
    <3>1. queue[1][2] = Len(emitted[s]) + 1
      BY <2>2, <2>3, <2>4
    <3> QED BY <3>1, <2>1, <2>2, <1>0, <1>t DEF Handed, ConsoleSound
  <2>7. Following' /\ Pumping' /\ Finished' /\ Read' /\ Marker'
    <3>1. console'.pc = "emit"
      BY <2>1
    <3>2. Marker'
      BY <2>1, <1>1, <1>t DEF Marker, ConsoleSound, C!Gathered
    <3> QED BY <3>1, <3>2, <2>1, <1>0, <1>t DEF Following, Pumping, Finished, Read, ConsoleSound
  <2>8. C!TypeOK'
    BY <2>1, <2>2, <1>0, <1>1, <1>t DEF C!TypeOK
  <2> QED BY <2>5, <2>6, <2>7, <2>8, <1>0, <1>2, <1>t DEF ConsoleInv, ConsoleSound
<1> QED BY <1>3, <1>4

LEMMA EmitSound == ASSUME ConsoleInv, C!Emit PROVE ConsoleInv'
<1> DEFINE s == console.line[1]
           n == console.line[2]
<1>0. /\ console.pc = "emit" /\ emitted' = [emitted EXCEPT ![s] = Append(emitted[s], n)]
      /\ console' = [pc |-> "get", line |-> C!NoLine]
      /\ UNCHANGED <<container, printed, supervisor, attachments, pump, queue>>
  BY DEF C!Emit, C!engine, C!agent
<1>t. C!TypeOK /\ ConsoleSound /\ Following /\ Between
  BY <1>0 DEF ConsoleInv, ConsoleSound, Following
<1>1. s \in Streams /\ n \in 1..Lines /\ n = Len(emitted[s]) + 1
  BY <1>0, <1>t, ConsoleTypes DEF ConsoleSound, Handed
<1>2. emitted[s] \in Seq(1..Lines)
  BY <1>1, <1>t, ConsoleTypes
<1> HIDE DEF s, n
<1>3. /\ Append(emitted[s], n) \in Seq(1..Lines) /\ Len(Append(emitted[s], n)) = Len(emitted[s]) + 1
      /\ \A i \in DOMAIN Append(emitted[s], n) :
           Append(emitted[s], n)[i] = IF i \in DOMAIN emitted[s] THEN emitted[s][i] ELSE n
      /\ \A i \in DOMAIN Append(emitted[s], n) : i \in DOMAIN emitted[s] \/ i = Len(emitted[s]) + 1
  BY <1>1, <1>2
<1>4. /\ emitted' \in [Streams -> Seq(1..Lines)] /\ emitted'[s] = Append(emitted[s], n)
      /\ \A x \in Streams \ {s} : emitted'[x] = emitted[x]
  BY <1>0, <1>1, <1>3, <1>t, ConsoleTypes
<1>5. C!TypeOK'
  BY <1>0, <1>4, <1>t DEF C!TypeOK
<1>6. \A x \in Streams : Taken(x)' = Taken(x)
  BY <1>0, <1>1, <1>3, <1>4, <1>t, ConsoleTypes DEF Taken, InHand, s
<1>7. Handed'
  <2>1. \A x \in Streams : \A i \in DOMAIN emitted'[x] : emitted'[x][i] = i
    <3> TAKE x \in Streams
    <3> TAKE i \in DOMAIN emitted'[x]
    <3>1. CASE x = s
      BY <3>1, <1>1, <1>3, <1>4, <1>t DEF ConsoleSound, Handed
    <3>2. CASE x # s
      BY <3>2, <1>4, <1>t DEF ConsoleSound, Handed
    <3> QED BY <3>1, <3>2
  <2> QED BY <2>1, <1>0 DEF Handed
<1>8. Between'
  <2>1. \A i \in DOMAIN queue : queue[i] # C!End => queue[i][1] \in Streams
    BY <1>t, ConsoleTypes
  <2> QED BY <2>1, <1>0, <1>6, <1>t DEF Between
<1>9. Following' /\ Pumping' /\ Finished' /\ Read' /\ Marker' /\ Ordered'
  BY <1>0, <1>t DEF Following, Pumping, Finished, Read, Marker, Ordered, ConsoleSound, C!Gathered
<1> QED BY <1>0, <1>5, <1>7, <1>8, <1>9, <1>t DEF ConsoleInv, ConsoleSound

LEMMA AttachedSound ==
  ASSUME ConsoleInv, C!Recover
  PROVE  ConsoleInv'
<1>0. /\ pump' = [s \in Streams |-> [pc |-> "open", read |-> 0]]
      /\ queue' = <<>> /\ console' = [pc |-> "get", line |-> C!NoLine]
      /\ emitted' = [s \in Streams |-> <<>>]
      /\ supervisor' = "wait" /\ attachments' = attachments + 1 /\ supervisor = "away"
      /\ UNCHANGED <<container, printed>>
  BY DEF C!Recover, C!Attached, C!engine
<1>t. C!TypeOK /\ ConsoleSound
  BY DEF ConsoleInv
<1>1. C!TypeOK'
  <2>1. attachments' \in 1..MaxAttachments
    BY <1>0, <1>t, Constants DEF ConsoleSound, C!TypeOK
  <2>2. emitted' \in [Streams -> Seq(1..Lines)]
    BY <1>0
  <2>3. /\ queue' \in Seq(C!Line \cup {C!End}) /\ Len(queue') <= QueueSize
        /\ pump' \in [Streams -> [pc: {"open", "ended", "failed", "cancelled"}, read: 0..Lines]]
        /\ console' \in [pc: {"get", "emit", "ended", "cancelled"}, line: C!Line \cup {C!NoLine}]
    BY <1>0, Constants
  <2> QED BY <2>1, <2>2, <2>3, <1>0, <1>t DEF C!TypeOK
<1>2. \A s \in Streams : emitted'[s] = <<>> /\ pump'[s].read = 0 /\ pump'[s].pc = "open"
  BY <1>0
<1>3. Handed' /\ Following' /\ Pumping' /\ Finished' /\ Marker' /\ Ordered'
  BY <1>0, <1>2 DEF Handed, Following, Pumping, Finished, Marker, Ordered
<1>4. Read'
  BY <1>0, <1>2, <1>t, ConsoleTypes DEF Read
<1>5. Between'
  <2>1. \A s \in Streams : Taken(s)' = 0
    BY <1>0, <1>2 DEF Taken, InHand
  <2> QED BY <2>1, <1>0, <1>2 DEF Between
<1> QED BY <1>0, <1>1, <1>3, <1>4, <1>5 DEF ConsoleInv, ConsoleSound

LEMMA ConsoleNext == ASSUME ConsoleInv, [C!Next]_C!vars PROVE ConsoleInv'
<1>t. C!TypeOK /\ ConsoleSound
  BY DEF ConsoleInv
<1>0. /\ \A s \in Streams : printed[s] \in Nat /\ printed[s] <= printed[s]
      /\ supervisor = "away" => attachments < MaxAttachments
  BY <1>t, ConsoleTypes DEF ConsoleSound
<1>1. ASSUME NEW s \in Streams, C!Write(s) PROVE ConsoleInv'
  <2>1. /\ printed' = [printed EXCEPT ![s] = @ + 1] /\ container = "running" /\ printed[s] < Lines
        /\ UNCHANGED <<container, supervisor, attachments, pump, queue, console, emitted>>
    BY <1>1 DEF C!Write, C!agent
  <2>2. printed' \in [Streams -> 0..Lines] /\ \A x \in Streams : printed[x] <= printed'[x] /\ printed'[x] \in Nat
    <3>1. printed \in [Streams -> 0..Lines] /\ Lines \in Nat
      BY <1>t, ConsoleTypes, Constants
    <3>2. printed[s] + 1 \in 0..Lines
      BY <3>1, <2>1
    <3> QED BY <3>1, <3>2, <2>1
  <2>3. C!TypeOK'
    BY <2>1, <2>2, <1>t DEF C!TypeOK
  <2> QED BY <2>1, <2>2, <2>3, <1>0, AroundSound
<1>2. ASSUME NEW s \in Streams, C!Pump(s) \/ C!EndOfLog(s) \/ C!LogFails(s) PROVE ConsoleInv'
  BY <1>2, PumpSound, PumpEnds
<1>3. CASE C!Exit
  <2>1. C!TypeOK'
    BY <1>3, <1>t DEF C!Exit, C!agent, C!TypeOK
  <2> QED BY <2>1, <1>3, <1>0, AroundSound DEF C!Exit, C!agent
<1>4. CASE C!Finalize \/ C!Get \/ C!Emit \/ C!Recover
  BY <1>4, FinalizeSound, GetSound, EmitSound, AttachedSound
<1>5. CASE C!WaitReturns \/ C!KillIt \/ C!SafeWait \/ C!Drained
  <2>1. /\ UNCHANGED <<printed, attachments, pump, queue, console, emitted>>
        /\ container' \in {container, "exited"} /\ supervisor' \in {"drain", "kill", "done"}
    BY <1>5 DEF C!WaitReturns, C!KillIt, C!SafeWait, C!Drained, C!engine
  <2>2. C!TypeOK'
    BY <2>1, <1>t DEF C!TypeOK
  <2> QED BY <2>1, <2>2, <1>0, AroundSound
<1>6. CASE C!DrainTimeout \/ C!Die
  <2>1. /\ console' = [pc |-> "cancelled", line |-> C!NoLine] /\ queue' = <<>> /\ pump' = C!Cancelled
        /\ UNCHANGED <<container, printed, attachments, emitted>> /\ supervisor' \in {"done", "away"}
        /\ supervisor' = "away" => attachments < MaxAttachments
    BY <1>6 DEF C!DrainTimeout, C!Die, C!engine
  <2>2. pump' \in [Streams -> [pc: {"open", "ended", "failed", "cancelled"}, read: 0..Lines]]
    <3>1. \A s \in Streams : [pump[s] EXCEPT !.pc = "cancelled"]
                               \in [pc: {"open", "ended", "failed", "cancelled"}, read: 0..Lines]
      <4>1. \A s \in Streams : pump[s] \in [pc: {"open", "ended", "failed", "cancelled"}, read: 0..Lines]
        BY <1>t, ConsoleTypes
      <4> QED BY <4>1
    <3> QED BY <3>1, <2>1, <1>t, ConsoleTypes DEF C!Cancelled
  <2>3. queue' \in Seq(C!Line \cup {C!End}) /\ Len(queue') <= QueueSize
    BY <2>1, Constants
  <2>4. C!TypeOK'
    BY <2>1, <2>2, <2>3, <1>t DEF C!TypeOK
  <2> QED BY <2>1, <2>4, GivenUp
<1>7. CASE UNCHANGED C!vars
  <2>1. /\ UNCHANGED <<container, printed, supervisor, pump, queue, console, emitted, attachments>>
    BY <1>7 DEF C!vars
  <2>2. C!TypeOK'
    BY <2>1, <1>t DEF C!TypeOK
  <2> QED BY <2>1, <2>2, <1>0, AroundSound
<1> QED BY <1>1, <1>2, <1>3, <1>4, <1>5, <1>6, <1>7 DEF C!Next

\* Every attachment hands the sink the lines in order, and a drain that ends has them all.
LEMMA ConsoleRight == C!Spec => [](C!TypeOK /\ ConsoleComplete)
<1>1. C!Init => ConsoleInv
  <2> SUFFICES ASSUME C!Init PROVE ConsoleInv
    OBVIOUS
  <2>1. \A s \in Streams : /\ printed[s] = 0 /\ emitted[s] = <<>> /\ pump[s].read = 0
                           /\ pump[s].pc = "open" /\ Taken(s) = 0
    BY DEF C!Init, Taken, InHand
  <2>2. ConsoleSound
    BY <2>1 DEF C!Init, ConsoleSound, Read, Handed, Following, Between, Ordered, Marker, Finished,
                Pumping
  <2>3. /\ printed \in [Streams -> 0..Lines] /\ queue \in Seq(C!Line \cup {C!End}) /\ Len(queue) <= QueueSize
        /\ pump \in [Streams -> [pc: {"open", "ended", "failed", "cancelled"}, read: 0..Lines]]
        /\ console \in [pc: {"get", "emit", "ended", "cancelled"}, line: C!Line \cup {C!NoLine}]
        /\ emitted \in [Streams -> Seq(1..Lines)] /\ attachments \in 1..MaxAttachments
    BY Constants DEF C!Init
  <2> QED BY <2>2, <2>3 DEF C!Init, C!TypeOK, ConsoleInv
<1>2. ConsoleInv /\ [C!Next]_C!vars => ConsoleInv'
  BY ConsoleNext
<1>3. ConsoleInv => C!TypeOK /\ ConsoleComplete
  <2> SUFFICES ASSUME ConsoleInv PROVE C!TypeOK /\ ConsoleComplete
    OBVIOUS
  <2>1. ASSUME console.pc = "ended", \A s \in Streams : pump[s].pc # "failed"
        PROVE  container = "exited" /\ \A s \in Streams : Len(emitted[s]) = printed[s]
    <3>1. \A s \in Streams : pump[s].pc = "ended" /\ Len(emitted[s]) = pump[s].read
      BY <2>1 DEF ConsoleInv, ConsoleSound, Finished, C!Gathered
    <3> QED BY <3>1, Constants DEF ConsoleInv, ConsoleSound, Read
  <2> QED BY <2>1 DEF ConsoleInv, ConsoleSound, Handed, ConsoleComplete, C!ConsoleComplete
<1> QED BY <1>1, <1>2, <1>3, PTL DEF C!Spec

-----------------------------------------------------------------------------
(* Uploads. *)

UploadRow == [pc: U!Steps \cup {"idle", "done", "failed"},
              digest: U!Contents \cup {U!Nothing}, left: 0..Retries]
UploadCall == [u: Uploads, kind: U!Steps, body: U!Contents, left: 0..Retries, open: BOOLEAN,
               ready: BOOLEAN, saved: Nat]
Begun(u) == upload[u].pc \in U!Steps \cup {"done"}

\* An upload waits for the one open request it has; one that has not begun has none.
UploadWaits ==
  /\ \A q \in puts : q.open => upload[q.u].pc = q.kind
  /\ \A q, c \in puts : q.open /\ c.open /\ q.u = c.u => q = c
  /\ \A q \in puts : upload[q.u].pc # "idle"

\* Files hold only what was written, and a digest is of what was.
Versions ==
  \A u \in Uploads : /\ file[u][2] <= rewrites
                     /\ Begun(u) => upload[u].digest \in U!Contents /\ upload[u].digest[2] <= rewrites

SavedRight ==
  \A q \in puts : q.saved # 0 => q.saved \in U!Paths /\ store[q.saved] = q.body /\ q.kind = "put"

\* Once content was accepted the row points at some.
HasContent ==
  \/ row.path \in U!Paths
  \/ /\ ~row.uploaded /\ \A q \in puts : q.kind # "complete"
     /\ \A u \in Uploads : upload[u].pc \notin {"complete", "done"}

\* What an undisturbed upload of an unchanged file has made of the row so far.
Undisturbed(u) == alone[u] /\ Begun(u)
Unchanged(u) == Undisturbed(u) /\ file[u] = upload[u].digest
Apart == \A u \in Uploads : Undisturbed(u) => \A w \in Uploads \ {u} : ~U!Under(w)
Progress ==
  \A u \in Uploads : Unchanged(u) =>
    /\ \A q \in puts : q.body = file[u]
    /\ upload[u].pc \in {"complete", "done"} => row.path \in U!Paths /\ store[row.path] = file[u]
    /\ upload[u].pc = "done" => row.uploaded /\ row.digest = file[u]

UploadsSound == UploadWaits /\ Versions /\ SavedRight /\ HasContent /\ Apart /\ Progress

UploadsInv == U!TypeOK /\ UploadsSound

LEMMA UploadTypes ==
  ASSUME U!TypeOK
  PROVE  /\ upload \in [Uploads -> UploadRow] /\ file \in [Uploads -> U!Contents]
         /\ \A q \in puts : /\ q \in UploadCall /\ q.u \in Uploads /\ q.kind \in U!Steps
                            /\ q.body \in U!Contents /\ q.open \in BOOLEAN /\ q.saved \in Nat
         /\ store \in Seq(U!Contents) /\ Len(store) \in Nat /\ DOMAIN store = U!Paths
         /\ U!Paths = 1..Len(store)
         /\ row \in [exists: BOOLEAN, path: Nat \ {0}, digest: U!Contents \cup {U!Nothing}, uploaded: BOOLEAN]
         /\ rewrites \in 0..MaxRewrites /\ put_failures \in 0..UploadFailures
         /\ alone \in [Uploads -> BOOLEAN]
<1>1. /\ upload \in [Uploads -> UploadRow] /\ \A q \in puts : q \in UploadCall
  BY DEF U!TypeOK, UploadRow, UploadCall
<1>2. \A q \in UploadCall : /\ q.u \in Uploads /\ q.kind \in U!Steps
                            /\ q.body \in U!Contents /\ q.open \in BOOLEAN /\ q.saved \in Nat
  BY DEF UploadCall
<1>3. /\ file \in [Uploads -> U!Contents] /\ store \in Seq(U!Contents)
      /\ row \in [exists: BOOLEAN, path: Nat \ {0}, digest: U!Contents \cup {U!Nothing}, uploaded: BOOLEAN]
      /\ rewrites \in 0..MaxRewrites /\ put_failures \in 0..UploadFailures /\ alone \in [Uploads -> BOOLEAN]
  BY DEF U!TypeOK
<1>4. Len(store) \in Nat /\ DOMAIN store = 1..Len(store)
  BY <1>3
<1> QED BY <1>1, <1>2, <1>3, <1>4 DEF U!Paths

LEMMA UploadTypesBack ==
  ASSUME upload \in [Uploads -> UploadRow], file \in [Uploads -> U!Contents],
         \A q \in puts : q \in UploadCall, store \in Seq(U!Contents),
         row \in [exists: BOOLEAN, path: Nat \ {0}, digest: U!Contents \cup {U!Nothing}, uploaded: BOOLEAN],
         rewrites \in 0..MaxRewrites, put_failures \in 0..UploadFailures, alone \in [Uploads -> BOOLEAN]
  PROVE  U!TypeOK
BY DEF U!TypeOK, UploadRow, UploadCall

\* What a call's end may do: nothing to its client, ask for the next step or the same one
\* again, or end the upload.
Ignored(q, rest) == ~q.open /\ puts' = rest /\ upload' = upload
Moved(u, pc) ==
  /\ upload' \in [Uploads -> UploadRow]
  /\ upload'[u].pc = pc /\ upload'[u].digest = upload[u].digest
  /\ \A w \in Uploads \ {u} : upload'[w] = upload[w]
Asked(q, rest, kind) ==
  /\ q.open /\ Moved(q.u, kind)
  /\ \E c \in UploadCall :
       /\ puts' = rest \cup {c}
       /\ c.u = q.u /\ c.kind = kind /\ c.open /\ c.saved = 0
       /\ c.body = IF kind = "put" THEN file[q.u] ELSE upload[q.u].digest
Over(q, rest, pc) == q.open /\ puts' = rest /\ Moved(q.u, pc)

LEMMA RequestType ==
  ASSUME U!TypeOK, NEW u \in Uploads, NEW kind \in U!Steps, NEW digest \in U!Contents,
         NEW left \in 0..Retries
  PROVE  LET c == U!Request(u, kind, digest, left)
         IN  /\ c \in UploadCall /\ c.u = u /\ c.kind = kind /\ c.open /\ c.saved = 0
             /\ c.body = IF kind = "put" THEN file[u] ELSE digest
<1>1. file[u] \in U!Contents
  BY UploadTypes
<1> QED BY <1>1 DEF U!Request, UploadCall

LEMMA SendAsks ==
  ASSUME UploadsInv, NEW q \in puts, q.open, NEW kind \in U!Steps, NEW rest,
         U!Send(q.u, kind, upload[q.u].digest, rest)
  PROVE  Asked(q, rest, kind)
<1> DEFINE c == U!Request(q.u, kind, upload[q.u].digest, Retries)
<1>0. q.u \in Uploads /\ upload \in [Uploads -> UploadRow] /\ Retries \in 0..Retries
  BY UploadTypes, Constants DEF UploadsInv
<1>1. upload[q.u].digest \in U!Contents
  BY <1>0, UploadTypes DEF UploadsInv, UploadsSound, UploadWaits, Versions, Begun
<1>2. /\ c \in UploadCall /\ c.u = q.u /\ c.kind = kind /\ c.open /\ c.saved = 0
      /\ c.body = IF kind = "put" THEN file[q.u] ELSE upload[q.u].digest
  BY <1>0, <1>1, RequestType DEF UploadsInv
<1>3. /\ upload' = [upload EXCEPT ![q.u] = [pc |-> kind, digest |-> upload[q.u].digest, left |-> Retries]]
      /\ puts' = rest \cup {c}
  BY DEF U!Send
<1>4. [pc |-> kind, digest |-> upload[q.u].digest, left |-> Retries] \in UploadRow
  BY <1>0, <1>1 DEF UploadRow
<1> HIDE DEF c
<1>5. Moved(q.u, kind)
  BY <1>0, <1>3, <1>4 DEF Moved
<1> QED BY <1>2, <1>3, <1>5 DEF Asked

LEMMA EndIsOver ==
  ASSUME UploadsInv, NEW q \in puts, q.open, NEW pc \in {"done", "failed"}, NEW rest,
         U!End(q.u, pc, rest)
  PROVE  Over(q, rest, pc)
<1>0. q.u \in Uploads /\ upload \in [Uploads -> UploadRow] /\ upload[q.u] \in UploadRow
  BY UploadTypes DEF UploadsInv
<1>1. [upload[q.u] EXCEPT !.pc = pc] \in UploadRow
      /\ [upload[q.u] EXCEPT !.pc = pc].pc = pc
      /\ [upload[q.u] EXCEPT !.pc = pc].digest = upload[q.u].digest
  BY <1>0 DEF UploadRow
<1>2. upload' = [upload EXCEPT ![q.u] = [upload[q.u] EXCEPT !.pc = pc]] /\ puts' = rest
  BY DEF U!End
<1> QED BY <1>0, <1>1, <1>2 DEF Over, Moved

LEMMA AnswerDoes ==
  ASSUME UploadsInv, NEW q \in puts, NEW status \in {"ok", "error", "refused"}, NEW rest,
         U!Answer(q, status, rest)
  PROVE  \/ Ignored(q, rest)
         \/ Asked(q, rest, q.kind)
         \/ status = "ok" /\ q.kind = "slot" /\ Asked(q, rest, "put")
         \/ status = "ok" /\ q.kind = "put" /\ Asked(q, rest, "complete")
         \/ status = "ok" /\ q.kind = "complete" /\ Over(q, rest, "done")
         \/ Over(q, rest, "failed")
<1>0. q.u \in Uploads /\ q.kind \in U!Steps /\ upload \in [Uploads -> UploadRow]
      /\ upload[q.u] \in UploadRow
  BY UploadTypes DEF UploadsInv
<1>1. CASE ~q.open
  BY <1>1 DEF U!Answer, Ignored
<1>2. CASE q.open /\ status = "ok"
  <2>1. CASE q.kind = "slot"
    BY <1>2, <2>1, SendAsks DEF U!Answer, U!Steps
  <2>2. CASE q.kind = "put"
    BY <1>2, <2>2, SendAsks DEF U!Answer, U!Steps
  <2>3. CASE q.kind = "complete"
    BY <1>2, <2>3, EndIsOver DEF U!Answer
  <2> QED BY <2>1, <2>2, <2>3, <1>0 DEF U!Steps
<1>3. CASE q.open /\ status = "error" /\ upload[q.u].left > 0
  <2> DEFINE left == upload[q.u].left - 1
             c == U!Request(q.u, q.kind, upload[q.u].digest, left)
  <2>1. upload' = [upload EXCEPT ![q.u].left = @ - 1] /\ puts' = rest \cup {c}
    BY <1>3 DEF U!Answer
  <2>2. left \in 0..Retries
    BY <1>0, <1>3, Constants DEF UploadRow
  <2>3. upload[q.u].digest \in U!Contents /\ upload[q.u].pc = q.kind
    BY <1>0, <1>3 DEF UploadsInv, UploadsSound, UploadWaits, Versions, Begun
  <2>4. /\ c \in UploadCall /\ c.u = q.u /\ c.kind = q.kind /\ c.open /\ c.saved = 0
        /\ c.body = IF q.kind = "put" THEN file[q.u] ELSE upload[q.u].digest
    BY <1>0, <2>2, <2>3, RequestType DEF UploadsInv
  <2>5. [upload[q.u] EXCEPT !.left = left] \in UploadRow
        /\ [upload[q.u] EXCEPT !.left = left].pc = upload[q.u].pc
        /\ [upload[q.u] EXCEPT !.left = left].digest = upload[q.u].digest
    BY <1>0, <2>2 DEF UploadRow
  <2>6. upload' = [upload EXCEPT ![q.u] = [upload[q.u] EXCEPT !.left = left]]
    BY <2>1
  <2> HIDE DEF c, left
  <2>7. Moved(q.u, q.kind)
    BY <1>0, <2>3, <2>5, <2>6 DEF Moved
  <2> QED BY <1>3, <2>1, <2>4, <2>7 DEF Asked
<1>4. CASE q.open /\ status # "ok" /\ ~(status = "error" /\ upload[q.u].left > 0)
  BY <1>4, EndIsOver DEF U!Answer
<1> QED BY <1>1, <1>2, <1>3, <1>4

\* The calls left at the server: those there were, but q, which may stay with nobody waiting.
Without(q, rest) == \A c \in rest : c \in puts \ {q} \/ c = [q EXCEPT !.open = FALSE]

LEMMA ClosedFields ==
  ASSUME U!TypeOK, NEW q \in puts
  PROVE  LET c == [q EXCEPT !.open = FALSE]
         IN  /\ c \in UploadCall /\ ~c.open /\ c.u = q.u /\ c.kind = q.kind
             /\ c.body = q.body /\ c.saved = q.saved
BY UploadTypes DEF UploadCall

LEMMA AnswerTypesU ==
  ASSUME UploadsInv, NEW q \in puts, NEW status \in {"ok", "error", "refused"}, NEW rest,
         U!Answer(q, status, rest), Without(q, rest)
  PROVE  upload' \in [Uploads -> UploadRow] /\ \A c \in puts' : c \in UploadCall
<1>1. \A c \in rest : c \in UploadCall
  BY UploadTypes, ClosedFields DEF Without, UploadsInv
<1>2. CASE Ignored(q, rest)
  BY <1>2, <1>1, UploadTypes DEF Ignored, UploadsInv
<1>3. ASSUME NEW kind, Asked(q, rest, kind)
      PROVE  upload' \in [Uploads -> UploadRow] /\ \A c \in puts' : c \in UploadCall
  BY <1>3, <1>1 DEF Asked, Moved
<1>4. ASSUME NEW pc, Over(q, rest, pc)
      PROVE  upload' \in [Uploads -> UploadRow] /\ \A c \in puts' : c \in UploadCall
  BY <1>4, <1>1 DEF Over, Moved
<1> QED BY <1>2, <1>3, <1>4, AnswerDoes

\* What all ends of calls have in common: every request is an old one, or a new one of q's
\* upload which replaces it; an upload has begun if it had, with the digest it had.
LEMMA AnswerFacts ==
  ASSUME UploadsInv, NEW q \in puts, NEW status \in {"ok", "error", "refused"}, NEW rest,
         U!Answer(q, status, rest), Without(q, rest), UNCHANGED file
  PROVE  /\ \A c \in puts' :
              \/ c \in puts \ {q}
              \/ ~c.open /\ c.u = q.u /\ c.kind = q.kind /\ c.body = q.body /\ c.saved = q.saved
              \/ /\ q.open /\ c.open /\ c.u = q.u /\ c.saved = 0 /\ upload'[q.u].pc = c.kind
                 /\ c.body = IF c.kind = "put" THEN file[q.u] ELSE upload[q.u].digest
                 /\ c.kind = "complete" => q.kind = "complete" \/ (q.kind = "put" /\ status = "ok")
         /\ \A c, d \in puts' : c.open /\ d.open /\ c.u = q.u /\ d.u = q.u => c = d \/ ~q.open
         /\ ~q.open => upload' = upload
         /\ \A w \in Uploads \ {q.u} : upload'[w] = upload[w]
         /\ upload'[q.u].digest = upload[q.u].digest
         /\ q.open => upload'[q.u].pc \in U!Steps \cup {"done", "failed"}
         /\ q.open /\ upload'[q.u].pc = "complete" => q.kind = "complete" \/ (q.kind = "put" /\ status = "ok")
         /\ q.open /\ upload'[q.u].pc = "done" => q.kind = "complete" /\ status = "ok"
<1>0. /\ \A c \in puts : q.open /\ c.open /\ c.u = q.u => c = q
      /\ q.kind \in U!Steps
  BY UploadTypes DEF UploadsInv, UploadsSound, UploadWaits
<1>1. \A c \in rest : c \in puts \ {q} \/ (~c.open /\ c.u = q.u /\ c.kind = q.kind
                                           /\ c.body = q.body /\ c.saved = q.saved)
  BY ClosedFields DEF Without, UploadsInv
<1>2. CASE Ignored(q, rest)
  BY <1>2, <1>1, UploadTypes DEF Ignored
<1>3. ASSUME NEW kind \in U!Steps, Asked(q, rest, kind),
             kind = "complete" => q.kind = "complete" \/ (q.kind = "put" /\ status = "ok")
      PROVE  /\ \A c \in puts' :
                  \/ c \in puts \ {q}
                  \/ ~c.open /\ c.u = q.u /\ c.kind = q.kind /\ c.body = q.body /\ c.saved = q.saved
                  \/ /\ q.open /\ c.open /\ c.u = q.u /\ c.saved = 0 /\ upload'[q.u].pc = c.kind
                     /\ c.body = IF c.kind = "put" THEN file[q.u] ELSE upload[q.u].digest
                     /\ c.kind = "complete" => q.kind = "complete" \/ (q.kind = "put" /\ status = "ok")
             /\ \A c, d \in puts' : c.open /\ d.open /\ c.u = q.u /\ d.u = q.u => c = d
             /\ q.open /\ upload'[q.u].pc = kind
  <2>1. PICK x \in UploadCall :
          /\ puts' = rest \cup {x}
          /\ x.u = q.u /\ x.kind = kind /\ x.open /\ x.saved = 0
          /\ x.body = IF kind = "put" THEN file[q.u] ELSE upload[q.u].digest
    BY <1>3 DEF Asked
  <2>2. q.open /\ upload'[q.u].pc = kind
    BY <1>3 DEF Asked, Moved
  <2>3. \A c \in rest : c.open => c.u # q.u
    BY <1>0, <1>1, <2>2
  <2> QED BY <2>1, <2>2, <2>3, <1>1, <1>3
<1>4. ASSUME NEW pc \in {"done", "failed"}, Over(q, rest, pc),
             pc = "done" => q.kind = "complete" /\ status = "ok"
      PROVE  /\ puts' = rest /\ q.open /\ upload'[q.u].pc = pc
             /\ \A c \in rest : c.open => c.u # q.u
  BY <1>0, <1>1, <1>4 DEF Over, Moved
<1>5. /\ \A w \in Uploads \ {q.u} : upload'[w] = upload[w]
      /\ upload'[q.u].digest = upload[q.u].digest
      /\ ~q.open => upload' = upload
  BY AnswerDoes DEF Ignored, Asked, Over, Moved
<1>6. CASE \E kind \in U!Steps : /\ Asked(q, rest, kind)
                                 /\ kind = "complete" => q.kind = "complete" \/ (q.kind = "put" /\ status = "ok")
  BY <1>3, <1>5, <1>6 DEF U!Steps
<1>7. CASE \E pc \in {"done", "failed"} : /\ Over(q, rest, pc)
                                          /\ pc = "done" => q.kind = "complete" /\ status = "ok"
  BY <1>1, <1>4, <1>5, <1>7
<1> QED BY <1>0, <1>2, <1>6, <1>7, AnswerDoes DEF U!Steps

LEMMA AnswerKeepsU ==
  ASSUME UploadsInv, NEW q \in puts, NEW status \in {"ok", "error", "refused"}, NEW rest,
         U!Answer(q, status, rest), Without(q, rest),
         UNCHANGED <<file, store, alone, rewrites>>, U!TypeOK',
         \/ row'.path = row.path
         \/ row'.path = q.saved /\ q.saved # 0,
         q.kind = "put" /\ status = "ok" => row'.path = q.saved /\ q.saved # 0,
         \/ row'.uploaded = row.uploaded /\ row'.digest = row.digest
         \/ row'.uploaded /\ row'.digest = q.body /\ q.kind = "complete",
         q.kind = "complete" /\ status = "ok" => row'.uploaded /\ row'.digest = q.body
  PROVE  UploadsInv'
<1>0. /\ U!TypeOK /\ UploadWaits /\ Versions /\ SavedRight /\ HasContent /\ Apart /\ Progress
      /\ q.u \in Uploads /\ q.kind \in U!Steps
      /\ \A c \in puts : c.u \in Uploads
  BY UploadTypes DEF UploadsInv, UploadsSound
<1>a. UNCHANGED file
  OBVIOUS
<1> DEFINE Late(c) == ~c.open /\ c.u = q.u /\ c.kind = q.kind /\ c.body = q.body /\ c.saved = q.saved
           New(c) == /\ q.open /\ c.open /\ c.u = q.u /\ c.saved = 0 /\ upload'[q.u].pc = c.kind
                     /\ c.body = IF c.kind = "put" THEN file[q.u] ELSE upload[q.u].digest
                     /\ c.kind = "complete" => q.kind = "complete" \/ (q.kind = "put" /\ status = "ok")
<1>1. \A c \in puts' : c \in puts \ {q} \/ Late(c) \/ New(c)
  BY <1>a, AnswerFacts, SMTT(40)
<1>2. /\ \A c, d \in puts' : c.open /\ d.open /\ c.u = q.u /\ d.u = q.u => c = d \/ ~q.open
      /\ ~q.open => upload' = upload
      /\ \A w \in Uploads \ {q.u} : upload'[w] = upload[w]
      /\ upload'[q.u].digest = upload[q.u].digest
      /\ q.open => upload'[q.u].pc \in U!Steps \cup {"done", "failed"}
      /\ q.open /\ upload'[q.u].pc = "complete" => q.kind = "complete" \/ (q.kind = "put" /\ status = "ok")
      /\ q.open /\ upload'[q.u].pc = "done" => q.kind = "complete" /\ status = "ok"
  BY <1>a, AnswerFacts, SMTT(40)
<1> HIDE DEF New, Late
<1>3. \A c \in puts' : /\ c.u \in Uploads
                       /\ c \in puts \/ c.u = q.u
                       /\ c \in puts \/ ~c.open \/ (q.open /\ upload'[q.u].pc = c.kind)
  BY <1>0, <1>1 DEF New, Late
<1>4. q.open => upload[q.u].pc = q.kind /\ q.kind \in U!Steps
  BY <1>0 DEF UploadWaits
<1>5. UploadWaits'
  <2>1. ASSUME NEW c \in puts', c.open PROVE upload'[c.u].pc = c.kind
    <3>1. CASE c \in puts \ {q}
      <4>1. upload[c.u].pc = c.kind
        BY <2>1, <3>1, <1>0 DEF UploadWaits
      <4>2. CASE c.u # q.u \/ ~q.open
        BY <4>1, <4>2, <1>2, <1>3, <2>1
      <4>3. CASE c.u = q.u /\ q.open
        BY <4>3, <2>1, <3>1, <1>0 DEF UploadWaits
      <4> QED BY <4>2, <4>3
    <3>2. CASE New(c)
      BY <3>2 DEF New
    <3>3. CASE Late(c)
      BY <3>3, <2>1 DEF Late
    <3> QED BY <3>1, <3>2, <3>3, <1>1
  <2>2. ASSUME NEW c \in puts', NEW d \in puts', c.open, d.open, c.u = d.u PROVE c = d
    <3>1. CASE c.u = q.u /\ q.open
      BY <3>1, <2>2, <1>2
    <3>2. CASE ~(c.u = q.u /\ q.open)
      BY <3>2, <2>2, <1>0, <1>1 DEF UploadWaits, New, Late
    <3> QED BY <3>1, <3>2
  <2>3. ASSUME NEW c \in puts' PROVE upload'[c.u].pc # "idle"
    <3>1. CASE c.u # q.u \/ ~q.open
      BY <3>1, <1>0, <1>2, <1>3 DEF UploadWaits
    <3>2. CASE c.u = q.u /\ q.open
      BY <3>2, <1>2 DEF U!Steps
    <3> QED BY <3>1, <3>2
  <2> QED BY <2>1, <2>2, <2>3 DEF UploadWaits
<1>6. \A u \in Uploads : /\ upload'[u].digest = upload[u].digest
                         /\ Begun(u)' => Begun(u)
                         /\ u # q.u \/ ~q.open => upload'[u].pc = upload[u].pc
  BY <1>0, <1>2, <1>4 DEF Begun, U!Steps
<1>7. Versions'
  BY <1>0, <1>6 DEF Versions
<1>8. SavedRight'
  BY <1>0, <1>1 DEF SavedRight, New, Late, U!Paths
<1>9. \A w \in Uploads : U!Under(w)' => U!Under(w)
  <2> SUFFICES ASSUME NEW w \in Uploads, U!Under(w)', ~U!Under(w) PROVE FALSE
    OBVIOUS
  <2>1. w # q.u
    BY DEF U!Under
  <2> QED BY <2>1, <1>0, <1>3, <1>6 DEF U!Under
<1>10. Apart'
  BY <1>0, <1>6, <1>9 DEF Apart, Undisturbed
<1>11. U!Paths' = U!Paths /\ (q.saved # 0 => q.saved \in U!Paths /\ store[q.saved] = q.body)
  BY <1>0 DEF SavedRight, U!Paths
<1>12. HasContent'
  <2>1. CASE row'.path \in U!Paths
    BY <2>1, <1>11 DEF HasContent
  <2>2. CASE row'.path \notin U!Paths
    <3>1. /\ row'.path = row.path /\ row.path \notin U!Paths
          /\ ~(q.kind = "put" /\ status = "ok")
      BY <2>2, <1>11
    <3>2. /\ ~row.uploaded /\ \A c \in puts : c.kind # "complete"
          /\ \A u \in Uploads : upload[u].pc \notin {"complete", "done"}
      BY <3>1, <1>0 DEF HasContent
    <3>3. q.kind # "complete" /\ row'.uploaded = row.uploaded
      BY <3>2
    <3>4. \A c \in puts' : c.kind # "complete"
      BY <3>1, <3>2, <3>3, <1>1 DEF New, Late
    <3>5. \A u \in Uploads : upload'[u].pc \notin {"complete", "done"}
      BY <3>1, <3>2, <3>3, <1>2
    <3> QED BY <3>2, <3>3, <3>4, <3>5 DEF HasContent
  <2> QED BY <2>1, <2>2
<1>13. Progress'
  <2> SUFFICES ASSUME NEW u \in Uploads, Unchanged(u)'
               PROVE  /\ \A c \in puts' : c.body = file[u]
                      /\ upload'[u].pc \in {"complete", "done"} =>
                           row'.path \in U!Paths /\ store[row'.path] = file[u]
                      /\ upload'[u].pc = "done" => row'.uploaded /\ row'.digest = file[u]
    BY <1>11 DEF Progress
  <2>1. Unchanged(u) /\ Undisturbed(u) /\ file[u] = upload[u].digest
    BY <1>6 DEF Unchanged, Undisturbed
  \* the call is this upload's own
  <2>2. q.u = u
    BY <2>1, <1>0 DEF Apart, U!Under
  <2>3. \A c \in puts : c.body = file[u]
    BY <2>1, <1>0 DEF Progress
  <2>4. \A c \in puts' : c.body = file[u]
    BY <2>1, <2>2, <2>3, <1>1 DEF New, Late
  <2>5. row'.path = row.path \/ (row'.path \in U!Paths /\ store[row'.path] = file[u])
    BY <2>3, <1>11
  <2>6. ASSUME upload'[u].pc \in {"complete", "done"}
        PROVE  row'.path \in U!Paths /\ store[row'.path] = file[u]
    <3>1. CASE q.kind = "put" /\ status = "ok"
      BY <3>1, <2>3, <1>11
    <3>2. CASE ~(q.kind = "put" /\ status = "ok")
      <4>1. upload[u].pc \in {"complete", "done"}
        BY <3>2, <2>2, <2>6, <1>2, <1>4
      <4> QED BY <4>1, <2>1, <2>5, <1>0 DEF Progress
    <3> QED BY <3>1, <3>2
  <2>7. ASSUME upload'[u].pc = "done" PROVE row'.uploaded /\ row'.digest = file[u]
    <3>1. CASE q.kind = "complete" /\ status = "ok"
      BY <3>1, <2>3
    <3>2. CASE ~(q.kind = "complete" /\ status = "ok")
      <4>1. upload[u].pc = "done"
        BY <3>2, <2>2, <2>7, <1>2
      <4>2. row.uploaded /\ row.digest = file[u]
        BY <4>1, <2>1, <1>0 DEF Progress
      <4> QED BY <4>2, <2>3
    <3> QED BY <3>1, <3>2
  <2> QED BY <2>4, <2>6, <2>7
<1> QED BY <1>5, <1>7, <1>8, <1>10, <1>12, <1>13 DEF UploadsInv, UploadsSound

LEMMA StartSound == ASSUME UploadsInv, NEW u \in Uploads, U!Start(u) PROVE UploadsInv'
<1> DEFINE c == U!Request(u, "slot", file[u], Retries)
<1>0. /\ U!TypeOK /\ UploadWaits /\ Versions /\ SavedRight /\ HasContent /\ Apart /\ Progress
      /\ upload \in [Uploads -> UploadRow] /\ file[u] \in U!Contents /\ "slot" \in U!Steps
      /\ file \in [Uploads -> U!Contents]
      /\ \A q \in puts : q.u \in Uploads /\ q \in UploadCall
      /\ Retries \in 0..Retries
  BY UploadTypes, Constants DEF UploadsInv, UploadsSound, U!Steps
<1>1. /\ upload[u].pc = "idle" /\ puts' = puts \cup {c}
      /\ upload' = [upload EXCEPT ![u] = [pc |-> "slot", digest |-> file[u], left |-> Retries]]
      /\ alone' = [v \in Uploads |-> IF v = u THEN \A w \in Uploads \ {u} : ~U!Under(w) ELSE FALSE]
      /\ UNCHANGED <<file, row, store, put_failures, rewrites>>
  BY DEF U!Start, U!Send
<1>2. /\ c \in UploadCall /\ c.u = u /\ c.kind = "slot" /\ c.open /\ c.saved = 0 /\ c.body = file[u]
  BY <1>0, RequestType
<1> HIDE DEF c
<1>3. /\ upload' \in [Uploads -> UploadRow] /\ upload'[u].pc = "slot" /\ upload'[u].digest = file[u]
      /\ \A w \in Uploads \ {u} : upload'[w] = upload[w]
  BY <1>0, <1>1 DEF UploadRow
<1>4. U!TypeOK'
  BY <1>0, <1>1, <1>2, <1>3, UploadTypes, UploadTypesBack DEF U!TypeOK, UploadRow, UploadCall
<1>5. UploadWaits'
  BY <1>0, <1>1, <1>2, <1>3 DEF UploadWaits
<1>6. Versions'
  BY <1>0, <1>1, <1>3 DEF Versions, Begun
<1>7. SavedRight' /\ HasContent'
  BY <1>0, <1>1, <1>2, <1>3 DEF SavedRight, HasContent, U!Paths
<1>8. \A w \in Uploads \ {u} : U!Under(w)' => U!Under(w)
  BY <1>1, <1>2, <1>3 DEF U!Under
<1>9. Apart'
  BY <1>1, <1>8 DEF Apart, Undisturbed
<1>10. Progress'
  <2> SUFFICES ASSUME NEW v \in Uploads, Unchanged(v)'
               PROVE  /\ \A q \in puts' : q.body = file'[v]
                      /\ upload'[v].pc \notin {"complete", "done"}
    BY DEF Progress
  <2>1. v = u /\ \A w \in Uploads \ {u} : ~U!Under(w)
    BY <1>1 DEF Unchanged, Undisturbed
  <2>2. \A q \in puts : FALSE
    BY <2>1, <1>0, <1>1 DEF U!Under, UploadWaits
  <2> QED BY <2>1, <2>2, <1>1, <1>2, <1>3
<1> QED BY <1>4, <1>5, <1>6, <1>7, <1>9, <1>10 DEF UploadsInv, UploadsSound

LEMMA RewriteSound == ASSUME UploadsInv, NEW u \in Uploads, U!Rewrite(u) PROVE UploadsInv'
<1>0. /\ U!TypeOK /\ UploadWaits /\ Versions /\ SavedRight /\ HasContent /\ Apart /\ Progress
      /\ file \in [Uploads -> U!Contents] /\ rewrites \in 0..MaxRewrites /\ MaxRewrites \in Nat
  BY UploadTypes, Constants DEF UploadsInv, UploadsSound
<1>1. /\ rewrites' = rewrites + 1 /\ file' = [file EXCEPT ![u] = <<u, rewrites + 1>>]
      /\ rewrites < MaxRewrites /\ upload[u].pc \in U!Steps
      /\ UNCHANGED <<upload, puts, row, store, alone, put_failures>>
  BY DEF U!Rewrite
<1>2. rewrites' \in 0..MaxRewrites /\ <<u, rewrites + 1>> \in U!Contents
  BY <1>0, <1>1 DEF U!Contents
<1>3. /\ file' \in [Uploads -> U!Contents] /\ file'[u] = <<u, rewrites + 1>>
      /\ \A w \in Uploads \ {u} : file'[w] = file[w]
  BY <1>0, <1>1, <1>2
<1>4. U!TypeOK'
  BY <1>0, <1>1, <1>2, <1>3 DEF U!TypeOK
<1>5. UploadWaits' /\ SavedRight' /\ HasContent' /\ Apart'
  BY <1>0, <1>1 DEF UploadWaits, SavedRight, HasContent, Apart, Undisturbed, Begun, U!Under, U!Paths
<1>6. \A w \in Uploads : /\ file[w] \in U!Contents /\ file[w][2] \in Nat
                         /\ Begun(w) => upload[w].digest[2] \in Nat
  BY <1>0 DEF U!Contents, Versions
<1>7. Versions'
  <2>1. \A w \in Uploads : file'[w][2] <= rewrites + 1
    BY <1>0, <1>3, <1>6 DEF Versions
  <2>2. \A w \in Uploads : Begun(w) =>
          upload[w].digest \in U!Contents /\ upload[w].digest[2] <= rewrites + 1
    BY <1>0, <1>6 DEF Versions
  <2> QED BY <2>1, <2>2, <1>1 DEF Versions, Begun
<1>8. Progress'
  <2>1. \A w \in Uploads : Unchanged(w)' => w # u /\ Unchanged(w)
    <3> SUFFICES ASSUME NEW w \in Uploads, Unchanged(w)' PROVE w # u /\ Unchanged(w)
      OBVIOUS
    <3>1. Begun(w) /\ alone[w] /\ file'[w] = upload[w].digest
      BY <1>1 DEF Unchanged, Undisturbed, Begun
    <3>2. upload[w].digest[2] <= rewrites
      BY <3>1, <1>0 DEF Versions
    <3>3. w # u
      BY <3>1, <3>2, <1>0, <1>3
    <3> QED BY <3>1, <3>3, <1>3 DEF Unchanged, Undisturbed
  <2> QED BY <2>1, <1>0, <1>1, <1>3 DEF Progress, U!Paths
<1> QED BY <1>4, <1>5, <1>7, <1>8 DEF UploadsInv, UploadsSound

\* A request that goes a step further at the server.
LEMMA StepSound ==
  ASSUME UploadsInv, NEW q \in puts, NEW c \in UploadCall, puts' = (puts \ {q}) \cup {c},
         UNCHANGED <<upload, file, row, alone, put_failures, rewrites>>,
         c.u = q.u, c.kind = q.kind, c.body = q.body, c.open = q.open,
         \/ c.saved = q.saved /\ store' = store
         \/ c.saved = Len(store) + 1 /\ store' = Append(store, q.body) /\ q.kind = "put"
  PROVE  UploadsInv'
<1>0. /\ U!TypeOK /\ UploadWaits /\ Versions /\ SavedRight /\ HasContent /\ Apart /\ Progress
      /\ store \in Seq(U!Contents) /\ Len(store) \in Nat /\ DOMAIN store = 1..Len(store)
      /\ q.body \in U!Contents /\ \A x \in puts : x \in UploadCall
  BY UploadTypes DEF UploadsInv, UploadsSound
<1>1. /\ store' \in Seq(U!Contents) /\ \A i \in U!Paths : i \in U!Paths' /\ store'[i] = store[i]
      /\ c.saved # q.saved => c.saved \in U!Paths' /\ store'[c.saved] = q.body /\ q.kind = "put"
  <2>1. CASE c.saved = q.saved /\ store' = store
    BY <2>1, <1>0 DEF U!Paths
  <2>2. CASE c.saved = Len(store) + 1 /\ store' = Append(store, q.body) /\ q.kind = "put"
    <3>1. /\ Append(store, q.body) \in Seq(U!Contents)
          /\ Len(Append(store, q.body)) = Len(store) + 1
          /\ \A i \in 1..Len(store) : Append(store, q.body)[i] = store[i]
          /\ Append(store, q.body)[Len(store) + 1] = q.body
      BY <1>0
    <3> QED BY <2>2, <3>1, <1>0 DEF U!Paths
  <2> QED BY <2>1, <2>2
<1>2. U!TypeOK'
  BY <1>0, <1>1 DEF U!TypeOK, UploadCall
<1>3. UploadWaits' /\ Versions' /\ Apart'
  BY <1>0 DEF UploadWaits, Versions, Begun, Apart, Undisturbed, U!Under
<1>4. SavedRight'
  BY <1>0, <1>1 DEF SavedRight
<1>5. HasContent'
  BY <1>0, <1>1 DEF HasContent
<1>6. Progress'
  <2>1. \A u \in Uploads : Unchanged(u)' => Unchanged(u)
    BY DEF Unchanged, Undisturbed, Begun
  <2> QED BY <2>1, <1>0, <1>1 DEF Progress
<1> QED BY <1>2, <1>3, <1>4, <1>5, <1>6 DEF UploadsInv, UploadsSound

LEMMA KillSound == ASSUME UploadsInv, NEW a, U!Kill(a) PROVE UploadsInv'
<1>0. /\ U!TypeOK /\ UploadWaits /\ Versions /\ SavedRight /\ HasContent /\ Apart /\ Progress
      /\ upload \in [Uploads -> UploadRow]
      /\ \A x \in puts : x \in UploadCall /\ x.u \in Uploads /\ x.open \in BOOLEAN
  BY UploadTypes DEF UploadsInv, UploadsSound
<1> DEFINE Cut(q) == [q EXCEPT !.open = q.open /\ Attempt[q.u] # a]
<1>1. /\ upload' = [u \in Uploads |-> IF Attempt[u] = a /\ upload[u].pc # "done"
                                      THEN [upload[u] EXCEPT !.pc = "failed"] ELSE upload[u]]
      /\ puts' = {Cut(q) : q \in puts}
      /\ UNCHANGED <<file, row, store, alone, put_failures, rewrites>>
  BY DEF U!Kill
<1>2. \A u \in Uploads :
        /\ upload'[u] \in UploadRow
        /\ upload'[u].digest = upload[u].digest
        /\ upload'[u].pc = upload[u].pc \/ (upload'[u].pc = "failed" /\ Attempt[u] = a)
  BY <1>0, <1>1 DEF UploadRow
<1>3. \A q \in puts : /\ Cut(q) \in UploadCall /\ Cut(q).u = q.u /\ Cut(q).kind = q.kind
                      /\ Cut(q).body = q.body /\ Cut(q).saved = q.saved
                      /\ Cut(q).open => Cut(q) = q /\ q.open /\ Attempt[q.u] # a
  <2> SUFFICES ASSUME NEW q \in puts
               PROVE  /\ Cut(q) \in UploadCall /\ Cut(q).u = q.u /\ Cut(q).kind = q.kind
                      /\ Cut(q).body = q.body /\ Cut(q).saved = q.saved
                      /\ Cut(q).open => Cut(q) = q /\ q.open /\ Attempt[q.u] # a
    OBVIOUS
  <2>1. PICK b \in BOOLEAN : b = (q.open /\ Attempt[q.u] # a)
    OBVIOUS
  <2>2. Cut(q) = [q EXCEPT !.open = b]
    BY <2>1
  <2>3. q \in UploadCall
    BY <1>0
  <2> QED BY <2>1, <2>2, <2>3 DEF UploadCall
<1> HIDE DEF Cut
<1>4. U!TypeOK'
  <2>1. upload' \in [Uploads -> UploadRow] /\ \A q \in puts' : q \in UploadCall
    BY <1>1, <1>2, <1>3
  <2> QED BY <2>1, <1>0, <1>1 DEF U!TypeOK, UploadCall, UploadRow
<1>5. UploadWaits'
  <2>1. \A q \in puts' : q.open => q \in puts /\ upload'[q.u].pc = q.kind
    BY <1>0, <1>1, <1>2, <1>3 DEF UploadWaits
  <2>2. \A q \in puts' : upload'[q.u].pc # "idle"
    BY <1>0, <1>1, <1>2, <1>3 DEF UploadWaits
  <2> QED BY <2>1, <2>2, <1>0 DEF UploadWaits
<1>6. \A u \in Uploads : Begun(u)' => Begun(u) /\ upload'[u].pc = upload[u].pc
  BY <1>2 DEF Begun, U!Steps
<1>7. Versions' /\ SavedRight' /\ HasContent'
  BY <1>0, <1>1, <1>2, <1>3, <1>6 DEF Versions, SavedRight, HasContent, U!Paths
<1>8. Apart'
  <2>1. \A w \in Uploads : U!Under(w)' => U!Under(w)
    BY <1>1, <1>2, <1>3 DEF U!Under, U!Steps
  <2> QED BY <2>1, <1>0, <1>1, <1>6 DEF Apart, Undisturbed
<1>9. Progress'
  <2>1. \A u \in Uploads : Unchanged(u)' => Unchanged(u) /\ upload'[u].pc = upload[u].pc
    BY <1>1, <1>2, <1>6 DEF Unchanged, Undisturbed
  <2> QED BY <2>1, <1>0, <1>1, <1>3 DEF Progress, U!Paths
<1> QED BY <1>4, <1>5, <1>7, <1>8, <1>9 DEF UploadsInv, UploadsSound

LEMMA UploadsNext == ASSUME UploadsInv, [U!Next]_U!vars PROVE UploadsInv'
<1>0. /\ U!TypeOK /\ \A q \in puts : q \in UploadCall /\ q.kind \in U!Steps /\ q.body \in U!Contents
      /\ row \in [exists: BOOLEAN, path: Nat \ {0}, digest: U!Contents \cup {U!Nothing}, uploaded: BOOLEAN]
      /\ SavedRight /\ put_failures \in 0..UploadFailures /\ UploadFailures \in Nat
      /\ Len(store) \in Nat
  BY UploadTypes, Constants DEF UploadsInv, UploadsSound
<1>1. ASSUME NEW q \in puts, NEW status \in {"ok", "error", "refused"}, NEW rest,
             U!Answer(q, status, rest), Without(q, rest),
             UNCHANGED <<file, store, alone, rewrites>>, put_failures' \in 0..UploadFailures,
             row' \in [exists: BOOLEAN, path: Nat \ {0}, digest: U!Contents \cup {U!Nothing}, uploaded: BOOLEAN]
      PROVE  U!TypeOK'
  <2>1. upload' \in [Uploads -> UploadRow] /\ \A c \in puts' : c \in UploadCall
    BY <1>1, AnswerTypesU
  <2> QED BY <2>1, <1>0, <1>1 DEF U!TypeOK, UploadRow, UploadCall
<1>2. \A q \in puts : Without(q, puts \ {q}) /\ Without(q, (puts \ {q}) \cup {[q EXCEPT !.open = FALSE]})
  BY DEF Without
<1>3. ASSUME NEW u \in Uploads, U!Start(u) \/ U!Rewrite(u) PROVE UploadsInv'
  BY <1>3, StartSound, RewriteSound
\* a call that ends without a change to the row
<1>4. ASSUME NEW q \in puts, NEW status \in {"error", "refused"}, NEW rest,
             U!Answer(q, status, rest), Without(q, rest), put_failures' \in 0..UploadFailures,
             UNCHANGED <<file, row, store, alone, rewrites>>
      PROVE  UploadsInv'
  <2>1. U!TypeOK'
    BY <1>0, <1>1, <1>4
  <2>2. /\ row'.path = row.path /\ row'.uploaded = row.uploaded /\ row'.digest = row.digest
        /\ status # "ok"
    BY <1>4
  <2> QED BY <1>4, <2>1, <2>2, AnswerKeepsU
<1>5. ASSUME NEW q \in puts, U!Timeout(q) PROVE UploadsInv'
  <2>1. /\ U!Answer(q, "error", (puts \ {q}) \cup {[q EXCEPT !.open = FALSE]})
        /\ put_failures' \in 0..UploadFailures
        /\ UNCHANGED <<file, row, store, alone, rewrites>>
    BY <1>0, <1>5 DEF U!Timeout
  <2> QED BY <2>1, <1>2, <1>4
<1>6. ASSUME NEW q \in puts, U!Lose(q) PROVE UploadsInv'
  <2>1. /\ U!Answer(q, "error", puts \ {q}) /\ put_failures' \in 0..UploadFailures
        /\ UNCHANGED <<file, row, store, alone, rewrites>>
    BY <1>0, <1>6 DEF U!Lose
  <2> QED BY <2>1, <1>2, <1>4
<1>7. ASSUME NEW q \in puts, U!Authorize(q) PROVE UploadsInv'
  <2>1. CASE U!Answer(q, "refused", puts \ {q})
    <3>1. put_failures' \in 0..UploadFailures /\ UNCHANGED <<file, row, store, alone, rewrites>>
      BY <1>0, <1>7 DEF U!Authorize
    <3> QED BY <2>1, <3>1, <1>2, <1>4
  <2>2. CASE puts' = (puts \ {q}) \cup {[q EXCEPT !.ready = TRUE]} /\ UNCHANGED upload
    <3> DEFINE c == [q EXCEPT !.ready = TRUE]
    <3>1. /\ c \in UploadCall /\ c.u = q.u /\ c.kind = q.kind /\ c.body = q.body /\ c.open = q.open
          /\ c.saved = q.saved
      BY <1>0 DEF UploadCall
    <3>2. puts' = (puts \ {q}) \cup {c}
          /\ UNCHANGED <<upload, file, row, store, alone, put_failures, rewrites>>
      BY <2>2, <1>7 DEF U!Authorize
    <3> HIDE DEF c
    <3> QED BY <3>1, <3>2, StepSound
  <2> QED BY <2>1, <2>2, <1>7 DEF U!Authorize
<1>8. ASSUME NEW q \in puts, U!Slot(q) PROVE UploadsInv'
  <2>1. /\ row' = [row EXCEPT !.exists = TRUE] /\ U!Answer(q, "ok", puts \ {q}) /\ q.kind = "slot"
        /\ UNCHANGED <<file, store, alone, put_failures, rewrites>>
    BY <1>8 DEF U!Slot
  <2>2. /\ row' \in [exists: BOOLEAN, path: Nat \ {0}, digest: U!Contents \cup {U!Nothing}, uploaded: BOOLEAN]
        /\ row'.path = row.path /\ row'.uploaded = row.uploaded /\ row'.digest = row.digest
    BY <1>0, <2>1
  <2>3. U!TypeOK'
    BY <1>0, <1>1, <1>2, <2>1, <2>2
  <2> QED BY <1>2, <2>1, <2>2, <2>3, AnswerKeepsU
<1>9. ASSUME NEW q \in puts, U!StoreContent(q) PROVE UploadsInv'
  <2> DEFINE c == [q EXCEPT !.saved = Len(store) + 1]
  <2>1. /\ c \in UploadCall /\ c.u = q.u /\ c.kind = q.kind /\ c.body = q.body /\ c.open = q.open
        /\ c.saved = Len(store) + 1
    BY <1>0 DEF UploadCall
  <2>2. /\ puts' = (puts \ {q}) \cup {c} /\ store' = Append(store, q.body) /\ q.kind = "put"
        /\ UNCHANGED <<upload, file, row, alone, put_failures, rewrites>>
    BY <1>9 DEF U!StoreContent
  <2> HIDE DEF c
  <2> QED BY <2>1, <2>2, StepSound
<1>10. ASSUME NEW q \in puts, U!SavePath(q) PROVE UploadsInv'
  <2>1. /\ row' = [row EXCEPT !.path = q.saved] /\ U!Answer(q, "ok", puts \ {q}) /\ q.saved # 0
        /\ UNCHANGED <<file, store, alone, put_failures, rewrites>>
    BY <1>10 DEF U!SavePath, U!Pointed
  <2>2. q.saved \in Nat \ {0}
    BY <1>0, <2>1 DEF UploadCall
  <2>3. /\ row' \in [exists: BOOLEAN, path: Nat \ {0}, digest: U!Contents \cup {U!Nothing}, uploaded: BOOLEAN]
        /\ row'.path = q.saved /\ row'.uploaded = row.uploaded /\ row'.digest = row.digest
    BY <1>0, <2>1, <2>2
  <2>4. U!TypeOK'
    BY <1>0, <1>1, <1>2, <2>1, <2>3
  <2>5. q.kind = "put"
    BY <1>0, <2>1 DEF SavedRight
  <2> QED BY <1>2, <2>1, <2>3, <2>4, <2>5, AnswerKeepsU
<1>11. ASSUME NEW q \in puts, U!Complete(q) PROVE UploadsInv'
  <2>1. /\ row' = [row EXCEPT !.digest = q.body, !.uploaded = TRUE] /\ U!Answer(q, "ok", puts \ {q})
        /\ q.kind = "complete"
        /\ UNCHANGED <<file, store, alone, put_failures, rewrites>>
    BY <1>11 DEF U!Complete
  <2>2. /\ row' \in [exists: BOOLEAN, path: Nat \ {0}, digest: U!Contents \cup {U!Nothing}, uploaded: BOOLEAN]
        /\ row'.path = row.path /\ row'.uploaded /\ row'.digest = q.body
    BY <1>0, <2>1
  <2>3. U!TypeOK'
    BY <1>0, <1>1, <1>2, <2>1, <2>2
  <2> QED BY <1>2, <2>1, <2>2, <2>3, AnswerKeepsU
<1>12. CASE U!Retry
  BY <1>12 DEF U!Retry, UploadsInv, U!TypeOK, UploadsSound, UploadWaits, Versions, SavedRight, HasContent,
               Apart, Progress, Unchanged, Undisturbed, Begun, U!Under, U!Paths
<1>13. ASSUME NEW a, U!Kill(a) PROVE UploadsInv'
  BY <1>13, KillSound
<1>14. CASE UNCHANGED U!vars
  BY <1>14 DEF U!vars, UploadsInv, U!TypeOK, UploadsSound, UploadWaits, Versions, SavedRight, HasContent,
               Apart, Progress, Unchanged, Undisturbed, Begun, U!Under, U!Paths
<1> QED
  BY <1>3, <1>5, <1>6, <1>7, <1>8, <1>9, <1>10, <1>11, <1>12, <1>13, <1>14 DEF U!Next

\* An upload that nothing disturbed left what it says it did.
LEMMA UploadsRight == U!Spec => [](U!TypeOK /\ UploadedMatches)
<1>1. U!Init => UploadsInv
  <2> SUFFICES ASSUME U!Init PROVE UploadsInv
    OBVIOUS
  <2>1. \A u \in Uploads : file[u] = <<u, 0>> /\ upload[u].pc = "idle"
    BY DEF U!Init
  <2>2. U!TypeOK
    BY <2>1, Constants DEF U!Init, U!TypeOK, U!Contents, U!Steps
  <2>3. UploadsSound
    BY <2>1, Constants DEF U!Init, UploadsSound, UploadWaits, Versions, SavedRight, HasContent, Apart,
               Progress, Unchanged, Undisturbed, Begun, U!Steps
  <2> QED BY <2>2, <2>3 DEF UploadsInv
<1>2. UploadsInv /\ [U!Next]_U!vars => UploadsInv'
  BY UploadsNext
<1>3. UploadsInv => U!TypeOK /\ UploadedMatches
  <2> SUFFICES ASSUME UploadsInv PROVE U!TypeOK /\ UploadedMatches
    OBVIOUS
  <2>1. row.uploaded => row.path \in U!Paths
    BY DEF UploadsInv, UploadsSound, HasContent
  <2>2. \A u \in Uploads : upload[u].pc = "done" /\ alone[u] /\ file[u] = upload[u].digest => Unchanged(u)
    BY DEF Unchanged, Undisturbed, Begun
  <2> QED BY <2>1, <2>2 DEF UploadsInv, UploadsSound, Progress, UploadedMatches, U!UploadedMatches
<1> QED BY <1>1, <1>2, <1>3, PTL DEF U!Spec

-----------------------------------------------------------------------------
(* Log entries. *)

LogBatch == [a: J!Runs, seq: Nat \ {0}, from: Nat \ {0}, upto: 0..MaxEntries]
LogPost == [by: {"thread", "flusher", "main"}, b: LogBatch, left: 0..Retries]
LogCall == [b: LogBatch, left: 0..Retries, step: {"check", "write", "mark"}, open: BOOLEAN]
LogTyped ==
  /\ proc \in [J!Runs -> J!Process] /\ \A a \in J!Runs : proc[a].taken <= proc[a].last
  /\ post \in [J!Runs -> LogPost \cup {J!NoPost}]
  /\ log_token \in J!Runs
  /\ \A q \in log_calls : q \in LogCall
  /\ marks \subseteq Nat \X J!Runs
  /\ stored \subseteq J!Entry /\ warned \subseteq J!Entry /\ replayed \subseteq J!Entry
  /\ log_failures \in 0..MaxFailures

\* A process waits for the last batch it took from its buffer, which then is empty.
Waiting(a) == post[a] # J!NoPost
Logging == {"running", "closing", "exited"}
LogWaits ==
  /\ \A a \in J!Runs : Waiting(a) =>
       /\ post[a].b.a = a /\ post[a].b.seq = proc[a].seq
       /\ post[a].b.upto = proc[a].taken /\ proc[a].taken = proc[a].last
       /\ proc[a].phase \in Logging
  /\ \A q \in log_calls : q.open => Waiting(q.b.a) /\ post[q.b.a].b = q.b
  /\ \A q, c \in log_calls : q.open /\ c.open /\ q.b.a = c.b.a => q = c

\* A sequence stands for one batch of its process, and a marked one for a stored one.
OneBatch == \A q, c \in log_calls : q.b.a = c.b.a /\ q.b.seq = c.b.seq => q.b = c.b
Counted == /\ \A q \in log_calls : q.b.seq <= proc[q.b.a].seq
           /\ \A m \in marks : m[1] <= proc[m[2]].seq
MarkedStored == \A q \in log_calls :
  q.step = "mark" \/ <<q.b.seq, q.b.a>> \in marks => J!Entries(q.b) \subseteq stored

Told == stored \cup warned \cup replayed
TakenTold ==
  /\ \A a \in J!Runs : proc[a].phase \in Logging =>
       \A n \in 1..proc[a].taken : <<a, n>> \in Told \/ (Waiting(a) /\ n >= post[a].b.from)
  /\ \A a \in J!Runs : proc[a].phase = "exited" => \A n \in 1..proc[a].closed : <<a, n>> \in Told
NotYet == \A a \in J!Runs : a > log_token => proc[a] = J!NoProcess

LogsSound == LogWaits /\ OneBatch /\ Counted /\ MarkedStored /\ TakenTold /\ NotYet
LogsInv == LogTyped /\ LogsSound

LEMMA LogTypesGiven == LogTyped => J!TypeOK
BY DEF LogTyped, J!TypeOK, LogPost, LogCall, LogBatch, J!Batch

LEMMA RangeFields ==
  ASSUME NEW b \in LogBatch
  PROVE  /\ b.a \in J!Runs /\ b.seq \in Nat \ {0} /\ b.from \in Nat \ {0} /\ b.upto \in 0..MaxEntries
         /\ b.upto \in Nat
         /\ J!Entries(b) \subseteq J!Entry
         /\ \A n \in Nat : n >= b.from /\ n <= b.upto => <<b.a, n>> \in J!Entries(b)
<1>1. b.a \in J!Runs /\ b.seq \in Nat \ {0} /\ b.from \in Nat \ {0} /\ b.upto \in 0..MaxEntries
  BY DEF LogBatch
<1>2. \A n \in b.from..b.upto : n \in 1..MaxEntries
  BY <1>1, Constants
<1>3. J!Entries(b) \subseteq J!Entry
  BY <1>1, <1>2 DEF J!Entries, J!Entry
<1>4. \A n \in Nat : n >= b.from /\ n <= b.upto => <<b.a, n>> \in J!Entries(b)
  BY <1>1, Constants DEF J!Entries
<1> QED BY <1>1, <1>3, <1>4, Constants

LEMMA LogFields ==
  ASSUME LogTyped
  PROVE  /\ \A a \in J!Runs :
              /\ proc[a] \in J!Process /\ proc[a].last \in 0..MaxEntries /\ proc[a].taken \in 0..MaxEntries
              /\ proc[a].seq \in Nat /\ proc[a].closed \in 0..MaxEntries /\ proc[a].taken <= proc[a].last
              /\ Waiting(a) => post[a] \in LogPost /\ post[a].b \in LogBatch /\ post[a].left \in 0..Retries
         /\ \A q \in log_calls : q \in LogCall /\ q.b \in LogBatch /\ q.b.a \in J!Runs /\ q.open \in BOOLEAN
<1>1. \A x \in J!Process : x.last \in 0..MaxEntries /\ x.taken \in 0..MaxEntries /\ x.seq \in Nat
                           /\ x.closed \in 0..MaxEntries
  BY DEF J!Process
<1>2. \A x \in LogPost : x.b \in LogBatch /\ x.left \in 0..Retries
  BY DEF LogPost
<1>3. \A q \in LogCall : q.b \in LogBatch /\ q.b.a \in J!Runs /\ q.open \in BOOLEAN
  BY DEF LogCall, LogBatch
<1> QED BY <1>1, <1>2, <1>3 DEF LogTyped, Waiting

\* A flush hands the buffer's entries to a request whose sequence nothing has.
LEMMA FlushSound ==
  ASSUME LogsInv, NEW a \in J!Runs, NEW by \in {"thread", "flusher", "main"}, NEW last \in 0..MaxEntries,
         proc[a].phase \in Logging, J!Free(a), proc[a].last <= last, J!Flush(a, by, last)
  PROVE  LogsInv'
<1> DEFINE b == [a |-> a, seq |-> proc[a].seq + 1, from |-> proc[a].taken + 1, upto |-> last]
           new == J!Call(b, Retries)
<1>0. /\ LogTyped /\ LogWaits /\ OneBatch /\ Counted /\ MarkedStored /\ TakenTold /\ NotYet
      /\ ~Waiting(a)
  BY DEF LogsInv, LogsSound, J!Free, Waiting
<1>1. /\ proc' = [proc EXCEPT ![a].last = last, ![a].taken = last, ![a].seq = proc[a].seq + 1]
      /\ post' = [post EXCEPT ![a] = [by |-> by, b |-> b, left |-> Retries]]
      /\ log_calls' = log_calls \cup {new}
      /\ UNCHANGED <<log_token, stored, marks, warned, replayed, log_failures>>
  BY DEF J!Flush
<1>2. /\ b \in LogBatch /\ b.a = a /\ b.seq = proc[a].seq + 1 /\ b.from = proc[a].taken + 1 /\ b.upto = last
  BY <1>0, LogFields, Constants DEF LogBatch
<1>3. /\ new \in LogCall /\ new.b = b /\ new.open /\ new.step = "check"
  BY <1>2, Constants DEF LogCall, J!Call
<1>4. /\ proc' \in [J!Runs -> J!Process]
      /\ \A x \in J!Runs \ {a} : proc'[x] = proc[x]
      /\ proc'[a].last = last /\ proc'[a].taken = last /\ proc'[a].seq = proc[a].seq + 1
      /\ proc'[a].phase = proc[a].phase /\ proc'[a].closed = proc[a].closed
  BY <1>0, <1>1, LogFields DEF LogTyped, J!Process
<1> HIDE DEF b
<1>5. /\ post' \in [J!Runs -> LogPost \cup {J!NoPost}]
      /\ \A x \in J!Runs \ {a} : post'[x] = post[x]
      /\ post'[a].b = b /\ post'[a].by = by /\ Waiting(a)'
  BY <1>0, <1>1, <1>2, Constants DEF LogTyped, LogPost, J!NoPost, Waiting
<1>6. \A c \in log_calls' : c \in log_calls \/ c = new
  BY <1>1
<1> HIDE DEF new
<1>7. \A x \in J!Runs : proc'[x].seq >= proc[x].seq /\ proc'[x].taken <= proc'[x].last
  BY <1>0, <1>4, LogFields
<1>8. LogTyped'
  BY <1>0, <1>1, <1>3, <1>4, <1>5, <1>6, <1>7 DEF LogTyped
<1>9. LogWaits'
  <2>1. \A x \in J!Runs \ {a} : Waiting(x)' = Waiting(x)
    BY <1>5 DEF Waiting
  <2>2. \A c \in log_calls : c.open => c.b.a # a
    BY <1>0 DEF LogWaits
  <2>3. \A x \in J!Runs : Waiting(x)' =>
          /\ post'[x].b.a = x /\ post'[x].b.seq = proc'[x].seq
          /\ post'[x].b.upto = proc'[x].taken /\ proc'[x].taken = proc'[x].last
          /\ proc'[x].phase \in Logging
    BY <1>0, <1>2, <1>4, <1>5, <2>1 DEF LogWaits
  <2>4. \A c \in log_calls' : c.open => Waiting(c.b.a)' /\ post'[c.b.a].b = c.b
    BY <1>0, <1>2, <1>3, <1>5, <1>6, <2>1, <2>2, LogFields DEF LogWaits
  <2>5. \A c, d \in log_calls' : c.open /\ d.open /\ c.b.a = d.b.a => c = d
    BY <1>0, <1>2, <1>3, <1>6, <2>2 DEF LogWaits
  <2> QED BY <2>3, <2>4, <2>5 DEF LogWaits
<1>10. \A c \in log_calls : c.b.a = a => c.b.seq # b.seq
  BY <1>0, <1>2, LogFields, RangeFields DEF Counted
<1>11. OneBatch'
  BY <1>0, <1>2, <1>3, <1>6, <1>10 DEF OneBatch
<1>12. Counted'
  <2>1. \A c \in log_calls' : c.b.seq <= proc'[c.b.a].seq
    <3> SUFFICES ASSUME NEW c \in log_calls' PROVE c.b.seq <= proc'[c.b.a].seq
      OBVIOUS
    <3>1. CASE c \in log_calls
      <4>1. c.b.seq \in Nat /\ c.b.a \in J!Runs /\ c.b.seq <= proc[c.b.a].seq
        BY <1>0, <3>1, LogFields, RangeFields DEF Counted
      <4>2. proc[c.b.a].seq \in Nat /\ proc'[c.b.a].seq \in Nat /\ proc'[c.b.a].seq >= proc[c.b.a].seq
        BY <1>0, <1>4, <1>7, <4>1, LogFields DEF J!Process
      <4> QED BY <4>1, <4>2
    <3>2. CASE c = new
      BY <3>2, <1>0, <1>2, <1>3, <1>4, LogFields
    <3> QED BY <3>1, <3>2, <1>6
  <2>2. \A m \in marks' : m[1] <= proc'[m[2]].seq
    <3> SUFFICES ASSUME NEW m \in marks PROVE m[1] <= proc'[m[2]].seq
      BY <1>1
    <3>1. m[1] \in Nat /\ m[2] \in J!Runs /\ m[1] <= proc[m[2]].seq
      BY <1>0 DEF Counted, LogTyped
    <3>2. proc[m[2]].seq \in Nat /\ proc'[m[2]].seq \in Nat /\ proc'[m[2]].seq >= proc[m[2]].seq
      BY <1>0, <1>4, <1>7, <3>1, LogFields DEF J!Process
    <3> QED BY <3>1, <3>2
  <2> QED BY <2>1, <2>2 DEF Counted
<1>13. MarkedStored'
  <2>1. <<b.seq, b.a>> \notin marks
    <3> SUFFICES ASSUME <<b.seq, b.a>> \in marks PROVE FALSE
      OBVIOUS
    <3>1. b.seq <= proc[b.a].seq
      BY <1>0 DEF Counted
    <3> QED BY <3>1, <1>0, <1>2, LogFields
  <2> QED BY <1>0, <1>1, <1>3, <1>6, <2>1 DEF MarkedStored
<1>14. TakenTold'
  <2>1. \A x \in J!Runs \ {a} : Waiting(x)' = Waiting(x)
    BY <1>5 DEF Waiting
  <2>2. Told' = Told
    BY <1>1 DEF Told
  <2>3. ASSUME NEW x \in J!Runs, proc'[x].phase \in Logging, NEW n \in 1..proc'[x].taken
        PROVE  <<x, n>> \in Told \/ (Waiting(x)' /\ n >= post'[x].b.from)
    <3>1. CASE x # a
      BY <3>1, <2>1, <2>3, <1>0, <1>4, <1>5 DEF TakenTold
    <3>2. CASE x = a /\ n <= proc[a].taken
      BY <3>2, <2>3, <1>0, <1>4, LogFields DEF TakenTold
    <3>3. CASE x = a /\ ~(n <= proc[a].taken)
      BY <3>3, <2>3, <1>0, <1>2, <1>4, <1>5, LogFields
    <3> QED BY <3>1, <3>2, <3>3
  <2>4. \A x \in J!Runs : proc'[x].phase = "exited" => \A n \in 1..proc'[x].closed : <<x, n>> \in Told
    BY <1>0, <1>4 DEF TakenTold
  <2> QED BY <2>2, <2>3, <2>4 DEF TakenTold
<1>15. NotYet'
  BY <1>0, <1>1, <1>4 DEF NotYet, J!NoProcess, Logging
<1> QED BY <1>8, <1>9, <1>11, <1>12, <1>13, <1>14, <1>15 DEF LogsInv, LogsSound

\* The requests left at the server: those there were, but q, which may stay with nobody
\* waiting.
Left(q, rest) == \A c \in rest : c \in log_calls \ {q} \/ c = [q EXCEPT !.open = FALSE]

\* How a request may end: nobody waits, it is sent again, or the process is done with it.
Unheard(q, rest) == ~q.open /\ log_calls' = rest /\ UNCHANGED <<proc, post, warned>>
Again(q, rest) ==
  /\ q.open /\ UNCHANGED <<proc, warned>>
  /\ \E left \in 0..Retries : /\ post' = [post EXCEPT ![q.b.a].left = left]
                              /\ log_calls' = rest \cup {J!Call(q.b, left)}
Ended(q, rest, ok) ==
  /\ q.open /\ log_calls' = rest
  /\ post' = [post EXCEPT ![q.b.a] = J!NoPost]
  /\ proc' = proc \/ (proc' = J!Exited(q.b.a) /\ proc[q.b.a].taken = proc[q.b.a].last)
  /\ warned' = IF ok THEN warned ELSE warned \cup J!Entries(q.b)

LEMMA LogAnswerIs ==
  ASSUME LogsInv, NEW q \in log_calls, NEW status, NEW rest, J!Answer(q, status, rest)
  PROVE  Unheard(q, rest) \/ Again(q, rest) \/ Ended(q, rest, status = "ok")
<1>0. /\ q.b.a \in J!Runs
      /\ q.open => /\ post[q.b.a].left \in 0..Retries
                   /\ proc[q.b.a].taken = proc[q.b.a].last
  BY LogFields DEF LogsInv, LogsSound, LogWaits
<1>1. CASE ~q.open
  BY <1>1 DEF J!Answer, Unheard
<1>2. CASE q.open /\ status = "error" /\ post[q.b.a].left > 0
  <2>1. post[q.b.a].left - 1 \in 0..Retries
    BY <1>0, <1>2, Constants
  <2> QED BY <1>2, <2>1 DEF J!Answer, Again
<1>3. CASE q.open /\ ~(status = "error" /\ post[q.b.a].left > 0)
  BY <1>0, <1>3 DEF J!Answer, J!Done, Ended
<1> QED BY <1>1, <1>2, <1>3

\* What its end does not change: whom a process waits for but q's, and what was counted;
\* who still waits does so for the batch it did.
LEMMA LogAnswerKeeps ==
  ASSUME LogsInv, NEW q \in log_calls, NEW status, NEW rest, J!Answer(q, status, rest), Left(q, rest),
         UNCHANGED log_token, stored' \subseteq J!Entry, replayed' \subseteq J!Entry,
         log_failures' \in 0..MaxFailures,
         stored \subseteq stored', replayed \subseteq replayed',
         \/ marks' = marks
         \/ marks' = marks \cup {<<q.b.seq, q.b.a>>} /\ J!Entries(q.b) \subseteq stored',
         status = "ok" => J!Entries(q.b) \subseteq stored' \cup replayed'
  PROVE  LogsInv'
<1> DEFINE a == q.b.a
<1>0. /\ LogTyped /\ LogWaits /\ OneBatch /\ Counted /\ MarkedStored /\ TakenTold /\ NotYet
      /\ a \in J!Runs /\ q \in LogCall /\ q.b \in LogBatch /\ J!Entries(q.b) \subseteq J!Entry
      /\ q.b.seq \in Nat
  BY LogFields, RangeFields DEF LogsInv, LogsSound
<1> DEFINE shut == [q EXCEPT !.open = FALSE]
<1>1. shut \in LogCall /\ ~shut.open /\ shut.b = q.b /\ shut.step = q.step
  BY <1>0 DEF LogCall
<1> HIDE DEF shut
<1>2. \A c \in rest : c \in log_calls \ {q} \/ c = shut
  BY DEF Left, shut
<1>3. /\ \A c \in log_calls' : \/ c \in log_calls \ {q} \/ c = shut
                               \/ /\ q.open /\ c.open /\ c.b = q.b /\ c.step = "check" /\ c \in LogCall
                                  /\ Waiting(a)'
      /\ \A c, d \in log_calls' : c.open /\ d.open /\ c.b.a = a /\ d.b.a = a => c = d \/ ~q.open
  <2>0. \A c \in rest : q.open /\ c.open => c.b.a # a
    BY <1>0, <1>1, <1>2 DEF LogWaits
  <2>1. CASE Unheard(q, rest) \/ Ended(q, rest, status = "ok")
    BY <2>0, <2>1, <1>2 DEF Unheard, Ended
  <2>2. CASE Again(q, rest)
    <3>1. PICK left \in 0..Retries : /\ post' = [post EXCEPT ![a].left = left]
                                     /\ log_calls' = rest \cup {J!Call(q.b, left)}
      BY <2>2 DEF Again
    <3>2. q.open /\ post[a] \in LogPost
      BY <1>0, <2>2, LogFields DEF Again, LogWaits
    <3>3. post'[a].by = post[a].by
      BY <1>0, <3>1, <3>2 DEF LogPost, LogTyped
    <3>4. Waiting(a)'
      BY <3>2, <3>3 DEF Waiting, LogPost, J!NoPost
    <3>5. LET c == J!Call(q.b, left) IN c.open /\ c.b = q.b /\ c.step = "check" /\ c \in LogCall
      BY <1>0 DEF J!Call, LogCall
    <3> QED BY <2>0, <3>1, <3>2, <3>4, <3>5, <1>2
  <2> QED BY <2>1, <2>2, LogAnswerIs
<1>4. /\ post' \in [J!Runs -> LogPost \cup {J!NoPost}]
      /\ \A x \in J!Runs \ {a} : post'[x] = post[x]
      /\ ~q.open => post' = post
      /\ Waiting(a)' => Waiting(a) /\ post'[a].b = post[a].b
  <2>1. CASE Unheard(q, rest)
    BY <2>1, <1>0 DEF Unheard, LogTyped, Waiting
  <2>2. CASE Ended(q, rest, status = "ok")
    BY <2>2, <1>0 DEF Ended, LogTyped, Waiting
  <2>3. CASE Again(q, rest)
    <3>1. PICK left \in 0..Retries : post' = [post EXCEPT ![a].left = left]
      BY <2>3 DEF Again
    <3>2. q.open /\ Waiting(a) /\ post[a] \in LogPost
      BY <1>0, <2>3, LogFields DEF Again, LogWaits
    <3>3. [post[a] EXCEPT !.left = left] \in LogPost /\ [post[a] EXCEPT !.left = left].b = post[a].b
      BY <3>2 DEF LogPost
    <3>4. post' = [post EXCEPT ![a] = [post[a] EXCEPT !.left = left]]
      BY <3>1
    <3> QED BY <1>0, <3>2, <3>3, <3>4 DEF LogTyped
  <2> QED BY <2>1, <2>2, <2>3, LogAnswerIs
<1>5. \/ proc' = proc
      \/ /\ q.open /\ proc' = J!Exited(a) /\ ~Waiting(a)' /\ proc[a].taken = proc[a].last
  <2>1. CASE Ended(q, rest, status = "ok")
    BY <2>1, <1>0 DEF Ended, LogTyped, Waiting
  <2> QED BY <2>1, LogAnswerIs DEF Unheard, Again
<1>6. /\ proc' \in [J!Runs -> J!Process]
      /\ \A x \in J!Runs : /\ proc'[x].last = proc[x].last /\ proc'[x].taken = proc[x].taken
                           /\ proc'[x].seq = proc[x].seq
                           /\ \/ proc'[x] = proc[x]
                              \/ /\ x = a /\ q.open /\ proc'[x].phase = "exited" /\ ~Waiting(a)'
                                 /\ proc'[x].closed = proc[x].taken
  BY <1>0, <1>5, LogFields DEF LogTyped, J!Exited, J!Process
<1>7. /\ warned \subseteq warned' /\ warned' \subseteq J!Entry
      /\ q.open /\ ~Waiting(a)' => J!Entries(q.b) \subseteq stored' \cup replayed' \cup warned'
  <2>1. CASE Unheard(q, rest)
    BY <2>1, <1>0 DEF Unheard, LogTyped
  <2>2. CASE Ended(q, rest, status = "ok")
    BY <2>2, <1>0 DEF Ended, LogTyped
  <2>3. CASE Again(q, rest)
    <3>1. PICK left \in 0..Retries : post' = [post EXCEPT ![a].left = left]
      BY <2>3 DEF Again
    <3>2. post[a] \in LogPost
      BY <1>0, <2>3, LogFields DEF Again, LogWaits
    <3>3. post'[a].by = post[a].by
      BY <1>0, <3>1, <3>2 DEF LogPost, LogTyped
    <3>4. Waiting(a)'
      BY <3>2, <3>3 DEF Waiting, LogPost, J!NoPost
    <3> QED BY <2>3, <3>4, <1>0 DEF Again, LogTyped
  <2> QED BY <2>1, <2>2, <2>3, LogAnswerIs
<1> HIDE DEF a
<1>8. LogTyped'
  <2>1. marks' \subseteq Nat \X J!Runs
    BY <1>0 DEF LogTyped, a
  <2>2. \A c \in log_calls' : c \in LogCall
    BY <1>0, <1>1, <1>3 DEF LogTyped
  <2> QED BY <1>0, <1>4, <1>6, <1>7, <2>1, <2>2 DEF LogTyped
<1>9. /\ \A c \in log_calls' : \/ c \in log_calls
                               \/ c.b = q.b
      /\ \A x \in J!Runs : Waiting(x)' => Waiting(x) /\ post'[x].b = post[x].b
      /\ \A x \in J!Runs \ {a} : Waiting(x)' = Waiting(x)
      /\ ~q.open => Waiting(a)' = Waiting(a)
  BY <1>1, <1>3, <1>4 DEF Waiting
<1>10. LogWaits'
  <2>1. \A x \in J!Runs : Waiting(x)' =>
          /\ post'[x].b.a = x /\ post'[x].b.seq = proc'[x].seq
          /\ post'[x].b.upto = proc'[x].taken /\ proc'[x].taken = proc'[x].last
          /\ proc'[x].phase \in Logging
    BY <1>0, <1>6, <1>9 DEF LogWaits
  <2>2. ASSUME NEW c \in log_calls', c.open PROVE Waiting(c.b.a)' /\ post'[c.b.a].b = c.b
    <3>1. CASE c \in log_calls \ {q}
      <4>1. Waiting(c.b.a) /\ post[c.b.a].b = c.b /\ (q.open => c.b.a # a) /\ c.b.a \in J!Runs
        BY <1>0, <2>2, <3>1, LogFields DEF LogWaits, a
      <4> QED BY <4>1, <1>4, <1>9
    <3>2. CASE q.open /\ c.b = q.b /\ Waiting(a)'
      BY <3>2, <1>0, <1>4 DEF LogWaits, a
    <3> QED BY <2>2, <3>1, <3>2, <1>1, <1>3
  <2>3. ASSUME NEW c \in log_calls', NEW d \in log_calls', c.open, d.open, c.b.a = d.b.a PROVE c = d
    <3>1. CASE q.open /\ c.b.a = a
      BY <3>1, <2>3, <1>3
    <3>2. CASE ~(q.open /\ c.b.a = a)
      <4>1. c \in log_calls /\ d \in log_calls
        BY <3>2, <2>3, <1>1, <1>3 DEF a
      <4> QED BY <4>1, <2>3, <1>0 DEF LogWaits
    <3> QED BY <3>1, <3>2
  <2> QED BY <2>1, <2>2, <2>3 DEF LogWaits
<1>11. OneBatch'
  BY <1>0, <1>9 DEF OneBatch
<1>12. Counted'
  <2>1. \A m \in marks' : m \in marks \/ m = <<q.b.seq, q.b.a>>
    OBVIOUS
  <2>2. \A c \in log_calls' : c.b.seq <= proc'[c.b.a].seq
    BY <1>0, <1>6, <1>9, LogFields DEF Counted
  <2>3. ASSUME NEW m \in marks' PROVE m[1] <= proc'[m[2]].seq
    <3>1. CASE m \in marks
      BY <3>1, <1>0, <1>6 DEF Counted, LogTyped
    <3>2. CASE m = <<q.b.seq, q.b.a>>
      BY <3>2, <1>0, <1>6 DEF Counted, a
    <3> QED BY <3>1, <3>2, <2>1
  <2> QED BY <2>2, <2>3 DEF Counted
<1>13. MarkedStored'
  <2> SUFFICES ASSUME NEW c \in log_calls', c.step = "mark" \/ <<c.b.seq, c.b.a>> \in marks'
               PROVE  J!Entries(c.b) \subseteq stored'
    BY DEF MarkedStored
  <2>1. CASE <<c.b.seq, c.b.a>> \in marks' \ marks
    <3>1. c.b.seq = q.b.seq /\ c.b.a = q.b.a /\ J!Entries(q.b) \subseteq stored'
      BY <2>1
    <3> QED BY <3>1, <1>0, <1>9 DEF OneBatch
  <2>2. CASE <<c.b.seq, c.b.a>> \in marks
    BY <2>2, <1>0, <1>9 DEF MarkedStored
  <2>3. CASE c.step = "mark"
    BY <2>3, <1>0, <1>1, <1>3 DEF MarkedStored
  <2> QED BY <2>1, <2>2, <2>3
<1>14. TakenTold'
  <2>1. Told \subseteq Told'
    BY <1>7 DEF Told
  <2>2. ASSUME NEW n \in 1..proc[a].taken, q.open, ~Waiting(a)', proc[a].phase \in Logging
        PROVE  <<a, n>> \in Told'
    <3>1. /\ post[a].b = q.b /\ q.b.a = a /\ q.b.upto = proc[a].taken
          /\ <<a, n>> \in Told \/ n >= q.b.from
      BY <2>2, <1>0 DEF LogWaits, TakenTold, a
    <3>2. n >= q.b.from => <<a, n>> \in J!Entries(q.b)
      BY <3>1, <1>0, RangeFields
    <3> QED BY <3>1, <3>2, <2>1, <2>2, <1>7 DEF Told
  <2>3. q.open => proc[a].phase \in Logging
    BY <1>0 DEF LogWaits, a
  <2>4. ASSUME NEW x \in J!Runs, proc'[x].phase \in Logging, NEW n \in 1..proc'[x].taken
        PROVE  <<x, n>> \in Told' \/ (Waiting(x)' /\ n >= post'[x].b.from)
    <3>1. CASE x = a /\ q.open /\ ~Waiting(a)'
      BY <3>1, <2>2, <2>3, <2>4, <1>6
    <3>2. CASE ~(x = a /\ q.open /\ ~Waiting(a)')
      <4>1. proc'[x] = proc[x] /\ (Waiting(x) => Waiting(x)' /\ post'[x].b = post[x].b)
        BY <3>2, <1>6, <1>9
      <4> QED BY <4>1, <2>1, <2>4, <1>0 DEF TakenTold
    <3> QED BY <3>1, <3>2
  <2>5. ASSUME NEW x \in J!Runs, proc'[x].phase = "exited", NEW n \in 1..proc'[x].closed
        PROVE  <<x, n>> \in Told'
    <3>1. CASE proc'[x] = proc[x]
      BY <3>1, <2>1, <2>5, <1>0 DEF TakenTold
    <3>2. CASE x = a /\ q.open /\ ~Waiting(a)' /\ proc'[x].closed = proc[x].taken
      BY <3>2, <2>2, <2>3, <2>5
    <3> QED BY <3>1, <3>2, <1>6
  <2> QED BY <2>4, <2>5 DEF TakenTold
<1>15. NotYet'
  <2>1. ASSUME NEW x \in J!Runs, x > log_token PROVE proc'[x] = proc[x]
    <3>1. proc[x].phase = "none"
      BY <2>1, <1>0 DEF NotYet, J!NoProcess
    <3>2. q.open => x # a
      BY <3>1, <1>0 DEF LogWaits, Logging, a
    <3> QED BY <3>2, <1>6
  <2> QED BY <2>1, <1>0 DEF NotYet
<1> QED BY <1>8, <1>10, <1>11, <1>12, <1>13, <1>14, <1>15 DEF LogsInv, LogsSound

\* A process that ends: nobody waits for its requests.
LEMMA LogKillSound == ASSUME LogsInv, NEW a \in J!Runs, J!Kill(a) PROVE LogsInv'
<1>0. /\ LogTyped /\ LogWaits /\ OneBatch /\ Counted /\ MarkedStored /\ TakenTold /\ NotYet
  BY DEF LogsInv, LogsSound
<1>1. /\ proc[a].phase \in Logging /\ proc' = [proc EXCEPT ![a].phase = "killed"]
      /\ post' = [post EXCEPT ![a] = J!NoPost]
      /\ log_calls' = {[q EXCEPT !.open = @ /\ q.b.a # a] : q \in log_calls}
      /\ UNCHANGED <<log_token, stored, marks, warned, replayed, log_failures>>
  BY DEF J!Kill, Logging
<1>2. /\ proc' \in [J!Runs -> J!Process]
      /\ \A x \in J!Runs : /\ proc'[x].last = proc[x].last /\ proc'[x].taken = proc[x].taken
                           /\ proc'[x].seq = proc[x].seq /\ proc'[x].closed = proc[x].closed
      /\ \A x \in J!Runs \ {a} : proc'[x] = proc[x]
      /\ proc'[a].phase = "killed"
  BY <1>0, <1>1 DEF LogTyped, J!Process
<1>3. /\ post' \in [J!Runs -> LogPost \cup {J!NoPost}]
      /\ ~Waiting(a)'
      /\ \A x \in J!Runs \ {a} : post'[x] = post[x] /\ Waiting(x)' = Waiting(x)
  BY <1>0, <1>1 DEF LogTyped, Waiting
<1>4. \A c \in log_calls' : \E q \in log_calls :
        /\ c = [q EXCEPT !.open = q.open /\ q.b.a # a]
        /\ c \in LogCall /\ c.b = q.b /\ c.step = q.step
        /\ c.open <=> q.open /\ q.b.a # a
        /\ c.open => c = q
  <2> SUFFICES ASSUME NEW c \in log_calls'
               PROVE  \E q \in log_calls : /\ c = [q EXCEPT !.open = q.open /\ q.b.a # a]
                                           /\ c \in LogCall /\ c.b = q.b /\ c.step = q.step
                                           /\ c.open <=> q.open /\ q.b.a # a
                                           /\ c.open => c = q
    OBVIOUS
  <2>1. PICK q \in log_calls : c = [q EXCEPT !.open = q.open /\ q.b.a # a]
    BY <1>1
  <2>2. q \in LogCall
    BY <1>0 DEF LogTyped
  <2>3. PICK o \in BOOLEAN : o = (q.open /\ q.b.a # a)
    OBVIOUS
  <2>4. c = [q EXCEPT !.open = o]
    BY <2>1, <2>3
  <2>5. /\ c \in LogCall /\ c.b = q.b /\ c.step = q.step /\ c.open = o
        /\ o = q.open => c = q
    BY <2>2, <2>4 DEF LogCall
  <2>6. q.open \in BOOLEAN
    BY <2>2 DEF LogCall
  <2>7. (c.open <=> q.open /\ q.b.a # a) /\ (c.open => c = q)
    BY <2>3, <2>5, <2>6
  <2> QED BY <2>1, <2>5, <2>7, Zenon
<1>5. LogTyped'
  BY <1>0, <1>1, <1>2, <1>3, <1>4 DEF LogTyped
<1>6. LogWaits'
  <2>1. \A x \in J!Runs : Waiting(x)' =>
          /\ post'[x].b.a = x /\ post'[x].b.seq = proc'[x].seq
          /\ post'[x].b.upto = proc'[x].taken /\ proc'[x].taken = proc'[x].last
          /\ proc'[x].phase \in Logging
    BY <1>0, <1>2, <1>3 DEF LogWaits
  <2>2. \A c \in log_calls' : c.open => c \in log_calls /\ c.b.a # a /\ c.b.a \in J!Runs
    BY <1>0, <1>4, LogFields
  <2> QED BY <2>1, <2>2, <1>0, <1>3 DEF LogWaits
<1>7. OneBatch' /\ MarkedStored'
  BY <1>0, <1>1, <1>4 DEF OneBatch, MarkedStored
<1>8. Counted'
  <2>1. \A c \in log_calls' : c.b.seq <= proc'[c.b.a].seq
    BY <1>0, <1>2, <1>4, LogFields DEF Counted
  <2>2. \A m \in marks : m[1] <= proc'[m[2]].seq
    BY <1>0, <1>2 DEF Counted, LogTyped
  <2> QED BY <2>1, <2>2, <1>1 DEF Counted
<1>9. TakenTold'
  BY <1>0, <1>1, <1>2, <1>3 DEF TakenTold, Told, Logging
<1>10. NotYet'
  BY <1>0, <1>1, <1>2 DEF NotYet, J!NoProcess, Logging
<1> QED BY <1>5, <1>6, <1>7, <1>8, <1>9, <1>10 DEF LogsInv, LogsSound

\* A process buffers, closes or exits without a request: no batch, and nothing taken.
LEMMA LogProcSound ==
  ASSUME LogsInv, NEW a \in J!Runs, NEW new \in J!Process, proc' = [proc EXCEPT ![a] = new],
         new.taken = proc[a].taken, new.seq = proc[a].seq, new.taken <= new.last,
         Waiting(a) => new.last = proc[a].last,
         proc[a].phase \in Logging, new.phase \in Logging,
         new.phase = "exited" =>
           \/ proc[a].phase = "exited" /\ new.closed = proc[a].closed
           \/ ~Waiting(a) /\ new.closed = new.taken,
         UNCHANGED <<post, log_token, log_calls, stored, marks, warned, replayed, log_failures>>
  PROVE  LogsInv'
<1>0. /\ LogTyped /\ LogWaits /\ OneBatch /\ Counted /\ MarkedStored /\ TakenTold /\ NotYet
  BY DEF LogsInv, LogsSound
<1>1. /\ proc' \in [J!Runs -> J!Process] /\ proc'[a] = new
      /\ \A x \in J!Runs \ {a} : proc'[x] = proc[x]
      /\ \A x \in J!Runs : proc'[x].taken = proc[x].taken /\ proc'[x].seq = proc[x].seq
      /\ \A x \in J!Runs : Waiting(x)' = Waiting(x)
  BY <1>0 DEF LogTyped, Waiting
<1>2. LogTyped'
  BY <1>0, <1>1 DEF LogTyped
<1>3. LogWaits'
  BY <1>0, <1>1, LogFields DEF LogWaits
<1>4. OneBatch' /\ MarkedStored'
  BY <1>0 DEF OneBatch, MarkedStored
<1>5. Counted'
  <2>1. \A c \in log_calls' : c.b.seq <= proc'[c.b.a].seq
    BY <1>0, <1>1, LogFields DEF Counted
  <2>2. \A m \in marks : m[1] <= proc'[m[2]].seq
    BY <1>0, <1>1 DEF Counted, LogTyped
  <2> QED BY <2>1, <2>2 DEF Counted
<1>6. TakenTold'
  <2>1. \A x \in J!Runs : proc'[x].phase \in Logging =>
          \A n \in 1..proc'[x].taken : <<x, n>> \in Told \/ (Waiting(x) /\ n >= post[x].b.from)
    BY <1>0, <1>1 DEF TakenTold
  <2>2. ASSUME NEW x \in J!Runs, proc'[x].phase = "exited", NEW n \in 1..proc'[x].closed
        PROVE  <<x, n>> \in Told
    BY <2>2, <1>0, <1>1 DEF TakenTold
  <2> QED BY <2>1, <2>2, <1>1 DEF TakenTold, Told
<1>7. NotYet'
  BY <1>0, <1>1 DEF NotYet, J!NoProcess, Logging
<1> QED BY <1>2, <1>3, <1>4, <1>5, <1>6, <1>7 DEF LogsInv, LogsSound

\* Another attempt begins, of which nothing was heard before.
LEMMA LogRetrySound == ASSUME LogsInv, J!Retry PROVE LogsInv'
<1>0. /\ LogTyped /\ LogWaits /\ OneBatch /\ Counted /\ MarkedStored /\ TakenTold /\ NotYet
  BY DEF LogsInv, LogsSound
<1> DEFINE a == log_token + 1
<1>1. /\ a \in J!Runs /\ log_token' = a /\ proc' = [proc EXCEPT ![a] = J!Began(a)]
      /\ UNCHANGED <<post, log_calls, stored, marks, warned, replayed, log_failures>>
      /\ proc[a] = J!NoProcess
  BY <1>0, Constants DEF J!Retry, J!Runs, LogTyped, NotYet
<1> HIDE DEF a
<1>2. /\ J!Began(a) \in J!Process /\ J!Began(a).phase = "running"
      /\ J!Began(a).taken = 0 /\ J!Began(a).last = 0 /\ J!Began(a).seq = 0
      /\ J!NoProcess.phase = "none" /\ J!NoProcess.seq = 0
  BY Constants DEF J!Began, J!NoProcess, J!Process
<1>3. /\ proc' \in [J!Runs -> J!Process] /\ proc'[a] = J!Began(a)
      /\ \A x \in J!Runs \ {a} : proc'[x] = proc[x]
      /\ \A x \in J!Runs : Waiting(x)' = Waiting(x) /\ proc'[x].seq = proc[x].seq
  BY <1>0, <1>1, <1>2 DEF LogTyped, Waiting
<1>4. ~Waiting(a)
  BY <1>0, <1>1, <1>2 DEF LogWaits, Logging
<1>5. LogTyped'
  BY <1>0, <1>1, <1>2, <1>3 DEF LogTyped
<1>6. LogWaits'
  <2>1. \A x \in J!Runs : Waiting(x)' => proc'[x] = proc[x] /\ Waiting(x) /\ post'[x] = post[x]
    BY <1>1, <1>3, <1>4
  <2>2. \A c \in log_calls : c.open => c.b.a \in J!Runs /\ Waiting(c.b.a)' /\ post'[c.b.a].b = c.b
    BY <1>0, <1>1, <1>3, LogFields DEF LogWaits
  <2> QED BY <2>1, <2>2, <1>0, <1>1 DEF LogWaits
<1>7. OneBatch' /\ MarkedStored'
  BY <1>0, <1>1 DEF OneBatch, MarkedStored
<1>8. Counted'
  <2>1. \A c \in log_calls : c.b.seq <= proc'[c.b.a].seq
    BY <1>0, <1>3, LogFields DEF Counted
  <2>2. \A m \in marks : m[1] <= proc'[m[2]].seq
    BY <1>0, <1>3 DEF Counted, LogTyped
  <2> QED BY <2>1, <2>2, <1>1 DEF Counted
<1>9. TakenTold'
  <2>1. 1..0 = {}
    OBVIOUS
  <2> QED BY <2>1, <1>0, <1>1, <1>2, <1>3 DEF TakenTold, Told
<1>10. NotYet'
  <2>1. \A x \in J!Runs : x > a => x > log_token /\ x # a
    BY <1>0, <1>1 DEF J!Runs, LogTyped, a
  <2> QED BY <2>1, <1>0, <1>1, <1>3 DEF NotYet
<1> QED BY <1>5, <1>6, <1>7, <1>8, <1>9, <1>10 DEF LogsInv, LogsSound

\* Inside the view: the sequence is checked, the rows are written.
LEMMA LogStepSound ==
  ASSUME LogsInv, NEW q \in log_calls, NEW step \in {"write", "mark"},
         log_calls' = (log_calls \ {q}) \cup {[q EXCEPT !.step = step]},
         stored \subseteq stored', stored' \subseteq J!Entry,
         step = "mark" => J!Entries(q.b) \subseteq stored',
         UNCHANGED <<proc, post, log_token, marks, warned, replayed, log_failures>>
  PROVE  LogsInv'
<1>0. /\ LogTyped /\ LogWaits /\ OneBatch /\ Counted /\ MarkedStored /\ TakenTold /\ NotYet
      /\ q \in LogCall
  BY DEF LogsInv, LogsSound, LogTyped
<1> DEFINE new == [q EXCEPT !.step = step]
<1>1. new \in LogCall /\ new.b = q.b /\ new.open = q.open /\ new.step = step
  BY <1>0 DEF LogCall
<1>2. \A c \in log_calls' : c \in log_calls \ {q} \/ c = new
  OBVIOUS
<1> HIDE DEF new
<1>3. LogTyped'
  BY <1>0, <1>1, <1>2 DEF LogTyped
<1>4. LogWaits'
  BY <1>0, <1>1, <1>2 DEF LogWaits, Waiting
<1>5. OneBatch' /\ Counted' /\ NotYet'
  BY <1>0, <1>1, <1>2 DEF OneBatch, Counted, NotYet
<1>6. MarkedStored'
  BY <1>0, <1>1, <1>2 DEF MarkedStored
<1>7. TakenTold'
  BY <1>0 DEF TakenTold, Told, Waiting
<1> QED BY <1>3, <1>4, <1>5, <1>6, <1>7 DEF LogsInv, LogsSound

LEMMA LogsNext == ASSUME LogsInv, [J!Next]_J!vars PROVE LogsInv'
<1>0. /\ LogTyped /\ LogWaits /\ MarkedStored
      /\ \A a \in J!Runs : proc[a] \in J!Process
  BY LogFields DEF LogsInv, LogsSound
<1>1. ASSUME NEW a \in J!Runs, NEW flushes \in BOOLEAN, J!Add(a, flushes) PROVE LogsInv'
  <2>1. /\ proc[a].phase \in Logging /\ J!Free(a) /\ proc[a].last + 1 \in 0..MaxEntries
        /\ proc[a].last <= proc[a].last + 1
    BY <1>0, <1>1, LogFields, Constants DEF J!Add, Logging
  <2>2. CASE flushes
    BY <1>1, <2>1, <2>2, FlushSound DEF J!Add
  <2>3. CASE ~flushes
    <3> DEFINE new == [proc[a] EXCEPT !.last = proc[a].last + 1]
    <3>1. /\ new \in J!Process /\ new.taken = proc[a].taken /\ new.seq = proc[a].seq
          /\ new.last = proc[a].last + 1 /\ new.phase = proc[a].phase /\ new.closed = proc[a].closed
      BY <1>0, <2>1 DEF J!Process
    <3>2. /\ proc' = [proc EXCEPT ![a] = new]
          /\ UNCHANGED <<post, log_token, log_calls, stored, marks, warned, replayed, log_failures>>
      BY <1>1, <2>3 DEF J!Add, J!server
    <3>3. ~Waiting(a) /\ new.taken <= new.last
      BY <1>0, <2>1, <3>1, LogFields DEF J!Free, Waiting
    <3> HIDE DEF new
    <3> QED BY <2>1, <3>1, <3>2, <3>3, LogProcSound
  <2> QED BY <2>2, <2>3
<1>2. ASSUME NEW a \in J!Runs, J!Tick(a) PROVE LogsInv'
  <2>1. proc[a].phase \in Logging /\ J!Free(a) /\ proc[a].last \in 0..MaxEntries /\ proc[a].last <= proc[a].last
    BY <1>0, <1>2, LogFields, Constants DEF J!Tick, Logging
  <2> QED BY <1>2, <2>1, FlushSound DEF J!Tick
<1>3. ASSUME NEW a \in J!Runs, J!Close(a) PROVE LogsInv'
  <2> DEFINE new == [proc[a] EXCEPT !.phase = "closing"]
  <2>1. /\ new \in J!Process /\ new.taken = proc[a].taken /\ new.seq = proc[a].seq
        /\ new.last = proc[a].last /\ new.phase = "closing" /\ new.taken <= new.last
    BY <1>0, LogFields DEF J!Process
  <2>2. /\ proc' = [proc EXCEPT ![a] = new] /\ proc[a].phase = "running"
        /\ UNCHANGED <<post, log_token, log_calls, stored, marks, warned, replayed, log_failures>>
    BY <1>3 DEF J!Close, J!server
  <2> HIDE DEF new
  <2> QED BY <2>1, <2>2, LogProcSound DEF Logging
<1>4. ASSUME NEW a \in J!Runs, J!FinalFlush(a) PROVE LogsInv'
  <2>1. /\ proc[a].phase = "closing" /\ proc[a].phase \in Logging /\ J!Free(a) /\ ~Waiting(a)
        /\ proc[a].last \in 0..MaxEntries /\ proc[a].last <= proc[a].last /\ proc[a].taken \in 0..MaxEntries
        /\ proc[a].taken <= proc[a].last
    BY <1>0, <1>4, LogFields, Constants DEF J!FinalFlush, Logging, J!Free, Waiting
  <2>2. CASE proc[a].taken < proc[a].last
    BY <1>4, <2>1, <2>2, FlushSound DEF J!FinalFlush
  <2>3. CASE ~(proc[a].taken < proc[a].last)
    <3> DEFINE new == [proc[a] EXCEPT !.phase = "exited", !.closed = proc[a].last]
    <3>1. /\ new \in J!Process /\ new.taken = proc[a].taken /\ new.seq = proc[a].seq
          /\ new.last = proc[a].last /\ new.phase = "exited" /\ new.closed = proc[a].last
      BY <1>0, <2>1 DEF J!Process
    <3>2. /\ proc' = [proc EXCEPT ![a] = new]
          /\ UNCHANGED <<post, log_token, log_calls, stored, marks, warned, replayed, log_failures>>
      BY <1>4, <2>3 DEF J!FinalFlush, J!Exited, J!server
    <3>3. new.closed = new.taken /\ new.taken <= new.last
      BY <2>1, <2>3, <3>1, Constants
    <3> HIDE DEF new
    <3> QED BY <2>1, <3>1, <3>2, <3>3, LogProcSound DEF Logging
  <2> QED BY <2>2, <2>3
<1>5. \A q \in log_calls : /\ q \in LogCall /\ q.b \in LogBatch /\ J!Entries(q.b) \subseteq J!Entry
                           /\ Left(q, log_calls \ {q})
                           /\ Left(q, (log_calls \ {q}) \cup {[q EXCEPT !.open = FALSE]})
  BY <1>0, LogFields, RangeFields DEF Left
<1>6. /\ stored \subseteq J!Entry /\ replayed \subseteq J!Entry /\ log_failures \in 0..MaxFailures
      /\ log_failures < MaxFailures => log_failures + 1 \in 0..MaxFailures
  BY <1>0, Constants DEF LogTyped
<1>7. ASSUME NEW q \in log_calls, J!Timeout(q) \/ J!Lose(q) PROVE LogsInv'
  <2>1. /\ UNCHANGED <<log_token, stored, marks, replayed>> /\ log_failures' \in 0..MaxFailures
        /\ \E rest : Left(q, rest) /\ J!Answer(q, "error", rest)
    BY <1>5, <1>6, <1>7 DEF J!Timeout, J!Lose
  <2> QED BY <1>6, <2>1, LogAnswerKeeps
<1>8. ASSUME NEW q \in log_calls, J!Check(q) PROVE LogsInv'
  <2>0. UNCHANGED <<log_token, stored, marks, log_failures>>
    BY <1>8 DEF J!Check
  <2>1. CASE J!Answer(q, "refused", log_calls \ {q}) /\ UNCHANGED replayed
    BY <2>0, <2>1, <1>5, <1>6, LogAnswerKeeps
  <2>2. CASE /\ J!Answer(q, "ok", log_calls \ {q})
             /\ replayed' = IF \E x \in marks : x[1] = q.b.seq /\ x[2] = q.b.a
                            THEN replayed ELSE replayed \cup J!Entries(q.b)
    <3>1. (\E x \in marks : x[1] = q.b.seq /\ x[2] = q.b.a) => <<q.b.seq, q.b.a>> \in marks
      BY <1>0 DEF LogTyped
    <3>2. J!Entries(q.b) \subseteq stored \cup replayed'
      BY <2>2, <3>1, <1>0 DEF MarkedStored
    <3>3. replayed \subseteq replayed' /\ replayed' \subseteq J!Entry
      BY <2>2, <1>5, <1>6
    <3> QED BY <2>0, <2>2, <3>2, <3>3, <1>5, <1>6, LogAnswerKeeps
  <2>3. CASE /\ log_calls' = (log_calls \ {q}) \cup {[q EXCEPT !.step = "write"]}
             /\ UNCHANGED <<proc, post, warned, replayed>>
    BY <2>0, <2>3, <1>6, LogStepSound
  <2>4. LET others == {m[2] : m \in {x \in marks : x[1] = q.b.seq}}
        IN  q.b.a \in others <=> \E x \in marks : x[1] = q.b.seq /\ x[2] = q.b.a
    OBVIOUS
  <2> QED BY <1>8, <2>1, <2>2, <2>3, <2>4 DEF J!Check
<1>9. ASSUME NEW q \in log_calls, J!Write(q) PROVE LogsInv'
  <2>1. /\ stored' = stored \cup J!Entries(q.b)
        /\ log_calls' = (log_calls \ {q}) \cup {[q EXCEPT !.step = "mark"]}
        /\ UNCHANGED <<proc, post, log_token, marks, warned, replayed, log_failures>>
    BY <1>9 DEF J!Write
  <2> QED BY <1>5, <1>6, <2>1, LogStepSound
<1>10. ASSUME NEW q \in log_calls, J!Mark(q) PROVE LogsInv'
  <2>1. /\ q.step = "mark" /\ marks' = marks \cup {<<q.b.seq, q.b.a>>}
        /\ J!Answer(q, "ok", log_calls \ {q})
        /\ UNCHANGED <<log_token, stored, replayed, log_failures>>
    BY <1>10 DEF J!Mark
  <2>2. J!Entries(q.b) \subseteq stored
    BY <1>0, <2>1 DEF MarkedStored
  <2> QED BY <1>5, <1>6, <2>1, <2>2, LogAnswerKeeps
<1>11. CASE UNCHANGED J!vars
  BY <1>11 DEF J!vars, LogsInv, LogTyped, LogsSound, LogWaits, OneBatch, Counted, MarkedStored, TakenTold,
               Told, NotYet, Waiting
<1>12. ASSUME NEW a \in J!Runs, J!Kill(a) PROVE LogsInv'
  BY <1>12, LogKillSound
<1>13. CASE J!Retry
  BY <1>13, LogRetrySound
<1> QED BY <1>1, <1>2, <1>3, <1>4, <1>7, <1>8, <1>9, <1>10, <1>11, <1>12, <1>13 DEF J!Next

\* No entry of a process that ended by itself is lost in silence.
LEMMA LogsRight == J!Spec => [](J!TypeOK /\ EntriesAccounted)
<1>1. J!Init => LogsInv
  <2> SUFFICES ASSUME J!Init PROVE LogsInv
    OBVIOUS
  <2>1. /\ J!NoProcess \in J!Process /\ J!Began(1) \in J!Process
        /\ J!NoProcess.taken = 0 /\ J!Began(1).taken = 0 /\ J!NoProcess.last = 0 /\ J!Began(1).last = 0
        /\ J!NoProcess.phase = "none" /\ J!Began(1).phase = "running"
    BY Constants DEF J!NoProcess, J!Began, J!Process
  <2>2. 1 \in J!Runs /\ \A a \in J!Runs : a > 1 => a # 1
    BY Constants DEF J!Runs
  <2>3. /\ \A a \in J!Runs : /\ proc[a] = IF a = 1 THEN J!Began(1) ELSE J!NoProcess
                             /\ ~Waiting(a)
      /\ log_token = 1 /\ log_calls = {} /\ stored = {} /\ marks = {} /\ warned = {} /\ replayed = {}
      /\ log_failures = 0 /\ proc \in [J!Runs -> J!Process] /\ post \in [J!Runs -> LogPost \cup {J!NoPost}]
    BY <2>1 DEF J!Init, Waiting
  <2>4. LogTyped
    BY <2>1, <2>2, <2>3, Constants DEF LogTyped
  <2>5. 1..0 = {}
    OBVIOUS
  <2>6. LogsSound
    BY <2>1, <2>2, <2>3, <2>5 DEF LogsSound, LogWaits, OneBatch, Counted, MarkedStored, TakenTold, NotYet
  <2> QED BY <2>4, <2>6 DEF LogsInv
<1>2. LogsInv /\ [J!Next]_J!vars => LogsInv'
  BY LogsNext
<1>3. LogsInv => J!TypeOK /\ EntriesAccounted
  BY LogTypesGiven DEF LogsInv, LogsSound, TakenTold, Told, EntriesAccounted, J!EntriesAccounted
<1> QED BY <1>1, <1>2, <1>3, PTL DEF J!Spec

-----------------------------------------------------------------------------
(* Secrets. *)

\* No thread has a value that is long enough and not registered, whatever other threads
\* look up meanwhile.
LEMMA SecretsTyped == S!Spec => []S!TypeOK
<1> DEFINE Row == [pc: {"idle", "group", "association", "secret", "provider", "load", "resolve"},
                   group: Groups \cup {Missing}, secret: S!SecretIds \cup {Missing}]
<1>0. S!Idle \in Row
  BY DEF S!Idle
<1>1. S!Init => S!TypeOK
  <2> SUFFICES ASSUME S!Init PROVE S!TypeOK
    OBVIOUS
  <2>1. held \in [Groups -> S!SecretIds] /\ thread \in [Threads -> Row] /\ edits = 0
    BY <1>0 DEF S!Init
  <2>2. held \in [Groups -> S!SecretIds \cup {Missing, Gone}]
    BY <2>1
  <2>3. {v \in got : Len(v) >= MinLength} \subseteq registered
    BY DEF S!Init
  <2>4. known \subseteq Builtin \cup Plugins /\ loaded \in BOOLEAN /\ wrapped \in BOOLEAN
    BY DEF S!Init
  <2> QED BY <2>1, <2>2, <2>3, <2>4, Constants DEF S!TypeOK
<1>2. S!TypeOK /\ [S!Next]_S!vars => S!TypeOK'
  <2> SUFFICES ASSUME S!TypeOK, [S!Next]_S!vars PROVE S!TypeOK'
    OBVIOUS
  <2>1. \A t \in Threads, pc \in {"idle", "group", "association", "secret", "provider", "load", "resolve"} :
          /\ S!Goto(t, pc) => thread' \in [Threads -> Row]
          /\ S!Raise(t) => thread' \in [Threads -> Row]
    <3>1. thread \in [Threads -> Row]
      BY DEF S!TypeOK
    <3> QED BY <1>0, <3>1 DEF S!Goto, S!Raise
  <2>2. thread \in [Threads -> Row]
    BY DEF S!TypeOK
  <2>3. ASSUME thread' \in [Threads -> Row], loaded' \in BOOLEAN,
               UNCHANGED <<held, known, registered, got, wrapped, edits>>
        PROVE  S!TypeOK'
    BY <2>3 DEF S!TypeOK
  <2> HIDE DEF Row
  <2>4. ASSUME NEW t \in Threads, NEW g \in Groups, S!Get(t, g) PROVE S!TypeOK'
    <3>1. [S!Idle EXCEPT !.pc = "group", !.group = g] \in Row
      BY DEF S!Idle, Row
    <3> QED BY <2>2, <2>3, <2>4, <3>1 DEF S!Get, S!Directory, S!TypeOK
  <2>5. ASSUME NEW t \in Threads, S!LookupGroup(t) PROVE S!TypeOK'
    BY <2>1, <2>3, <2>5 DEF S!LookupGroup, S!Directory, S!TypeOK
  <2>6. ASSUME NEW t \in Threads, S!LookupAssociation(t) PROVE S!TypeOK'
    <3>1. CASE S!Raise(t)
      BY <2>1, <2>3, <2>6, <3>1 DEF S!LookupAssociation, S!Directory, S!TypeOK
    <3>2. CASE \E s \in S!SecretIds : thread' = [thread EXCEPT ![t].pc = "secret", ![t].secret = s]
      <4>1. thread' \in [Threads -> Row]
        BY <2>2, <3>2 DEF Row
      <4> QED BY <4>1, <2>3, <2>6 DEF S!LookupAssociation, S!Directory, S!TypeOK
    <3> QED BY <2>6, <3>1, <3>2 DEF S!LookupAssociation
  <2>7. ASSUME NEW t \in Threads, NEW fails \in BOOLEAN, S!LookupSecret(t, fails) PROVE S!TypeOK'
    BY <2>1, <2>3, <2>7 DEF S!LookupSecret, S!Directory, S!TypeOK
  <2>8. ASSUME NEW t \in Threads, S!FindProvider(t) PROVE S!TypeOK'
    <3>1. \E pc \in {"idle", "load", "resolve"} : S!Goto(t, pc)
      BY <2>8 DEF S!FindProvider
    <3>2. loaded' \in BOOLEAN
      BY <2>8 DEF S!FindProvider
    <3> QED BY <2>1, <2>3, <2>8, <3>1, <3>2 DEF S!FindProvider
  <2>9. ASSUME NEW t \in Threads, S!LoadEntryPoints(t) PROVE S!TypeOK'
    <3>1. thread' \in [Threads -> Row]
      BY <2>1, <2>9 DEF S!LoadEntryPoints
    <3> QED BY <2>9, <3>1 DEF S!LoadEntryPoints, S!TypeOK, Row
  <2>10. ASSUME NEW t \in Threads, S!Resolve(t) PROVE S!TypeOK'
    <3>1. thread' \in [Threads -> Row]
      BY <2>1, <2>10 DEF S!Resolve
    <3>2. {v \in got : Len(v) >= MinLength}' \subseteq registered'
      BY <2>10 DEF S!Resolve, S!TypeOK
    <3> QED BY <2>10, <3>1, <3>2 DEF S!Resolve, S!TypeOK, Row
  <2>11. ASSUME NEW g \in Groups, NEW s \in S!SecretIds \cup {Missing, Gone}, S!Edit(g, s) PROVE S!TypeOK'
    <3>1. edits + 1 \in 0..MaxEdits
      BY <2>11, Constants DEF S!Edit, S!TypeOK
    <3>2. [held EXCEPT ![g] = s] \in [Groups -> S!SecretIds \cup {Missing, Gone}]
      BY DEF S!TypeOK
    <3> QED BY <2>11, <3>1, <3>2 DEF S!Edit, S!TypeOK
  <2>12. ASSUME NEW t, NEW redacted, NEW v, NEW before, NEW after, S!Write(t, redacted, before, v, after)
         PROVE  S!TypeOK'
    BY <2>12 DEF S!Write, S!TypeOK, S!Directory
  <2>13. CASE S!Restore
    BY <2>13 DEF S!Restore, S!TypeOK, S!Directory
  <2>14. CASE UNCHANGED S!vars
    BY <2>14 DEF S!vars, S!TypeOK
  <2> QED BY <2>4, <2>5, <2>6, <2>7, <2>8, <2>9, <2>10, <2>11, <2>12, <2>13, <2>14 DEF S!Next
<1> QED BY <1>1, <1>2, PTL DEF S!Spec

\* A set that is closed under counting up holds all numbers to the end.
LEMMA CountUp ==
  ASSUME NEW N \in Nat, NEW T, 0 \in T, \A n \in 0..N : n + 1 <= N /\ n \in T => n + 1 \in T
  PROVE  \A n \in 0..N : n \in T
<1> SUFFICES ASSUME NEW n \in 0..N, n \notin T PROVE FALSE
  OBVIOUS
<1> DEFINE M == {k \in 0..N : k \notin T}
<1>1. M \subseteq Nat /\ M # {}
  OBVIOUS
<1>2. PICK x \in M : \A y \in M : x <= y
  BY <1>1, LeastOf
<1>3. x # 0 /\ x - 1 \in 0..N /\ x - 1 < x /\ x - 1 + 1 = x
  OBVIOUS
<1>4. x - 1 \in T
  BY <1>2, <1>3
<1> QED BY <1>3, <1>4

\* The passes of a replacement are those of its definition.
LEMMA LeftExists ==
  ASSUME NEW v, NEW text, NEW N \in Nat
  PROVE  \E f : f = [n \in 0..N |-> IF n = 0 THEN text ELSE S!Once(v, f[n - 1])]
<1> DEFINE Is(f, m) == f = [n \in 0..m |-> IF n = 0 THEN text ELSE S!Once(v, f[n - 1])]
<1> DEFINE T == {m \in 0..N : \E f : Is(f, m)}
<1>1. 0 \in T
  <2>1. Is([n \in 0..0 |-> text], 0)
    OBVIOUS
  <2> HIDE DEF Is
  <2>2. \E f : Is(f, 0)
    BY <2>1
  <2> QED BY <2>2
<1>2. ASSUME NEW m \in 0..N, m + 1 <= N, m \in T PROVE m + 1 \in T
  <2>1. PICK f : Is(f, m)
    BY <1>2
  <2> DEFINE g == [n \in 0..(m + 1) |-> IF n = m + 1 THEN S!Once(v, f[m]) ELSE f[n]]
  <2>2. Is(g, m + 1)
    <3>1. ASSUME NEW n \in 0..(m + 1)
          PROVE  g[n] = IF n = 0 THEN text ELSE S!Once(v, g[n - 1])
      BY <2>1
    <3> QED BY <3>1
  <2> HIDE DEF Is, g
  <2>3. \E h : Is(h, m + 1)
    BY <2>2
  <2> QED BY <1>2, <2>3
<1> HIDE DEF T
<1>3. \A n \in 0..N : n \in T
  BY <1>1, <1>2, CountUp
<1> QED BY <1>3 DEF T

LEMMA ReplacedIs ==
  ASSUME NEW v, NEW text, Len(text) \in Nat
  PROVE  \E f : /\ f[0] = text /\ S!Replaced(v, text) = f[Len(text)]
                /\ \A n \in 1..Len(text) : f[n] = S!Once(v, f[n - 1])
<1> DEFINE g == CHOOSE left : left = [n \in 0..Len(text) |-> IF n = 0 THEN text ELSE S!Once(v, left[n - 1])]
<1>1. g = [n \in 0..Len(text) |-> IF n = 0 THEN text ELSE S!Once(v, g[n - 1])]
  BY LeftExists
<1>2. S!Replaced(v, text) = g[Len(text)]
  BY DEF S!Replaced
<1> HIDE DEF g
<1>3. g[0] = text /\ \A n \in 1..Len(text) : g[n] = S!Once(v, g[n - 1])
  BY <1>1
<1> QED BY <1>2, <1>3

\* A value occurs in a text where its fragments are.
LEMMA AtIs ==
  ASSUME NEW X, NEW v \in Seq(X), NEW x \in Seq(X), Len(v) >= 1, NEW p
  PROVE  p \in S!At(v, x) <=> /\ p \in 1..(Len(x) - Len(v) + 1)
                             /\ \A k \in 1..Len(v) : x[p + k - 1] = v[k]
<1>1. ASSUME NEW q \in 1..(Len(x) - Len(v) + 1)
      PROVE  SubSeq(x, q, q + Len(v) - 1) = v <=> \A k \in 1..Len(v) : x[q + k - 1] = v[k]
  <2>1. Len(v) \in Nat /\ Len(x) \in Nat /\ q \in Nat
    OBVIOUS
  <2>2. /\ SubSeq(x, q, q + Len(v) - 1) \in Seq(X)
        /\ Len(SubSeq(x, q, q + Len(v) - 1)) = Len(v)
        /\ \A k \in 1..Len(v) : SubSeq(x, q, q + Len(v) - 1)[k] = x[q + k - 1]
    BY <2>1
  <2> DEFINE y == SubSeq(x, q, q + Len(v) - 1)
  <2> HIDE DEF y
  <2>3. y \in Seq(X) /\ Len(y) = Len(v) /\ \A k \in 1..Len(v) : y[k] = x[q + k - 1]
    BY <2>2 DEF y
  <2>4. y = v <=> \A k \in 1..Len(v) : y[k] = v[k]
    BY <2>3, SeqEqual
  <2> QED BY <2>3, <2>4 DEF y
<1> QED BY <1>1 DEF S!At

\* One replacement takes the first occurrence out and leaves the rest in its order.
Spliced(w, x, y, i) ==
  /\ Len(y) = Len(x) - Len(w) + 1
  /\ \A k \in 1..(i - 1) : y[k] = x[k]
  /\ y[i] = Mask
  /\ \A k \in (i + 1)..Len(y) : y[k] = x[k + Len(w) - 1]

LEMMA OnceIs ==
  ASSUME NEW X, Mask \in X, NEW w \in Seq(X), NEW x \in Seq(X), Len(w) >= 1, S!Within(w, x)
  PROVE  /\ S!Once(w, x) \in Seq(X)
         /\ \E i \in S!At(w, x) : /\ \A j \in S!At(w, x) : i <= j
                                  /\ Spliced(w, x, S!Once(w, x), i)
<1>1. S!At(w, x) \subseteq Nat /\ S!At(w, x) # {}
  BY DEF S!At, S!Within
<1>2. \E i \in S!At(w, x) : \A j \in S!At(w, x) : i <= j
  BY <1>1, LeastOf
<1> DEFINE i == S!Min(S!At(w, x))
<1>3. i \in S!At(w, x) /\ \A j \in S!At(w, x) : i <= j
  BY <1>2 DEF S!Min
<1>4. S!Once(w, x) = SubSeq(x, 1, i - 1) \o <<Mask>> \o SubSeq(x, i + Len(w), Len(x))
  BY DEF S!Once, S!ReplaceSubSeqAt
<1> HIDE DEF i
<1>5. i \in 1..(Len(x) - Len(w) + 1) /\ Len(x) \in Nat /\ Len(w) \in Nat
  BY <1>3 DEF S!At
<1> DEFINE a == SubSeq(x, 1, i - 1)
           c == SubSeq(x, i + Len(w), Len(x))
<1>6. a \in Seq(X) /\ Len(a) = i - 1 /\ \A k \in 1..(i - 1) : a[k] = x[k]
  BY <1>5
<1>7. /\ c \in Seq(X) /\ Len(c) = Len(x) - Len(w) - i + 1
      /\ \A k \in 1..Len(c) : c[k] = x[k + i + Len(w) - 1]
  BY <1>5
<1>8. S!Once(w, x) = a \o <<Mask>> \o c
  BY <1>4
<1> HIDE DEF a, c
<1> DEFINE y == S!Once(w, x)
<1>9. y \in Seq(X) /\ Len(y) = Len(x) - Len(w) + 1
  BY <1>5, <1>6, <1>7, <1>8
<1>10. (\A k \in 1..(i - 1) : y[k] = a[k]) /\ y[i] = Mask /\ \A k \in (i + 1)..Len(y) : y[k] = c[k - i]
  BY <1>5, <1>6, <1>7, <1>8
<1> HIDE DEF y
<1>11. \A k \in (i + 1)..Len(y) : k - i \in 1..Len(c) /\ (k - i) + i + Len(w) - 1 = k + Len(w) - 1
  <2> SUFFICES ASSUME NEW k \in (i + 1)..Len(y)
               PROVE  k - i \in 1..Len(c) /\ (k - i) + i + Len(w) - 1 = k + Len(w) - 1
    OBVIOUS
  <2>1. /\ i \in Int /\ Len(x) \in Int /\ Len(w) \in Int /\ k \in Int
        /\ i + 1 <= k /\ k <= Len(x) - Len(w) + 1 /\ Len(c) = Len(x) - Len(w) - i + 1
    BY <1>5, <1>7, <1>9
  <2> QED BY <2>1
<1>12. \A k \in (i + 1)..Len(y) : y[k] = x[k + Len(w) - 1]
  BY <1>7, <1>10, <1>11
<1>13. \A k \in 1..(i - 1) : y[k] = x[k]
  BY <1>6, <1>10
<1>14. Spliced(w, x, y, i)
  BY <1>9, <1>10, <1>12, <1>13 DEF Spliced
<1> QED BY <1>3, <1>9, <1>14 DEF y

\* The mask is in no value, so a replacement brings no value about.
LEMMA NoneNew ==
  ASSUME NEW X, Mask \in X, NEW w \in Seq(X), NEW v \in Seq(X), NEW x \in Seq(X),
         Len(w) >= 1, Len(v) >= 1, Mask \notin S!Fragments(v), ~S!Within(v, x)
  PROVE  S!Once(w, x) \in Seq(X) /\ ~S!Within(v, S!Once(w, x))
<1>1. CASE ~S!Within(w, x)
  BY <1>1 DEF S!Once
<1>2. CASE S!Within(w, x)
  <2> DEFINE y == S!Once(w, x)
  <2> HIDE DEF y
  <2>first. PICK i \in S!At(w, x) : (\A j \in S!At(w, x) : i <= j) /\ Spliced(w, x, y, i)
    BY <1>2, OnceIs DEF y
  <2>text. y \in Seq(X)
    BY <1>2, OnceIs DEF y
  <2>1. /\ i \in S!At(w, x)
        /\ y \in Seq(X) /\ Len(y) = Len(x) - Len(w) + 1
        /\ \A k \in 1..(i - 1) : y[k] = x[k]
        /\ y[i] = Mask
        /\ \A k \in (i + 1)..Len(y) : y[k] = x[k + Len(w) - 1]
    BY <2>first, <2>text DEF Spliced
  <2>2. i \in 1..(Len(x) - Len(w) + 1) /\ {Len(x), Len(w), Len(v), Len(y)} \subseteq Nat
    BY <2>1, AtIs
  <2>3. ASSUME NEW p \in S!At(v, y) PROVE FALSE
    <3>1. p \in 1..(Len(y) - Len(v) + 1) /\ \A k \in 1..Len(v) : y[p + k - 1] = v[k]
      BY <2>1, AtIs
    <3>2. CASE p + Len(v) - 1 < i
      <4>1. p \in 1..(Len(x) - Len(v) + 1)
        BY <2>1, <2>2, <3>1, <3>2
      <4>2. \A k \in 1..Len(v) : p + k - 1 \in 1..(i - 1)
        BY <2>2, <3>1, <3>2
      <4>3. \A k \in 1..Len(v) : x[p + k - 1] = v[k]
        BY <2>1, <3>1, <4>2
      <4> QED BY <4>1, <4>3, AtIs DEF S!Within
    <3>3. CASE p > i
      <4>1. p + Len(w) - 1 \in 1..(Len(x) - Len(v) + 1)
        BY <2>1, <2>2, <3>1, <3>3
      <4>2. ASSUME NEW k \in 1..Len(v) PROVE x[(p + Len(w) - 1) + k - 1] = v[k]
        <5>1. p + k - 1 \in (i + 1)..Len(y)
          BY <2>2, <3>1, <3>3
        <5>2. (p + k - 1) + Len(w) - 1 = (p + Len(w) - 1) + k - 1
          BY <2>2, <3>1
        <5> QED BY <2>1, <3>1, <5>1, <5>2
      <4> QED BY <4>1, <4>2, AtIs DEF S!Within
    <3>4. CASE p <= i /\ i <= p + Len(v) - 1
      <4>1. i - p + 1 \in 1..Len(v) /\ p + (i - p + 1) - 1 = i
        BY <2>2, <3>1, <3>4
      <4>2. v[i - p + 1] = Mask
        BY <2>1, <3>1, <4>1
      <4> QED BY <4>1, <4>2 DEF S!Fragments
    <3> QED BY <2>2, <3>1, <3>2, <3>3, <3>4
  <2> QED BY <2>1, <2>3 DEF S!Within, y
<1> QED BY <1>1, <1>2

LEMMA ReplacedClean ==
  ASSUME NEW X, Mask \in X, NEW v \in Seq(X), NEW text \in Seq(X),
         Len(v) >= 1, Mask \notin S!Fragments(v)
  PROVE  S!Replaced(v, text) \in Seq(X) /\ ~S!Within(v, S!Replaced(v, text))
<1>0. Len(text) \in Nat /\ Len(v) \in Nat
  OBVIOUS
<1>1. PICK f : /\ f[0] = text /\ S!Replaced(v, text) = f[Len(text)]
               /\ \A n \in 1..Len(text) : f[n] = S!Once(v, f[n - 1])
  BY <1>0, ReplacedIs
<1> DEFINE Ok(n) == /\ f[n] \in Seq(X)
                    /\ S!Within(v, f[n]) =>
                          \E b \in Nat : /\ \A p \in S!At(v, f[n]) : p > b
                                         /\ Len(f[n]) - b <= Len(text) - n
           T == {n \in 0..Len(text) : Ok(n)}
<1>2. Ok(0)
  <2>1. \A p \in S!At(v, text) : p > 0
    BY AtIs
  <2> QED BY <1>0, <1>1, <2>1
<1>3. ASSUME NEW n \in 0..Len(text), n + 1 <= Len(text), Ok(n) PROVE Ok(n + 1)
  <2> DEFINE x == f[n]
             y == f[n + 1]
  <2>1. y = S!Once(v, x)
    BY <1>0, <1>1, <1>3
  <2>2. x \in Seq(X)
    BY <1>3
  <2> HIDE DEF x, y
  <2>3. CASE ~S!Within(v, x)
    BY <2>1, <2>2, <2>3, NoneNew DEF y
  <2>4. CASE S!Within(v, x)
    <3>1. PICK b \in Nat : (\A p \in S!At(v, x) : p > b) /\ Len(x) - b <= Len(text) - n
      BY <1>3, <2>4 DEF x
    <3>first. PICK i \in S!At(v, x) : (\A j \in S!At(v, x) : i <= j) /\ Spliced(v, x, y, i)
      BY <2>1, <2>2, <2>4, OnceIs
    <3>text. y \in Seq(X)
      BY <2>1, <2>2, <2>4, OnceIs
    <3>2. /\ i \in S!At(v, x) /\ \A j \in S!At(v, x) : i <= j
          /\ y \in Seq(X) /\ Len(y) = Len(x) - Len(v) + 1
          /\ \A k \in 1..(i - 1) : y[k] = x[k]
          /\ y[i] = Mask
      BY <3>first, <3>text DEF Spliced
    <3>3. i \in 1..(Len(x) - Len(v) + 1) /\ i > b /\ {Len(x), Len(y)} \subseteq Nat
      BY <2>2, <3>1, <3>2, AtIs
    <3>4. ASSUME NEW p \in S!At(v, y), p <= i PROVE FALSE
      <4>1. p \in 1..(Len(y) - Len(v) + 1) /\ \A k \in 1..Len(v) : y[p + k - 1] = v[k]
        BY <3>2, AtIs
      <4>2. CASE i <= p + Len(v) - 1
        <5>1. i - p + 1 \in 1..Len(v) /\ p + (i - p + 1) - 1 = i
          BY <1>0, <3>3, <3>4, <4>1, <4>2
        <5>2. v[i - p + 1] = Mask
          BY <3>2, <4>1, <5>1
        <5> QED BY <5>1, <5>2 DEF S!Fragments
      <4>3. CASE p + Len(v) - 1 < i
        <5>1. p \in 1..(Len(x) - Len(v) + 1)
          BY <1>0, <3>2, <3>3, <4>1, <4>3
        <5>2. \A k \in 1..Len(v) : p + k - 1 \in 1..(i - 1)
          BY <1>0, <3>3, <4>1, <4>3
        <5>3. \A k \in 1..Len(v) : x[p + k - 1] = v[k]
          BY <3>2, <4>1, <5>2
        <5>4. p \in S!At(v, x)
          BY <2>2, <5>1, <5>3, AtIs
        <5>5. i <= p
          BY <3>2, <5>4
        <5> QED BY <1>0, <3>3, <4>1, <4>3, <5>5
      <4> QED BY <1>0, <3>3, <4>1, <4>2, <4>3
    <3>5. \A p \in S!At(v, y) : p > i
      <4>1. \A p \in S!At(v, y) : p \in Nat
        BY DEF S!At
      <4> QED BY <3>3, <3>4, <4>1
    <3>6. Len(y) - i <= Len(text) - (n + 1) /\ i \in Nat
      BY <1>0, <3>1, <3>2, <3>3
    <3> QED BY <3>2, <3>5, <3>6 DEF y
  <2> QED BY <2>3, <2>4
<1> HIDE DEF Ok
<1>4. 0 \in T /\ \A n \in 0..Len(text) : n + 1 <= Len(text) /\ n \in T => n + 1 \in T
  BY <1>0, <1>2, <1>3
<1> HIDE DEF T
<1>5. Len(text) \in T
  <2>1. \A n \in 0..Len(text) : n \in T
    BY <1>0, <1>4, CountUp
  <2> QED BY <1>0, <2>1
<1>6. Ok(Len(text))
  BY <1>5 DEF T
<1>7. ASSUME S!Within(v, f[Len(text)]) PROVE FALSE
  <2> DEFINE z == f[Len(text)]
  <2>1. PICK b \in Nat : (\A p \in S!At(v, z) : p > b) /\ Len(z) - b <= Len(text) - Len(text)
    BY <1>6, <1>7 DEF Ok
  <2>2. z \in Seq(X)
    BY <1>6 DEF Ok
  <2> HIDE DEF z
  <2>3. PICK p \in S!At(v, z) : TRUE
    BY <1>7 DEF S!Within, z
  <2>4. p \in 1..(Len(z) - Len(v) + 1)
    BY <2>2, AtIs
  <2>5. p > b /\ Len(z) - b <= 0 /\ Len(z) \in Nat
    BY <1>0, <2>1, <2>2, <2>3
  <2> QED BY <1>0, <2>4, <2>5
<1> QED BY <1>1, <1>6, <1>7 DEF Ok

\* A replacement brings nothing into a text but the mask.
LEMMA OnceBrings ==
  ASSUME NEW X, Mask \in X, NEW w \in Seq(X), NEW x \in Seq(X), Len(w) >= 1
  PROVE  S!Once(w, x) \in Seq(X) /\ S!Fragments(S!Once(w, x)) \subseteq S!Fragments(x) \cup {Mask}
<1>1. CASE ~S!Within(w, x)
  BY <1>1 DEF S!Once
<1>2. CASE S!Within(w, x)
  <2> DEFINE y == S!Once(w, x)
  <2> HIDE DEF y
  <2>first. PICK i \in S!At(w, x) : (\A j \in S!At(w, x) : i <= j) /\ Spliced(w, x, y, i)
    BY <1>2, OnceIs DEF y
  <2>text. y \in Seq(X)
    BY <1>2, OnceIs DEF y
  <2>1. /\ i \in S!At(w, x)
        /\ y \in Seq(X) /\ Len(y) = Len(x) - Len(w) + 1
        /\ \A k \in 1..(i - 1) : y[k] = x[k]
        /\ y[i] = Mask
        /\ \A k \in (i + 1)..Len(y) : y[k] = x[k + Len(w) - 1]
    BY <2>first, <2>text DEF Spliced
  <2>2. i \in 1..(Len(x) - Len(w) + 1) /\ {Len(x), Len(w), Len(y)} \subseteq Nat
    BY <2>1, AtIs
  <2>3. ASSUME NEW k \in 1..Len(y) PROVE y[k] \in S!Fragments(x) \cup {Mask}
    <3>1. CASE k < i
      <4>1. k \in 1..(i - 1) /\ k \in 1..Len(x)
        BY <2>2, <3>1
      <4> QED BY <2>1, <4>1 DEF S!Fragments
    <3>2. CASE k > i
      <4>1. k \in (i + 1)..Len(y) /\ k + Len(w) - 1 \in 1..Len(x)
        BY <2>1, <2>2, <3>2
      <4> QED BY <2>1, <4>1 DEF S!Fragments
    <3> QED BY <2>1, <2>2, <3>1, <3>2
  <2>4. DOMAIN y = 1..Len(y)
    BY <2>1
  <2>5. \A e \in S!Fragments(y) : \E k \in 1..Len(y) : e = y[k]
    BY <2>4 DEF S!Fragments
  <2>6. S!Fragments(y) \subseteq S!Fragments(x) \cup {Mask}
    BY <2>3, <2>5
  <2> QED BY <2>1, <2>6 DEF y
<1> QED BY <1>1, <1>2

LEMMA ReplacedBrings ==
  ASSUME NEW X, Mask \in X, NEW w \in Seq(X), NEW text \in Seq(X), Len(w) >= 1,
         NEW A, S!Fragments(text) \subseteq A \cup {Mask}
  PROVE  S!Replaced(w, text) \in Seq(X) /\ S!Fragments(S!Replaced(w, text)) \subseteq A \cup {Mask}
<1>0. Len(text) \in Nat
  OBVIOUS
<1>1. PICK f : /\ f[0] = text /\ S!Replaced(w, text) = f[Len(text)]
               /\ \A n \in 1..Len(text) : f[n] = S!Once(w, f[n - 1])
  BY <1>0, ReplacedIs
<1> DEFINE T == {n \in 0..Len(text) : f[n] \in Seq(X) /\ S!Fragments(f[n]) \subseteq A \cup {Mask}}
<1>2. ASSUME NEW n \in 0..Len(text), n + 1 <= Len(text), n \in T PROVE n + 1 \in T
  <2>1. f[n + 1] = S!Once(w, f[n]) /\ n + 1 \in 0..Len(text)
    BY <1>0, <1>1, <1>2
  <2> QED BY <1>2, <2>1, OnceBrings
<1>3. 0 \in T
  BY <1>0, <1>1
<1> HIDE DEF T
<1>4. \A n \in 0..Len(text) : n \in T
  BY <1>0, <1>2, <1>3, CountUp
<1> QED BY <1>0, <1>1, <1>4 DEF T

LEMMA ReplacedNone ==
  ASSUME NEW w, NEW text, Len(text) \in Nat, ~S!Within(w, text)
  PROVE  S!Replaced(w, text) = text
<1>1. PICK f : /\ f[0] = text /\ S!Replaced(w, text) = f[Len(text)]
               /\ \A n \in 1..Len(text) : f[n] = S!Once(w, f[n - 1])
  BY ReplacedIs
<1> DEFINE T == {n \in 0..Len(text) : f[n] = text}
<1>2. ASSUME NEW n \in 0..Len(text), n + 1 <= Len(text), n \in T PROVE n + 1 \in T
  <2>1. f[n + 1] = S!Once(w, f[n]) /\ n + 1 \in 0..Len(text)
    BY <1>1, <1>2
  <2> QED BY <1>2, <2>1 DEF S!Once
<1>3. 0 \in T
  BY <1>1
<1> HIDE DEF T
<1>4. \A n \in 0..Len(text) : n \in T
  BY <1>2, <1>3, CountUp
<1> QED BY <1>1, <1>4 DEF T

\* What a job writes, fragment by fragment.
LEMMA TextParts ==
  ASSUME NEW X, NEW before \in Seq(X), NEW v \in Seq(X), NEW after \in Seq(X)
  PROVE  LET t == before \o v \o after
             A == S!Fragments(before \o after) IN
         /\ t \in Seq(X) /\ Len(t) = Len(before) + Len(v) + Len(after)
         /\ \A k \in 1..Len(before) : t[k] \in A
         /\ \A k \in 1..Len(v) : t[Len(before) + k] = v[k]
         /\ \A k \in (Len(before) + Len(v) + 1)..Len(t) : t[k] \in A
<1> DEFINE t == before \o v \o after
           u == before \o after
<1>1. t \in Seq(X) /\ Len(t) = Len(before) + Len(v) + Len(after)
  OBVIOUS
<1>2. u \in Seq(X) /\ Len(u) = Len(before) + Len(after)
  OBVIOUS
<1>3. /\ \A k \in 1..Len(before) : t[k] = before[k]
      /\ \A k \in 1..Len(v) : t[Len(before) + k] = v[k]
      /\ \A k \in (Len(before) + Len(v) + 1)..Len(t) : t[k] = after[k - Len(before) - Len(v)]
  OBVIOUS
<1>4. /\ \A k \in 1..Len(before) : u[k] = before[k]
      /\ \A k \in (Len(before) + 1)..Len(u) : u[k] = after[k - Len(before)]
  OBVIOUS
<1> HIDE DEF t, u
<1>5. DOMAIN u = 1..Len(u) /\ {Len(before), Len(v), Len(after)} \subseteq Nat
  BY <1>2
<1>6. ASSUME NEW k \in 1..Len(before) PROVE t[k] \in S!Fragments(u)
  <2>1. k \in DOMAIN u
    BY <1>2, <1>5
  <2> QED BY <1>3, <1>4, <2>1 DEF S!Fragments
<1>7. ASSUME NEW k \in (Len(before) + Len(v) + 1)..Len(t) PROVE t[k] \in S!Fragments(u)
  <2>1. k - Len(v) \in (Len(before) + 1)..Len(u) /\ k - Len(v) - Len(before) = k - Len(before) - Len(v)
    BY <1>1, <1>2, <1>5
  <2>2. t[k] = u[k - Len(v)]
    BY <1>3, <1>4, <2>1
  <2>3. k - Len(v) \in DOMAIN u
    BY <1>5, <2>1
  <2> QED BY <2>2, <2>3 DEF S!Fragments
<1> QED BY <1>1, <1>3, <1>6, <1>7 DEF t, u

\* A value that is in the text a second time overlaps what is written around it, and then
\* each of its fragments is there: following it by the distance of the two leads out of it.
LEMMA Elsewhere ==
  ASSUME NEW X, NEW before \in Seq(X), NEW v \in Seq(X), NEW after \in Seq(X), Len(v) >= 1,
         NEW p \in S!At(v, before \o v \o after), p # Len(before) + 1
  PROVE  S!Fragments(v) \subseteq S!Fragments(before \o after)
<1> DEFINE t == before \o v \o after
           A == S!Fragments(before \o after)
           b == Len(before)
           m == Len(v)
<1>1. /\ t \in Seq(X) /\ Len(t) = b + m + Len(after)
      /\ \A k \in 1..b : t[k] \in A
      /\ \A k \in 1..m : t[b + k] = v[k]
      /\ \A k \in (b + m + 1)..Len(t) : t[k] \in A
  BY TextParts
<1>2. {b, m, Len(after)} \subseteq Nat /\ m >= 1 /\ DOMAIN v = 1..m
  OBVIOUS
<1>3. p \in S!At(v, t) /\ p # b + 1
  OBVIOUS
<1> HIDE DEF t, A, b
<1>4. p \in 1..(Len(t) - m + 1) /\ \A k \in 1..m : t[p + k - 1] = v[k]
  BY <1>1, <1>3, AtIs
<1> HIDE DEF m
<1>5. ASSUME NEW k \in 1..m, v[k] \notin A
      PROVE  k + (p - b - 1) \in 1..m /\ v[k + (p - b - 1)] = v[k]
  <2> DEFINE q == p + k - 1
  <2>1. t[q] = v[k] /\ q \in 1..Len(t)
    BY <1>1, <1>2, <1>4
  <2> HIDE DEF q
  <2>2. q \notin 1..b /\ q \notin (b + m + 1)..Len(t)
    BY <1>1, <1>5, <2>1
  <2>3. q - b \in 1..m /\ b + (q - b) = q
    BY <1>1, <1>2, <2>1, <2>2
  <2>4. t[q] = v[q - b]
    BY <1>1, <2>3
  <2>5. q - b = k + (p - b - 1)
    BY <1>2, <1>4 DEF q
  <2> QED BY <2>1, <2>3, <2>4, <2>5
<1>6. CASE p > b + 1
  <2> SUFFICES ASSUME NEW k \in 1..m, v[k] \notin A PROVE FALSE
    BY <1>2 DEF S!Fragments, A
  <2> DEFINE Bad == {n \in 0..(m - 1) : v[m - n] \notin A}
  <2>1. Bad \subseteq Nat /\ Bad # {}
    <3>1. m - k \in 0..(m - 1) /\ m - (m - k) = k
      BY <1>2
    <3> QED BY <3>1
  <2>2. PICK n \in Bad : \A j \in Bad : n <= j
    BY <2>1, LeastOf
  <2>3. m - n \in 1..m /\ n \in Nat
    BY <1>2
  <2>4. /\ (m - n) + (p - b - 1) \in 1..m
        /\ v[(m - n) + (p - b - 1)] = v[m - n]
    BY <1>5, <2>3
  <2> DEFINE j == n - (p - b - 1)
  <2>5. j \in 0..(m - 1) /\ j < n /\ m - j = (m - n) + (p - b - 1)
    <3>1. m \in Int /\ b \in Int /\ p \in Int /\ n \in Int
      BY <1>2, <1>4, <2>3
    <3> QED BY <3>1, <1>6, <2>3, <2>4
  <2>6. j \in Bad
    BY <2>4, <2>5
  <2> QED BY <2>2, <2>3, <2>5, <2>6
<1>7. CASE p < b + 1
  <2> SUFFICES ASSUME NEW k \in 1..m, v[k] \notin A PROVE FALSE
    BY <1>2 DEF S!Fragments, A
  <2> DEFINE Bad == {n \in 1..m : v[n] \notin A}
  <2>1. Bad \subseteq Nat /\ Bad # {}
    BY <1>2
  <2>2. PICK n \in Bad : \A j \in Bad : n <= j
    BY <2>1, LeastOf
  <2>3. n + (p - b - 1) \in Bad
    BY <1>5
  <2>4. n <= n + (p - b - 1) /\ n \in Int
    BY <2>2, <2>3
  <2>5. b \in Int /\ p \in Int
    BY <1>2, <1>4
  <2> QED BY <1>7, <2>4, <2>5
<1> QED BY <1>2, <1>3, <1>4, <1>6, <1>7 DEF A

\* A text t has the value v after b fragments and nowhere else, and around it those of A.
Here(v, t, b, A) ==
  /\ b \in Nat /\ b + Len(v) <= Len(t)
  /\ \A k \in 1..b : t[k] \in A
  /\ \A k \in (b + Len(v) + 1)..Len(t) : t[k] \in A
  /\ \A p \in S!At(v, t) : p = b + 1

\* A value that is around it takes all of it out.
LEMMA TakesOut ==
  ASSUME NEW X, Mask \in X, NEW v \in Seq(X), NEW t \in Seq(X), NEW b, NEW A, Here(v, t, b, A),
         Len(v) >= 1, NEW w \in Seq(X), Len(w) >= 1, S!Within(v, w), S!Within(w, t)
  PROVE  S!Once(w, t) \in Seq(X) /\ S!Fragments(S!Once(w, t)) \subseteq A \cup {Mask}
<1> DEFINE y == S!Once(w, t)
           m == Len(v)
<1> HIDE DEF y
<1>first. PICK i \in S!At(w, t) : (\A j \in S!At(w, t) : i <= j) /\ Spliced(w, t, y, i)
  BY OnceIs DEF y
<1>text. y \in Seq(X)
  BY OnceIs DEF y
<1>1. /\ i \in S!At(w, t)
      /\ y \in Seq(X) /\ Len(y) = Len(t) - Len(w) + 1
      /\ \A k \in 1..(i - 1) : y[k] = t[k]
      /\ y[i] = Mask
      /\ \A k \in (i + 1)..Len(y) : y[k] = t[k + Len(w) - 1]
  BY <1>first, <1>text DEF Spliced
<1>2. m \in Nat /\ Len(w) \in Nat /\ Len(t) \in Nat /\ Len(y) \in Nat /\ m >= 1 /\ b \in Nat
  BY <1>1 DEF Here
<1>3. i \in 1..(Len(t) - Len(w) + 1) /\ \A k \in 1..Len(w) : t[i + k - 1] = w[k]
  BY <1>1, AtIs
<1>4. PICK r \in S!At(v, w) : TRUE
  BY DEF S!Within
<1>5. r \in 1..(Len(w) - m + 1) /\ \A k \in 1..m : w[r + k - 1] = v[k]
  BY AtIs
<1>6. i + r - 1 = b + 1
  <2>1. i + r - 1 \in 1..(Len(t) - m + 1)
    BY <1>2, <1>3, <1>5
  <2>2. ASSUME NEW k \in 1..m PROVE t[(i + r - 1) + k - 1] = v[k]
    <3>1. r + k - 1 \in 1..Len(w) /\ i + (r + k - 1) - 1 = (i + r - 1) + k - 1
      BY <1>2, <1>3, <1>5
    <3> QED BY <1>3, <1>5, <3>1
  <2>3. i + r - 1 \in S!At(v, t)
    BY <2>1, <2>2, AtIs
  <2> QED BY <2>3 DEF Here
<1>7. ASSUME NEW k \in 1..Len(y) PROVE y[k] \in A \cup {Mask}
  <2>0. k \in Int /\ i \in Int /\ r \in Int /\ k >= 1 /\ k <= Len(t) - Len(w) + 1 /\ r + m <= Len(w) + 1
    BY <1>1, <1>2, <1>3, <1>5
  <2>1. CASE k < i
    <3>1. k \in 1..(i - 1) /\ k \in 1..b
      BY <1>2, <1>3, <1>5, <1>6, <2>0, <2>1
    <3> QED BY <1>1, <3>1 DEF Here
  <2>2. CASE k > i
    <3>1. k \in (i + 1)..Len(y)
      BY <1>2, <2>0, <2>2
    <3>2. k + Len(w) - 1 \in (b + m + 1)..Len(t)
      BY <1>2, <1>6, <2>0, <2>2
    <3> QED BY <1>1, <3>1, <3>2 DEF Here
  <2> QED BY <1>1, <2>0, <2>1, <2>2
<1>8. DOMAIN y = 1..Len(y)
  BY <1>1
<1>9. S!Fragments(y) \subseteq A \cup {Mask}
  BY <1>7, <1>8 DEF S!Fragments
<1> QED BY <1>1, <1>9 DEF y

LEMMA ReplacedTakesOut ==
  ASSUME NEW X, Mask \in X, NEW v \in Seq(X), NEW t \in Seq(X), NEW b, NEW A, Here(v, t, b, A),
         Len(v) >= 1, NEW w \in Seq(X), Len(w) >= 1, S!Within(v, w), S!Within(w, t)
  PROVE  S!Replaced(w, t) \in Seq(X) /\ S!Fragments(S!Replaced(w, t)) \subseteq A \cup {Mask}
<1>1. Len(t) \in Nat /\ Len(t) >= 1
  BY DEF Here
<1>2. PICK f : /\ f[0] = t /\ S!Replaced(w, t) = f[Len(t)]
               /\ \A n \in 1..Len(t) : f[n] = S!Once(w, f[n - 1])
  BY <1>1, ReplacedIs
<1> DEFINE T == {n \in 0..Len(t) : n # 0 => f[n] \in Seq(X) /\ S!Fragments(f[n]) \subseteq A \cup {Mask}}
<1>3. ASSUME NEW n \in 0..Len(t), n + 1 <= Len(t), n \in T PROVE n + 1 \in T
  <2>1. f[n + 1] = S!Once(w, f[n]) /\ n + 1 \in 0..Len(t)
    BY <1>1, <1>2, <1>3
  <2>2. CASE n = 0
    BY <1>2, <2>1, <2>2, TakesOut
  <2>3. CASE n # 0
    BY <1>3, <2>1, <2>3, OnceBrings
  <2> QED BY <2>2, <2>3
<1>4. 0 \in T
  BY <1>1
<1> HIDE DEF T
<1>5. \A n \in 0..Len(t) : n \in T
  BY <1>1, <1>3, <1>4, CountUp
<1> QED BY <1>1, <1>2, <1>5 DEF T

LEMMA ReplacedNoneNew ==
  ASSUME NEW X, Mask \in X, NEW w \in Seq(X), NEW v \in Seq(X), NEW text \in Seq(X),
         Len(w) >= 1, Len(v) >= 1, Mask \notin S!Fragments(v), ~S!Within(v, text)
  PROVE  ~S!Within(v, S!Replaced(w, text))
<1>0. Len(text) \in Nat
  OBVIOUS
<1>1. PICK f : /\ f[0] = text /\ S!Replaced(w, text) = f[Len(text)]
               /\ \A n \in 1..Len(text) : f[n] = S!Once(w, f[n - 1])
  BY <1>0, ReplacedIs
<1> DEFINE T == {n \in 0..Len(text) : f[n] \in Seq(X) /\ ~S!Within(v, f[n])}
<1>2. ASSUME NEW n \in 0..Len(text), n + 1 <= Len(text), n \in T PROVE n + 1 \in T
  <2>1. f[n + 1] = S!Once(w, f[n]) /\ n + 1 \in 0..Len(text)
    BY <1>0, <1>1, <1>2
  <2> QED BY <1>2, <2>1, NoneNew
<1>3. 0 \in T
  BY <1>0, <1>1
<1> HIDE DEF T
<1>4. \A n \in 0..Len(text) : n \in T
  BY <1>0, <1>2, <1>3, CountUp
<1> QED BY <1>0, <1>1, <1>4 DEF T

LEMMA NotShorter ==
  ASSUME NEW X, NEW v \in Seq(X), NEW w \in Seq(X), Len(w) >= 1, Len(w) >= Len(v), S!Within(w, v)
  PROVE  w = v
<1>1. PICK p \in S!At(w, v) : TRUE
  BY DEF S!Within
<1>2. p \in 1..(Len(v) - Len(w) + 1) /\ \A k \in 1..Len(w) : v[p + k - 1] = w[k]
  BY AtIs
<1>3. p = 1 /\ Len(v) = Len(w) /\ Len(w) \in Nat
  BY <1>2
<1>4. \A k \in 1..Len(w) : w[k] = v[k]
  BY <1>2, <1>3
<1> QED BY <1>3, <1>4, SeqEqual

\* The values of a redaction, all of them, each once and no shorter one first.
LEMMA AllOrdered ==
  ASSUME IsFiniteSet(registered), NEW s \in S!Orders
  PROVE  /\ Len(s) \in Nat
         /\ \A n \in 1..Len(s) : s[n] \in registered
         /\ \A i, j \in 1..Len(s) : i < j => s[i] # s[j] /\ Len(s[i]) >= Len(s[j])
         /\ \A v \in registered : \E j \in 1..Len(s) : s[j] = v
<1> DEFINE K == Cardinality(registered)
<1>1. K \in Nat
  BY FS_CardinalityType
<1>2. /\ s \in [1..K -> registered]
      /\ \A i, j \in 1..K : i < j => s[i] # s[j] /\ Len(s[i]) >= Len(s[j])
  <2>1. /\ s \in [1..S!Cardinality(registered) -> registered]
        /\ \A i, j \in DOMAIN s : s[i] = s[j] => i = j
        /\ \A i, j \in DOMAIN s : i < j => Len(s[i]) >= Len(s[j])
    BY DEF S!Orders, S!Listings
  <2>4. S!Cardinality(registered) = K
    BY DEF S!Cardinality, Cardinality, S!IsFiniteSet, IsFiniteSet
  <2> HIDE DEF K
  <2>2. s \in [1..K -> registered] /\ DOMAIN s = 1..K
    BY <2>1, <2>4
  <2>3. \A i, j \in 1..K : i < j => i # j
    BY <1>1
  <2> QED BY <2>1, <2>2, <2>3
<1>3. Cardinality(1..K) = K /\ IsFiniteSet(1..K)
  BY <1>1, FS_Interval
<1> HIDE DEF K
<1>4. Len(s) = K
  BY <1>1, <1>2
<1>5. s \in Injection(1..K, registered)
  <2>1. ASSUME NEW i \in 1..K, NEW j \in 1..K, s[i] = s[j] PROVE i = j
    BY <1>1, <1>2, <2>1
  <2> QED BY <1>2, <2>1 DEF Injection, IsInjective
<1>6. s \in Surjection(1..K, registered)
  BY <1>3, <1>5, FS_Injection DEF K
<1>7. \A v \in registered : \E j \in 1..K : s[j] = v
  BY <1>6 DEF Surjection
<1> QED BY <1>1, <1>2, <1>4, <1>7

LEMMA RedactedExists ==
  ASSUME NEW s, NEW text, NEW N \in Nat
  PROVE  \E f : f = [n \in 0..N |-> IF n = 0 THEN text ELSE S!Replaced(s[n], f[n - 1])]
<1> DEFINE Is(f, m) == f = [n \in 0..m |-> IF n = 0 THEN text ELSE S!Replaced(s[n], f[n - 1])]
<1> DEFINE T == {m \in 0..N : \E f : Is(f, m)}
<1>1. 0 \in T
  <2>1. Is([n \in 0..0 |-> text], 0)
    OBVIOUS
  <2> HIDE DEF Is
  <2>2. \E f : Is(f, 0)
    BY <2>1
  <2> QED BY <2>2
<1>2. ASSUME NEW m \in 0..N, m + 1 <= N, m \in T PROVE m + 1 \in T
  <2>1. PICK f : Is(f, m)
    BY <1>2
  <2> DEFINE g == [n \in 0..(m + 1) |-> IF n = m + 1 THEN S!Replaced(s[n], f[m]) ELSE f[n]]
  <2>2. Is(g, m + 1)
    <3>1. ASSUME NEW n \in 0..(m + 1)
          PROVE  g[n] = IF n = 0 THEN text ELSE S!Replaced(s[n], g[n - 1])
      BY <2>1
    <3> QED BY <3>1
  <2> HIDE DEF Is, g
  <2>3. \E h : Is(h, m + 1)
    BY <2>2
  <2> QED BY <1>2, <2>3
<1> HIDE DEF T
<1>3. \A n \in 0..N : n \in T
  BY <1>1, <1>2, CountUp
<1> QED BY <1>3 DEF T

LEMMA RedactedIs ==
  ASSUME NEW s, NEW text, Len(s) \in Nat
  PROVE  \E f : /\ f[0] = text /\ S!Redacted(s, text) = f[Len(s)]
                /\ \A n \in 1..Len(s) : f[n] = S!Replaced(s[n], f[n - 1])
<1> DEFINE g == CHOOSE left : left = [n \in 0..Len(s) |-> IF n = 0 THEN text ELSE S!Replaced(s[n], left[n - 1])]
<1>1. g = [n \in 0..Len(s) |-> IF n = 0 THEN text ELSE S!Replaced(s[n], g[n - 1])]
  BY RedactedExists
<1>2. S!Redacted(s, text) = g[Len(s)]
  BY DEF S!Redacted
<1> HIDE DEF g
<1>3. g[0] = text /\ \A n \in 1..Len(s) : g[n] = S!Replaced(s[n], g[n - 1])
  BY <1>1
<1> QED BY <1>2, <1>3

\* The values the redactor has are texts without the mask.
Maskable(X) == /\ Mask \in X /\ IsFiniteSet(registered)
               /\ \A w \in registered : w \in Seq(X) /\ Len(w) >= 1 /\ Mask \notin S!Fragments(w)

\* No registered value is left in a redacted text.
LEMMA RedactedClean ==
  ASSUME NEW X, Maskable(X), NEW v \in registered, NEW text \in Seq(X), NEW s \in S!Orders
  PROVE  ~S!Within(v, S!Redacted(s, text))
<1>1. /\ Len(s) \in Nat /\ \A n \in 1..Len(s) : s[n] \in registered
      /\ \E j \in 1..Len(s) : s[j] = v
  BY AllOrdered DEF Maskable
<1>2. PICK j \in 1..Len(s) : s[j] = v
  BY <1>1
<1>3. PICK f : /\ f[0] = text /\ S!Redacted(s, text) = f[Len(s)]
               /\ \A n \in 1..Len(s) : f[n] = S!Replaced(s[n], f[n - 1])
  BY <1>1, RedactedIs
<1> DEFINE T == {n \in 0..Len(s) : f[n] \in Seq(X) /\ (n >= j => ~S!Within(v, f[n]))}
<1>4. ASSUME NEW n \in 0..Len(s), n + 1 <= Len(s), n \in T PROVE n + 1 \in T
  <2>1. f[n + 1] = S!Replaced(s[n + 1], f[n]) /\ n + 1 \in 1..Len(s)
    BY <1>1, <1>3, <1>4
  <2>2. s[n + 1] \in registered
    BY <1>1, <2>1
  <2>3. f[n + 1] \in Seq(X) /\ ~S!Within(s[n + 1], f[n + 1])
    BY <1>4, <2>1, <2>2, ReplacedClean DEF Maskable
  <2>4. CASE n >= j
    <3>1. ~S!Within(v, f[n])
      BY <1>4, <2>4
    <3>2. ~S!Within(v, f[n + 1])
      BY <1>4, <2>1, <2>2, <3>1, ReplacedNoneNew DEF Maskable
    <3> QED BY <2>1, <2>3, <3>2
  <2>5. CASE ~(n >= j)
    <3>1. n + 1 >= j => n + 1 = j
      BY <1>1, <1>2, <2>5
    <3> QED BY <1>2, <2>1, <2>3, <3>1
  <2> QED BY <2>4, <2>5
<1>5. 0 \in T
  BY <1>1, <1>2, <1>3
<1> HIDE DEF T
<1>6. \A n \in 0..Len(s) : n \in T
  BY <1>1, <1>4, <1>5, CountUp
<1>7. Len(s) \in T /\ Len(s) >= j
  BY <1>1, <1>2, <1>6
<1> QED BY <1>3, <1>7 DEF T

\* Nor is a fragment of the one that was written, but what is around it, unless one that
\* straddles its end was taken out first.
LEMMA RedactedTakesOut ==
  ASSUME NEW X, Maskable(X), NEW v \in registered, NEW t \in Seq(X), NEW b, NEW A, Here(v, t, b, A),
         S!Within(v, t), NEW s \in S!Orders,
         \A w \in registered : S!Within(w, t) => S!Within(w, v) \/ S!Within(v, w)
  PROVE  S!Fragments(S!Redacted(s, t)) \subseteq A \cup {Mask}
<1>1. /\ Len(s) \in Nat /\ \A n \in 1..Len(s) : s[n] \in registered
      /\ \A i, j \in 1..Len(s) : i < j => s[i] # s[j] /\ Len(s[i]) >= Len(s[j])
      /\ \E j \in 1..Len(s) : s[j] = v
  BY AllOrdered DEF Maskable
<1>2. PICK j \in 1..Len(s) : s[j] = v
  BY <1>1
<1>3. PICK f : /\ f[0] = t /\ S!Redacted(s, t) = f[Len(s)]
               /\ \A n \in 1..Len(s) : f[n] = S!Replaced(s[n], f[n - 1])
  BY <1>1, RedactedIs
<1> DEFINE Out(x) == x \in Seq(X) /\ S!Fragments(x) \subseteq A \cup {Mask}
           T == {n \in 0..Len(s) : (n < j /\ f[n] = t) \/ Out(f[n])}
<1>4. ASSUME NEW n \in 0..Len(s), n + 1 <= Len(s), n \in T PROVE n + 1 \in T
  <2> DEFINE w == s[n + 1]
  <2>1. f[n + 1] = S!Replaced(w, f[n]) /\ n + 1 \in 1..Len(s)
    BY <1>1, <1>3, <1>4
  <2>2. w \in registered
    BY <1>1, <2>1
  <2>3. w \in Seq(X) /\ Len(w) >= 1 /\ v \in Seq(X) /\ Len(v) >= 1 /\ Mask \in X
    BY <2>2 DEF Maskable
  <2>4. CASE Out(f[n])
    <3>1. Out(f[n + 1])
      BY <2>1, <2>3, <2>4, ReplacedBrings
    <3> QED BY <2>1, <3>1
  <2>5. CASE n < j /\ f[n] = t
    <3>1. w = v \/ (n + 1 < j /\ w # v /\ Len(w) >= Len(v))
      <4>1. n + 1 = j \/ n + 1 < j
        BY <1>1, <1>2, <2>5
      <4> QED BY <1>1, <1>2, <2>1, <4>1
    <3> HIDE DEF w
    <3>2. CASE S!Within(w, t)
      <4>1. S!Within(v, w)
        <5>1. CASE w = v
          <6>1. 1 \in 1..(Len(v) - Len(v) + 1) /\ \A k \in 1..Len(v) : v[1 + k - 1] = v[k]
            BY <2>3
          <6> QED BY <2>3, <5>1, <6>1, AtIs DEF S!Within
        <5>2. CASE w # v
          <6>1. ~S!Within(w, v)
            BY <2>3, <3>1, <5>2, NotShorter
          <6> QED BY <2>2, <3>2, <6>1
        <5> QED BY <5>1, <5>2
      <4>2. Out(f[n + 1])
        BY <2>1, <2>3, <2>5, <3>2, <4>1, ReplacedTakesOut DEF w
      <4> QED BY <2>1, <4>2
    <3>3. CASE ~S!Within(w, t)
      <4>1. Len(t) \in Nat
        OBVIOUS
      <4>2. S!Replaced(w, t) = t
        BY <3>3, <4>1, ReplacedNone
      <4>3. n + 1 < j
        BY <3>1, <3>3
      <4> QED BY <2>1, <2>5, <4>2, <4>3 DEF w
    <3> QED BY <3>2, <3>3
  <2> QED BY <1>4, <2>4, <2>5
<1>5. 0 \in T
  BY <1>1, <1>2, <1>3
<1> HIDE DEF T
<1>6. \A n \in 0..Len(s) : n \in T
  BY <1>1, <1>4, <1>5, CountUp
<1>7. Len(s) \in T /\ ~(Len(s) < j)
  BY <1>1, <1>2, <1>6
<1> QED BY <1>3, <1>7 DEF T

\* All that texts are made of.
Letters == {Mask} \cup S!Fragments(ScopedToken) \cup (UNION {S!Fragments(v) : v \in Pieces})
             \cup (UNION {S!Fragments(Source[s]) : s \in {r \in DOMAIN Source : Source[r] # Missing}})

LEMMA TextsGiven ==
  /\ MinLength \in Nat /\ MinLength >= 1 /\ Mask \in Letters
  /\ \A v \in Pieces : v \in Seq(Letters)
  /\ ScopedToken \in Seq(Letters) /\ Len(ScopedToken) >= 1 /\ Mask \notin S!Fragments(ScopedToken)
  /\ \A s \in DOMAIN Source : Source[s] # Missing =>
       Source[s] \in Seq(Letters) /\ Mask \notin S!Fragments(Source[s])
<1>1. ASSUME NEW v, IsText(v), S!Fragments(v) \subseteq Letters PROVE v \in Seq(Letters)
  <2>1. v \in Seq(S!Fragments(v))
    BY <1>1 DEF IsText
  <2> QED BY <1>1, <2>1
<1>2. /\ MinLength \in Nat /\ MinLength >= 1 /\ Mask \in Letters
      /\ Len(ScopedToken) >= 1
  BY RedactionAssumption DEF RedactionAssumption, Letters
<1>3. \A v \in Pieces : v \in Seq(Letters)
  <2> SUFFICES ASSUME NEW v \in Pieces PROVE v \in Seq(Letters)
    OBVIOUS
  <2>1. IsText(v)
    BY RedactionAssumption DEF RedactionAssumption
  <2>2. S!Fragments(v) \subseteq Letters
    BY Zenon DEF Letters
  <2> QED BY <1>1, <2>1, <2>2
<1>4. ScopedToken \in Seq(Letters) /\ Mask \notin S!Fragments(ScopedToken)
  <2>1. IsText(ScopedToken) /\ Mask \notin S!Fragments(ScopedToken)
    BY RedactionAssumption DEF RedactionAssumption
  <2>2. S!Fragments(ScopedToken) \subseteq Letters
    BY Zenon DEF Letters
  <2> QED BY <1>1, <2>1, <2>2
<1>5. ASSUME NEW s \in DOMAIN Source, Source[s] # Missing
      PROVE  Source[s] \in Seq(Letters) /\ Mask \notin S!Fragments(Source[s])
  <2>1. IsText(Source[s]) /\ Mask \notin S!Fragments(Source[s])
    BY <1>5, RedactionAssumption, Zenon DEF RedactionAssumption
  <2>2. s \in {r \in DOMAIN Source : Source[r] # Missing}
    BY <1>5
  <2> DEFINE found == {S!Fragments(Source[q]) : q \in {r \in DOMAIN Source : Source[r] # Missing}}
  <2>3. S!Fragments(Source[s]) \in found
    BY <2>2
  <2>4. UNION found \subseteq Letters
    BY Zenon DEF Letters
  <2> HIDE DEF found
  <2>5. S!Fragments(Source[s]) \subseteq Letters
    BY <2>3, <2>4
  <2> QED BY <1>1, <2>1, <2>5
<1> QED BY <1>2, <1>3, <1>4, <1>5

\* Taking spaces off the ends leaves a part of the text.
LEMMA Stripped ==
  ASSUME NEW X, NEW v \in Seq(X)
  PROVE  S!Strip(v) \in Seq(X) /\ S!Fragments(S!Strip(v)) \subseteq S!Fragments(v)
<1> DEFINE kept == {i \in DOMAIN v : v[i] # Space}
<1>1. CASE kept = {}
  <2>1. S!Strip(v) = <<>>
    BY <1>1 DEF S!Strip
  <2> QED BY <2>1 DEF S!Fragments
<1>2. CASE kept # {}
  <2> DEFINE a == S!Min(kept)
             c == S!Max(kept)
  <2>1. DOMAIN v = 1..Len(v) /\ Len(v) \in Nat
    OBVIOUS
  <2>2. kept \subseteq 1..Len(v)
    BY <2>1
  <2>3. S!Strip(v) = SubSeq(v, a, c)
    BY <1>2 DEF S!Strip
  <2> HIDE DEF kept
  <2>4. kept \subseteq Nat
    BY <2>2
  <2>5. \E x \in kept : \A y \in kept : x <= y
    BY <1>2, <2>4, LeastOf
  <2>6. a \in kept
    BY <2>5 DEF S!Min
  <2>7. c \in kept
    <3> DEFINE below == {Len(v) - k : k \in kept}
    <3>1. below \subseteq Nat /\ below # {}
      <4>1. \A k \in kept : Len(v) - k \in Nat
        BY <2>1, <2>2
      <4> QED BY <1>2, <4>1
    <3>2. PICK x \in below : \A y \in below : x <= y
      BY <3>1, LeastOf
    <3>3. PICK k \in kept : x = Len(v) - k
      OBVIOUS
    <3>4. ASSUME NEW j \in kept PROVE k >= j
      <4>1. Len(v) - k <= Len(v) - j
        BY <3>2, <3>3
      <4> QED BY <2>1, <2>2, <4>1
    <3>5. \E z \in kept : \A y \in kept : z >= y
      BY <3>4
    <3> QED BY <3>5 DEF S!Max
  <2> HIDE DEF a, c
  <2>8. a \in 1..Len(v) /\ c \in 1..Len(v)
    BY <2>2, <2>6, <2>7
  <2> DEFINE y == SubSeq(v, a, c)
  <2>9. y \in Seq(X) /\ \A k \in 1..Len(y) : a + k - 1 \in 1..Len(v) /\ y[k] = v[a + k - 1]
    BY <2>1, <2>8
  <2> HIDE DEF y
  <2>10. DOMAIN y = 1..Len(y)
    BY <2>9
  <2>11. S!Fragments(y) \subseteq S!Fragments(v)
    BY <2>1, <2>9, <2>10 DEF S!Fragments
  <2> QED BY <2>3, <2>9, <2>11 DEF y
<1> QED BY <1>1, <1>2

\* Everything the job has is a text, what the redactor has is a text without the mask, and
\* a thread that has got as far as a secret has one.
Looked == \A t \in Threads : thread[t].pc \in {"secret", "provider", "load", "resolve"}
                               => thread[t].secret \in S!SecretIds
SecretsSound == Masked /\ Maskable(Letters) /\ got \subseteq Seq(Letters) /\ Looked
SecretsInv == S!TypeOK /\ SecretsSound

LEMMA WriteMasks ==
  ASSUME SecretsInv, NEW t, NEW redacted \in BOOLEAN, NEW v \in got, NEW before \in Pieces, NEW after \in Pieces,
         S!Write(t, redacted, before, v, after)
  PROVE  Masked'
<1> DEFINE text == before \o v \o after
           b == Len(before)
           A == S!Fragments(before \o after)
<1>1. before \in Seq(Letters) /\ v \in Seq(Letters) /\ after \in Seq(Letters)
  BY TextsGiven DEF SecretsInv, SecretsSound
<1>2. PICK x \in (IF redacted THEN S!Redactions(text) ELSE {text}) :
        out' = [before |-> before, value |-> v, after |-> after, text |-> x, redacted |-> redacted]
  BY DEF S!Write
<1>3. /\ registered' = registered /\ out'.redacted = redacted
      /\ out'.before = before /\ out'.value = v /\ out'.after = after /\ out'.text = x
  BY <1>2 DEF S!Write, S!Directory
<1> SUFFICES ASSUME redacted, Len(v) >= MinLength
             PROVE  /\ ~S!Within(v, x)
                    /\ \/ \E w \in registered : S!Within(w, text) /\ ~S!Within(w, v) /\ ~S!Within(v, w)
                       \/ S!Fragments(v) \cap S!Fragments(x) \subseteq A
  <2>1. Masked' <=> (redacted /\ Len(v) >= MinLength =>
           /\ ~S!Within(v, x)
           /\ \/ S!Straddled'
              \/ S!Fragments(v) \cap S!Fragments(x) \subseteq A)
    BY <1>3 DEF Masked, S!Masked
  <2>2. S!Straddled' <=> \E w \in registered : S!Within(w, text) /\ ~S!Within(w, v) /\ ~S!Within(v, w)
    BY <1>3 DEF S!Straddled
  <2> QED BY <2>1, <2>2
<1>4. v \in registered
  BY DEF SecretsInv, SecretsSound, S!TypeOK
<1>5. PICK s \in S!Orders : x = S!Redacted(s, text)
  BY <1>2 DEF S!Redactions
<1>6. Maskable(Letters) /\ Len(v) >= 1 /\ Mask \notin S!Fragments(v) /\ Mask \in Letters
  BY <1>4 DEF SecretsInv, SecretsSound, Maskable
<1>7. /\ text \in Seq(Letters) /\ Len(text) = b + Len(v) + Len(after)
      /\ \A k \in 1..b : text[k] \in A
      /\ \A k \in 1..Len(v) : text[b + k] = v[k]
      /\ \A k \in (b + Len(v) + 1)..Len(text) : text[k] \in A
  BY <1>1, TextParts
<1>8. ASSUME NEW p \in S!At(v, text), p # b + 1 PROVE S!Fragments(v) \subseteq A
  BY <1>1, <1>6, <1>8, Elsewhere
<1>9. b \in Nat /\ Len(after) \in Nat /\ Len(v) \in Nat
  BY <1>1
<1> HIDE DEF text, A, b
<1>10. ~S!Within(v, x)
  BY <1>4, <1>5, <1>6, <1>7, RedactedClean
<1>11. CASE \E p \in S!At(v, text) : p # b + 1
  BY <1>8, <1>10, <1>11
<1>12. CASE \A p \in S!At(v, text) : p = b + 1
  <2>1. Here(v, text, b, A)
    BY <1>7, <1>9, <1>12 DEF Here
  <2>2. S!Within(v, text)
    <3>1. b + 1 \in 1..(Len(text) - Len(v) + 1) /\ \A k \in 1..Len(v) : text[(b + 1) + k - 1] = v[k]
      <4>1. \A k \in 1..Len(v) : (b + 1) + k - 1 = b + k
        BY <1>9
      <4> QED BY <1>7, <1>9, <4>1
    <3>2. b + 1 \in S!At(v, text)
      BY <1>1, <1>6, <1>7, <3>1, AtIs
    <3> QED BY <3>2 DEF S!Within
  <2> SUFFICES ASSUME \A w \in registered : S!Within(w, text) => S!Within(w, v) \/ S!Within(v, w)
               PROVE  S!Fragments(v) \cap S!Fragments(x) \subseteq A
    BY <1>10
  <2>3. S!Fragments(x) \subseteq A \cup {Mask}
    BY <1>4, <1>5, <1>6, <1>7, <2>1, <2>2, RedactedTakesOut
  <2> QED BY <1>6, <2>3
<1> QED BY <1>11, <1>12

LEMMA ResolveRegisters ==
  ASSUME SecretsInv, NEW t, S!Resolve(t), thread[t].secret \in S!SecretIds
  PROVE  Maskable(Letters)' /\ (got \subseteq Seq(Letters))'
<1> DEFINE s == thread[t].secret
           v == S!Resolved(s)
<1>1. CASE Source[s] = Missing
  BY <1>1 DEF S!Resolve, SecretsInv, SecretsSound, Maskable
<1>2. CASE Source[s] # Missing
  <2>1. Source[s] \in Seq(Letters) /\ Mask \notin S!Fragments(Source[s])
    BY <1>2, TextsGiven DEF S!SecretIds
  <2>2. v \in Seq(Letters) /\ Mask \notin S!Fragments(v)
    BY <2>1, Stripped DEF S!Resolved
  <2>3. registered' = registered \cup {x \in {v} : Len(x) >= MinLength} /\ got' = got \cup {v}
    BY <1>2 DEF S!Resolve
  <2> HIDE DEF v
  <2>4. IsFiniteSet(registered')
    <3>1. CASE Len(v) >= MinLength
      <4>1. registered' = registered \cup {v}
        BY <2>3, <3>1
      <4> QED BY <4>1, FS_AddElement DEF SecretsInv, SecretsSound, Maskable
    <3>2. CASE ~(Len(v) >= MinLength)
      <4>1. registered' = registered
        BY <2>3, <3>2
      <4> QED BY <4>1 DEF SecretsInv, SecretsSound, Maskable
    <3> QED BY <3>1, <3>2
  <2>5. ASSUME NEW w \in registered' PROVE w \in Seq(Letters) /\ Len(w) >= 1 /\ Mask \notin S!Fragments(w)
    <3>1. CASE w \in registered
      BY <3>1 DEF SecretsInv, SecretsSound, Maskable
    <3>2. CASE w = v /\ Len(v) >= MinLength
      BY <2>2, <3>2, TextsGiven
    <3> QED BY <2>3, <3>1, <3>2
  <2>6. Maskable(Letters)'
    BY <2>4, <2>5 DEF SecretsInv, SecretsSound, Maskable, Letters, S!Fragments
  <2>7. got' \subseteq Seq(Letters)
    BY <2>2, <2>3 DEF SecretsInv, SecretsSound
  <2> QED BY <2>6, <2>7 DEF Letters, S!Fragments
<1> QED BY <1>1, <1>2

\* What is written in a step, and what the threads are about to resolve.
LEMMA SilentMasks == ASSUME S!Silent PROVE Masked'
BY DEF S!Silent, S!Nothing, Masked, S!Masked

LEMMA SecretsNext == ASSUME SecretsInv, [S!Next]_S!vars PROVE SecretsSound'
<1> DEFINE Looks(t) == thread[t].pc \in {"secret", "provider", "load", "resolve"}
                         => thread[t].secret \in S!SecretIds
<1>0. /\ \A t \in Threads : Looks(t)
      /\ DOMAIN thread = Threads
      /\ \A t \in Threads : thread[t].pc \in {"secret", "provider", "load", "resolve"}
                              => thread[t].secret \in S!SecretIds
  BY DEF SecretsInv, SecretsSound, Looked, S!TypeOK
<1>1. ASSUME UNCHANGED <<registered, got>> PROVE Maskable(Letters)' /\ (got \subseteq Seq(Letters))'
  BY <1>1 DEF SecretsInv, SecretsSound, Maskable
<1>2. ASSUME UNCHANGED thread PROVE Looked'
  BY <1>0, <1>2 DEF Looked, S!SecretIds
<1>3. ASSUME NEW t \in Threads, NEW pc,
             S!Raise(t) \/ (S!Goto(t, pc) /\ (pc \in {"secret", "provider", "load", "resolve"} =>
                                             thread[t].secret \in S!SecretIds))
      PROVE  Looked'
  <2>1. thread \in [Threads -> [pc: {"idle", "group", "association", "secret", "provider", "load", "resolve"},
                                group: Groups \cup {Missing}, secret: S!SecretIds \cup {Missing}]]
    BY DEF SecretsInv, S!TypeOK
  <2>2. CASE S!Raise(t)
    BY <1>0, <2>1, <2>2 DEF S!Raise, S!Idle, Looked
  <2>3. CASE S!Goto(t, pc)
    BY <1>0, <1>3, <2>1, <2>3 DEF S!Goto, S!Raise, S!Idle, Looked
  <2> QED BY <1>3, <2>2, <2>3
<1>4. ASSUME NEW t \in Threads, NEW g \in Groups, S!Get(t, g) PROVE SecretsSound'
  <2>1. Looked'
    BY <1>0, <1>4 DEF S!Get, S!Idle, Looked, SecretsInv, S!TypeOK
  <2> QED BY <1>1, <1>4, <2>1, SilentMasks DEF S!Get, S!Directory, SecretsSound
<1>5. ASSUME NEW t \in Threads, S!LookupGroup(t) PROVE SecretsSound'
  <2>1. Looked'
    BY <1>3, <1>5 DEF S!LookupGroup
  <2> QED BY <1>1, <1>5, <2>1, SilentMasks DEF S!LookupGroup, S!Directory, SecretsSound
<1>6. ASSUME NEW t \in Threads, S!LookupAssociation(t) PROVE SecretsSound'
  <2>1. CASE S!Raise(t)
    BY <1>1, <1>3, <1>6, <2>1, SilentMasks DEF S!LookupAssociation, S!Directory, SecretsSound
  <2>2. CASE \E s \in S!SecretIds : thread' = [thread EXCEPT ![t].pc = "secret", ![t].secret = s]
    <3>1. PICK s \in S!SecretIds : thread' = [thread EXCEPT ![t].pc = "secret", ![t].secret = s]
      BY <2>2
    <3>2. \A u \in Threads : u # t => thread'[u] = thread[u]
      BY <1>0, <3>1
    <3>3. thread'[t].secret = s
      BY <3>1 DEF SecretsInv, S!TypeOK
    <3>4. Looked'
      BY <1>0, <3>2, <3>3 DEF Looked
    <3> QED BY <1>1, <1>6, <3>4, SilentMasks DEF S!LookupAssociation, S!Directory, SecretsSound
  <2> QED BY <1>6, <2>1, <2>2 DEF S!LookupAssociation
<1>7. ASSUME NEW t \in Threads, NEW fails \in BOOLEAN, S!LookupSecret(t, fails) PROVE SecretsSound'
  <2>1. Looked'
    BY <1>0, <1>3, <1>7 DEF S!LookupSecret
  <2> QED BY <1>1, <1>7, <2>1, SilentMasks DEF S!LookupSecret, S!Directory, SecretsSound
<1>8. ASSUME NEW t \in Threads, S!FindProvider(t) PROVE SecretsSound'
  <2>1. thread[t].secret \in S!SecretIds /\ \E pc : S!Goto(t, pc)
    BY <1>0, <1>8 DEF S!FindProvider
  <2>2. Looked'
    BY <1>3, <2>1
  <2> QED BY <1>1, <1>8, <2>2, SilentMasks DEF S!FindProvider, SecretsSound
<1>9. ASSUME NEW t \in Threads, S!LoadEntryPoints(t) PROVE SecretsSound'
  <2>1. thread[t].secret \in S!SecretIds /\ (S!Raise(t) \/ S!Goto(t, "resolve"))
    BY <1>0, <1>9 DEF S!LoadEntryPoints
  <2>2. Looked'
    BY <1>3, <2>1
  <2> QED BY <1>1, <1>9, <2>2, SilentMasks DEF S!LoadEntryPoints, SecretsSound
<1>10. ASSUME NEW t \in Threads, S!Resolve(t) PROVE SecretsSound'
  <2>1. thread[t].secret \in S!SecretIds /\ S!Raise(t) /\ S!Silent
    BY <1>0, <1>10 DEF S!Resolve
  <2>2. Looked'
    BY <1>3, <2>1
  <2> QED BY <1>10, <2>1, <2>2, SilentMasks, ResolveRegisters DEF SecretsSound
<1>11. ASSUME NEW g \in Groups, NEW s \in S!SecretIds \cup {Missing, Gone}, S!Edit(g, s) PROVE SecretsSound'
  BY <1>1, <1>2, <1>11, SilentMasks DEF S!Edit, SecretsSound
<1>12. ASSUME NEW t \in Threads, NEW redacted \in BOOLEAN, NEW v \in got,
              NEW before \in Pieces, NEW after \in Pieces, S!Write(t, redacted, before, v, after)
       PROVE  SecretsSound'
  <2>1. Masked'
    BY <1>12, WriteMasks
  <2> QED BY <1>1, <1>2, <1>12, <2>1 DEF S!Write, S!Directory, SecretsSound
<1>13. CASE S!Restore
  BY <1>1, <1>2, <1>13, SilentMasks DEF S!Restore, S!Directory, SecretsSound
<1>14. CASE UNCHANGED S!vars
  <2>1. Masked'
    BY <1>14 DEF S!vars, Masked, S!Masked, S!Straddled, SecretsInv, SecretsSound
  <2> QED BY <1>1, <1>2, <1>14, <2>1 DEF S!vars, SecretsSound
<1> QED BY <1>4, <1>5, <1>6, <1>7, <1>8, <1>9, <1>10, <1>11, <1>12, <1>13, <1>14 DEF S!Next

LEMMA SecretsMasked == S!Spec => []Masked
<1>1. S!Init => SecretsSound
  <2> SUFFICES ASSUME S!Init PROVE SecretsSound
    OBVIOUS
  <2>1. Masked
    BY DEF S!Init, S!Nothing, Masked, S!Masked
  <2>2. IsFiniteSet({ScopedToken})
    BY FS_Singleton
  <2>3. Maskable(Letters) /\ got \subseteq Seq(Letters)
    BY <2>2, TextsGiven DEF S!Init, Maskable
  <2>4. Looked
    BY DEF S!Init, S!Idle, Looked
  <2> QED BY <2>1, <2>3, <2>4 DEF SecretsSound
<1>2. SecretsInv /\ [S!Next]_S!vars => SecretsSound'
  BY SecretsNext
<1>3. S!Spec => []S!TypeOK
  BY SecretsTyped
<1> QED BY <1>1, <1>2, <1>3, PTL DEF S!Spec, SecretsInv, SecretsSound

-----------------------------------------------------------------------------
(* The composition. *)

\* A step of the composition is one of one part, and all the others stand still.
LEMMA OnePart ==
  ASSUME Step \/ UNCHANGED all
  PROVE  /\ [Next]_vars /\ [C!Next]_C!vars /\ [J!Next]_J!vars
         /\ [U!Next]_U!vars /\ [S!Next]_S!vars /\ [P!Next]_P!vars
BY DEF Step, Pipeline, Printing, Entries, Uploading, Redacting, Publishing, all, CN, JL, UL, SC, PB,
       C!vars, J!vars, U!vars, S!vars, P!vars

\* What holds of the console, the log entries, the artifacts, the secrets, the publish
\* command and the log pipeline by themselves holds of a job's outputs together: no part
\* disturbs another.
THEOREM PartsImplemented ==
  OutputsSpec => Spec /\ C!Spec /\ J!Spec /\ U!Spec /\ S!Spec /\ P!Spec
<1>1. AllInit => Init /\ C!Init /\ J!Init /\ U!Init /\ S!Init /\ P!Init
  BY DEF AllInit
<1>2. [Step]_all => /\ [Next]_vars /\ [C!Next]_C!vars /\ [J!Next]_J!vars
                    /\ [U!Next]_U!vars /\ [S!Next]_S!vars /\ [P!Next]_P!vars
  BY OnePart
<1> QED BY <1>1, <1>2, PTL DEF OutputsSpec, Spec, C!Spec, J!Spec, U!Spec, S!Spec, P!Spec

\* In every state of the composition each part's variables have their types, and a value
\* that is long enough is registered before the job has it.
THEOREM OutputsTyped == OutputsSpec => []TypesOK
<1>1. OutputsSpec => [](TypeOK /\ C!TypeOK /\ J!TypeOK /\ U!TypeOK /\ S!TypeOK /\ P!TypeOK)
  BY PartsImplemented, TypeCorrect, ConsoleRight, LogsRight, UploadsRight, SecretsTyped, PubHonest, PTL
<1> QED BY <1>1 DEF TypesOK

\* However often somebody attaches and follows the container's logs again, the sink gets the
\* lines of each stream from the first on, none skipped or repeated, and all of them before
\* the run is completed if the drain ended by itself.
THEOREM NoLineMissing == OutputsSpec => []ConsoleComplete
BY PartsImplemented, ConsoleRight, PTL

\* An entry logged before its process's final flush, by a process that ended by itself, is
\* stored, or a warning tells of it, or the server took it for a replay: with any batches,
\* threads, retries, late writers and attempts.
THEOREM NoEntryLostInSilence == OutputsSpec => []EntriesAccounted
BY PartsImplemented, LogsRight, PTL

\* An artifact marked as uploaded has content, and an upload that returned, undisturbed, has
\* left the content and the digest it says, with any uploads, retries and late requests.
THEOREM UploadsTrue == OutputsSpec => []UploadedMatches
BY PartsImplemented, UploadsRight, PTL

\* Whatever values the job's threads look up meanwhile and in whatever order values of one
\* length are replaced, no registered value is in a redacted text, and nothing of the one
\* that was written, unless another straddled its end (redaction.py: redact).
THEOREM NothingRevealed == OutputsSpec => []Masked
BY PartsImplemented, SecretsMasked, PTL

\* A publish command that exits with success has carried its definition, and one that fails
\* without a lost reply has left the directory untouched.
THEOREM PublishTrue == OutputsSpec => []PublishHonest
BY PartsImplemented, PubHonest, PTL

=============================================================================
