----------------------------- MODULE AgentProofs -----------------------------
(***************************************************************************)
(* What the agent guarantees for any runs, capacity, attempts and faults:  *)
(* it forgets no attempt the server is still waiting for, and, unless it   *)
(* claims before it has recovered, every container is in its journal.      *)
(***************************************************************************)
EXTENDS Agent, FiniteSetTheorems, TLAPS

-----------------------------------------------------------------------------
(* The invariants *)

\* Attempt a of r was given to this worker: it is behind r, or it is r's and not queued.
Granted(r, a) ==
  a <= row[r].attempt /\ (a = row[r].attempt => row[r].state # "PENDING")

\* The server does not wait for the journaled attempt of r.
Done(r) == ~(Held(r) /\ row[r].attempt = journal[r])

Reporting(f, r) == f.kind = "complete" /\ f.alive /\ r \in f.runs

\* What the agent works on was granted.
OffersGranted ==
  \A r \in Runs :
    /\ \A f \in frames : f.offers[r] # 0 => Granted(r, f.offers[r])
    /\ task[r].offer # 0 => Granted(r, task[r].offer)
    /\ journal[r] # 0 => Granted(r, journal[r])

\* Reports carry results, of one run each.
ReportsResult ==
  /\ \A f \in frames : f.kind = "complete" =>
       f.result \in CompletionStates /\ \A r, s \in f.runs : r = s
  /\ \A r \in Runs : task[r].pc = "complete" => task[r].result \in CompletionStates

\* A run whose report is answered, or that is past its report, is done with, unless the
\* answer decided nothing.
ReportsSettle ==
  /\ \A f \in frames, r \in Runs : Reporting(f, r) =>
       task[r].pc = "complete" /\ (f.answer \notin {"none", "undecided"} => Done(r))
  /\ \A f, g \in frames, r \in Runs : Reporting(f, r) /\ Reporting(g, r) => f = g
  /\ \A r \in Runs : task[r].pc \in {"clean", "drop"} => Done(r) \/ task[r].acked = "guess"

Faithful == OffersGranted /\ ReportsResult /\ ReportsSettle

\* How far a task has come says what there is of its run.
TaskKnown(r) ==
  /\ task[r].pc = "start" => journal[r] = 0 /\ task[r].offer # 0
  /\ task[r].pc \notin {"none", "start"} => journal[r] # 0
  /\ task[r].pc \in {"start", "pull", "drop"} => ctr[r] = "none"
  /\ task[r].pc \in {"created", "run"} => task[r].handle
  /\ task[r].pc \in {"complete", "clean"} => task[r].handle \/ ctr[r] = "none"

\* Whoever may accept an offer has a task for every journaled run.
Recovered ==
  (conn = "up" \/ wanted \/ Claiming \/ Busy # {}) => Journaled \subseteq Busy

OnlyClaimsOffer == \A f \in frames, r \in Runs : f.offers[r] # 0 => f.kind = "claim"

Known == ContainersKnown /\ (\A r \in Runs : TaskKnown(r)) /\ OnlyClaimsOffer /\ Recovered

-----------------------------------------------------------------------------
(* Frames *)

\* What a call keeps of itself when it is answered or forsaken.
SameCall(f, g) ==
  f.kind = g.kind /\ f.runs = g.runs /\ f.result = g.result /\ f.max = g.max

\* Forsaking calls leaves the other frames as they are, and the forsaken ones that
\* stay are dead and unanswered.
LEMMA ForsakeFacts ==
  ASSUME frames \subseteq Frame, NEW F \in SUBSET frames, Forsake(F)
  PROVE  /\ frames' \subseteq Frame
         /\ \A f \in frames' : f.alive => f \in frames \ F
         /\ \A f \in frames' : \E g \in frames : SameCall(f, g) /\ f.offers = g.offers
<1>1. PICK late \in SUBSET {f \in F : f.answer = "none"} :
        frames' = (frames \ F) \cup {[f EXCEPT !.alive = FALSE] : f \in late}
  BY DEF Forsake
<1>2. ASSUME NEW f \in frames' PROVE f \in frames \ F \/ \E g \in late : f = [g EXCEPT !.alive = FALSE]
  BY <1>1
<1>3. \A g \in late : g \in frames /\ g \in Frame
  OBVIOUS
<1>4. \A g \in Frame : /\ [g EXCEPT !.alive = FALSE] \in Frame
                       /\ [g EXCEPT !.alive = FALSE].alive = FALSE
                       /\ SameCall([g EXCEPT !.alive = FALSE], g)
                       /\ [g EXCEPT !.alive = FALSE].offers = g.offers
  BY DEF Frame, SameCall
<1>5. frames' \subseteq Frame
  BY <1>2, <1>3, <1>4
<1>6. \A f \in frames' : f.alive => f \in frames \ F
  BY <1>2, <1>3, <1>4
<1>7. ASSUME NEW f \in frames' PROVE \E g \in frames : SameCall(f, g) /\ f.offers = g.offers
  <2>1. CASE f \in frames \ F
    BY <2>1 DEF SameCall
  <2>2. CASE \E g \in late : f = [g EXCEPT !.alive = FALSE]
    BY <2>2, <1>3, <1>4
  <2> QED BY <1>2, <2>1, <2>2
<1> QED BY <1>5, <1>6, <1>7

\* Answering a call changes that frame only.
LEMMA AnswerFacts ==
  ASSUME frames \subseteq Frame, NEW f \in frames,
         NEW a \in {"ok", "cancel", "gone", "error"}, Answer(f, a)
  PROVE  /\ frames' \subseteq Frame
         /\ \A g \in frames' : g \in frames \/ (f.alive /\ g = [f EXCEPT !.answer = a])
         /\ \A g \in frames' : \E h \in frames : SameCall(g, h) /\ g.offers = h.offers /\ g.alive = h.alive
<1>1. frames' = (frames \ {f}) \cup (IF f.alive THEN {[f EXCEPT !.answer = a]} ELSE {})
  BY DEF Answer
<1>2. /\ [f EXCEPT !.answer = a] \in Frame
      /\ SameCall([f EXCEPT !.answer = a], f)
      /\ [f EXCEPT !.answer = a].offers = f.offers
      /\ [f EXCEPT !.answer = a].alive = f.alive
  BY DEF Frame, SameCall
<1>3. \A g \in frames' : g \in frames \/ (f.alive /\ g = [f EXCEPT !.answer = a])
  BY <1>1
<1> QED BY <1>2, <1>3 DEF SameCall

\* A completion answered without a decision is there once, and may be there a second time
\* with nobody waiting for it.
LEMMA UndecidedFacts ==
  ASSUME frames \subseteq Frame, NEW f \in frames, Undecided(f)
  PROVE  /\ frames' \subseteq Frame
         /\ f.kind = "complete" /\ f.alive
         /\ \E g : /\ SameCall(g, f) /\ g.offers = f.offers /\ g.answer = "undecided"
                   /\ \A h \in frames' : \/ h \in frames \ {f} \/ h = g
                                         \/ ~h.alive /\ SameCall(h, f) /\ h.offers = f.offers
<1>1. PICK late \in SUBSET {f} :
        frames' = (frames \ {f}) \cup {[f EXCEPT !.answer = "undecided"]}
                                 \cup {[g EXCEPT !.alive = FALSE] : g \in late}
  BY DEF Undecided
<1>2. PICK g : g = [f EXCEPT !.answer = "undecided"]
  OBVIOUS
<1>3. PICK d : d = [f EXCEPT !.alive = FALSE]
  OBVIOUS
<1>4. g \in Frame /\ SameCall(g, f) /\ g.offers = f.offers /\ g.answer = "undecided"
  BY <1>2 DEF Frame, SameCall
<1>5. d \in Frame /\ ~d.alive /\ SameCall(d, f) /\ d.offers = f.offers
  BY <1>3 DEF Frame, SameCall
<1>6. \A h \in frames' : h \in frames \ {f} \/ h = g \/ h = d
  BY <1>1, <1>2, <1>3
<1>7. f.kind = "complete" /\ f.alive
  BY DEF Undecided
<1> QED BY <1>4, <1>5, <1>6, <1>7

\* A new call.
LEMMA CallTyped ==
  ASSUME NEW kind \in {"hello", "claim", "status", "complete"}, NEW runs \in SUBSET Runs,
         NEW max \in 0..Capacity, NEW result \in Outcomes
  PROVE  Call(kind, runs, max, result) \in Frame
BY AgentAssumption DEF AgentAssumption, Call, Frame, NoOffers, Attempts

-----------------------------------------------------------------------------
(* Types *)

Types == TypeOK /\ ReportsResult

LEMMA Bounds == MaxAttempts \in Nat \ {0} /\ Capacity \in Nat
BY AgentAssumption DEF AgentAssumption

LEMMA AbandonedTyped ==
  ASSUME NEW w \in Row
  PROVE  Abandoned(w) \in Row
<1>1. CASE w.attempt < MaxAttempts
  <2>1. PICK n \in 1..MaxAttempts : n = w.attempt + 1
    BY <1>1, Bounds DEF Row
  <2>2. Abandoned(w) = [w EXCEPT !.state = "PENDING", !.mine = FALSE, !.attempt = n]
    BY <1>1, <2>1 DEF Abandoned
  <2> QED BY <2>2 DEF Row, RunState
<1>2. CASE ~(w.attempt < MaxAttempts)
  BY <1>2 DEF Abandoned, Row, RunState
<1> QED BY <1>1, <1>2

LEMMA RowTyped ==
  ASSUME NEW w \in Row
  PROVE  /\ \A s \in RunState : [w EXCEPT !.state = s] \in Row
         /\ [w EXCEPT !.state = "CLAIMED", !.mine = TRUE] \in Row
         /\ [w EXCEPT !.cancel = TRUE] \in Row
BY DEF Row, RunState

LEMMA StateTyped ==
  ASSUME row \in [Runs -> Row], NEW r \in Runs, NEW s \in RunState
  PROVE  [row EXCEPT ![r].state = s] \in [Runs -> Row]
BY RowTyped

LEMMA OffersTyped ==
  ASSUME NEW f \in Frame, NEW S \in SUBSET Runs, row \in [Runs -> Row]
  PROVE  [f EXCEPT !.answer = "ok",
                   !.offers = [r \in Runs |-> IF r \in S THEN row[r].attempt ELSE 0]] \in Frame
<1> DEFINE o == [r \in Runs |-> IF r \in S THEN row[r].attempt ELSE 0]
<1>1. o \in [Runs -> Attempts]
  BY Bounds DEF Row, Attempts
<1> HIDE DEF o
<1>2. [f EXCEPT !.answer = "ok", !.offers = o] \in Frame
  BY <1>1 DEF Frame
<1> QED BY <1>2 DEF o

LEMMA FreeTyped ==
  ASSUME Free > 0
  PROVE  Free \in 0..Capacity
<1>1. IsFiniteSet(Busy) /\ Cardinality(Busy) \in Nat
  BY AgentAssumption, FS_Subset, FS_CardinalityType DEF AgentAssumption, Busy
<1> QED BY <1>1, Bounds DEF Free

\* A step of the server answers one call, or changes a row behind the agent's back.
LEMMA HandleTypes ==
  ASSUME Types, Handle
  PROVE  row' \in [Runs -> Row] /\ frames' \subseteq Frame
<1> USE DEF Types, TypeOK
<1>1. PICK f \in frames :
        HandleHello(f) \/ HandleClaim(f) \/ \E r \in f.runs : HandleStatus(f, r) \/ HandleComplete(f, r)
  BY DEF Handle
<1>f. f \in Frame /\ f.runs \subseteq Runs
  BY DEF Frame
<1>2. CASE HandleHello(f)
  <2>1. row' \in [Runs -> Row]
    BY <1>2, AbandonedTyped DEF HandleHello
  <2> QED BY <1>2, <2>1, AnswerFacts DEF HandleHello
<1>3. CASE HandleClaim(f)
  <2>1. PICK S \in SUBSET {r \in Runs : row[r].state = "PENDING"} :
          /\ row' = [r \in Runs |-> IF r \in S THEN [row[r] EXCEPT !.state = "CLAIMED", !.mine = TRUE]
                                    ELSE row[r]]
          /\ frames' \subseteq frames \cup
               {[f EXCEPT !.answer = "ok", !.offers = [r \in Runs |-> IF r \in S THEN row[r].attempt ELSE 0]]}
    BY <1>3 DEF HandleClaim
  <2>2. row' \in [Runs -> Row]
    BY <2>1, RowTyped
  <2>3. S \in SUBSET Runs
    OBVIOUS
  <2>4. [f EXCEPT !.answer = "ok", !.offers = [r \in Runs |-> IF r \in S THEN row[r].attempt ELSE 0]] \in Frame
    BY <1>f, <2>3, OffersTyped
  <2>5. frames' \subseteq Frame
    BY <2>1, <2>4
  <2> QED BY <2>2, <2>5
<1>4. ASSUME NEW r \in f.runs, HandleStatus(f, r) PROVE row' \in [Runs -> Row] /\ frames' \subseteq Frame
  <2>0. r \in Runs /\ "RUNNING" \in RunState
    BY <1>f DEF RunState
  <2>1. row' \in [Runs -> Row]
    BY <1>4, <2>0, StateTyped DEF HandleStatus
  <2> QED BY <1>4, <2>1, AnswerFacts DEF HandleStatus
<1>5. ASSUME NEW r \in f.runs, HandleComplete(f, r) PROVE row' \in [Runs -> Row] /\ frames' \subseteq Frame
  <2>0. f.result \in RunState
    BY <1>5 DEF HandleComplete, ReportsResult, CompletionStates, RunState
  <2>1. row' \in [Runs -> Row]
    BY <1>5, <1>f, <2>0, StateTyped DEF HandleComplete
  <2> QED BY <1>5, <2>1, AnswerFacts DEF HandleComplete
<1> QED BY <1>1, <1>2, <1>3, <1>4, <1>5

LEMMA HandleKeepsCalls ==
  ASSUME Types, Handle
  PROVE  \A g \in frames' : \E h \in frames : SameCall(g, h) /\ g.alive = h.alive
<1> USE DEF Types, TypeOK
<1>1. PICK f \in frames :
        HandleHello(f) \/ HandleClaim(f) \/ \E r \in f.runs : HandleStatus(f, r) \/ HandleComplete(f, r)
  BY DEF Handle
<1>2. CASE HandleHello(f)
  BY <1>2, AnswerFacts DEF HandleHello
<1>3. CASE HandleClaim(f)
  <2>1. PICK o : frames' = (frames \ {f}) \cup
                   (IF f.alive THEN {[f EXCEPT !.answer = "ok", !.offers = o]} ELSE {})
    BY <1>3 DEF HandleClaim
  <2>2. /\ SameCall([f EXCEPT !.answer = "ok", !.offers = o], f)
        /\ [f EXCEPT !.answer = "ok", !.offers = o].alive = f.alive
    BY DEF SameCall, Frame
  <2>3. \A g \in frames : SameCall(g, g)
    BY DEF SameCall
  <2> QED BY <2>1, <2>2, <2>3
<1>4. ASSUME NEW r \in f.runs, HandleStatus(f, r)
      PROVE  \A g \in frames' : \E h \in frames : SameCall(g, h) /\ g.alive = h.alive
  BY <1>4, AnswerFacts DEF HandleStatus
<1>5. ASSUME NEW r \in f.runs, HandleComplete(f, r)
      PROVE  \A g \in frames' : \E h \in frames : SameCall(g, h) /\ g.alive = h.alive
  BY <1>5, AnswerFacts DEF HandleComplete
<1> QED BY <1>1, <1>2, <1>3, <1>4, <1>5

\* Calls that are kept still carry results.
LEMMA ReportsKept ==
  ASSUME ReportsResult, \A g \in frames' : \E h \in frames : SameCall(g, h),
         \A r \in Runs : task'[r].pc = "complete" => task'[r].result \in CompletionStates
  PROVE  ReportsResult'
BY DEF ReportsResult, SameCall

\* The ways in which a step changes one task.
Other(r) == \A s \in Runs \ {r} : task'[s] = task[s]
PCs == {"start", "pull", "created", "recover", "run", "complete", "clean", "drop"}
Stops == {"no", "fail", "mark", "cancel"}

LEMMA OneTask ==
  ASSUME task \in [Runs -> Task], NEW r \in Runs, NEW t \in Task, task' = [task EXCEPT ![r] = t]
  PROVE  task' \in [Runs -> Task] /\ Other(r) /\ task'[r] = t
BY DEF Other

LEMMA GotoFacts ==
  ASSUME task \in [Runs -> Task], NEW r \in Runs, NEW pc \in PCs, task' = [task EXCEPT ![r].pc = pc]
  PROVE  /\ task' \in [Runs -> Task] /\ Other(r) /\ task'[r].pc = pc
         /\ task'[r].offer = task[r].offer /\ task'[r].handle = task[r].handle
         /\ task'[r].result = task[r].result /\ task'[r].acked = task[r].acked
<1> DEFINE t == [task[r] EXCEPT !.pc = pc]
<1>1. /\ t \in Task /\ t.pc = pc /\ t.offer = task[r].offer /\ t.handle = task[r].handle
      /\ t.result = task[r].result /\ t.acked = task[r].acked
  BY DEF Task, PCs
<1>2. task' = [task EXCEPT ![r] = t]
  OBVIOUS
<1> HIDE DEF t
<1> QED BY <1>1, <1>2, OneTask

LEMMA AttachFacts ==
  ASSUME task \in [Runs -> Task], NEW r \in Runs, NEW pc \in PCs,
         task' = [task EXCEPT ![r].pc = pc, ![r].handle = TRUE]
  PROVE  /\ task' \in [Runs -> Task] /\ Other(r) /\ task'[r].pc = pc
         /\ task'[r].offer = task[r].offer /\ task'[r].handle
         /\ task'[r].result = task[r].result
<1> DEFINE t == [task[r] EXCEPT !.pc = pc, !.handle = TRUE]
<1>1. t \in Task /\ t.pc = pc /\ t.offer = task[r].offer /\ t.handle /\ t.result = task[r].result
  BY DEF Task, PCs
<1>2. task' = [task EXCEPT ![r] = t]
  OBVIOUS
<1> HIDE DEF t
<1> QED BY <1>1, <1>2, OneTask

LEMMA ReportFacts ==
  ASSUME task \in [Runs -> Task], NEW r \in Runs, NEW res \in CompletionStates,
         End(r, res)
  PROVE  /\ task' \in [Runs -> Task] /\ Other(r) /\ task'[r].pc = "complete"
         /\ task'[r].offer = task[r].offer /\ task'[r].handle = task[r].handle
         /\ task'[r].result = res
<1> DEFINE t == [task[r] EXCEPT !.pc = "complete", !.result = res]
<1>1. t \in Task /\ t.pc = "complete" /\ t.offer = task[r].offer /\ t.handle = task[r].handle /\ t.result = res
  BY DEF Task, Outcomes
<1>2. task' = [task EXCEPT ![r] = t]
  BY DEF End
<1> HIDE DEF t
<1> QED BY <1>1, <1>2, OneTask

LEMMA StopFacts ==
  ASSUME task \in [Runs -> Task], NEW r \in Runs, NEW s \in Stops,
         task' = [task EXCEPT ![r].stop = s]
  PROVE  /\ task' \in [Runs -> Task] /\ Other(r) /\ task'[r].pc = task[r].pc
         /\ task'[r].offer = task[r].offer /\ task'[r].handle = task[r].handle
         /\ task'[r].result = task[r].result /\ task'[r].acked = task[r].acked
<1> DEFINE t == [task[r] EXCEPT !.stop = s]
<1>1. /\ t \in Task /\ t.pc = task[r].pc /\ t.offer = task[r].offer /\ t.handle = task[r].handle
      /\ t.result = task[r].result /\ t.acked = task[r].acked
  BY DEF Task, Stops
<1>2. task' = [task EXCEPT ![r] = t]
  OBVIOUS
<1> HIDE DEF t
<1> QED BY <1>1, <1>2, OneTask

LEMMA AckedFacts ==
  ASSUME task \in [Runs -> Task], NEW r \in Runs, NEW a \in {"told", "guess"},
         task' = [task EXCEPT ![r].pc = "clean", ![r].acked = a]
  PROVE  /\ task' \in [Runs -> Task] /\ Other(r) /\ task'[r].pc = "clean"
         /\ task'[r].offer = task[r].offer /\ task'[r].handle = task[r].handle
         /\ task'[r].acked = a
<1> DEFINE t == [task[r] EXCEPT !.pc = "clean", !.acked = a]
<1>1. /\ t \in Task /\ t.pc = "clean" /\ t.offer = task[r].offer /\ t.handle = task[r].handle
      /\ t.acked = a
  BY DEF Task
<1>2. task' = [task EXCEPT ![r] = t]
  OBVIOUS
<1> HIDE DEF t
<1> QED BY <1>1, <1>2, OneTask

\* What the answer to a report makes of the task.
LEMMA ReceivedFacts ==
  ASSUME frames \subseteq Frame, task \in [Runs -> Task], NEW f \in frames, NEW r \in Runs,
         ReceiveComplete(f, r)
  PROVE  /\ task' \in [Runs -> Task] /\ Other(r) /\ task'[r].pc = "clean"
         /\ task'[r].offer = task[r].offer /\ task'[r].handle = task[r].handle
         /\ f.answer = "undecided" => task'[r].acked = "guess"
<1>1. CASE f.answer = "undecided"
  <2>1. task' = [task EXCEPT ![r].pc = "clean", ![r].acked = "guess"]
    BY <1>1 DEF ReceiveComplete
  <2> QED BY <2>1, AckedFacts
<1>2. CASE f.answer # "undecided"
  <2>1. task' = [task EXCEPT ![r].pc = "clean", ![r].acked = "told"]
    BY <1>2 DEF ReceiveComplete
  <2> QED BY <1>2, <2>1, AckedFacts
<1> QED BY <1>1, <1>2

LEMMA NoTaskTyped ==
  ASSUME NEW a \in Attempts, NEW pc \in {"start", "recover"}
  PROVE  NoTask \in Task /\ [NoTask EXCEPT !.pc = pc, !.offer = a] \in Task
<1>1. 0 \in Attempts /\ "none" \in Outcomes
  BY Bounds DEF Attempts, Outcomes
<1>2. NoTask \in Task
  BY <1>1 DEF NoTask, Task
<1>3. \A t \in Task : [t EXCEPT !.pc = pc, !.offer = a] \in Task
  BY DEF Task
<1> QED BY <1>2, <1>3

\* The steps of a run's task.
LEMMA LaunchTypes ==
  ASSUME Types, NEW r \in Runs, Launch(r)
  PROVE  Types'
<1> USE DEF Types, TypeOK
<1>1. /\ UNCHANGED <<row, frames, conn, wanted, faults>>
      /\ ctr' \in [Runs -> {"none", "created", "running", "ok", "failed", "killed"}]
  BY DEF Launch, Journal, Create, Start, FailToStart, Recover, Quiet, session
<1>2. journal' \in [Runs -> Attempts]
  BY DEF Launch, Journal, Create, Start, FailToStart, Recover, Task
<1>3. \/ \E pc \in {"pull", "run"} : task' = [task EXCEPT ![r].pc = pc]
      \/ \E pc \in {"created", "run"} : task' = [task EXCEPT ![r].pc = pc, ![r].handle = TRUE]
      \/ Fail(r)
  BY DEF Launch, Journal, Create, Start, FailToStart, Recover, Goto
<1>4. task' \in [Runs -> Task] /\ \A s \in Runs : task'[s].pc = "complete" => task'[s].result \in CompletionStates
  <2>1. "FAILURE" \in CompletionStates
    BY DEF CompletionStates
  <2>2. ASSUME NEW pc \in {"pull", "run"}, task' = [task EXCEPT ![r].pc = pc]
        PROVE  task' \in [Runs -> Task] /\ Other(r) /\ task'[r].pc # "complete"
    BY <2>2, GotoFacts DEF PCs
  <2>3. ASSUME NEW pc \in {"created", "run"}, task' = [task EXCEPT ![r].pc = pc, ![r].handle = TRUE]
        PROVE  task' \in [Runs -> Task] /\ Other(r) /\ task'[r].pc # "complete"
    BY <2>3, AttachFacts DEF PCs
  <2>4. CASE Fail(r)
    <3>1. /\ task' \in [Runs -> Task] /\ Other(r)
          /\ task'[r].result \in CompletionStates
      BY <2>4, <2>1, ReportFacts DEF Fail
    <3> QED BY <3>1 DEF ReportsResult, Other
  <2> QED BY <1>3, <2>2, <2>3, <2>4 DEF ReportsResult, Other
<1>5. ReportsResult'
  BY <1>1, <1>4, ReportsKept DEF SameCall
<1> QED BY <1>1, <1>2, <1>4, <1>5

LEMMA ForsakenCalls ==
  ASSUME Types, NEW F \in SUBSET frames, Forsake(F)
  PROVE  frames' \subseteq Frame /\ \A g \in frames' : \E h \in frames : SameCall(g, h)
BY ForsakeFacts DEF Types, TypeOK

LEMMA ClassifyTyped ==
  ASSUME NEW r \in Runs
  PROVE  Classify(r) \in CompletionStates
BY DEF Classify, CompletionStates

LEMMA SuperviseTypes ==
  ASSUME Types, NEW r \in Runs, Supervise(r)
  PROVE  Types'
<1> USE DEF Types, TypeOK
<1>0. \A g \in frames : SameCall(g, g)
  BY DEF SameCall
<1>1. CASE SendStatus(r)
  <2>1. frames' \subseteq Frame
    BY <1>1, CallTyped, Bounds DEF SendStatus, Outcomes
  <2>2. \A f \in frames' : f \in frames \/ f.kind # "complete"
    BY <1>1 DEF SendStatus, Call
  <2>3. ReportsResult'
    BY <1>1, <2>2 DEF SendStatus, local, ReportsResult
  <2> QED BY <1>1, <2>1, <2>3 DEF SendStatus, session, local
<1>2. CASE PushCancel(r)
  <2>1. task' \in [Runs -> Task] /\ Other(r) /\ task'[r].pc = task[r].pc
    <3>1. PICK s \in Stops : task' = [task EXCEPT ![r].stop = s]
      BY <1>2 DEF PushCancel, Stops
    <3> QED BY <3>1, StopFacts
  <2>2. task'[r].pc # "complete"
    BY <1>2, <2>1 DEF PushCancel
  <2>3. ReportsResult'
    BY <1>2, <2>1, <2>2, <1>0, ReportsKept DEF PushCancel, Quiet, Other, ReportsResult
  <2> QED BY <1>2, <2>1, <2>3 DEF PushCancel, Quiet, session
<1>3. CASE Stop(r)
  BY <1>3 DEF Stop, Quiet, session, ReportsResult
<1>4. CASE Deadline(r)
  <2>1. task' \in [Runs -> Task] /\ Other(r) /\ task'[r].pc = task[r].pc
    <3>1. PICK s \in Stops : task' = [task EXCEPT ![r].stop = s]
      BY <1>4 DEF Deadline, Task, Stops
    <3> QED BY <3>1, StopFacts
  <2>2. task'[r].pc # "complete"
    BY <1>4, <2>1 DEF Deadline
  <2>3. ReportsResult'
    BY <1>4, <2>1, <2>2, <1>0, ReportsKept DEF Deadline, Quiet, Other, ReportsResult
  <2> QED BY <1>4, <2>1, <2>3 DEF Deadline, Quiet, session
<1>5. CASE ObserveExit(r)
  <2>1. /\ task' \in [Runs -> Task] /\ Other(r)
        /\ task'[r].result \in CompletionStates
    BY <1>5, ClassifyTyped, ReportFacts DEF ObserveExit
  <2>2. frames' \subseteq Frame /\ \A g \in frames' : \E h \in frames : SameCall(g, h)
    BY <1>5, ForsakenCalls DEF ObserveExit
  <2>3. \A s \in Runs : task'[s].pc = "complete" => task'[s].result \in CompletionStates
    BY <2>1 DEF ReportsResult, Other
  <2> QED BY <1>5, <2>1, <2>2, <2>3, ReportsKept DEF ObserveExit, session
<1> QED BY <1>1, <1>2, <1>3, <1>4, <1>5 DEF Supervise

LEMMA FinalizeTypes ==
  ASSUME Types, NEW r \in Runs, Finalize(r)
  PROVE  Types'
<1> USE DEF Types, TypeOK
<1>0. \A g \in frames : SameCall(g, g)
  BY DEF SameCall
<1>1. CASE SendComplete(r)
  <2>0. task[r].result \in CompletionStates /\ task[r].result \in Outcomes
    BY <1>1 DEF SendComplete, ReportsResult, Outcomes
  <2>1. frames' \subseteq Frame
    BY <1>1, <2>0, CallTyped, Bounds DEF SendComplete
  <2>2. \A f \in frames' : f \in frames \/ (f.runs = {r} /\ f.result = task[r].result)
    BY <1>1 DEF SendComplete, Call
  <2>3. ReportsResult'
    BY <1>1, <2>0, <2>2 DEF SendComplete, local, ReportsResult
  <2> QED BY <1>1, <2>1, <2>3 DEF SendComplete, session, local
<1>2. CASE RemoveContainer(r)
  <2>1. task' \in [Runs -> Task] /\ Other(r) /\ task'[r].pc # "complete"
    BY <1>2, GotoFacts DEF RemoveContainer, Goto, PCs
  <2>2. ReportsResult'
    BY <1>2, <2>1, <1>0, ReportsKept DEF RemoveContainer, Quiet, Other, ReportsResult
  <2>3. ctr' \in [Runs -> {"none", "created", "running", "ok", "failed", "killed"}]
    BY <1>2 DEF RemoveContainer
  <2> QED BY <1>2, <2>1, <2>2, <2>3 DEF RemoveContainer, Quiet, session
<1>3. CASE DropEntry(r)
  <2>0. NoTask \in Task /\ NoTask.pc # "complete" /\ 0 \in Attempts
    <3>1. 0 \in Attempts
      BY Bounds DEF Attempts
    <3> QED BY <3>1, NoTaskTyped DEF NoTask
  <2>1. task' \in [Runs -> Task] /\ Other(r) /\ task'[r].pc # "complete"
    BY <1>3, <2>0, OneTask DEF DropEntry
  <2>2. ReportsResult'
    BY <1>3, <2>1, <1>0, ReportsKept DEF DropEntry, Other, ReportsResult
  <2>3. journal' \in [Runs -> Attempts]
    BY <1>3, <2>0 DEF DropEntry
  <2> QED BY <1>3, <2>1, <2>2, <2>3 DEF DropEntry
<1> QED BY <1>1, <1>2, <1>3 DEF Finalize

LEMMA ReceiveTypes ==
  ASSUME Types, Receive
  PROVE  Types'
<1> USE DEF Types, TypeOK
<1>0. \A g \in frames : SameCall(g, g)
  BY DEF SameCall
<1>1. PICK f \in frames :
        ReceiveHello(f) \/ ReceiveClaim(f) \/ \E r \in f.runs : ReceiveStatus(f, r) \/ ReceiveComplete(f, r)
  BY DEF Receive
<1>f. f \in Frame /\ f.runs \subseteq Runs /\ f.offers \in [Runs -> Attempts]
  BY DEF Frame
<1>g. NoTask.pc = "none" /\ \A a \in Attempts, pc \in {"start", "recover"} :
        /\ [NoTask EXCEPT !.pc = pc, !.offer = a] \in Task
        /\ [NoTask EXCEPT !.pc = pc, !.offer = a].pc = pc
  BY NoTaskTyped DEF NoTask
<1>2. CASE ReceiveHello(f)
  <2>1. /\ task' \in [Runs -> Task]
        /\ \A r \in Runs : task'[r] = task[r] \/ task'[r].pc = "recover"
    BY <1>2, <1>g DEF ReceiveHello
  <2>2. ReportsResult'
    BY <1>2, <2>1, <1>0, ReportsKept DEF ReceiveHello, ReportsResult
  <2> QED BY <1>2, <2>1, <2>2 DEF ReceiveHello
<1>3. CASE ReceiveClaim(f)
  <2>1. /\ task' \in [Runs -> Task]
        /\ \A r \in Runs : task'[r] = task[r] \/ task'[r].pc = "start"
    BY <1>3, <1>f, <1>g DEF ReceiveClaim
  <2>2. ReportsResult'
    BY <1>3, <2>1, <1>0, ReportsKept DEF ReceiveClaim, ReportsResult
  <2> QED BY <1>3, <2>1, <2>2 DEF ReceiveClaim
<1>4. ASSUME NEW r \in f.runs, ReceiveStatus(f, r) PROVE Types'
  <2>0. r \in Runs
    BY <1>f
  <2>1. \/ UNCHANGED task
        \/ \E s \in Stops : task' = [task EXCEPT ![r].stop = s]
    BY <1>4, <2>0 DEF ReceiveStatus, Task, Stops
  <2>2. /\ task' \in [Runs -> Task]
        /\ \A s \in Runs : task'[s].pc = task[s].pc /\ task'[s].result = task[s].result
    BY <2>0, <2>1, StopFacts DEF Other
  <2>3. ReportsResult'
    BY <1>4, <2>2, <1>0, ReportsKept DEF ReceiveStatus, ReportsResult
  <2>4. ctr' \in [Runs -> {"none", "created", "running", "ok", "failed", "killed"}]
    BY <1>4, <2>0 DEF ReceiveStatus, Killed
  <2> QED BY <1>4, <2>2, <2>3, <2>4 DEF ReceiveStatus, session
<1>5. ASSUME NEW r \in f.runs, ReceiveComplete(f, r) PROVE Types'
  <2>1. task' \in [Runs -> Task] /\ Other(r) /\ task'[r].pc # "complete"
    BY <1>5, <1>f, ReceivedFacts
  <2>2. ReportsResult'
    BY <1>5, <2>1, <1>0, ReportsKept DEF ReceiveComplete, Other, ReportsResult
  <2> QED BY <1>5, <2>1, <2>2 DEF ReceiveComplete, session
<1> QED BY <1>1, <1>2, <1>3, <1>4, <1>5

\* The session, the faults, the rest of the system.
LEMMA SessionTypes ==
  ASSUME Types, Connect \/ SendClaim \/ Available
  PROVE  Types'
<1> USE DEF Types, TypeOK
<1>1. frames' \subseteq Frame /\ \A f \in frames' : f \in frames \/ f.kind # "complete"
  <2>1. CASE Connect
    <3>1. Busy \cup Journaled \in SUBSET Runs /\ 0 \in 0..Capacity /\ "none" \in Outcomes
      BY Bounds DEF Busy, Journaled, Outcomes
    <3> QED BY <2>1, <3>1, CallTyped DEF Connect, Call
  <2>2. CASE SendClaim
    <3>1. {} \in SUBSET Runs /\ "none" \in Outcomes
      BY DEF Outcomes
    <3>2. Free > 0 => Call("claim", {}, Free, "none") \in Frame
      BY <3>1, FreeTyped, CallTyped
    <3>3. Call("claim", {}, Free, "none").kind = "claim"
      BY DEF Call
    <3> QED BY <2>2, <3>2, <3>3 DEF SendClaim
  <2>3. CASE Available
    BY <2>3 DEF Available
  <2> QED BY <2>1, <2>2, <2>3
<1>2. UNCHANGED <<row, local, faults>> /\ conn' \in {"down", "hello", "up"} /\ wanted' \in BOOLEAN
  BY DEF Connect, SendClaim, Available
<1> QED BY <1>1, <1>2 DEF local, ReportsResult

LEMMA FaultTypes ==
  ASSUME Types, Disconnect \/ Restart \/ \E f \in frames : CallTimeout(f)
  PROVE  Types'
<1> USE DEF Types, TypeOK
<1>1. \E F \in SUBSET frames : Forsake(F)
  BY DEF Disconnect, Restart, CallTimeout, Alive
<1>2. frames' \subseteq Frame /\ \A g \in frames' : \E h \in frames : SameCall(g, h)
  BY <1>1, ForsakenCalls
<1>3. /\ task' \in [Runs -> Task]
      /\ \A r \in Runs : task'[r] = task[r] \/ task'[r].pc = "none"
  <2>1. NoTask \in Task /\ NoTask.pc = "none"
    <3>1. 0 \in Attempts
      BY Bounds DEF Attempts
    <3> QED BY <3>1, NoTaskTyped DEF NoTask
  <2> QED BY <2>1 DEF Disconnect, Restart, CallTimeout, local
<1>4. UNCHANGED <<row, journal, ctr>> /\ conn' \in {"down", "hello", "up"} /\ wanted' \in BOOLEAN
  BY DEF Disconnect, Restart, CallTimeout, local, session
<1>5. faults' \in 0..MaxFaults
  <2>1. MaxFaults \in Nat /\ Fault
    BY AgentAssumption DEF AgentAssumption, Disconnect, Restart, CallTimeout
  <2> QED BY <2>1 DEF Fault
<1>6. ReportsResult'
  BY <1>2, <1>3, ReportsKept DEF ReportsResult
<1> QED BY <1>2, <1>3, <1>4, <1>5, <1>6

LEMMA UndecidedTypes ==
  ASSUME Types, NEW f \in frames, Undecided(f)
  PROVE  Types'
<1> USE DEF Types, TypeOK
<1>1. frames' \subseteq Frame /\ \A g \in frames' : \E h \in frames : SameCall(g, h)
  BY UndecidedFacts DEF SameCall
<1>2. UNCHANGED <<row, conn, wanted, task, journal, ctr>>
  BY DEF Undecided, session, local
<1>3. faults' \in 0..MaxFaults
  BY AgentAssumption DEF AgentAssumption, Undecided, Fault
<1>4. ReportsResult'
  BY <1>1, <1>2, ReportsKept DEF ReportsResult
<1> QED BY <1>1, <1>2, <1>3, <1>4

LEMMA EnvironmentTypes ==
  ASSUME Types, NEW r \in Runs, Environment(r) \/ Exit(r)
  PROVE  Types'
<1> USE DEF Types, TypeOK
<1>1. CASE Environment(r)
  <2>1. row' \in [Runs -> Row]
    <3>1. Abandoned(row[r]) \in Row
      BY AbandonedTyped
    <3>2. {"CLAIMED", "SUCCESS", "CANCELLED"} \subseteq RunState
      BY DEF RunState
    <3>3. \/ row' = [row EXCEPT ![r] = Abandoned(row[r])]
          \/ \E s \in {"CLAIMED", "SUCCESS", "CANCELLED"} : row' = [row EXCEPT ![r].state = s]
          \/ row' = [row EXCEPT ![r].cancel = TRUE]
      BY <1>1 DEF Environment
    <3>4. CASE \E s \in {"CLAIMED", "SUCCESS", "CANCELLED"} : row' = [row EXCEPT ![r].state = s]
      BY <3>2, <3>4, StateTyped
    <3>5. CASE row' = [row EXCEPT ![r].cancel = TRUE]
      BY <3>5, RowTyped
    <3> QED BY <3>1, <3>3, <3>4, <3>5
  <2> QED BY <1>1, <2>1 DEF Environment, session, local, ReportsResult
<1>2. CASE Exit(r)
  <2>1. ctr' \in [Runs -> {"none", "created", "running", "ok", "failed", "killed"}]
    BY <1>2 DEF Exit
  <2> QED BY <1>2, <2>1 DEF Exit, Quiet, session, ReportsResult
<1> QED BY <1>1, <1>2

LEMMA InitTypes == Init => Types
<1>1. NoTask \in Task /\ NoTask.pc = "none" /\ 0 \in Attempts
  <2>1. 0 \in Attempts
    BY Bounds DEF Attempts
  <2> QED BY <2>1, NoTaskTyped DEF NoTask
<1>2. [state |-> "PENDING", mine |-> FALSE, attempt |-> 1, cancel |-> FALSE] \in Row
  BY Bounds DEF Row, RunState
<1>3. 0 \in 0..MaxFaults
  BY AgentAssumption DEF AgentAssumption
<1> QED BY <1>1, <1>2, <1>3 DEF Init, Types, TypeOK, ReportsResult, NoOffers

LEMMA TypesStep == Types /\ [Next]_vars => Types'
<1> SUFFICES ASSUME Types, [Next]_vars PROVE Types'
  OBVIOUS
<1>1. CASE Handle
  <2>1. UNCHANGED <<session, local, faults>>
    BY <1>1 DEF Handle, HandleHello, HandleClaim, HandleStatus, HandleComplete
  <2>2. ReportsResult'
    BY <1>1, <2>1, HandleKeepsCalls, ReportsKept DEF local, Types, ReportsResult
  <2> QED BY <1>1, <2>1, <2>2, HandleTypes DEF Types, TypeOK, session, local
<1>2. CASE UNCHANGED vars
  BY <1>2 DEF vars, Types, TypeOK, ReportsResult
<1> QED BY <1>1, <1>2, ReceiveTypes, SessionTypes, FaultTypes, UndecidedTypes, EnvironmentTypes, LaunchTypes,
           SuperviseTypes, FinalizeTypes DEF Next

\* Every reachable state is well typed; in particular no run is attempted more often
\* than its retries allow, and a report carries a completion state (claims.py:186).
THEOREM AgentTyped == Spec => []TypeOK
<1>1. Types => TypeOK
  BY DEF Types
<1> QED BY InitTypes, TypesStep, <1>1, PTL DEF Spec

-----------------------------------------------------------------------------
(* Nothing is forgotten *)

\* What any step does to a row, whoever takes it: a run is queued again only as a new
\* attempt, and this worker comes to hold only what was queued.
RowStep(r) ==
  \/ /\ row'[r].attempt = row[r].attempt
     /\ row'[r].state = "PENDING" => row[r].state = "PENDING"
     /\ Held(r)' => Held(r) \/ row[r].state = "PENDING"
  \/ row'[r].attempt > row[r].attempt

LEMMA GrantedKept ==
  ASSUME Types, Types', NEW r \in Runs, RowStep(r), NEW a \in Attempts, Granted(r, a)
  PROVE  Granted(r, a)'
<1>1. a \in Int /\ row[r].attempt \in Int /\ row'[r].attempt \in Int
  BY Bounds DEF Types, TypeOK, Row, Attempts
<1> QED BY <1>1 DEF RowStep, Granted

LEMMA DoneKept ==
  ASSUME Types, Types', OffersGranted, NEW r \in Runs, RowStep(r),
         journal'[r] = journal[r], Done(r)
  PROVE  Done(r)'
<1>1. journal[r] \in Int /\ row[r].attempt \in Int /\ row'[r].attempt \in Int /\ row[r].attempt > 0
  BY Bounds DEF Types, TypeOK, Row, Attempts
<1>2. journal[r] # 0 => Granted(r, journal[r])
  BY DEF OffersGranted
<1> QED BY <1>1, <1>2 DEF RowStep, Granted, Done

LEMMA AbandonedRow ==
  ASSUME NEW w \in Row
  PROVE  \/ Abandoned(w).attempt = w.attempt /\ Abandoned(w).state = "ABANDONED"
         \/ Abandoned(w).attempt > w.attempt
<1>0. w.attempt \in Int
  BY Bounds DEF Row
<1>1. CASE w.attempt < MaxAttempts
  <2>1. Abandoned(w).attempt = w.attempt + 1
    BY <1>1 DEF Abandoned, Row
  <2> QED BY <2>1, <1>0
<1>2. CASE ~(w.attempt < MaxAttempts)
  BY <1>2 DEF Abandoned, Row
<1> QED BY <1>1, <1>2

LEMMA AbandonedStep ==
  ASSUME Types, NEW r \in Runs, row'[r] = Abandoned(row[r])
  PROVE  RowStep(r)
<1>1. row[r] \in Row
  BY DEF Types, TypeOK
<1> QED BY <1>1, AbandonedRow DEF RowStep, Held, ActiveStates

LEMMA SameStep ==
  ASSUME NEW r \in Runs, row'[r] = row[r]
  PROVE  RowStep(r)
BY DEF RowStep, Held

\* The server grants what it claims, and is done with a run whose report it answers.
LEMMA HandleShape ==
  ASSUME Types, Handle
  PROVE  /\ \A r \in Runs : RowStep(r)
         /\ \E f \in frames : \E g :
              /\ frames' \subseteq (frames \ {f}) \cup {g}
              /\ SameCall(g, f) /\ g.alive = f.alive
              /\ g.kind = "complete" => \A r \in g.runs : Done(r)'
              /\ \A r \in Runs : g.offers[r] = f.offers[r]
                                 \/ (g.offers[r] # 0 => g.kind = "claim" /\ Granted(r, g.offers[r])')
<1> DEFINE Goal == /\ \A r \in Runs : RowStep(r)
                   /\ \E f \in frames : \E g :
                        /\ frames' \subseteq (frames \ {f}) \cup {g}
                        /\ SameCall(g, f) /\ g.alive = f.alive
                        /\ g.kind = "complete" => \A r \in g.runs : Done(r)'
                        /\ \A r \in Runs : g.offers[r] = f.offers[r]
                                           \/ (g.offers[r] # 0 => g.kind = "claim" /\ Granted(r, g.offers[r])')
<1>1. PICK f \in frames :
        HandleHello(f) \/ HandleClaim(f) \/ \E r \in f.runs : HandleStatus(f, r) \/ HandleComplete(f, r)
  BY DEF Handle
<1>f. f \in Frame /\ f.runs \subseteq Runs
  BY DEF Types, TypeOK, Frame
<1>a. ASSUME NEW a, Answer(f, a)
      PROVE  \E g : /\ frames' \subseteq (frames \ {f}) \cup {g}
                    /\ SameCall(g, f) /\ g.alive = f.alive /\ g.offers = f.offers
  <2>1. frames' \subseteq (frames \ {f}) \cup {[f EXCEPT !.answer = a]}
    BY <1>a DEF Answer
  <2>2. /\ SameCall([f EXCEPT !.answer = a], f)
        /\ [f EXCEPT !.answer = a].alive = f.alive /\ [f EXCEPT !.answer = a].offers = f.offers
    BY <1>f DEF Frame, SameCall
  <2> QED BY <2>1, <2>2
<1>2. CASE HandleHello(f)
  <2>1. ASSUME NEW r \in Runs PROVE RowStep(r)
    <3>1. row'[r] = row[r] \/ row'[r] = Abandoned(row[r])
      BY <1>2 DEF HandleHello
    <3> QED BY <3>1, AbandonedStep, SameStep
  <2>2. f.kind # "complete" /\ \E a : Answer(f, a)
    BY <1>2 DEF HandleHello
  <2> QED BY <1>a, <2>1, <2>2 DEF SameCall
<1>3. CASE HandleClaim(f)
  <2>1. PICK S \in SUBSET {r \in Runs : row[r].state = "PENDING"} :
          /\ row' = [r \in Runs |-> IF r \in S THEN [row[r] EXCEPT !.state = "CLAIMED", !.mine = TRUE]
                                    ELSE row[r]]
          /\ frames' \subseteq (frames \ {f}) \cup
               {[f EXCEPT !.answer = "ok", !.offers = [r \in Runs |-> IF r \in S THEN row[r].attempt ELSE 0]]}
    BY <1>3 DEF HandleClaim
  <2>o. PICK o : o = [r \in Runs |-> IF r \in S THEN row[r].attempt ELSE 0]
    OBVIOUS
  <2>g. PICK g : g = [f EXCEPT !.answer = "ok", !.offers = o]
    OBVIOUS
  <2>2. /\ SameCall(g, f) /\ g.alive = f.alive /\ g.offers = o
        /\ g.kind = "claim"
    BY <1>3, <1>f, <2>g DEF HandleClaim, Frame, SameCall
  <2>3. ASSUME NEW r \in Runs PROVE RowStep(r) /\ (o[r] # 0 => Granted(r, o[r])')
    <3>0. row[r] \in Row /\ row[r].attempt \in Int
      BY Bounds DEF Types, TypeOK, Row
    <3>1. CASE r \in S
      <4>1. row'[r].attempt = row[r].attempt /\ row'[r].state = "CLAIMED" /\ row[r].state = "PENDING"
        BY <3>0, <3>1, <2>1 DEF Row
      <4>2. o[r] = row[r].attempt
        BY <3>1, <2>o
      <4> QED BY <3>0, <4>1, <4>2 DEF RowStep, Granted
    <3>2. CASE r \notin S
      <4>1. row'[r] = row[r] /\ o[r] = 0
        BY <3>2, <2>1, <2>o
      <4> QED BY <4>1, SameStep
    <3> QED BY <3>1, <3>2
  <2>4. frames' \subseteq (frames \ {f}) \cup {g}
    BY <2>1, <2>o, <2>g
  <2> QED BY <2>2, <2>3, <2>4
<1>4. ASSUME NEW r \in f.runs, HandleStatus(f, r) PROVE Goal
  <2>0. r \in Runs
    BY <1>f
  <2>1. ASSUME NEW s \in Runs PROVE RowStep(s)
    <3>1. row[s] \in Row /\ row[r] \in Row /\ row \in [Runs -> Row]
      BY <2>0 DEF Types, TypeOK
    <3>2. CASE UNCHANGED row
      BY <3>2, SameStep
    <3>3. CASE Held(r) /\ row' = [row EXCEPT ![r].state = "RUNNING"]
      <4>1. CASE s = r
        <5>1. row'[s].attempt = row[s].attempt /\ row'[s].state = "RUNNING"
          BY <3>1, <3>3, <4>1 DEF Row
        <5> QED BY <5>1, <3>3, <4>1 DEF RowStep
      <4>2. CASE s # r
        BY <4>2, <3>3, <3>1, SameStep
      <4> QED BY <4>1, <4>2
    <3> QED BY <1>4, <3>2, <3>3 DEF HandleStatus
  <2>2. f.kind # "complete" /\ \E a : Answer(f, a)
    BY <1>4 DEF HandleStatus
  <2> QED BY <1>a, <2>1, <2>2 DEF SameCall
<1>5. ASSUME NEW r \in f.runs, HandleComplete(f, r) PROVE Goal
  <2>0. r \in Runs /\ row \in [Runs -> Row] /\ row[r] \in Row
    BY <1>f DEF Types, TypeOK
  <2>1. f.result \in CompletionStates /\ \A s \in f.runs : s = r
    BY <1>5 DEF HandleComplete, Types, ReportsResult
  <2>2. \/ UNCHANGED row /\ ~Held(r)
        \/ Held(r) /\ row' = [row EXCEPT ![r].state = f.result]
    BY <1>5 DEF HandleComplete
  <2>3. CASE UNCHANGED row /\ ~Held(r)
    <3>1. (\A s \in Runs : RowStep(s)) /\ Done(r)'
      BY <2>3, SameStep DEF Done, Held
    <3>2. \E a : Answer(f, a)
      BY <1>5 DEF HandleComplete
    <3> QED BY <1>a, <2>1, <3>1, <3>2 DEF SameCall
  <2>4. CASE Held(r) /\ row' = [row EXCEPT ![r].state = f.result]
    <3>1. row'[r].attempt = row[r].attempt /\ row'[r].state = f.result
      BY <2>0, <2>4 DEF Row
    <3>2. ~Held(r)' /\ row'[r].state # "PENDING"
      BY <2>1, <3>1 DEF Held, ActiveStates, CompletionStates
    <3>3. Done(r)' /\ \A s \in Runs : RowStep(s)
      <4>1. \A s \in Runs \ {r} : row'[s] = row[s]
        BY <2>0, <2>4
      <4> QED BY <3>1, <3>2, <4>1, SameStep DEF RowStep, Done
    <3>4. \E a : Answer(f, a)
      BY <1>5 DEF HandleComplete
    <3> QED BY <1>a, <2>1, <3>3, <3>4 DEF SameCall
  <2> QED BY <2>2, <2>3, <2>4
<1> QED BY <1>1, <1>2, <1>3, <1>4, <1>5

LEMMA OffersKept ==
  ASSUME Types, Types', OffersGranted, \A r \in Runs : RowStep(r),
         \A r \in Runs, f \in frames' : f.offers[r] # 0 =>
           Granted(r, f.offers[r])' \/ \E g \in frames : g.offers[r] = f.offers[r],
         \A r \in Runs : task'[r].offer # 0 =>
           task'[r].offer \in {task[r].offer, journal[r]} \/ \E g \in frames : g.offers[r] = task'[r].offer,
         \A r \in Runs : journal'[r] # 0 => journal'[r] \in {task[r].offer, journal[r]}
  PROVE  OffersGranted'
<1> SUFFICES ASSUME NEW r \in Runs
             PROVE  /\ \A f \in frames' : f.offers[r] # 0 => Granted(r, f.offers[r])'
                    /\ task'[r].offer # 0 => Granted(r, task[r].offer)'
                    /\ journal'[r] # 0 => Granted(r, journal[r])'
  BY DEF OffersGranted
<1>1. /\ \A g \in frames : g.offers[r] \in Attempts
      /\ task[r].offer \in Attempts /\ journal[r] \in Attempts
  BY DEF Types, TypeOK, Frame, Task
<1>2. ASSUME NEW a \in Attempts, a # 0,
             a \in {task[r].offer, journal[r]} \/ \E g \in frames : g.offers[r] = a
      PROVE  Granted(r, a)'
  BY <1>2, GrantedKept DEF OffersGranted
<1>3. ASSUME NEW f \in frames', f.offers[r] # 0 PROVE Granted(r, f.offers[r])'
  BY <1>1, <1>2, <1>3
<1>4. ASSUME task'[r].offer # 0 PROVE Granted(r, task[r].offer)'
  <2>1. PICK a \in Attempts : a = task'[r].offer
    BY DEF Types, TypeOK, Task
  <2>2. Granted(r, a)'
    BY <1>2, <1>4, <2>1
  <2> QED BY <2>1, <2>2 DEF Granted
<1>5. ASSUME journal'[r] # 0 PROVE Granted(r, journal[r])'
  <2>1. PICK a \in Attempts : a = journal'[r]
    BY DEF Types, TypeOK
  <2>2. Granted(r, a)'
    BY <1>2, <1>5, <2>1
  <2> QED BY <2>1, <2>2 DEF Granted
<1> QED BY <1>3, <1>4, <1>5

\* The agent's steps keep or forsake calls, and may add one of some kind.
NewCalls(kind) ==
  \A f \in frames' :
    \/ (f.alive => f \in frames) /\ \E g \in frames : SameCall(f, g) /\ f.offers = g.offers
    \/ f.kind = kind /\ f.offers = NoOffers

LEMMA FewerCalls ==
  ASSUME NEW kind, frames' \subseteq frames
  PROVE  NewCalls(kind)
BY DEF NewCalls, SameCall

LEMMA ForsakenNew ==
  ASSUME Types, NEW F \in SUBSET frames, Forsake(F), NEW kind
  PROVE  NewCalls(kind)
BY ForsakeFacts DEF NewCalls, Types, TypeOK

LEMMA CallNew ==
  ASSUME NEW kind, NEW runs, NEW max, NEW result, frames' = frames \cup {Call(kind, runs, max, result)}
  PROVE  NewCalls(kind)
BY DEF NewCalls, SameCall, Call

\* A step that sends no report keeps the faith if what has ended or is reported stays
\* so, and if what is cleaned up is done with.
LEMMA FaithKept ==
  ASSUME Types, Types', Faithful, \A r \in Runs : RowStep(r),
         NEW kind, kind # "complete", NewCalls(kind),
         \A r \in Runs : task'[r].offer # 0 =>
           task'[r].offer \in {task[r].offer, journal[r]} \/ \E g \in frames : g.offers[r] = task'[r].offer,
         \A r \in Runs : journal'[r] # 0 => journal'[r] \in {task[r].offer, journal[r]},
         \A r \in Runs : task[r].pc = "complete" /\ (\E f \in frames' : Reporting(f, r)) =>
           task'[r].pc = "complete" /\ journal'[r] = journal[r],
         \A r \in Runs : task'[r].pc \in {"clean", "drop"} =>
           /\ journal'[r] = journal[r]
           /\ \/ task[r].pc \in {"clean", "drop"} /\ task'[r].acked = task[r].acked
              \/ Done(r)
              \/ task'[r].acked = "guess"
  PROVE  Faithful'
<1>1. OffersGranted'
  <2>1. \A r \in Runs, f \in frames' : f.offers[r] # 0 => \E g \in frames : g.offers[r] = f.offers[r]
    BY DEF NewCalls, NoOffers
  <2> QED BY <2>1, OffersKept DEF Faithful
<1>2. ReportsResult'
  BY DEF Types
<1>3. \A f \in frames', r \in Runs : Reporting(f, r) => f \in frames
  BY DEF Reporting, NewCalls
<1>4. \A f \in frames', r \in Runs : Reporting(f, r) =>
        task'[r].pc = "complete" /\ (f.answer \notin {"none", "undecided"} => Done(r)')
  BY <1>3, DoneKept DEF Faithful, ReportsSettle
<1>5. \A f, g \in frames', r \in Runs : Reporting(f, r) /\ Reporting(g, r) => f = g
  BY <1>3 DEF Faithful, ReportsSettle
<1>6. \A r \in Runs : task'[r].pc \in {"clean", "drop"} => Done(r)' \/ task'[r].acked = "guess"
  BY DoneKept DEF Faithful, ReportsSettle
<1>7. ReportsSettle'
  BY <1>4, <1>5, <1>6 DEF ReportsSettle, Reporting
<1> QED BY <1>1, <1>2, <1>7 DEF Faithful

LEMMA HandleFaithful ==
  ASSUME Types, Types', Faithful, Handle
  PROVE  Faithful'
<1>0. UNCHANGED <<task, journal>>
  BY DEF Handle, HandleHello, HandleClaim, HandleStatus, HandleComplete, local
<1>1. \A r \in Runs : RowStep(r)
  BY HandleShape
<1>2. PICK f \in frames : \E g :
        /\ frames' \subseteq (frames \ {f}) \cup {g}
        /\ SameCall(g, f) /\ g.alive = f.alive
        /\ g.kind = "complete" => \A r \in g.runs : Done(r)'
        /\ \A r \in Runs : g.offers[r] = f.offers[r]
                           \/ (g.offers[r] # 0 => g.kind = "claim" /\ Granted(r, g.offers[r])')
  BY HandleShape
<1>3. PICK g :
        /\ frames' \subseteq (frames \ {f}) \cup {g}
        /\ SameCall(g, f) /\ g.alive = f.alive
        /\ g.kind = "complete" => \A r \in g.runs : Done(r)'
        /\ \A r \in Runs : g.offers[r] = f.offers[r]
                           \/ (g.offers[r] # 0 => g.kind = "claim" /\ Granted(r, g.offers[r])')
  BY <1>2
<1>4. OffersGranted'
  <2>1. \A r \in Runs, h \in frames' : h.offers[r] # 0 =>
          Granted(r, h.offers[r])' \/ \E e \in frames : e.offers[r] = h.offers[r]
    BY <1>3
  <2> QED BY <1>0, <1>1, <2>1, OffersKept DEF Faithful
<1>5. \A h \in frames', r \in Runs : Reporting(h, r) =>
        h \in frames \ {f} \/ (h = g /\ Reporting(f, r) /\ Done(r)')
  BY <1>3 DEF Reporting, SameCall
<1>6. \A h \in frames', r \in Runs : Reporting(h, r) =>
        task'[r].pc = "complete" /\ (h.answer \notin {"none", "undecided"} => Done(r)')
  BY <1>0, <1>1, <1>5, DoneKept DEF Faithful, ReportsSettle
<1>7. \A h, e \in frames', r \in Runs : Reporting(h, r) /\ Reporting(e, r) => h = e
  BY <1>5 DEF Faithful, ReportsSettle
<1>8. \A r \in Runs : task'[r].pc \in {"clean", "drop"} => Done(r)' \/ task'[r].acked = "guess"
  BY <1>0, <1>1, DoneKept DEF Faithful, ReportsSettle
<1>9. ReportsSettle'
  BY <1>6, <1>7, <1>8 DEF ReportsSettle, Reporting
<1> QED BY <1>4, <1>9 DEF Faithful, Types

LEMMA SendCompleteFaithful ==
  ASSUME Types, Types', Faithful, NEW r \in Runs, SendComplete(r)
  PROVE  Faithful'
<1>0. UNCHANGED <<row, task, journal>> /\ task[r].pc = "complete" /\ ~Waiting("complete", r)
  BY DEF SendComplete, local
<1>1. \A s \in Runs : RowStep(s)
  BY <1>0, SameStep
<1>2. PICK c : /\ c = Call("complete", {r}, 0, task[r].result) /\ frames' = frames \cup {c}
  BY DEF SendComplete
<1>3. c.runs = {r} /\ c.answer = "none" /\ c.offers = NoOffers
  BY <1>2 DEF Call
<1>4. OffersGranted'
  <2>1. \A s \in Runs, h \in frames' : h.offers[s] # 0 => \E e \in frames : e.offers[s] = h.offers[s]
    BY <1>2, <1>3 DEF NoOffers
  <2> QED BY <1>0, <1>1, <2>1, OffersKept DEF Faithful
<1>5. \A h \in frames : ~Reporting(h, r)
  BY <1>0 DEF Waiting, Reporting
<1>6. \A h \in frames', s \in Runs : Reporting(h, s) => h \in frames \/ (h = c /\ s = r)
  BY <1>2, <1>3 DEF Reporting
<1>7. \A h \in frames', s \in Runs : Reporting(h, s) =>
        task'[s].pc = "complete" /\ (h.answer \notin {"none", "undecided"} => Done(s)')
  BY <1>0, <1>1, <1>3, <1>6, DoneKept DEF Faithful, ReportsSettle
<1>8. \A h, e \in frames', s \in Runs : Reporting(h, s) /\ Reporting(e, s) => h = e
  BY <1>5, <1>6 DEF Faithful, ReportsSettle
<1>9. \A s \in Runs : task'[s].pc \in {"clean", "drop"} => Done(s)' \/ task'[s].acked = "guess"
  BY <1>0, <1>1, DoneKept DEF Faithful, ReportsSettle
<1>10. ReportsSettle'
  BY <1>7, <1>8, <1>9 DEF ReportsSettle, Reporting
<1> QED BY <1>4, <1>10 DEF Faithful, Types

LEMMA ReceiveFaithful ==
  ASSUME Types, Types', Faithful, Receive
  PROVE  Faithful'
<1>1. PICK f \in frames :
        ReceiveHello(f) \/ ReceiveClaim(f) \/ \E r \in f.runs : ReceiveStatus(f, r) \/ ReceiveComplete(f, r)
  BY DEF Receive
<1>2. UNCHANGED <<row, journal>> /\ frames' = frames \ {f}
  BY <1>1 DEF ReceiveHello, ReceiveClaim, ReceiveStatus, ReceiveComplete
<1>3. (\A r \in Runs : RowStep(r)) /\ NewCalls("hello")
  BY <1>2, SameStep, FewerCalls
<1>f. f.runs \subseteq Runs /\ task \in [Runs -> Task]
  BY DEF Types, TypeOK, Frame
<1>4. CASE ReceiveHello(f)
  <2>1. \A r \in Runs : task'[r] = task[r]
          \/ (task[r].pc = "none" /\ task'[r].pc = "recover" /\ task'[r].offer = journal[r])
    BY <1>4 DEF ReceiveHello, NoTask, Busy
  <2> QED BY <1>2, <1>3, <2>1, FaithKept
<1>5. CASE ReceiveClaim(f)
  <2>1. \A r \in Runs : task'[r] = task[r]
          \/ (task[r].pc = "none" /\ task'[r].pc = "start" /\ task'[r].offer = f.offers[r])
    BY <1>5 DEF ReceiveClaim, NoTask, Busy
  <2> QED BY <1>2, <1>3, <2>1, FaithKept
<1>6. ASSUME NEW r \in f.runs, ReceiveStatus(f, r) PROVE Faithful'
  <2>1. UNCHANGED task \/ \E s \in Stops : task' = [task EXCEPT ![r].stop = s]
    BY <1>f, <1>6 DEF ReceiveStatus, Task, Stops
  <2>2. \A s \in Runs : /\ task'[s].pc = task[s].pc /\ task'[s].offer = task[s].offer
                        /\ task'[s].acked = task[s].acked
    BY <1>f, <2>1, StopFacts DEF Other
  <2> QED BY <1>2, <1>3, <2>2, FaithKept
<1>7. ASSUME NEW r \in f.runs, ReceiveComplete(f, r) PROVE Faithful'
  <2>1. /\ Other(r) /\ task'[r].pc = "clean" /\ task'[r].offer = task[r].offer
        /\ f.answer = "undecided" => task'[r].acked = "guess"
    BY <1>f, <1>7, ReceivedFacts DEF Types, TypeOK
  <2>2. Reporting(f, r) /\ f.answer # "none" /\ r \in Runs
    BY <1>f, <1>7 DEF ReceiveComplete, Reporting
  <2>3. (Done(r) \/ task'[r].acked = "guess") /\ \A g \in frames' : ~Reporting(g, r)
    BY <1>2, <2>1, <2>2 DEF Faithful, ReportsSettle
  <2> QED BY <1>2, <1>3, <2>1, <2>3, FaithKept DEF Other
<1> QED BY <1>1, <1>4, <1>5, <1>6, <1>7

LEMMA LaunchFaithful ==
  ASSUME Types, Types', Faithful, NEW r \in Runs, Launch(r)
  PROVE  Faithful'
<1>1. UNCHANGED <<row, frames>> /\ task[r].pc \in {"start", "pull", "created", "recover"}
  BY DEF Launch, Journal, Create, Start, FailToStart, Recover, Quiet
<1>2. (\A s \in Runs : RowStep(s)) /\ NewCalls("hello")
  BY <1>1, SameStep, FewerCalls
<1>3. \A s \in Runs : journal'[s] = journal[s] \/ (s = r /\ journal'[s] = task[s].offer)
  BY DEF Launch, Journal, Create, Start, FailToStart, Recover, Types, TypeOK
<1>4. Other(r) /\ task'[r].offer = task[r].offer /\ task'[r].pc \notin {"clean", "drop"}
  <2> USE DEF Types, TypeOK
  <2>1. \/ \E pc \in {"pull", "run"} : task' = [task EXCEPT ![r].pc = pc]
        \/ \E pc \in {"created", "run"} : task' = [task EXCEPT ![r].pc = pc, ![r].handle = TRUE]
        \/ End(r, "FAILURE")
    BY DEF Launch, Journal, Create, Start, FailToStart, Recover, Goto, Fail
  <2>2. ASSUME NEW pc \in {"pull", "run"}, task' = [task EXCEPT ![r].pc = pc]
        PROVE  Other(r) /\ task'[r].offer = task[r].offer /\ task'[r].pc \notin {"clean", "drop"}
    BY <2>2, GotoFacts DEF PCs
  <2>3. ASSUME NEW pc \in {"created", "run"}, task' = [task EXCEPT ![r].pc = pc, ![r].handle = TRUE]
        PROVE  Other(r) /\ task'[r].offer = task[r].offer /\ task'[r].pc \notin {"clean", "drop"}
    BY <2>3, AttachFacts DEF PCs
  <2>4. CASE End(r, "FAILURE")
    BY <2>4, ReportFacts DEF CompletionStates
  <2> QED BY <2>1, <2>2, <2>3, <2>4
<1>5. \A f \in frames : ~Reporting(f, r)
  BY <1>1 DEF Faithful, ReportsSettle
<1>6. \A s \in Runs \ {r} : task'[s] = task[s] /\ journal'[s] = journal[s]
  BY <1>3, <1>4 DEF Other
<1> QED BY <1>1, <1>2, <1>3, <1>4, <1>5, <1>6, FaithKept

LEMMA SuperviseFaithful ==
  ASSUME Types, Types', Faithful, NEW r \in Runs, Supervise(r)
  PROVE  Faithful'
<1>1. UNCHANGED <<row, journal>> /\ \A s \in Runs : RowStep(s)
  BY SameStep DEF Supervise, SendStatus, PushCancel, Stop, Deadline, ObserveExit, Quiet, local
<1>t. task \in [Runs -> Task]
  BY DEF Types, TypeOK
<1>2. CASE SendStatus(r)
  <2>1. NewCalls("status") /\ UNCHANGED task
    BY <1>2, CallNew DEF SendStatus, local
  <2> QED BY <1>1, <2>1, FaithKept
<1>3. CASE PushCancel(r) \/ Deadline(r) \/ Stop(r)
  <2>1. NewCalls("status")
    BY <1>3, FewerCalls DEF PushCancel, Deadline, Stop, Quiet
  <2>2. UNCHANGED task \/ \E s \in Stops : task' = [task EXCEPT ![r].stop = s]
    BY <1>t, <1>3 DEF PushCancel, Deadline, Stop, Task, Stops
  <2>3. \A s \in Runs : /\ task'[s].pc = task[s].pc /\ task'[s].offer = task[s].offer
                        /\ task'[s].acked = task[s].acked
    BY <1>t, <2>2, StopFacts DEF Other
  <2> QED BY <1>1, <2>1, <2>3, FaithKept
<1>4. CASE ObserveExit(r)
  <2>1. NewCalls("status")
    BY <1>4, ForsakenNew DEF ObserveExit
  <2>2. Other(r) /\ task'[r].pc = "complete" /\ task'[r].offer = task[r].offer
    BY <1>4, <1>t, ClassifyTyped, ReportFacts DEF ObserveExit
  <2> QED BY <1>1, <2>1, <2>2, FaithKept DEF Other
<1> QED BY <1>2, <1>3, <1>4 DEF Supervise

LEMMA CleanupFaithful ==
  ASSUME Types, Types', Faithful, NEW r \in Runs, RemoveContainer(r) \/ DropEntry(r)
  PROVE  Faithful'
<1>1. UNCHANGED <<row, frames>> /\ task[r].pc \in {"clean", "drop"}
  BY DEF RemoveContainer, DropEntry, Quiet
<1>2. (\A s \in Runs : RowStep(s)) /\ NewCalls("hello")
  BY <1>1, SameStep, FewerCalls
<1>3. task \in [Runs -> Task] /\ journal \in [Runs -> Attempts]
  BY DEF Types, TypeOK
<1>4. CASE RemoveContainer(r)
  <2>1. /\ UNCHANGED journal /\ Other(r) /\ task'[r].pc = "drop" /\ task'[r].offer = task[r].offer
        /\ task'[r].acked = task[r].acked
    BY <1>3, <1>4, GotoFacts DEF RemoveContainer, Goto, PCs
  <2> QED BY <1>1, <1>2, <2>1, FaithKept DEF Other
<1>5. CASE DropEntry(r)
  <2>1. /\ \A s \in Runs \ {r} : task'[s] = task[s] /\ journal'[s] = journal[s]
        /\ task'[r].pc = "none" /\ task'[r].offer = 0 /\ journal'[r] = 0
    BY <1>3, <1>5 DEF DropEntry, NoTask
  <2> QED BY <1>1, <1>2, <2>1, FaithKept
<1> QED BY <1>4, <1>5

LEMMA SessionFaithful ==
  ASSUME Types, Types', Faithful,
         \/ Connect \/ SendClaim \/ Available
         \/ Disconnect \/ Restart \/ \E f \in frames : CallTimeout(f)
  PROVE  Faithful'
<1>1. UNCHANGED <<row, journal>> /\ \A s \in Runs : RowStep(s)
  BY SameStep DEF Connect, SendClaim, Available, Disconnect, Restart, CallTimeout, local
<1>2. CASE Connect \/ SendClaim \/ Available
  <2>1. UNCHANGED task
    BY <1>2 DEF Connect, SendClaim, Available, local
  <2>2. NewCalls("hello") \/ NewCalls("claim")
    BY <1>2, CallNew, FewerCalls DEF Connect, SendClaim, Available
  <2> QED BY <1>1, <2>1, <2>2, FaithKept
<1>3. CASE Disconnect \/ \E f \in frames : CallTimeout(f)
  <2>1. UNCHANGED task
    BY <1>3 DEF Disconnect, CallTimeout, local
  <2>2. NewCalls("hello")
    BY <1>3, ForsakenNew DEF Disconnect, CallTimeout, Alive
  <2> QED BY <1>1, <2>1, <2>2, FaithKept
<1>4. CASE Restart
  <2>1. \A s \in Runs : task'[s].pc = "none" /\ task'[s].offer = 0
    BY <1>4 DEF Restart, NoTask
  <2>2. NewCalls("hello")
    BY <1>4, ForsakenNew DEF Restart, Alive
  <2>3. \A f \in frames' : ~f.alive
    BY <1>4, ForsakeFacts DEF Restart, Alive, Types, TypeOK
  <2> QED BY <1>1, <2>1, <2>2, <2>3, FaithKept DEF Reporting
<1> QED BY <1>2, <1>3, <1>4

LEMMA UndecidedFaithful ==
  ASSUME Types, Types', Faithful, NEW f \in frames, Undecided(f)
  PROVE  Faithful'
<1>0. UNCHANGED <<row, task, journal>>
  BY DEF Undecided, local
<1>1. \A r \in Runs : RowStep(r)
  BY <1>0, SameStep
<1>2. PICK g : /\ SameCall(g, f) /\ g.offers = f.offers /\ g.answer = "undecided"
               /\ \A h \in frames' : \/ h \in frames \ {f} \/ h = g
                                     \/ ~h.alive /\ SameCall(h, f) /\ h.offers = f.offers
  BY UndecidedFacts DEF Types, TypeOK
<1>3. f.alive
  BY DEF Undecided
<1>4. OffersGranted'
  <2>1. \A r \in Runs, h \in frames' : h.offers[r] # 0 => \E e \in frames : e.offers[r] = h.offers[r]
    BY <1>2
  <2> QED BY <1>0, <1>1, <2>1, OffersKept DEF Faithful
<1>5. \A h \in frames', r \in Runs : Reporting(h, r) =>
        h \in frames \ {f} \/ (h = g /\ Reporting(f, r))
  BY <1>2, <1>3 DEF Reporting, SameCall
<1>6. \A h \in frames', r \in Runs : Reporting(h, r) =>
        task'[r].pc = "complete" /\ (h.answer \notin {"none", "undecided"} => Done(r)')
  BY <1>0, <1>1, <1>2, <1>5, DoneKept DEF Faithful, ReportsSettle
<1>7. \A h, e \in frames', r \in Runs : Reporting(h, r) /\ Reporting(e, r) => h = e
  BY <1>5 DEF Faithful, ReportsSettle
<1>8. \A r \in Runs : task'[r].pc \in {"clean", "drop"} => Done(r)' \/ task'[r].acked = "guess"
  BY <1>0, <1>1, DoneKept DEF Faithful, ReportsSettle
<1>9. ReportsSettle'
  BY <1>6, <1>7, <1>8 DEF ReportsSettle, Reporting
<1> QED BY <1>4, <1>9 DEF Faithful, Types

LEMMA EnvironmentFaithful ==
  ASSUME Types, Types', Faithful, NEW r \in Runs, Environment(r) \/ Exit(r)
  PROVE  Faithful'
<1>1. UNCHANGED <<frames, task, journal>> /\ NewCalls("hello")
  BY FewerCalls DEF Environment, Exit, Quiet, local
<1>t. row \in [Runs -> Row]
  BY DEF Types, TypeOK
<1>2. ASSUME NEW s \in Runs PROVE RowStep(s)
  <2>0. row[s] \in Row
    BY <1>t
  <2>1. CASE row'[s] = row[s]
    BY <2>1, SameStep
  <2>2. CASE row'[s] # row[s]
    <3>1. s = r /\ Environment(r)
      BY <2>2, <1>t DEF Environment, Exit, Quiet
    <3>2. CASE row' = [row EXCEPT ![r] = Abandoned(@)]
      BY <1>t, <3>1, <3>2, AbandonedStep
    <3>3. CASE row[r].state = "PENDING" /\ \E x \in {"CLAIMED", "CANCELLED"} : row' = [row EXCEPT ![r].state = x]
      <4>1. row'[s].attempt = row[s].attempt /\ row'[s].state # "PENDING"
        BY <1>t, <2>0, <3>1, <3>3 DEF Row
      <4> QED BY <3>1, <3>3, <4>1 DEF RowStep
    <3>4. CASE row' = [row EXCEPT ![r].state = "SUCCESS"]
      <4>1. row'[s].attempt = row[s].attempt /\ row'[s].state = "SUCCESS"
        BY <1>t, <2>0, <3>1, <3>4 DEF Row
      <4> QED BY <4>1 DEF RowStep, Held, ActiveStates
    <3>5. CASE row' = [row EXCEPT ![r].cancel = TRUE]
      <4>1. row'[s].attempt = row[s].attempt /\ row'[s].state = row[s].state /\ row'[s].mine = row[s].mine
        BY <1>t, <2>0, <3>1, <3>5 DEF Row
      <4> QED BY <4>1 DEF RowStep, Held
    <3> QED BY <3>1, <3>2, <3>3, <3>4, <3>5 DEF Environment
  <2> QED BY <2>1, <2>2
<1> QED BY <1>1, <1>2, FaithKept

LEMMA FaithfulStep == Types /\ Types' /\ Faithful /\ [Next]_vars => Faithful'
<1> SUFFICES ASSUME Types, Types', Faithful, [Next]_vars PROVE Faithful'
  OBVIOUS
<1>1. CASE UNCHANGED vars
  <2>1. (\A r \in Runs : RowStep(r)) /\ NewCalls("hello")
    BY <1>1, SameStep, FewerCalls DEF vars
  <2> QED BY <1>1, <2>1, FaithKept DEF vars
<1>2. ASSUME NEW r \in Runs, Finalize(r) PROVE Faithful'
  BY <1>2, SendCompleteFaithful, CleanupFaithful DEF Finalize
<1> QED BY <1>1, <1>2, HandleFaithful, ReceiveFaithful, LaunchFaithful, SuperviseFaithful,
           SessionFaithful, UndecidedFaithful, EnvironmentFaithful DEF Next

LEMMA InitFaithful == Init => Faithful
BY InitTypes DEF Init, Types, Faithful, OffersGranted, ReportsSettle, NoTask, NoOffers, Reporting

\* The entry of an attempt leaves the journal only when the server is done with the
\* attempt (agent.py:591), or when its completion was answered by an error that decided
\* nothing, with any number of runs, faults and late calls, and even if the agent claims
\* before it has recovered.
THEOREM NeverForgotten == Spec => NothingForgotten
<1>1. ASSUME Types, Faithful, [Next]_vars, NEW r \in Runs, journal[r] # 0, journal'[r] = 0,
             task[r].acked # "guess"
      PROVE  ~(Held(r) /\ row[r].attempt = journal[r])
  <2>1. DropEntry(r)
    <3>1. journal' # journal
      BY <1>1
    <3>2. CASE \E s \in Runs : Journal(s)
      BY <1>1, <3>2 DEF Journal, Types, TypeOK
    <3>3. CASE \E s \in Runs : DropEntry(s)
      BY <1>1, <3>3 DEF DropEntry, Types, TypeOK
    <3>4. CASE ~\E s \in Runs : Journal(s) \/ DropEntry(s)
      BY <1>1, <3>1, <3>4
      DEF Next, vars, local, Quiet, Handle, HandleHello, HandleClaim, HandleStatus, HandleComplete,
          Receive, ReceiveHello, ReceiveClaim, ReceiveStatus, ReceiveComplete, Connect, SendClaim,
          Available, Disconnect, Restart, CallTimeout, Undecided, Environment, Launch, Create, Start,
          FailToStart, Recover, Supervise, SendStatus, PushCancel, Stop, Deadline, ObserveExit,
          Finalize, SendComplete, RemoveContainer, Exit
    <3> QED BY <3>2, <3>3, <3>4
  <2> QED BY <1>1, <2>1 DEF DropEntry, Faithful, ReportsSettle, Done
<1>2. Types /\ Faithful /\ [Next]_vars =>
        [\A r \in Runs : (journal[r] # 0 /\ journal'[r] = 0 /\ task[r].acked # "guess")
                           => ~(Held(r) /\ row[r].attempt = journal[r])]_vars
  BY <1>1
<1> QED BY InitTypes, InitFaithful, TypesStep, FaithfulStep, <1>2, PTL DEF Spec, NothingForgotten

-----------------------------------------------------------------------------
(* Every container is journaled *)

RunKnown(r) == (ctr[r] # "none" => journal[r] # 0) /\ TaskKnown(r)

\* Nothing is known anew of a run whose task, entry and container are as before.
LEMMA SameRunKnown ==
  ASSUME NEW r \in Runs, RunKnown(r), journal'[r] = journal[r],
         task'[r].pc = task[r].pc, task'[r].offer = task[r].offer, task'[r].handle = task[r].handle,
         ctr'[r] = "none" <=> ctr[r] = "none"
  PROVE  RunKnown(r)'
BY DEF RunKnown, TaskKnown

LEMMA KnownRuns ==
  ASSUME Known
  PROVE  \A r \in Runs : RunKnown(r)
BY DEF Known, ContainersKnown, RunKnown

\* If no task appears or goes, recovery is as before.
LEMMA RecoveredKept ==
  ASSUME Recovered,
         \A r \in Runs : task'[r].pc = "none" <=> task[r].pc = "none",
         \A r \in Runs : journal'[r] # 0 => journal[r] # 0 \/ task[r].pc # "none",
         conn' = "up" => conn = "up",
         wanted' => wanted \/ Claiming \/ conn = "up" \/ Busy # {},
         Claiming' => Claiming \/ wanted
  PROVE  Recovered'
<1>1. Busy' = Busy
  BY DEF Busy
<1> QED BY <1>1 DEF Recovered, Journaled, Busy

LEMMA OffersOnly ==
  ASSUME OnlyClaimsOffer, NEW kind, NewCalls(kind)
  PROVE  OnlyClaimsOffer'
BY DEF OnlyClaimsOffer, NewCalls, NoOffers, SameCall

LEMMA NoNewClaim ==
  ASSUME NEW kind, kind # "claim", NewCalls(kind)
  PROVE  Claiming' => Claiming
BY DEF NewCalls, Claiming

LEMMA KnownFrom ==
  ASSUME \A r \in Runs : RunKnown(r)', OnlyClaimsOffer', Recovered'
  PROVE  Known'
BY DEF Known, RunKnown, ContainersKnown

LEMMA HandleKnown ==
  ASSUME Types, Known, Handle
  PROVE  Known'
<1>1. UNCHANGED <<conn, wanted, task, journal, ctr>>
  BY DEF Handle, HandleHello, HandleClaim, HandleStatus, HandleComplete, session, local
<1>2. \A r \in Runs : RunKnown(r)'
  BY <1>1, KnownRuns, SameRunKnown
<1>3. OnlyClaimsOffer'
  BY HandleShape DEF Known, OnlyClaimsOffer, SameCall
<1>4. Claiming' => Claiming
  BY HandleKeepsCalls DEF Claiming, SameCall
<1>5. Recovered'
  BY <1>1, <1>4, RecoveredKept DEF Known
<1> QED BY <1>2, <1>3, <1>5, KnownFrom

LEMMA ReceiveKnown ==
  ASSUME Types, Faithful, Known, Receive
  PROVE  Known'
<1>1. PICK f \in frames :
        ReceiveHello(f) \/ ReceiveClaim(f) \/ \E r \in f.runs : ReceiveStatus(f, r) \/ ReceiveComplete(f, r)
  BY DEF Receive
<1>2. frames' = frames \ {f} /\ UNCHANGED journal
  BY <1>1 DEF ReceiveHello, ReceiveClaim, ReceiveStatus, ReceiveComplete
<1>3. OnlyClaimsOffer' /\ (Claiming' => Claiming)
  BY <1>2, FewerCalls, OffersOnly, NoNewClaim DEF Known
<1>f. f.runs \subseteq Runs /\ task \in [Runs -> Task] /\ ctr' \in [Runs -> {"none", "created", "running", "ok", "failed", "killed"}]
  BY ReceiveTypes DEF Types, TypeOK, Frame
<1>4. CASE ReceiveHello(f)
  <2>1. \A r \in Runs : task'[r] = task[r]
          \/ (task[r].pc = "none" /\ journal[r] # 0 /\ task'[r].pc = "recover")
    BY <1>4 DEF ReceiveHello, NoTask, Busy, Journaled
  <2>2. \A r \in Runs : RunKnown(r)'
    <3> SUFFICES ASSUME NEW r \in Runs PROVE RunKnown(r)'
      OBVIOUS
    <3>1. UNCHANGED ctr /\ RunKnown(r)
      BY <1>4, KnownRuns DEF ReceiveHello
    <3>2. CASE task'[r] = task[r]
      BY <1>2, <3>1, <3>2, SameRunKnown
    <3>3. CASE journal[r] # 0 /\ task'[r].pc = "recover"
      BY <1>2, <3>1, <3>3 DEF RunKnown, TaskKnown
    <3> QED BY <2>1, <3>2, <3>3
  <2>3. \A r \in Runs : journal[r] # 0 => task'[r].pc # "none"
    BY <1>4 DEF ReceiveHello, NoTask, Busy, Journaled
  <2>4. Recovered'
    BY <1>2, <2>3 DEF Recovered, Journaled, Busy
  <2> QED BY <1>3, <2>2, <2>4, KnownFrom
<1>5. CASE ReceiveClaim(f)
  <2>0. Claiming /\ Journaled \subseteq Busy
    BY <1>5 DEF ReceiveClaim, Claiming, Known, Recovered
  <2>1. \A r \in Runs : task'[r] = task[r]
          \/ (task[r].pc = "none" /\ task'[r].pc = "start" /\ task'[r].offer # 0)
    BY <1>5 DEF ReceiveClaim, NoTask, Busy
  <2>2. \A r \in Runs : RunKnown(r)'
    <3> SUFFICES ASSUME NEW r \in Runs PROVE RunKnown(r)'
      OBVIOUS
    <3>1. UNCHANGED ctr /\ RunKnown(r)
      BY <1>5, KnownRuns DEF ReceiveClaim
    <3>2. CASE task'[r] = task[r]
      BY <1>2, <3>1, <3>2, SameRunKnown
    <3>3. CASE task[r].pc = "none" /\ task'[r].pc = "start" /\ task'[r].offer # 0
      <4>1. journal[r] = 0
        BY <2>0, <3>3 DEF Journaled, Busy
      <4> QED BY <1>2, <3>1, <3>3, <4>1 DEF RunKnown, TaskKnown
    <3> QED BY <2>1, <3>2, <3>3
  <2>3. Recovered'
    BY <1>2, <2>0, <2>1 DEF Recovered, Journaled, Busy
  <2> QED BY <1>3, <2>2, <2>3, KnownFrom
<1>6. ASSUME NEW r \in f.runs, ReceiveStatus(f, r) PROVE Known'
  <2>1. UNCHANGED task \/ \E s \in Stops : task' = [task EXCEPT ![r].stop = s]
    BY <1>f, <1>6 DEF ReceiveStatus, Task, Stops
  <2>2. \A s \in Runs : /\ task'[s].pc = task[s].pc /\ task'[s].offer = task[s].offer
                        /\ task'[s].handle = task[s].handle
    BY <1>f, <2>1, StopFacts DEF Other
  <2>3. \A s \in Runs : ctr'[s] = "none" <=> ctr[s] = "none"
    BY <1>f, <1>6 DEF ReceiveStatus, Killed, Types, TypeOK
  <2>4. \A s \in Runs : RunKnown(s)'
    BY <1>2, <2>2, <2>3, KnownRuns, SameRunKnown
  <2>5. Recovered'
    BY <1>2, <1>3, <1>6, <2>2, RecoveredKept DEF ReceiveStatus, session, Known
  <2> QED BY <1>3, <2>4, <2>5, KnownFrom
<1>7. ASSUME NEW r \in f.runs, ReceiveComplete(f, r) PROVE Known'
  <2>1. /\ Other(r) /\ task'[r].pc = "clean" /\ task'[r].offer = task[r].offer
        /\ task'[r].handle = task[r].handle
    BY <1>f, <1>7, ReceivedFacts DEF Types, TypeOK
  <2>2. task[r].pc = "complete"
    BY <1>f, <1>7 DEF ReceiveComplete, Reporting, Faithful, ReportsSettle
  <2>3. UNCHANGED ctr /\ UNCHANGED session
    BY <1>7 DEF ReceiveComplete
  <2>4. RunKnown(r)'
    BY <1>2, <1>f, <2>1, <2>2, <2>3, KnownRuns DEF RunKnown, TaskKnown
  <2>5. \A s \in Runs : RunKnown(s)'
    BY <1>2, <2>1, <2>3, <2>4, KnownRuns, SameRunKnown DEF Other
  <2>6. Recovered'
    BY <1>2, <1>3, <2>1, <2>2, <2>3, RecoveredKept DEF Other, session, Known
  <2> QED BY <1>3, <2>5, <2>6, KnownFrom
<1> QED BY <1>1, <1>4, <1>5, <1>6, <1>7

LEMMA LaunchKnown ==
  ASSUME Types, Known, NEW r \in Runs, Launch(r)
  PROVE  Known'
<1>t. /\ task \in [Runs -> Task] /\ journal \in [Runs -> Attempts]
      /\ ctr \in [Runs -> {"none", "created", "running", "ok", "failed", "killed"}]
  BY DEF Types, TypeOK
<1>k. RunKnown(r)
  BY KnownRuns
<1>1. /\ UNCHANGED <<frames, conn, wanted>>
      /\ \A s \in Runs \ {r} : journal'[s] = journal[s] /\ ctr'[s] = ctr[s]
  BY <1>t DEF Launch, Journal, Create, Start, FailToStart, Recover, Quiet, session
<1>2. Other(r) /\ RunKnown(r)' /\ task[r].pc # "none" /\ task'[r].pc # "none"
  <2>1. CASE Journal(r)
    <3>1. Other(r) /\ task'[r].pc = "pull" /\ task'[r].handle = task[r].handle
      BY <1>t, <2>1, GotoFacts DEF Journal, Goto, PCs
    <3>2. task[r].pc = "start" /\ journal'[r] # 0 /\ UNCHANGED ctr
      BY <1>t, <1>k, <2>1 DEF Journal, RunKnown, TaskKnown
    <3> QED BY <1>k, <3>1, <3>2 DEF RunKnown, TaskKnown
  <2>2. CASE Create(r)
    <3>1. Other(r) /\ task'[r].pc = "created" /\ task'[r].handle
      BY <1>t, <1>k, <2>2, AttachFacts DEF Create, PCs, RunKnown, TaskKnown
    <3>2. task[r].pc = "pull" /\ UNCHANGED journal
      BY <2>2 DEF Create
    <3> QED BY <1>k, <3>1, <3>2 DEF RunKnown, TaskKnown
  <2>3. CASE Start(r)
    <3>1. Other(r) /\ task'[r].pc = "run" /\ task'[r].handle = task[r].handle
      BY <1>t, <2>3, GotoFacts DEF Start, Goto, PCs
    <3>2. task[r].pc = "created" /\ UNCHANGED journal
      BY <2>3 DEF Start
    <3> QED BY <1>k, <3>1, <3>2 DEF RunKnown, TaskKnown
  <2>4. CASE Fail(r) /\ UNCHANGED <<journal, ctr>> /\ task[r].pc \in {"pull", "created", "recover"}
             /\ (task[r].pc = "recover" => ctr[r] = "none")
    <3>1. Other(r) /\ task'[r].pc = "complete" /\ task'[r].handle = task[r].handle
      BY <1>t, <2>4, ReportFacts DEF Fail, CompletionStates
    <3> QED BY <1>k, <2>4, <3>1 DEF RunKnown, TaskKnown
  <2>5. CASE Recover(r) /\ ctr[r] # "none"
    <3>1. Other(r) /\ task'[r].pc = "run" /\ task'[r].handle
      BY <1>t, <2>5, AttachFacts DEF Recover, PCs
    <3>2. task[r].pc = "recover" /\ UNCHANGED <<journal, ctr>>
      BY <2>5 DEF Recover
    <3> QED BY <1>k, <3>1, <3>2 DEF RunKnown, TaskKnown
  <2> QED BY <2>1, <2>2, <2>3, <2>4, <2>5 DEF Launch, FailToStart, Recover
<1>3. \A s \in Runs : RunKnown(s)'
  BY <1>1, <1>2, KnownRuns, SameRunKnown DEF Other
<1>4. OnlyClaimsOffer' /\ (Claiming' => Claiming)
  BY <1>1, FewerCalls, OffersOnly, NoNewClaim DEF Known
<1>5. Recovered'
  BY <1>1, <1>2, <1>4, RecoveredKept DEF Other, Known
<1> QED BY <1>3, <1>4, <1>5, KnownFrom

LEMMA SuperviseKnown ==
  ASSUME Types, Known, NEW r \in Runs, Supervise(r)
  PROVE  Known'
<1>t. /\ task \in [Runs -> Task]
      /\ ctr \in [Runs -> {"none", "created", "running", "ok", "failed", "killed"}]
  BY DEF Types, TypeOK
<1>1. UNCHANGED <<conn, wanted, journal>> /\ \A s \in Runs : ctr'[s] = "none" <=> ctr[s] = "none"
  BY <1>t DEF Supervise, SendStatus, PushCancel, Stop, Deadline, ObserveExit, Quiet, local, session
<1>2. NewCalls("status")
  BY CallNew, FewerCalls, ForsakenNew
  DEF Supervise, SendStatus, PushCancel, Stop, Deadline, ObserveExit, Quiet
<1>3. OnlyClaimsOffer' /\ (Claiming' => Claiming)
  BY <1>2, OffersOnly, NoNewClaim DEF Known
<1>4. CASE ~ObserveExit(r)
  <2>1. UNCHANGED task \/ \E s \in Stops : task' = [task EXCEPT ![r].stop = s]
    BY <1>t, <1>4 DEF Supervise, SendStatus, local, PushCancel, Deadline, Stop, Task, Stops
  <2>2. \A s \in Runs : /\ task'[s].pc = task[s].pc /\ task'[s].offer = task[s].offer
                        /\ task'[s].handle = task[s].handle
    BY <1>t, <2>1, StopFacts DEF Other
  <2>3. \A s \in Runs : RunKnown(s)'
    BY <1>1, <2>2, KnownRuns, SameRunKnown
  <2>4. Recovered'
    BY <1>1, <1>3, <2>2, RecoveredKept DEF Known
  <2> QED BY <1>3, <2>3, <2>4, KnownFrom
<1>5. CASE ObserveExit(r)
  <2>1. Other(r) /\ task'[r].pc = "complete" /\ task'[r].handle = task[r].handle
    BY <1>t, <1>5, ClassifyTyped, ReportFacts DEF ObserveExit
  <2>2. task[r].pc = "run" /\ RunKnown(r)
    BY <1>5, KnownRuns DEF ObserveExit
  <2>3. RunKnown(r)'
    BY <1>1, <2>1, <2>2 DEF RunKnown, TaskKnown
  <2>4. \A s \in Runs : RunKnown(s)'
    BY <1>1, <2>1, <2>3, KnownRuns, SameRunKnown DEF Other
  <2>5. Recovered'
    BY <1>1, <1>3, <2>1, <2>2, RecoveredKept DEF Other, Known
  <2> QED BY <1>3, <2>4, <2>5, KnownFrom
<1> QED BY <1>4, <1>5

LEMMA FinalizeKnown ==
  ASSUME Types, Known, NEW r \in Runs, Finalize(r)
  PROVE  Known'
<1>t. /\ task \in [Runs -> Task] /\ journal \in [Runs -> Attempts]
      /\ ctr \in [Runs -> {"none", "created", "running", "ok", "failed", "killed"}]
  BY DEF Types, TypeOK
<1>k. RunKnown(r)
  BY KnownRuns
<1>1. NewCalls("complete")
  BY CallNew, FewerCalls DEF Finalize, SendComplete, RemoveContainer, DropEntry, Quiet
<1>2. OnlyClaimsOffer' /\ (Claiming' => Claiming)
  BY <1>1, OffersOnly, NoNewClaim DEF Known
<1>3. CASE SendComplete(r)
  <2>1. UNCHANGED <<conn, wanted, task, journal, ctr>>
    BY <1>3 DEF SendComplete, session, local
  <2>2. \A s \in Runs : RunKnown(s)'
    BY <2>1, KnownRuns, SameRunKnown
  <2>3. Recovered'
    BY <1>2, <2>1, RecoveredKept DEF Known
  <2> QED BY <1>2, <2>2, <2>3, KnownFrom
<1>4. CASE RemoveContainer(r)
  <2>1. /\ Other(r) /\ task'[r].pc = "drop" /\ task[r].pc = "clean"
        /\ UNCHANGED <<conn, wanted, journal>>
    BY <1>t, <1>4, GotoFacts DEF RemoveContainer, Goto, PCs, Quiet, session
  <2>2. ctr'[r] = "none" /\ \A s \in Runs \ {r} : ctr'[s] = ctr[s]
    BY <1>t, <1>k, <1>4 DEF RemoveContainer, RunKnown, TaskKnown
  <2>3. RunKnown(r)'
    BY <1>k, <2>1, <2>2 DEF RunKnown, TaskKnown
  <2>4. \A s \in Runs : RunKnown(s)'
    BY <2>1, <2>2, <2>3, KnownRuns, SameRunKnown DEF Other
  <2>5. Recovered'
    BY <1>2, <2>1, RecoveredKept DEF Other, Known
  <2> QED BY <1>2, <2>4, <2>5, KnownFrom
<1>5. CASE DropEntry(r)
  <2>1. /\ \A s \in Runs \ {r} : task'[s] = task[s] /\ journal'[s] = journal[s]
        /\ task[r].pc = "drop" /\ task'[r].pc = "none" /\ journal'[r] = 0 /\ UNCHANGED ctr
    BY <1>t, <1>5 DEF DropEntry, NoTask
  <2>2. RunKnown(r)'
    BY <1>k, <2>1 DEF RunKnown, TaskKnown
  <2>3. \A s \in Runs : RunKnown(s)'
    BY <2>1, <2>2, KnownRuns, SameRunKnown
  <2>4. Journaled \subseteq Busy
    BY <2>1 DEF Known, Recovered, Busy
  <2>5. Recovered'
    BY <2>1, <2>4 DEF Recovered, Journaled, Busy
  <2> QED BY <1>2, <2>3, <2>5, KnownFrom
<1> QED BY <1>3, <1>4, <1>5 DEF Finalize

LEMMA SessionKnown ==
  ASSUME ~EarlyPush, Types, Known, Connect \/ SendClaim \/ Available
  PROVE  Known'
<1>1. UNCHANGED <<task, journal, ctr>>
  BY DEF Connect, SendClaim, Available, local
<1>2. \A r \in Runs : RunKnown(r)'
  BY <1>1, KnownRuns, SameRunKnown
<1>3. NewCalls("hello") \/ (NewCalls("claim") /\ SendClaim)
  BY CallNew, FewerCalls DEF Connect, SendClaim, Available
<1>4. OnlyClaimsOffer' /\ (Claiming' => Claiming \/ wanted)
  BY <1>3, OffersOnly, NoNewClaim DEF Known, SendClaim
<1>5. (conn' = "up" => conn = "up") /\ (wanted' => wanted \/ conn = "up")
  BY DEF Connect, SendClaim, Available
<1>6. Recovered'
  BY <1>1, <1>4, <1>5, RecoveredKept DEF Known
<1> QED BY <1>2, <1>4, <1>6, KnownFrom

LEMMA FaultKnown ==
  ASSUME Types, Known, Disconnect \/ Restart \/ \E f \in frames : CallTimeout(f)
  PROVE  Known'
<1>1. UNCHANGED <<journal, ctr>> /\ NewCalls("hello")
  BY ForsakenNew DEF Disconnect, Restart, CallTimeout, Alive, local
<1>2. OnlyClaimsOffer' /\ (Claiming' => Claiming)
  BY <1>1, OffersOnly, NoNewClaim DEF Known
<1>3. CASE Disconnect \/ \E f \in frames : CallTimeout(f)
  <2>1. UNCHANGED task /\ UNCHANGED wanted /\ (conn' = "up" => conn = "up")
    BY <1>3 DEF Disconnect, CallTimeout, local, session
  <2>2. \A r \in Runs : RunKnown(r)'
    BY <1>1, <2>1, KnownRuns, SameRunKnown
  <2>3. Recovered'
    BY <1>1, <1>2, <2>1, RecoveredKept DEF Known
  <2> QED BY <1>2, <2>2, <2>3, KnownFrom
<1>4. CASE Restart
  <2>1. (\A r \in Runs : task'[r].pc = "none") /\ conn' = "down" /\ ~wanted'
    BY <1>4 DEF Restart, NoTask
  <2>2. \A f \in frames' : ~f.alive
    BY <1>4, ForsakeFacts DEF Restart, Alive, Types, TypeOK
  <2>3. \A r \in Runs : RunKnown(r)'
    BY <1>1, <2>1, KnownRuns DEF RunKnown, TaskKnown
  <2>4. Recovered'
    BY <2>1, <2>2 DEF Recovered, Busy, Claiming
  <2> QED BY <1>2, <2>3, <2>4, KnownFrom
<1> QED BY <1>3, <1>4

LEMMA UndecidedKnown ==
  ASSUME Types, Known, NEW f \in frames, Undecided(f)
  PROVE  Known'
<1>1. UNCHANGED <<conn, wanted, task, journal, ctr>>
  BY DEF Undecided, session, local
<1>2. \A r \in Runs : RunKnown(r)'
  BY <1>1, KnownRuns, SameRunKnown
<1>3. \A h \in frames' : /\ \E e \in frames : SameCall(h, e) /\ h.offers = e.offers
                         /\ h.kind = "claim" => h \in frames
  BY UndecidedFacts DEF SameCall, Types, TypeOK
<1>4. OnlyClaimsOffer' /\ (Claiming' => Claiming)
  BY <1>3 DEF Known, OnlyClaimsOffer, Claiming, SameCall
<1>5. Recovered'
  BY <1>1, <1>4, RecoveredKept DEF Known
<1> QED BY <1>2, <1>4, <1>5, KnownFrom

LEMMA EnvironmentKnown ==
  ASSUME Types, Known, NEW r \in Runs, Environment(r) \/ Exit(r)
  PROVE  Known'
<1>1. UNCHANGED <<frames, conn, wanted, task, journal>>
  BY DEF Environment, Exit, Quiet, session, local
<1>2. \A s \in Runs : ctr'[s] = "none" <=> ctr[s] = "none"
  BY DEF Environment, Exit, local, Types, TypeOK
<1>3. \A s \in Runs : RunKnown(s)'
  BY <1>1, <1>2, KnownRuns, SameRunKnown
<1>4. OnlyClaimsOffer' /\ (Claiming' => Claiming)
  BY <1>1, FewerCalls, OffersOnly, NoNewClaim DEF Known
<1>5. Recovered'
  BY <1>1, <1>4, RecoveredKept DEF Known
<1> QED BY <1>3, <1>4, <1>5, KnownFrom

LEMMA KnownStep ==
  ASSUME ~EarlyPush
  PROVE  Types /\ Faithful /\ Known /\ [Next]_vars => Known'
<1> SUFFICES ASSUME Types, Faithful, Known, [Next]_vars PROVE Known'
  OBVIOUS
<1>1. CASE UNCHANGED vars
  <2>1. (\A r \in Runs : RunKnown(r)') /\ OnlyClaimsOffer' /\ (Claiming' => Claiming)
    BY <1>1, KnownRuns, SameRunKnown, FewerCalls, OffersOnly, NoNewClaim DEF Known, vars
  <2>2. Recovered'
    BY <1>1, <2>1, RecoveredKept DEF Known, vars
  <2> QED BY <2>1, <2>2, KnownFrom
<1> QED BY <1>1, HandleKnown, ReceiveKnown, LaunchKnown, SuperviseKnown, FinalizeKnown,
           SessionKnown, FaultKnown, UndecidedKnown, EnvironmentKnown DEF Next

LEMMA InitKnown == Init => Known
BY DEF Init, Known, ContainersKnown, TaskKnown, OnlyClaimsOffer, Recovered, NoTask, NoOffers,
       Busy, Journaled, Claiming

\* journal.py: unless the agent is told to claim before it has recovered, every container
\* has an entry in the journal, through every crash and restart.
THEOREM AllContainersKnown ==
  ASSUME ~EarlyPush
  PROVE  Spec => []ContainersKnown
<1>1. Types /\ Faithful /\ Known /\ [Next]_vars => Known'
  BY KnownStep
<1>2. Known => ContainersKnown
  BY DEF Known
<1> QED BY InitTypes, InitFaithful, InitKnown, TypesStep, FaithfulStep, <1>1, <1>2, PTL DEF Spec

-----------------------------------------------------------------------------
(* The server the agent talks to keeps the life cycle of runs *)

\* The life of one run; a hello moves several at once.
One(r) == INSTANCE RunLifecycle WITH
  Runs <- {r}, RetryMax <- [x \in {r} |-> MaxAttempts - 1],
  state <- [x \in {r} |-> row[x].state], attempt <- [x \in {r} |-> row[x].attempt]

\* What becomes of a row, told by its state and its attempt.
Turns(r, from, to) == row[r].state \in from /\ row'[r].state = to /\ row'[r].attempt = row[r].attempt
LifeStep(r) ==
  \/ Turns(r, {row[r].state}, row[r].state)
  \/ Turns(r, {"PENDING"}, "CLAIMED") \/ Turns(r, {"CLAIMED"}, "RUNNING")
  \/ \E s \in CompletionStates : Turns(r, ActiveStates, s)
  \/ Turns(r, {"PENDING"}, "CANCELLED")
  \/ row[r].attempt > MaxAttempts - 1 /\ Turns(r, ActiveStates, "ABANDONED")
  \/ /\ row[r].attempt <= MaxAttempts - 1 /\ row[r].state \in ActiveStates
     /\ row'[r].state = "PENDING" /\ row'[r].attempt = row[r].attempt + 1

LEMMA LifeStepMaps ==
  ASSUME NEW r \in Runs, LifeStep(r)
  PROVE  [One(r)!Next]_(One(r)!lvars)
<1> DEFINE S == [x \in {r} |-> row[x].state]
           A == [x \in {r} |-> row[x].attempt]
           T == [x \in {r} |-> row'[x].state]
           B == [x \in {r} |-> row'[x].attempt]
           M == [x \in {r} |-> MaxAttempts - 1]
<1>1. S[r] = row[r].state /\ A[r] = row[r].attempt /\ M[r] = MaxAttempts - 1
  OBVIOUS
<1>2. T = [S EXCEPT ![r] = row'[r].state] /\ B = [A EXCEPT ![r] = row'[r].attempt]
  OBVIOUS
<1>3. row'[r].attempt = row[r].attempt => B = A
  OBVIOUS
<1>4. CASE Turns(r, {row[r].state}, row[r].state)
  <2>1. T = S /\ B = A
    BY <1>4 DEF Turns
  <2> QED BY <2>1 DEF One!lvars
<1> HIDE DEF S, A, T, B, M
<1>5. CASE Turns(r, {"PENDING"}, "CLAIMED")
  <2>1. One(r)!Claim(r)
    BY <1>5, <1>1, <1>2, <1>3 DEF Turns, One!Claim, One!Move, S, A, T, B
  <2> QED BY <2>1 DEF One!Next
<1>6. CASE Turns(r, {"CLAIMED"}, "RUNNING")
  <2>1. One(r)!Start(r)
    BY <1>6, <1>1, <1>2, <1>3 DEF Turns, One!Start, One!Move, S, A, T, B
  <2> QED BY <2>1 DEF One!Next
<1>7. CASE \E s \in CompletionStates : Turns(r, ActiveStates, s)
  <2>1. One(r)!Finish(r)
    BY <1>7, <1>1, <1>2, <1>3 DEF Turns, One!Finish, One!Move, One!CompletionStates, One!ActiveStates,
                                  CompletionStates, ActiveStates, S, A, T, B
  <2> QED BY <2>1 DEF One!Next
<1>8. CASE Turns(r, {"PENDING"}, "CANCELLED")
  <2>1. One(r)!Withdraw(r)
    BY <1>8, <1>1, <1>2, <1>3 DEF Turns, One!Withdraw, One!Move, S, A, T, B
  <2> QED BY <2>1 DEF One!Next
<1>9. CASE row[r].attempt > MaxAttempts - 1 /\ Turns(r, ActiveStates, "ABANDONED")
  <2>1. One(r)!Lose(r)
    BY <1>9, <1>1, <1>2, <1>3 DEF Turns, One!Lose, One!Move, One!ActiveStates, ActiveStates, S, A, T, B, M
  <2> QED BY <2>1 DEF One!Next
<1>10. CASE /\ row[r].attempt <= MaxAttempts - 1 /\ row[r].state \in ActiveStates
            /\ row'[r].state = "PENDING" /\ row'[r].attempt = row[r].attempt + 1
  <2>1. One(r)!Lose(r)
    BY <1>10, <1>1, <1>2 DEF One!Lose, One!ActiveStates, ActiveStates, S, A, T, B, M
  <2> QED BY <2>1 DEF One!Next
<1> QED BY <1>4, <1>5, <1>6, <1>7, <1>8, <1>9, <1>10 DEF LifeStep

LEMMA LostStep ==
  ASSUME Types, NEW r \in Runs, row[r].state \in ActiveStates, row'[r] = Abandoned(row[r])
  PROVE  LifeStep(r)
<1>0. row[r] \in Row /\ row[r].attempt \in Int /\ MaxAttempts \in Int
  BY Bounds DEF Types, TypeOK, Row
<1>1. CASE row[r].attempt < MaxAttempts
  <2>1. row'[r].state = "PENDING" /\ row'[r].attempt = row[r].attempt + 1
    BY <1>0, <1>1 DEF Abandoned, Row
  <2> QED BY <1>0, <1>1, <2>1 DEF LifeStep
<1>2. CASE ~(row[r].attempt < MaxAttempts)
  <2>1. row'[r].state = "ABANDONED" /\ row'[r].attempt = row[r].attempt
    BY <1>0, <1>2 DEF Abandoned, Row
  <2> QED BY <1>0, <1>2, <2>1 DEF LifeStep, Turns
<1> QED BY <1>1, <1>2

LEMMA SetStep ==
  ASSUME Types, NEW r \in Runs, NEW s, row' = [row EXCEPT ![r].state = s]
  PROVE  /\ row'[r].state = s /\ row'[r].attempt = row[r].attempt
         /\ \A q \in Runs \ {r} : LifeStep(q)
<1>1. row \in [Runs -> Row] /\ \A q \in Runs \ {r} : row'[q] = row[q]
  BY DEF Types, TypeOK
<1>2. row'[r] = [row[r] EXCEPT !.state = s] /\ row[r] \in Row
  BY <1>1
<1>3. row'[r].state = s /\ row'[r].attempt = row[r].attempt
  BY <1>2 DEF Row
<1>4. \A q \in Runs \ {r} : LifeStep(q)
  BY <1>1 DEF LifeStep, Turns
<1> QED BY <1>3, <1>4

LEMMA HandleLives ==
  ASSUME Types, Handle, NEW r \in Runs
  PROVE  LifeStep(r)
<1>1. PICK f \in frames :
        HandleHello(f) \/ HandleClaim(f) \/ \E q \in f.runs : HandleStatus(f, q) \/ HandleComplete(f, q)
  BY DEF Handle
<1>f. f \in Frame /\ f.runs \subseteq Runs /\ row \in [Runs -> Row]
  BY DEF Types, TypeOK, Frame
<1>2. CASE HandleHello(f)
  <2>1. row'[r] = IF Held(r) /\ r \notin f.runs THEN Abandoned(row[r]) ELSE row[r]
    BY <1>2 DEF HandleHello
  <2>2. CASE Held(r) /\ r \notin f.runs
    BY <2>1, <2>2, LostStep DEF Held
  <2>3. CASE ~(Held(r) /\ r \notin f.runs)
    BY <2>1, <2>3 DEF LifeStep, Turns
  <2> QED BY <2>2, <2>3
<1>3. CASE HandleClaim(f)
  <2>1. PICK S \in SUBSET {q \in Runs : row[q].state = "PENDING"} :
          row' = [q \in Runs |-> IF q \in S THEN [row[q] EXCEPT !.state = "CLAIMED", !.mine = TRUE]
                                 ELSE row[q]]
    BY <1>3 DEF HandleClaim
  <2>2. row'[r] = IF r \in S THEN [row[r] EXCEPT !.state = "CLAIMED", !.mine = TRUE] ELSE row[r]
    BY <2>1
  <2>3. CASE r \in S
    <3>1. row[r].state = "PENDING" /\ row'[r].state = "CLAIMED" /\ row'[r].attempt = row[r].attempt
      BY <1>f, <2>2, <2>3 DEF Row
    <3> QED BY <3>1 DEF LifeStep, Turns
  <2>4. CASE r \notin S
    BY <2>2, <2>4 DEF LifeStep, Turns
  <2> QED BY <2>3, <2>4
<1>4. ASSUME NEW q \in f.runs, HandleStatus(f, q) PROVE LifeStep(r)
  <2>0. q \in Runs
    BY <1>f
  <2>1. CASE Held(q)
    <3>1. /\ row'[q].state = "RUNNING" /\ row'[q].attempt = row[q].attempt
          /\ \A p \in Runs \ {q} : LifeStep(p)
      BY <1>4, <2>0, <2>1, SetStep DEF HandleStatus
    <3>2. row[q].state \in {"CLAIMED", "RUNNING"}
      BY <2>1 DEF Held, ActiveStates
    <3>3. LifeStep(q)
      BY <3>1, <3>2 DEF LifeStep, Turns
    <3> QED BY <3>1, <3>3
  <2>2. CASE ~Held(q)
    BY <1>4, <2>2 DEF HandleStatus, LifeStep, Turns
  <2> QED BY <2>1, <2>2
<1>5. ASSUME NEW q \in f.runs, HandleComplete(f, q) PROVE LifeStep(r)
  <2>0. q \in Runs /\ f.result \in CompletionStates
    BY <1>f, <1>5 DEF Types, ReportsResult, HandleComplete
  <2>1. CASE Held(q)
    <3>1. /\ row'[q].state = f.result /\ row'[q].attempt = row[q].attempt
          /\ \A p \in Runs \ {q} : LifeStep(p)
      BY <1>5, <2>0, <2>1, SetStep DEF HandleComplete
    <3>2. LifeStep(q)
      BY <2>0, <2>1, <3>1 DEF LifeStep, Turns, Held
    <3> QED BY <3>1, <3>2
  <2>2. CASE ~Held(q)
    BY <1>5, <2>2 DEF HandleComplete, LifeStep, Turns
  <2> QED BY <2>1, <2>2
<1> QED BY <1>1, <1>2, <1>3, <1>4, <1>5

LEMMA EnvironmentLives ==
  ASSUME Types, NEW q \in Runs, Environment(q), NEW r \in Runs
  PROVE  LifeStep(r)
<1>0. row \in [Runs -> Row]
  BY DEF Types, TypeOK
<1>1. CASE row[q].state \in ActiveStates /\ row' = [row EXCEPT ![q] = Abandoned(row[q])]
  <2>1. CASE r = q
    BY <1>0, <1>1, <2>1, LostStep
  <2>2. CASE r # q
    BY <1>0, <1>1, <2>2 DEF LifeStep, Turns
  <2> QED BY <2>1, <2>2
<1>2. ASSUME NEW s \in {"CLAIMED", "SUCCESS", "CANCELLED"}, row' = [row EXCEPT ![q].state = s],
             s = "SUCCESS" => row[q].state \in ActiveStates,
             s # "SUCCESS" => row[q].state = "PENDING"
      PROVE  LifeStep(r)
  <2>1. /\ row'[q].state = s /\ row'[q].attempt = row[q].attempt
        /\ \A p \in Runs \ {q} : LifeStep(p)
    BY <1>2, SetStep
  <2>2. LifeStep(q)
    BY <1>2, <2>1 DEF LifeStep, Turns, CompletionStates
  <2> QED BY <2>1, <2>2
<1>3. CASE row' = [row EXCEPT ![q].cancel = TRUE]
  <2>1. row'[r].state = row[r].state /\ row'[r].attempt = row[r].attempt
    <3>1. CASE r = q
      <4>1. row'[r] = [row[r] EXCEPT !.cancel = TRUE] /\ row[r] \in Row
        BY <1>0, <1>3, <3>1
      <4> QED BY <4>1 DEF Row
    <3>2. CASE r # q
      BY <1>0, <1>3, <3>2
    <3> QED BY <3>1, <3>2
  <2> QED BY <2>1 DEF LifeStep, Turns
<1> QED BY <1>1, <1>2, <1>3 DEF Environment

LEMMA LifeNext == ASSUME Types, [Next]_vars, NEW r \in Runs PROVE LifeStep(r)
<1>1. CASE row' = row
  BY <1>1 DEF LifeStep, Turns
<1>2. Receive => row' = row
  BY DEF Receive, ReceiveHello, ReceiveClaim, ReceiveStatus, ReceiveComplete
<1>3. Connect \/ SendClaim \/ Available \/ Disconnect \/ Restart \/ (\E f \in frames : CallTimeout(f) \/ Undecided(f))
        => row' = row
  BY DEF Connect, SendClaim, Available, Disconnect, Restart, CallTimeout, Undecided
<1>4. ASSUME NEW q \in Runs, Launch(q) \/ Exit(q) PROVE row' = row
  BY <1>4 DEF Launch, Journal, Create, Start, FailToStart, Recover, Exit, Quiet
<1>5. ASSUME NEW q \in Runs, Supervise(q) \/ Finalize(q) PROVE row' = row
  BY <1>5 DEF Supervise, SendStatus, PushCancel, Stop, Deadline, ObserveExit,
              Finalize, SendComplete, RemoveContainer, DropEntry, Quiet
<1>6. UNCHANGED vars => row' = row
  BY DEF vars
<1> QED BY <1>1, <1>2, <1>3, <1>4, <1>5, <1>6, HandleLives, EnvironmentLives DEF Next

\* Whatever the agent sends, late or twice, and whatever befalls it, each run at the server
\* it is checked against lives as RunLifecycle says: what Dispatch guarantees of the
\* server (claims.py, reaper.py) is what the agent's theorems rest on.
THEOREM ServerLawful == \A r \in Runs : Spec => One(r)!Spec
<1> SUFFICES ASSUME NEW r \in Runs PROVE Spec => One(r)!Spec
  OBVIOUS
<1>1. Init => One(r)!Init
  BY DEF Init, One!Init
<1>2. Types /\ [Next]_vars => [One(r)!Next]_(One(r)!lvars)
  BY LifeNext, LifeStepMaps
<1>3. Spec => []Types
  BY InitTypes, TypesStep, PTL DEF Spec
<1> QED BY <1>1, <1>2, <1>3, PTL DEF Spec, One!Spec

=============================================================================
