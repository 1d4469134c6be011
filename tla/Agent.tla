-------------------------------- MODULE Agent --------------------------------
(***************************************************************************)
(* One worker's agent (agent.py), its journal (journal.py), its containers *)
(* and its connection (connection.py), against the server: what Dispatch   *)
(* does to the rows of the runs, each frame handled in one step.           *)
(*                                                                         *)
(* A call is a frame of its own.  Its caller may stop waiting, after 30 s  *)
(* or because the connection went, and the server may handle it all the    *)
(* same, later than what was sent after it.                                *)
(***************************************************************************)
EXTENDS RunStates, Integers, FiniteSets

CONSTANTS
  Runs,
  Capacity,     \* config.capacity
  MaxAttempts,  \* RetryMax + 1 of the runs
  EarlyPush,    \* whether a job.available may come before the answer to the hello
  MaxFaults,    \* bound: lost connections, calls that time out, agent crashes
  MaxLate       \* bound: frames under way that nobody waits for

ASSUME AgentAssumption ==
  /\ IsFiniteSet(Runs)
  /\ {Capacity, MaxAttempts} \subseteq Nat \ {0}
  /\ {MaxFaults, MaxLate} \subseteq Nat
  /\ EarlyPush \in BOOLEAN

VARIABLES
  row,      \* the server's RemoteJobRun rows; mine: this worker is run.worker
  frames,   \* calls of the agent, answered or not
  conn,     \* "down", "hello" (connected, no answer to the hello yet), "up"
  wanted,   \* _claim_wanted
  task,     \* the RunTasks in _runs; pc "none": there is no task
  journal,  \* the attempt of the journaled offer, 0: no entry
  ctr,      \* the container named after the run
  faults    \* faults so far

vars == <<row, frames, conn, wanted, task, journal, ctr, faults>>
session == <<conn, wanted>>
local == <<task, journal, ctr>>

-----------------------------------------------------------------------------
Outcomes == CompletionStates \cup {"none"}
NoTask == [pc |-> "none", offer |-> 0, handle |-> FALSE, stop |-> "no", result |-> "none",
           acked |-> "no"]
NoOffers == [r \in Runs |-> 0]

Attempts == 0..MaxAttempts
Row == [state: RunState, mine: BOOLEAN, attempt: 1..MaxAttempts, cancel: BOOLEAN]
Frame == [kind: {"hello", "claim", "status", "complete"}, runs: SUBSET Runs,
          offers: [Runs -> Attempts], max: 0..Capacity, result: Outcomes,
          alive: BOOLEAN, answer: {"none", "ok", "cancel", "gone", "error", "undecided"}]
Task == [pc: {"none", "start", "pull", "created", "recover", "run", "complete", "clean", "drop"},
         offer: Attempts, handle: BOOLEAN, stop: {"no", "fail", "mark", "cancel"},
         result: Outcomes, acked: {"no", "told", "guess"}]

TypeOK ==
  /\ row \in [Runs -> Row]
  /\ frames \subseteq Frame
  /\ conn \in {"down", "hello", "up"} /\ wanted \in BOOLEAN
  /\ task \in [Runs -> Task]
  /\ journal \in [Runs -> Attempts]
  /\ ctr \in [Runs -> {"none", "created", "running", "ok", "failed", "killed"}]
  /\ faults \in 0..MaxFaults

Busy == {r \in Runs : task[r].pc # "none"}
Journaled == {r \in Runs : journal[r] # 0}
Free == Capacity - Cardinality(Busy)

Init ==
  /\ row = [r \in Runs |-> [state |-> "PENDING", mine |-> FALSE, attempt |-> 1,
                            cancel |-> FALSE]]
  /\ frames = {} /\ conn = "down" /\ wanted = FALSE
  /\ task = [r \in Runs |-> NoTask]
  /\ journal = NoOffers
  /\ ctr = [r \in Runs |-> "none"]
  /\ faults = 0

-----------------------------------------------------------------------------
(* Calls: GatewayConnection.call *)

Call(kind, runs, max, result) ==
  [kind |-> kind, runs |-> runs, offers |-> NoOffers, max |-> max, result |-> result,
   alive |-> TRUE, answer |-> "none"]

Waiting(kind, r) == \E f \in frames : f.alive /\ f.kind = kind /\ r \in f.runs
Claiming == \E f \in frames : f.alive /\ f.kind = "claim"

\* Nobody waits for the calls F any more; those the server has not seen may still
\* reach it.
Forsake(F) ==
  \E late \in SUBSET {f \in F : f.answer = "none"} :
    /\ frames' = (frames \ F) \cup {[f EXCEPT !.alive = FALSE] : f \in late}
    /\ Cardinality({f \in frames' : ~f.alive}) <= MaxLate

Answer(f, a) ==
  frames' = (frames \ {f}) \cup (IF f.alive THEN {[f EXCEPT !.answer = a]} ELSE {})

-----------------------------------------------------------------------------
(* The server *)

Held(r) == row[r].mine /\ row[r].state \in ActiveStates

Abandoned_Unlimited(w) ==
  IF w.attempt <= MaxAttempts
  THEN [w EXCEPT !.state = "PENDING", !.mine = FALSE, !.attempt = @ + 1]
  ELSE [w EXCEPT !.state = "ABANDONED"]

\* abandon_run: re-queued while attempts are left.
Abandoned(w) ==
  IF w.attempt < MaxAttempts
  THEN [w EXCEPT !.state = "PENDING", !.mine = FALSE, !.attempt = @ + 1]
  ELSE [w EXCEPT !.state = "ABANDONED"]

\* reconcile_in_flight: held runs the hello does not name are abandoned.
HandleHello(f) ==
  /\ f.kind = "hello" /\ f.answer = "none"
  /\ row' = [r \in Runs |-> IF Held(r) /\ r \notin f.runs THEN Abandoned(row[r]) ELSE row[r]]
  /\ Answer(f, "ok")
  /\ UNCHANGED <<session, local, faults>>

\* claim_runs grants what it likes of the queued runs, up to what was asked for.
HandleClaim(f) ==
  /\ f.kind = "claim" /\ f.answer = "none"
  /\ \E S \in SUBSET {r \in Runs : row[r].state = "PENDING"} :
       /\ Cardinality(S) <= f.max
       /\ row' = [r \in Runs |-> IF r \in S THEN [row[r] EXCEPT !.state = "CLAIMED", !.mine = TRUE]
                                 ELSE row[r]]
       /\ LET g == [f EXCEPT !.answer = "ok",
                             !.offers = [r \in Runs |-> IF r \in S THEN row[r].attempt ELSE 0]]
          IN frames' = (frames \ {f}) \cup (IF f.alive THEN {g} ELSE {})
  /\ UNCHANGED <<session, local, faults>>

\* report_status
HandleStatus(f, r) ==
  /\ f.kind = "status" /\ r \in f.runs /\ f.answer = "none"
  /\ IF Held(r)
     THEN /\ row' = [row EXCEPT ![r].state = "RUNNING"]
          /\ Answer(f, IF row[r].cancel THEN "cancel" ELSE "ok")
     ELSE /\ UNCHANGED row
          /\ Answer(f, IF row[r].mine /\ row[r].state # "ABANDONED" THEN "error" ELSE "gone")
  /\ UNCHANGED <<session, local, faults>>

\* complete_run
HandleComplete(f, r) ==
  /\ f.kind = "complete" /\ r \in f.runs /\ f.answer = "none"
  /\ IF Held(r)
     THEN row' = [row EXCEPT ![r].state = f.result] /\ Answer(f, "ok")
     ELSE /\ UNCHANGED row
          /\ Answer(f, IF ~row[r].mine THEN "gone"
                       ELSE IF row[r].state = f.result THEN "ok" ELSE "error")
  /\ UNCHANGED <<session, local, faults>>

\* The reaper, other workers and users.  A wait that is given up ends like a cancel.
Environment(r) ==
  /\ \/ row[r].state \in ActiveStates /\ row' = [row EXCEPT ![r] = Abandoned(@)]
     \/ row[r].state = "PENDING" /\ row' = [row EXCEPT ![r].state = "CLAIMED"]
     \/ /\ row[r].state \in ActiveStates /\ ~row[r].mine
        /\ row' = [row EXCEPT ![r].state = "SUCCESS"]
     \/ row[r].state = "PENDING" /\ row' = [row EXCEPT ![r].state = "CANCELLED"]
     \/ /\ row[r].state \in ActiveStates /\ ~row[r].cancel
        /\ row' = [row EXCEPT ![r].cancel = TRUE]
  /\ UNCHANGED <<frames, session, local, faults>>

-----------------------------------------------------------------------------
(* The session: _connect_once, _on_connected, _claim_loop *)

\* The socket counts as connected from here on; the hello is the first frame sent.
Connect ==
  /\ conn = "down" /\ conn' = "hello"
  /\ frames' = frames \cup {Call("hello", Busy \cup Journaled, 0, "none")}
  /\ UNCHANGED <<row, wanted, local, faults>>

\* _recover_journaled_runs: journaled runs without a task get one.
ReceiveHello(f) ==
  /\ f.kind = "hello" /\ f.alive /\ f.answer # "none"
  /\ frames' = frames \ {f} /\ conn' = "up" /\ wanted' = TRUE
  /\ task' = [r \in Runs |->
                IF r \in Journaled \ Busy THEN [NoTask EXCEPT !.pc = "recover", !.offer = journal[r]]
                ELSE task[r]]
  /\ UNCHANGED <<row, journal, ctr, faults>>

\* _maybe_claim, which also runs while the hello is unanswered.
SendClaim ==
  /\ wanted /\ ~Claiming /\ wanted' = FALSE
  /\ IF conn # "down" /\ Free > 0
     THEN frames' = frames \cup {Call("claim", {}, Free, "none")}
     ELSE UNCHANGED frames
  /\ UNCHANGED <<row, conn, local, faults>>

\* start_run for each offer; one for a run that has a task is ignored.
ReceiveClaim(f) ==
  /\ f.kind = "claim" /\ f.alive /\ f.answer # "none"
  /\ frames' = frames \ {f}
  /\ task' = [r \in Runs |->
                IF f.offers[r] # 0 /\ r \notin Busy
                THEN [NoTask EXCEPT !.pc = "start", !.offer = f.offers[r]]
                ELSE task[r]]
  /\ wanted' = (wanted \/ f.offers # NoOffers)
  /\ UNCHANGED <<row, conn, journal, ctr, faults>>

\* job.available
Available ==
  /\ conn = "up" \/ (EarlyPush /\ conn = "hello")
  /\ ~wanted /\ wanted' = TRUE
  /\ UNCHANGED <<row, frames, conn, local, faults>>

-----------------------------------------------------------------------------
(* A run: RunTask *)

Goto(r, pc) == task' = [task EXCEPT ![r].pc = pc]
End(r, result) == task' = [task EXCEPT ![r].pc = "complete", ![r].result = result]
Fail(r) == End(r, "FAILURE")
Quiet == UNCHANGED <<row, frames, session, faults>>

\* journal.add keeps an entry that exists.
Journal(r) ==
  /\ task[r].pc = "start" /\ Goto(r, "pull")
  /\ journal' = [journal EXCEPT ![r] = IF @ = 0 THEN task[r].offer ELSE @]
  /\ UNCHANGED ctr /\ Quiet

Create_LocalHandle(r) ==
  /\ task[r].pc = "pull"
  /\ IF ctr[r] = "none"
     THEN ctr' = [ctr EXCEPT ![r] = "created"] /\ Goto(r, "created")
     ELSE UNCHANGED ctr /\ Fail(r)
  /\ UNCHANGED journal /\ Quiet

\* pull, then create, which fails if there is a container of that name.
Create(r) ==
  /\ task[r].pc = "pull"
  /\ IF ctr[r] = "none"
     THEN /\ ctr' = [ctr EXCEPT ![r] = "created"]
          /\ task' = [task EXCEPT ![r].pc = "created", ![r].handle = TRUE]
     ELSE UNCHANGED ctr /\ Fail(r)
  /\ UNCHANGED journal /\ Quiet

Start(r) ==
  /\ task[r].pc = "created" /\ Goto(r, "run")
  /\ ctr' = [ctr EXCEPT ![r] = "running"]
  /\ UNCHANGED journal /\ Quiet

\* The image reference, the pull, the creation or the start is refused.
FailToStart(r) ==
  /\ task[r].pc \in {"pull", "created"} /\ Fail(r)
  /\ UNCHANGED <<journal, ctr>> /\ Quiet

\* recover: re-attach, or report the container lost.
Recover(r) ==
  /\ task[r].pc = "recover"
  /\ IF ctr[r] = "none" THEN Fail(r)
     ELSE task' = [task EXCEPT ![r].pc = "run", ![r].handle = TRUE]
  /\ UNCHANGED <<journal, ctr>> /\ Quiet

SendStatus(r) ==
  /\ task[r].pc = "run" /\ task[r].stop # "fail" /\ conn # "down" /\ ~Waiting("status", r)
  /\ frames' = frames \cup {Call("status", {r}, 0, "none")}
  /\ UNCHANGED <<row, session, local, faults>>

Killed(c) == IF c = "running" THEN "killed" ELSE c

ReceiveStatus_LogsErrors(f, r) ==
  /\ f.kind = "status" /\ r \in f.runs /\ f.alive /\ f.answer # "none"
  /\ frames' = frames \ {f}
  /\ \/ f.answer = "cancel" /\ task' = [task EXCEPT ![r].stop = "cancel"] /\ UNCHANGED ctr
     \/ f.answer # "cancel" /\ UNCHANGED <<task, ctr>>
  /\ UNCHANGED <<row, session, journal, faults>>

\* cancel_requested starts a graceful cancel; UNKNOWN_RUN and LEASE_EXPIRED kill the
\* container at once; any other error is logged.
ReceiveStatus(f, r) ==
  /\ f.kind = "status" /\ r \in f.runs /\ f.alive /\ f.answer # "none"
  /\ frames' = frames \ {f}
  /\ \/ f.answer = "cancel" /\ task' = [task EXCEPT ![r].stop = "cancel"] /\ UNCHANGED ctr
     \/ /\ f.answer = "gone"
        /\ task' = [task EXCEPT ![r].stop = IF @ = "no" THEN "fail" ELSE @]
        /\ ctr' = [ctr EXCEPT ![r] = Killed(@)]
     \/ f.answer \in {"ok", "error"} /\ UNCHANGED <<task, ctr>>
  /\ UNCHANGED <<row, session, journal, faults>>

\* job.cancel, delivered some time after a user asked for it.  Without a handle it only sets
\* _terminated: run() looks at that once the container is started, recover() does not.
PushCancel(r) ==
  /\ row[r].cancel /\ conn # "down"
  /\ task[r].pc \in {"start", "pull", "created", "recover", "run"} /\ task[r].stop # "cancel"
  /\ task' = [task EXCEPT ![r].stop = IF task[r].pc = "recover" THEN "mark" ELSE "cancel"]
  /\ UNCHANGED <<journal, ctr>> /\ Quiet

\* cancel: SIGTERM, and SIGKILL if that does not end it within grace_seconds; SIGKILL
\* at once if run() had not started the container when the cancel came.
Stop(r) ==
  /\ task[r].pc = "run" /\ task[r].stop = "cancel" /\ ctr[r] = "running"
  /\ ctr' = [ctr EXCEPT ![r] = "killed"]
  /\ UNCHANGED <<task, journal>> /\ Quiet

Terminated(r) == task[r].stop \in {"mark", "cancel"}

\* timeout_seconds since the journal entry was made
Deadline(r) ==
  /\ task[r].pc = "run" /\ ctr[r] = "running"
  /\ ctr' = [ctr EXCEPT ![r] = "killed"]
  /\ task' = [task EXCEPT ![r].stop = IF Terminated(r) THEN @ ELSE "fail"]
  /\ UNCHANGED journal /\ Quiet

\* The container ends by itself, watched or not.
Exit(r) ==
  /\ ctr[r] = "running"
  /\ \E c \in {"ok", "failed"} : ctr' = [ctr EXCEPT ![r] = c]
  /\ UNCHANGED <<task, journal>> /\ Quiet

\* _classify.  docker's wait answers 0 for a container that was never started.
Classify(r) ==
  IF Terminated(r) THEN "TERMINATED"
  ELSE IF task[r].stop = "no" /\ ctr[r] \in {"ok", "created"} THEN "SUCCESS"
  ELSE "FAILURE"

\* _supervise sees the end, cancels the status loop and goes on to _finalize.
ObserveExit(r) ==
  /\ task[r].pc = "run" /\ ctr[r] # "running"
  /\ End(r, Classify(r))
  /\ Forsake({f \in frames : f.alive /\ f.kind = "status" /\ r \in f.runs})
  /\ UNCHANGED <<row, session, journal, ctr, faults>>

SendComplete(r) ==
  /\ task[r].pc = "complete" /\ conn # "down" /\ ~Waiting("complete", r)
  /\ frames' = frames \cup {Call("complete", {r}, 0, task[r].result)}
  /\ UNCHANGED <<row, session, local, faults>>

ReceiveComplete_RetriesRejected(f, r) ==
  /\ f.kind = "complete" /\ r \in f.runs /\ f.alive /\ f.answer # "none"
  /\ frames' = frames \ {f}
  /\ IF f.answer = "ok"
     THEN task' = [task EXCEPT ![r].pc = "clean", ![r].acked = "told"] ELSE UNCHANGED task
  /\ UNCHANGED <<row, session, journal, ctr, faults>>

\* _send_complete: an error answer is final, too, whatever the error says of the run.
ReceiveComplete(f, r) ==
  /\ f.kind = "complete" /\ r \in f.runs /\ f.alive /\ f.answer # "none"
  /\ frames' = frames \ {f}
  /\ task' = [task EXCEPT ![r].pc = "clean",
                          ![r].acked = IF f.answer = "undecided" THEN "guess" ELSE "told"]
  /\ UNCHANGED <<row, session, journal, ctr, faults>>

\* _cleanup removes the container it holds, ...
RemoveContainer(r) ==
  /\ task[r].pc = "clean" /\ Goto(r, "drop")
  /\ ctr' = [ctr EXCEPT ![r] = IF task[r].handle THEN "none" ELSE @]
  /\ UNCHANGED journal /\ Quiet

\* ... then the journal entry; _run_finished frees the slot.
DropEntry(r) ==
  /\ task[r].pc = "drop"
  /\ journal' = [journal EXCEPT ![r] = 0]
  /\ task' = [task EXCEPT ![r] = NoTask]
  /\ wanted' = TRUE
  /\ UNCHANGED <<row, frames, conn, ctr, faults>>

-----------------------------------------------------------------------------
(* Faults *)

Fault == faults < MaxFaults /\ faults' = faults + 1
Alive == {f \in frames : f.alive}

\* _fail_pending: every caller gets a ConnectionClosedError.
Disconnect ==
  /\ Fault /\ conn # "down" /\ conn' = "down"
  /\ Forsake(Alive)
  /\ UNCHANGED <<row, wanted, local>>

CallTimeout_AsAnswer(f) ==
  /\ Fault /\ f.alive /\ f.kind # "hello"
  /\ Forsake({f})
  /\ task' = [r \in Runs |-> IF f.kind = "complete" /\ r \in f.runs
                             THEN [task[r] EXCEPT !.pc = "clean"] ELSE task[r]]
  /\ UNCHANGED <<row, session, journal, ctr>>

\* A call is answered by nothing for 30 s; a hello takes the connection with it.
CallTimeout(f) ==
  /\ Fault /\ f.alive /\ f.kind # "hello"
  /\ Forsake({f})
  /\ UNCHANGED <<row, session, local>>

\* A completion is answered by an error that decides nothing: its handler raised, which
\* undid what it had done (INTERNAL_ERROR), the gateway refused the frame (RATE_LIMITED), or
\* had waited long enough (UPSTREAM_TIMEOUT) and the server may handle it yet.  An OK whose
\* transaction was undone, for a token that could not be deleted, does the same.  To the
\* caller of another method that is a call without an answer.
Undecided(f) ==
  /\ Fault /\ f.alive /\ f.kind = "complete" /\ f.answer = "none"
  /\ \E late \in SUBSET {f} :
       frames' = (frames \ {f}) \cup {[f EXCEPT !.answer = "undecided"]}
                                \cup {[g EXCEPT !.alive = FALSE] : g \in late}
  /\ Cardinality({g \in frames' : ~g.alive}) <= MaxLate
  /\ UNCHANGED <<row, session, local>>

\* The agent dies or is shut down, and starts again: containers and journal stay.
Restart ==
  /\ Fault
  /\ conn' = "down" /\ wanted' = FALSE
  /\ task' = [r \in Runs |-> NoTask]
  /\ Forsake(Alive)
  /\ UNCHANGED <<row, journal, ctr>>

-----------------------------------------------------------------------------
Handle == \E f \in frames :
  HandleHello(f) \/ HandleClaim(f) \/ \E r \in f.runs : HandleStatus(f, r) \/ HandleComplete(f, r)
Receive == \E f \in frames :
  ReceiveHello(f) \/ ReceiveClaim(f) \/ \E r \in f.runs : ReceiveStatus(f, r) \/ ReceiveComplete(f, r)

Launch(r) == Journal(r) \/ Create(r) \/ Start(r) \/ FailToStart(r) \/ Recover(r)
Supervise(r) == SendStatus(r) \/ PushCancel(r) \/ Stop(r) \/ Deadline(r) \/ ObserveExit(r)
Finalize(r) == SendComplete(r) \/ RemoveContainer(r) \/ DropEntry(r)

Next ==
  \/ Handle \/ Receive \/ Connect \/ SendClaim \/ Available
  \/ Disconnect \/ Restart \/ \E f \in frames : CallTimeout(f) \/ Undecided(f)
  \/ \E r \in Runs : Environment(r) \/ Launch(r) \/ Supervise(r) \/ Finalize(r) \/ Exit(r)

Spec == Init /\ [][Next]_vars

HelloStep == Connect \/ \E f \in frames : HandleHello(f) \/ ReceiveHello(f)
StatusStep(r) == SendStatus(r) \/ \E f \in frames : HandleStatus(f, r) \/ ReceiveStatus(f, r)
CompleteStep(r) ==
  ObserveExit(r) \/ Finalize(r) \/ \E f \in frames : HandleComplete(f, r) \/ ReceiveComplete(f, r)

\* The agent reconnects, its loops go on, frames that are not lost are handled.
FairSpec ==
  /\ Spec /\ WF_vars(HelloStep)
  /\ \A r \in Runs : /\ WF_vars(Recover(r)) /\ WF_vars(StatusStep(r))
                     /\ WF_vars(Stop(r)) /\ WF_vars(CompleteStep(r))

-----------------------------------------------------------------------------
\* journal.py: a container is journaled from before it exists until it is removed, so
\* that a restarted agent finds it.
ContainersKnown == \A r \in Runs : ctr[r] # "none" => journal[r] # 0

\* agent.py:591: when the entry of an attempt is dropped, the server is done with that
\* attempt: it has its result, or it has given it to somebody else.  The one exception is a
\* completion whose answer decided nothing (Undecided), which the agent takes for the
\* server's verdict: the server waits for that attempt until the lease ends.
NothingForgotten ==
  [][\A r \in Runs : (journal[r] # 0 /\ journal'[r] = 0 /\ task[r].acked # "guess")
                       => ~(Held(r) /\ row[r].attempt = journal[r])]_vars

\* agent.py:506, SPEC.md 8.2: a container whose run was taken away or cancelled is
\* stopped, by the status loop if by nothing else.
UnwantedStops ==
  \A r \in Runs :
    LET Unwanted == ~row[r].mine \/ row[r].state = "ABANDONED" \/ (Held(r) /\ row[r].cancel) IN
    (task[r].pc = "run" /\ ctr[r] = "running" /\ Unwanted)
      ~> (ctr[r] # "running" \/ ~Unwanted)

\* agent.py:594: a run that has ended does not pin its slot and its journal entry,
\* whatever the server says.
EndedReleased == \A r \in Runs : (task[r].pc = "complete") ~> (journal[r] = 0)
=============================================================================
