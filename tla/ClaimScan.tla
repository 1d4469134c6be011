------------------------------ MODULE ClaimScan ------------------------------
(***************************************************************************)
(* One job.claim after another over the queue of a zone: claim_runs and    *)
(* _claim_one (dispatch/claims.py), at the grain of the row locks it takes *)
(* while it looks at its candidates.  Dispatch takes the scan for one step *)
(* and has what else happens to a run.                                     *)
(*                                                                         *)
(* Limitations: a claimed run ends for good; a definition has one fan-out  *)
(* parent at a time, RUNNING until its children have ended.                *)
(***************************************************************************)
EXTENDS Integers, FiniteSets

CONSTANTS
  Runs, Workers,
  Queues,      \* sets of runs that may be all there is in the beginning
  Zone,        \* [run or worker -> zone]
  Place,       \* [run -> its place in the order of queued_at]
  Definition,
  Singletons,  \* definitions
  Fanned,      \* runs that are children of their definition's parent
  Able,        \* [worker -> runs whose capabilities it has]
  Capacity,
  Window       \* candidates looked at: 20 in the code

VARIABLES
  state,  \* pending, ended or the worker that has it
  scan    \* the claim a worker's frame is at, with the locks of its transaction

vars == <<state, scan>>

-----------------------------------------------------------------------------
Idle == [pc |-> "idle", budget |-> 0, rows |-> {}, locked |-> {}, defs |-> {}, held |-> {}]
Selecting(budget) == [Idle EXCEPT !.pc = "select", !.budget = budget]

Init ==
  /\ \E q \in Queues : state = [r \in Runs |-> IF r \in q THEN "pending" ELSE "ended"]
  /\ scan = [w \in Workers |-> Idle]

Free(w) == Capacity[w] - Cardinality({r \in Runs : state[r] = w})

\* handle_job_claim: the budget is read once.
Begin(w, max) ==
  /\ scan[w].pc = "idle" /\ Free(w) > 0
  /\ scan' = [scan EXCEPT ![w] = Selecting(IF max < Free(w) THEN max ELSE Free(w))]
  /\ UNCHANGED state

RowLocked(r) == \E w \in Workers : r \in scan[w].locked
Candidates(w) == {r \in Runs : state[r] = "pending" /\ Zone[r] = Zone[w] /\ ~RowLocked(r)}
Before(r, ss) == {q \in ss : Place[q] < Place[r]}
Oldest(ss) == CHOOSE r \in ss : Before(r, ss) = {}

\* The default order of the model is the newest first.
Seen_Newest(w) ==
  LET ss == Candidates(w)
  IN {r \in ss : Cardinality(ss) - Cardinality(Before(r, ss)) <= Window}

Seen(w) == LET ss == Candidates(w) IN {r \in ss : Cardinality(Before(r, ss)) < Window}

\* SELECT FOR UPDATE SKIP LOCKED.
Select(w) ==
  /\ scan[w].pc = "select"
  /\ scan' = [scan EXCEPT ![w].pc = "look", ![w].rows = Seen(w), ![w].locked = Seen(w)]
  /\ UNCHANGED state

Looking(w) == scan[w].pc = "look" /\ scan[w].rows # {}
This(w) == Oldest(scan[w].rows)
Single(w) == Definition[This(w)] \in Singletons
Rest(w) == scan[w].rows \ {This(w)}

Pass(w) ==
  /\ Looking(w)
  /\ This(w) \notin Able[w] \/ (Single(w) /\ Definition[This(w)] \in scan[w].held)
  /\ scan' = [scan EXCEPT ![w].rows = Rest(w)]
  /\ UNCHANGED state

\* A singleton's definition is to be locked; the lock is kept to the transaction's end.
Wants(w) ==
  IF Looking(w) /\ This(w) \in Able[w] /\ Single(w) THEN {Definition[This(w)]} \ scan[w].held ELSE {}

LockDefinition(w) ==
  /\ Wants(w) # {} /\ \A v \in Workers : Wants(w) \cap scan[v].defs = {}
  /\ scan' = [scan EXCEPT ![w].pc = "check", ![w].defs = @ \cup Wants(w)]
  /\ UNCHANGED state

\* _singleton_held: a parent that is RUNNING counts too.
SingletonHeld(d) ==
  \E q \in Runs : /\ Definition[q] = d
                  /\ state[q] \in Workers \/ (q \in Fanned /\ state[q] # "ended")

CheckHeld(w) ==
  LET d == Definition[This(w)] IN
  /\ scan[w].pc = "check"
  /\ scan' = IF SingletonHeld(d)
             THEN [scan EXCEPT ![w].pc = "look", ![w].held = @ \cup {d}, ![w].rows = Rest(w)]
             ELSE [scan EXCEPT ![w].pc = "take"]
  /\ UNCHANGED state

\* The row is written and the transaction commits; on with the next one.
Take(w) ==
  /\ scan[w].pc = "take" \/ (Looking(w) /\ This(w) \in Able[w] /\ ~Single(w))
  /\ state' = [state EXCEPT ![This(w)] = w]
  /\ scan' = [scan EXCEPT ![w] = IF @.budget > 1 THEN Selecting(@.budget - 1) ELSE Idle]

Finish(w) ==
  /\ scan[w].pc = "look" /\ scan[w].rows = {}
  /\ scan' = [scan EXCEPT ![w] = Idle]
  /\ UNCHANGED state

\* Transactions that wait for each other's definitions: PostgreSQL ends one of them with an
\* error, and the frame with it; what it claimed before stays claimed.
WaitsFor(w, v) == Wants(w) \cap scan[v].defs # {}
Deadlocked(ws) == \A w \in ws : (\E v \in ws : WaitsFor(w, v)) /\ (\E v \in ws : WaitsFor(v, w))
InDeadlock(w) == \E ws \in SUBSET Workers : w \in ws /\ Deadlocked(ws)

Abort(w) ==
  /\ InDeadlock(w)
  /\ scan' = [scan EXCEPT ![w] = Idle]
  /\ UNCHANGED state

End(r) ==
  /\ state[r] \in Workers
  /\ state' = [state EXCEPT ![r] = "ended"]
  /\ UNCHANGED scan

-----------------------------------------------------------------------------
Proceed(w) == \/ Select(w) \/ Pass(w) \/ LockDefinition(w) \/ CheckHeld(w) \/ Take(w) \/ Finish(w)
              \/ Abort(w)
Claim(w) == Proceed(w) \/ \E max \in 1..Capacity[w] : Begin(w, max)

Next == (\E w \in Workers : Claim(w)) \/ \E r \in Runs : End(r)

Spec == Init /\ [][Next]_vars

\* A claim that has come in is gone through with, where PostgreSQL looks for deadlocks, and
\* runs end.  No agent is bound to ask.
FairSpec ==
  /\ Spec
  /\ \A w \in Workers : WF_vars(Proceed(w))
  /\ WF_vars(\E r \in Runs : End(r))

-----------------------------------------------------------------------------
(* Properties. *)

\* A queued run that some worker of its zone can do is claimed in the end, if those workers
\* ask again whenever they have room.  They need not: their claim loop waits for an event and
\* does not repeat a call that failed (Placement has how a wake-up gets lost).  With all of
\* them asking there are four exceptions left: its definition's own fan-out parent keeps it;
\* a window full of runs that nobody there can do, or that such parents keep, is in front of
\* it; scans of workers that cannot do it hold its row again and again; claims deadlock again
\* and again (_claim_one, _singleton_held).
Kept(r) == /\ Definition[r] \in Singletons
           /\ \E q \in Fanned : Definition[q] = Definition[r] /\ state[q] # "ended"
Doers(r) == {w \in Workers : Zone[w] = Zone[r] /\ r \in Able[w]}
Buried(r) ==
  \A w \in Doers(r) :
    Cardinality({q \in Before(r, Runs) : /\ state[q] = "pending" /\ Zone[q] = Zone[r]
                                         /\ q \notin Able[w] \/ Kept(q)}) >= Window
Shadowed(r) == \E w \in Workers : r \in scan[w].locked \ Able[w]
\* It claims, or has no room.
Asks(w) == scan[w].pc # "idle" \/ Free(w) = 0
QueueMoves ==
  \A r \in Runs : (\A w \in Doers(r) : []<>Asks(w)) =>
    \/ []<>(Shadowed(r) \/ \E w \in Workers : InDeadlock(w))
    \/ (state[r] = "pending" /\ Doers(r) # {}) ~> (state[r] # "pending" \/ Kept(r) \/ Buried(r))
=============================================================================
