------------------------------- MODULE Dispatch -------------------------------
(***************************************************************************)
(* The server's dispatch engine for runs that have no parent: job.claim,   *)
(* job.status, job.complete and worker.hello (rpc/handlers.py,             *)
(* dispatch/claims.py), the lease reaper and the wait-timeout sweep        *)
(* (dispatch/reaper.py), cancellation and the core cancel strategy         *)
(* (cancel.py), and the JobResult mirror (models/runs.py).                 *)
(*                                                                         *)
(* The grain is the database's.  A transaction that locks its row before   *)
(* it reads is one step.  Everything the code does outside one is a step   *)
(* per statement: the ownership read of _get_worker_run, the capacity read *)
(* of claim_runs, and each write of abandon_run when worker.hello or the   *)
(* cancel strategy calls it without a transaction.  A claim transaction is *)
(* two steps, so that the row and definition locks it holds are seen.      *)
(*                                                                         *)
(* Time is abstract: a lease is live or expired, a queued run has or has   *)
(* not outwaited its zone's budget, a worker that is cancelled may or may  *)
(* not count as OFFLINE.  Worker frames are unconstrained: any worker may  *)
(* send any frame about any run, repeatedly, which covers lost replies,    *)
(* retries and duplicated publishes.                                       *)
(***************************************************************************)
EXTENDS RunStates, Integers, FiniteSets

CONSTANTS
  Runs,         \* the RemoteJobRun rows
  Workers,      \* enrolled workers
  Threads,      \* RPC bridge pool threads (and web requests running the strategy)
  NoOne,        \* NULL in a worker or run reference
  DefOf,        \* run -> its JobDefinition
  Singletons,   \* the definitions with singleton=True
  RetryMax,     \* run -> its definition's retry_max
  QueuePos,     \* run -> its place in the queued_at order
  InZone,       \* worker -> the runs queued in its zone
  Capable,      \* worker -> the runs whose required capabilities it has
  Capacity,     \* worker -> Worker.capacity
  MaxOffers,    \* the largest "max" a job.claim frame asks for
  WaitRuns,     \* runs whose zone's failover_policy is wait or failover
  StaleHello,   \* TRUE: a hello may omit a run the server thinks the worker holds
  CoreCancel,   \* TRUE: this Nautobot exposes CancelFactory, so the strategy is live
  DeleteFails,  \* the runs whose token's deletion may fail
  MaxClaims,    \* bound: claims of one run
  Reports,      \* bound: the completion states workers report
  CancelRuns,   \* bound: the runs users cancel
  DrainWorkers, \* bound: the workers operators drain
  CrashThreads  \* bound: the threads that may die at any point

ASSUME DispatchAssumption ==
  /\ NoOne \notin Workers /\ NoOne \notin Runs
  /\ IsFiniteSet(Runs)
  /\ RetryMax \in [Runs -> Nat]
  /\ QueuePos \in [Runs -> Nat]
  /\ InZone \in [Workers -> SUBSET Runs]
  /\ Capable \in [Workers -> SUBSET Runs]
  /\ Capacity \in [Workers -> Nat]
  /\ MaxOffers \in Nat
  /\ WaitRuns \subseteq Runs
  /\ StaleHello \in BOOLEAN /\ CoreCancel \in BOOLEAN
  /\ DeleteFails \subseteq Runs
  /\ MaxClaims \in Nat
  /\ Reports \subseteq CompletionStates
  /\ CancelRuns \subseteq Runs /\ DrainWorkers \subseteq Workers
  /\ CrashThreads \subseteq Threads

VARIABLES
  run,        \* the RemoteJobRun rows
  result,     \* the JobResult rows
  live,       \* run -> the users.Token rows minted for it that still exist
  minted,     \* run -> how many tokens were minted for it: one per claim
  draining,   \* workers that are draining (enabled=False refuses claims alike)
  th,         \* what each thread is doing, with its in-memory instances
  reapList,   \* expired_ids of the reap_expired passes under way
  waitList    \* PENDING runs past their budget, as the passes under way read them

vars == <<run, result, live, minted, draining, th, reapList, waitList>>
rows == <<run, result, live, minted>>

-----------------------------------------------------------------------------
(* Rows and the threads' local state *)

RunRow == [state: RunState, worker: Workers \cup {NoOne}, attempt: Nat,
           lease: {"none", "live", "expired"}, token: Nat, waited: BOOLEAN]

ResultRow == [status: JobResultStatus,
              revocation: {"none", "TERMINATED", "ABANDONED"},
              cancelRequested: BOOLEAN]

\* An instance a thread read without a lock: what abandon_run uses of it.
Copy == [attempt: Nat, token: Nat]

PC == {"idle", "claim", "picked", "status", "complete",
       "abandon", "sync", "token", "requeue", "resync"}

Thread == [pc: PC, w: Workers \cup {NoOne}, r: Runs \cup {NoOne},
           arg: RunState, budget: Nat, rows: SUBSET Runs,
           known: SUBSET Runs, todo: SUBSET Runs, copy: [Runs -> Copy]]

NoCopy == [r \in Runs |-> [attempt |-> 0, token |-> 0]]

Idle == [pc |-> "idle", w |-> NoOne, r |-> NoOne, arg |-> "PENDING",
         budget |-> 0, rows |-> {}, known |-> {}, todo |-> {}, copy |-> NoCopy]

TypeOK ==
  /\ run \in [Runs -> RunRow]
  /\ result \in [Runs -> ResultRow]
  /\ live \in [Runs -> SUBSET Nat]
  /\ minted \in [Runs -> Nat]
  /\ draining \subseteq Workers
  /\ th \in [Threads -> Thread]
  /\ reapList \subseteq Runs
  /\ waitList \subseteq Runs

Active(r) == run[r].state \in ActiveStates
HeldBy(w) == {r \in Runs : Active(r) /\ run[r].worker = w}

\* submit_run leaves a leaf run PENDING in its zone with its JobResult.
Init ==
  /\ run = [r \in Runs |-> [state |-> "PENDING", worker |-> NoOne, attempt |-> 1,
                            lease |-> "none", token |-> 0, waited |-> FALSE]]
  /\ result = [r \in Runs |-> [status |-> "PENDING", revocation |-> "none",
                               cancelRequested |-> FALSE]]
  /\ live = [r \in Runs |-> {}]
  /\ minted = [r \in Runs |-> 0]
  /\ draining = {}
  /\ th = [t \in Threads |-> Idle]
  /\ reapList = {} /\ waitList = {}

RowLocked_NoForUpdate(r) == FALSE

\* Rows that an open claim transaction holds FOR UPDATE: every candidate it
\* selected, not only the one it took.  Statements on them wait; SKIP LOCKED
\* queries pass over them.
RowLocked(r) == \E t \in Threads : th[t].pc = "picked" /\ r \in th[t].rows

\* The JobDefinition row an open claim of a singleton definition holds.
DefLocked(r) ==
  \E t \in Threads : th[t].pc = "picked" /\ DefOf[th[t].r] = DefOf[r]

-----------------------------------------------------------------------------
(* Row updates shared by several operations *)

\* Faulty variants (X_...) stand before the operator X they alter; the README
\* says which property notices each.
Mirror_RawState(res, s) == [res EXCEPT !.status = s]

\* sync_job_result
Mirror(res, s) ==
  [res EXCEPT !.status = StatusOf(s),
              !.revocation = IF s \in {"TERMINATED", "ABANDONED"} THEN s ELSE @]

\* The end of delete_scoped_token, after the row has let go of the token: a deletion that
\* raises is only logged.  (If the database raised it inside a transaction, Django undoes
\* the transaction in the end: for the engine a step that did not happen.)
Drop(r, tok) ==
  \/ live' = [live EXCEPT ![r] = @ \ {tok}]
  \/ r \in DeleteFails /\ UNCHANGED live

Settle_KeepsToken(r, s) ==
  /\ run' = [run EXCEPT ![r].state = s]
  /\ result' = [result EXCEPT ![r] = Mirror(@, s)]
  /\ UNCHANGED <<live, minted>>

\* Any move to a state that ends a locked instance: transition (or the direct
\* assignment of the wait sweep), the mirror and delete_scoped_token.
Settle(r, s) ==
  /\ run' = [run EXCEPT ![r] = [@ EXCEPT !.state = s, !.token = 0]]
  /\ result' = [result EXCEPT ![r] = Mirror(@, s)]
  /\ Drop(r, run[r].token)
  /\ UNCHANGED minted

CanRetry_OffByOne(r, attempt) == attempt <= RetryMax[r] + 1

CanRetry(r, attempt) == attempt < RetryMax[r] + 1

Abandon_NoResync(r) ==
  IF CanRetry(r, run[r].attempt)
    THEN /\ run' = [run EXCEPT ![r] = [@ EXCEPT !.state = "PENDING", !.worker = NoOne,
                               !.lease = "none", !.token = 0,
                               !.attempt = run[r].attempt + 1]]
         /\ result' = [result EXCEPT ![r] = Mirror(@, "ABANDONED")]
         /\ Drop(r, run[r].token)
         /\ UNCHANGED minted
    ELSE Settle(r, "ABANDONED")

Abandon_SameAttempt(r) ==
  IF CanRetry(r, run[r].attempt)
    THEN /\ run' = [run EXCEPT ![r] = [@ EXCEPT !.state = "PENDING", !.worker = NoOne,
                               !.lease = "none", !.token = 0]]
         /\ result' = [result EXCEPT ![r] = Mirror(@, "PENDING")]
         /\ Drop(r, run[r].token)
         /\ UNCHANGED minted
    ELSE Settle(r, "ABANDONED")

\* abandon_run inside a transaction that holds the row: ABANDONED, token gone,
\* then re-queued if the retry policy allows another attempt.  queued_at stays.
Abandon(r) ==
  IF CanRetry(r, run[r].attempt)
    THEN /\ run' = [run EXCEPT ![r] = [@ EXCEPT !.state = "PENDING", !.worker = NoOne,
                               !.lease = "none", !.token = 0,
                               !.attempt = run[r].attempt + 1]]
         /\ result' = [result EXCEPT ![r] = Mirror(Mirror(@, "ABANDONED"), "PENDING")]
         /\ Drop(r, run[r].token)
         /\ UNCHANGED minted
    ELSE Settle(r, "ABANDONED")

\* A thread's handler has returned, or raised.
Done(t) == th' = [th EXCEPT ![t] = Idle]

-----------------------------------------------------------------------------
(* job.claim *)

\* Worker.free_capacity; Nat subtraction that stops at zero
FreeCapacity(w) ==
  LET n == Cardinality(HeldBy(w)) IN IF n < Capacity[w] THEN Capacity[w] - n ELSE 0

\* handle_job_claim and the head of claim_runs: the worker row is read, a
\* draining worker is refused, and the budget is computed once, before and
\* outside the claim transactions.  With no budget the reply is empty.
BeginClaim(t, w) ==
  /\ th[t].pc = "idle" /\ w \notin draining
  /\ \E max \in 1..MaxOffers :
       LET free == FreeCapacity(w)
           budget == IF max < free THEN max ELSE free
       IN /\ budget > 0
          /\ th' = [th EXCEPT ![t] = [Idle EXCEPT !.pc = "claim", !.w = w, !.budget = budget]]
  /\ UNCHANGED <<rows, draining, reapList, waitList>>

\* _claim_one's candidates: FOR UPDATE SKIP LOCKED over the zone's PENDING rows.
Candidates(w) == {r \in InZone[w] : run[r].state = "PENDING" /\ ~RowLocked(r)}

\* _singleton_held
SingletonHeld(r) ==
  \E q \in Runs \ {r} : DefOf[q] = DefOf[r] /\ Active(q)

\* The candidates the loop of _claim_one would accept.
Claimable(w) ==
  {r \in Candidates(w) :
     /\ r \in Capable[w]
     /\ DefOf[r] \in Singletons => ~SingletonHeld(r)
     /\ minted[r] < MaxClaims}

PickRun_NoDefinitionLock(t) ==
  LET w == th[t].w IN
  /\ th[t].pc = "claim"
  /\ \E r \in Claimable(w) :
       /\ \A q \in Claimable(w) : QueuePos[r] <= QueuePos[q]
       /\ th' = [th EXCEPT ![t].pc = "picked", ![t].r = r, ![t].rows = {r}]
  /\ UNCHANGED <<rows, draining, reapList, waitList>>

\* The scan of _claim_one up to its choice, the oldest acceptable candidate.
\* A singleton's definition row is locked first, which waits for an open claim
\* of the same definition.
PickRun(t) ==
  LET w == th[t].w IN
  /\ th[t].pc = "claim"
  /\ \E r \in Claimable(w) :
       /\ \A q \in Claimable(w) : QueuePos[r] <= QueuePos[q]
       /\ DefOf[r] \in Singletons => ~DefLocked(r)
       /\ th' = [th EXCEPT ![t] = [@ EXCEPT !.pc = "picked", !.r = r, !.rows = Candidates(w)]]
  /\ UNCHANGED <<rows, draining, reapList, waitList>>

\* Nothing to claim: the loop of claim_runs breaks and the offers are returned.
EndClaim(t) ==
  /\ th[t].pc = "claim" /\ Claimable(th[t].w) = {}
  /\ Done(t)
  /\ UNCHANGED <<rows, draining, reapList, waitList>>

\* The writes of _claim_one and its commit: owner, lease, CLAIMED, the mirror and
\* the token.  claim_runs loops while budget is left.
CommitClaim(t) ==
  LET r == th[t].r
      left == th[t].budget - 1
  IN
  /\ th[t].pc = "picked"
  /\ run' = [run EXCEPT ![r] = [@ EXCEPT !.state = "CLAIMED", !.worker = th[t].w,
                        !.lease = "live", !.token = minted[r] + 1]]
  /\ result' = [result EXCEPT ![r] = Mirror(@, "CLAIMED")]
  /\ minted' = [minted EXCEPT ![r] = @ + 1]
  /\ live' = [live EXCEPT ![r] = @ \cup {minted[r] + 1}]
  /\ IF left > 0
       THEN th' = [th EXCEPT ![t] = [Idle EXCEPT !.pc = "claim", !.w = th[t].w,
                                                 !.budget = left]]
       ELSE Done(t)
  /\ UNCHANGED <<draining, reapList, waitList>>

-----------------------------------------------------------------------------
(* job.status and job.complete: the owner is checked on an unlocked read, then *)
(* the row is locked and only its state is checked again                       *)

\* _get_worker_run.  A frame about a run of another worker is UNKNOWN_RUN.
ReadOwned(t, w, r, frame, s) ==
  /\ th[t].pc = "idle" /\ run[r].worker = w
  /\ th' = [th EXCEPT ![t] = [Idle EXCEPT !.pc = frame, !.w = w, !.r = r, !.arg = s]]
  /\ UNCHANGED <<rows, draining, reapList, waitList>>

ReadForStatus(t, w, r) == \E s \in ActiveStates : ReadOwned(t, w, r, "status", s)
ReadForComplete(t, w, r) == \E s \in Reports : ReadOwned(t, w, r, "complete", s)

\* report_status under the lock: start the run (the mirror follows only then),
\* renew the lease.
ApplyStatus(t) ==
  LET r == th[t].r
      s == IF th[t].arg = "RUNNING" THEN "RUNNING" ELSE run[r].state
  IN
  /\ th[t].pc = "status" /\ ~RowLocked(r)
  /\ IF Active(r)
       THEN /\ run' = [run EXCEPT ![r] = [@ EXCEPT !.state = s, !.lease = "live"]]
            /\ result' = IF s = run[r].state THEN result
                          ELSE [result EXCEPT ![r] = Mirror(@, s)]
            /\ UNCHANGED <<live, minted>>
       ELSE UNCHANGED rows            \* LEASE_EXPIRED or ILLEGAL_TRANSITION
  /\ Done(t)
  /\ UNCHANGED <<draining, reapList, waitList>>

ApplyComplete_AnyState(t) ==
  LET r == th[t].r IN
  /\ th[t].pc = "complete" /\ ~RowLocked(r)
  /\ Settle(r, th[t].arg)
  /\ Done(t)
  /\ UNCHANGED <<draining, reapList, waitList>>

\* complete_run under the lock: a replay of the same state and any other settled
\* state change nothing; a CLAIMED run passes through RUNNING.
ApplyComplete(t) ==
  LET r == th[t].r IN
  /\ th[t].pc = "complete" /\ ~RowLocked(r)
  /\ IF Active(r) THEN Settle(r, th[t].arg) ELSE UNCHANGED rows
  /\ Done(t)
  /\ UNCHANGED <<draining, reapList, waitList>>

-----------------------------------------------------------------------------
(* worker.hello and the core cancel strategy: abandon_run with no transaction *)

CopyOf(r) == [attempt |-> run[r].attempt, token |-> run[r].token]

\* reconcile_in_flight evaluates its queryset: the runs the server thinks the
\* worker holds and the hello does not name.  (A name the server does not hold for
\* this worker could only have its lease renewed, which a job.status does too.)
Hello(t, w) ==
  /\ th[t].pc = "idle"
  /\ \E stale \in SUBSET HeldBy(w) :
       /\ StaleHello \/ stale = {}
       /\ th' = [th EXCEPT ![t] =
                   [Idle EXCEPT !.pc = "abandon", !.w = w,
                                !.known = HeldBy(w) \ stale, !.todo = stale,
                                !.copy = [r \in Runs |-> IF r \in stale THEN CopyOf(r)
                                                         ELSE NoCopy[r]]]]
  /\ UNCHANGED <<rows, draining, reapList, waitList>>

\* RemoteCancelStrategy.reap: is_terminal is checked on an unlocked instance, and
\* transition raises from PENDING.
StrategyReap(t, r) ==
  /\ CoreCancel /\ th[t].pc = "idle" /\ Active(r)
  /\ th' = [th EXCEPT ![t] = [Idle EXCEPT !.pc = "abandon", !.todo = {r},
                                          !.copy = [NoCopy EXCEPT ![r] = CopyOf(r)]]]
  /\ UNCHANGED <<rows, draining, reapList, waitList>>

\* transition(ABANDONED): the instance's own state is what is checked, so the
\* UPDATE overwrites whatever the row holds by now.  It waits for row locks.
AbandonSave(t) ==
  /\ th[t].pc = "abandon"
  /\ \E r \in th[t].todo :
       /\ ~RowLocked(r)
       /\ run' = [run EXCEPT ![r].state = "ABANDONED"]
       /\ th' = [th EXCEPT ![t] = [@ EXCEPT !.pc = "sync", !.r = r, !.todo = th[t].todo \ {r}]]
  /\ UNCHANGED <<result, live, minted, draining, reapList, waitList>>

AbandonSync(t) ==
  /\ th[t].pc = "sync"
  /\ result' = [result EXCEPT ![th[t].r] = Mirror(@, "ABANDONED")]
  /\ th' = [th EXCEPT ![t] = [@ EXCEPT !.pc = "token"]]
  /\ UNCHANGED <<run, live, minted, draining, reapList, waitList>>

\* delete_scoped_token on the instance.  Fetching a token that another operation
\* deleted raises, and the handler ends there.
AbandonToken(t) ==
  LET r == th[t].r
      tok == th[t].copy[r].token
      next == IF CanRetry(r, th[t].copy[r].attempt) THEN "requeue" ELSE "abandon"
  IN
  /\ th[t].pc = "token" /\ ~RowLocked(r)
  /\ IF tok = 0 \/ tok \in live[r]
       THEN /\ run' = IF tok = 0 THEN run ELSE [run EXCEPT ![r].token = 0]
            /\ Drop(r, tok)
            /\ th' = [th EXCEPT ![t] = [@ EXCEPT !.pc = next]]
       ELSE Done(t) /\ UNCHANGED <<run, live>>
  /\ UNCHANGED <<result, minted, draining, reapList, waitList>>

\* The retry policy's UPDATE, from the instance's attempt.
AbandonRequeue(t) ==
  LET r == th[t].r IN
  /\ th[t].pc = "requeue" /\ ~RowLocked(r)
  /\ run' = [run EXCEPT ![r] = [@ EXCEPT !.state = "PENDING", !.worker = NoOne, !.lease = "none",
                        !.attempt = th[t].copy[r].attempt + 1]]
  /\ th' = [th EXCEPT ![t] = [@ EXCEPT !.pc = "resync"]]
  /\ UNCHANGED <<result, live, minted, draining, reapList, waitList>>

AbandonResync(t) ==
  /\ th[t].pc = "resync"
  /\ result' = [result EXCEPT ![th[t].r] = Mirror(@, "PENDING")]
  /\ th' = [th EXCEPT ![t] = [@ EXCEPT !.pc = "abandon"]]
  /\ UNCHANGED <<run, live, minted, draining, reapList, waitList>>

\* The last statement of reconcile_in_flight: one UPDATE renews the leases of
\* the named runs the worker still holds.
ExtendLeases(t) ==
  LET kept == HeldBy(th[t].w) \cap th[t].known IN
  /\ th[t].pc = "abandon" /\ th[t].todo = {}
  /\ run' = [r \in Runs |-> IF r \in kept THEN [run[r] EXCEPT !.lease = "live"] ELSE run[r]]
  /\ Done(t)
  /\ UNCHANGED <<result, live, minted, draining, reapList, waitList>>

-----------------------------------------------------------------------------
(* The reaper: reap_expired lists, then handles each row in a transaction of *)
(* its own.  Overlapping passes share the lists.                             *)

ListExpired_RunningOnly ==
  /\ reapList' = reapList \cup {r \in Runs : run[r].state = "RUNNING" /\ run[r].lease = "expired"}
  /\ UNCHANGED <<rows, draining, th, waitList>>

ListExpired ==
  /\ reapList' = reapList \cup {r \in Runs : Active(r) /\ run[r].lease = "expired"}
  /\ UNCHANGED <<rows, draining, th, waitList>>

\* SKIP LOCKED and the state filter pass over a row; the lease is not read again.
ReapOne(r) ==
  /\ r \in reapList /\ reapList' = reapList \ {r}
  /\ IF Active(r) /\ ~RowLocked(r) THEN Abandon(r) ELSE UNCHANGED rows
  /\ UNCHANGED <<draining, th, waitList>>

ListWaiting_Reversed ==
  /\ waitList' = waitList \cup
       {r \in WaitRuns : run[r].state = "PENDING" /\ ~run[r].waited}
  /\ UNCHANGED <<rows, draining, th, reapList>>

ListWaiting ==
  /\ waitList' = waitList \cup
       {r \in WaitRuns : run[r].state = "PENDING" /\ run[r].waited}
  /\ UNCHANGED <<rows, draining, th, reapList>>

\* The state is assigned without transition() and no token is deleted: a PENDING
\* row is expected to have none.
FailWaiting(r) ==
  /\ r \in waitList /\ waitList' = waitList \ {r}
  /\ IF run[r].state = "PENDING" /\ ~RowLocked(r)
       THEN /\ run' = [run EXCEPT ![r].state = "FAILED_DISPATCH"]
            /\ result' = [result EXCEPT ![r] = Mirror(@, "FAILED_DISPATCH")]
            /\ UNCHANGED <<live, minted>>
       ELSE UNCHANGED rows
  /\ UNCHANGED <<draining, th, reapList>>

-----------------------------------------------------------------------------
(* Operators and users *)

\* cancel_run of a run without children, one transaction holding the row.
Cancel(r) ==
  /\ ~IsTerminal(run[r].state) /\ ~RowLocked(r)
  /\ \/ run[r].state = "PENDING" /\ Settle(r, "CANCELLED")
     \/ Active(r) /\ Abandon(r)                \* its worker is OFFLINE
     \/ /\ Active(r)                           \* flag it; job.cancel is pushed
        /\ result' = [result EXCEPT ![r].cancelRequested = TRUE]
        /\ UNCHANGED <<run, live, minted>>
  /\ UNCHANGED <<draining, th, reapList, waitList>>

\* WorkerViewSet.drain
Drain(w) ==
  /\ w \notin draining /\ draining' = draining \cup {w}
  /\ UNCHANGED <<rows, th, reapList, waitList>>

(* Time and failures *)

LeaseExpires(r) ==
  /\ Active(r) /\ run[r].lease = "live"
  /\ run' = [run EXCEPT ![r].lease = "expired"]
  /\ UNCHANGED <<result, live, minted, draining, th, reapList, waitList>>

\* now - queued_at passes the zone's max_wait_seconds.  queued_at is never reset.
WaitBudgetExpires(r) ==
  /\ r \in WaitRuns /\ ~run[r].waited
  /\ run' = [run EXCEPT ![r].waited = TRUE]
  /\ UNCHANGED <<result, live, minted, draining, th, reapList, waitList>>

\* The bridge process dies or a handler raises: open transactions roll back,
\* statements already executed outside one stay.
Crash(t) ==
  /\ th[t].pc # "idle" /\ Done(t)
  /\ UNCHANGED <<rows, draining, reapList, waitList>>

-----------------------------------------------------------------------------
Frame(t) ==
  \/ \E w \in Workers : BeginClaim(t, w) \/ Hello(t, w)
  \/ \E w \in Workers, r \in Runs : ReadForStatus(t, w, r) \/ ReadForComplete(t, w, r)
  \/ \E r \in Runs : StrategyReap(t, r)

Work(t) ==
  \/ PickRun(t) \/ EndClaim(t) \/ CommitClaim(t)
  \/ ApplyStatus(t) \/ ApplyComplete(t)
  \/ AbandonSave(t) \/ AbandonSync(t) \/ AbandonToken(t)
  \/ AbandonRequeue(t) \/ AbandonResync(t) \/ ExtendLeases(t)

Reaper == ListExpired \/ ListWaiting \/ \E r \in Runs : ReapOne(r) \/ FailWaiting(r)

Time(r) == LeaseExpires(r) \/ WaitBudgetExpires(r)

Next ==
  \/ \E t \in Threads : Frame(t) \/ Work(t)
  \/ \E t \in CrashThreads : Crash(t)
  \/ Reaper
  \/ \E r \in Runs : Time(r)
  \/ \E r \in CancelRuns : Cancel(r)
  \/ \E w \in DrainWorkers : Drain(w)

Spec == Init /\ [][Next]_vars

-----------------------------------------------------------------------------
(* Properties that hold whatever the workers, the strategy and crashes do *)

\* claims.py:74: two runs of one singleton definition are never claimed or
\* running together, although claims scan concurrently and each sees only
\* committed rows.
SingletonExclusion ==
  \A q, r \in Runs :
    (q # r /\ DefOf[q] = DefOf[r] /\ DefOf[r] \in Singletons) => ~(Active(q) /\ Active(r))

\* reaper.py:54 and claims.py:91: a queued row carries no owner and no lease, a
\* claimed or running one carries both, and the retry policy is never exceeded;
\* also when stale instances are written over newer rows.
RowShape ==
  \A r \in Runs :
    /\ run[r].attempt \in 1..(RetryMax[r] + 1)
    /\ run[r].state = "PENDING" => run[r].worker = NoOne /\ run[r].lease = "none"
    /\ Active(r) => run[r].worker \in Workers /\ run[r].lease # "none"

\* claims.py:59: between the moment a claim picks a run and its commit nobody
\* else moves the run, so a claim is granted on a queued, unowned run only.
ClaimedFromQueue ==
  [][\A r \in Runs :
       (run'[r].state = "CLAIMED" /\ run[r].state # "CLAIMED")
         => (run[r].state = "PENDING" /\ run[r].worker = NoOne)]_vars

-----------------------------------------------------------------------------
(* Properties of the transactional paths: they need ~StaleHello, ~CoreCancel *)

\* SPEC.md 7.3: a claimed or running run has the one token its row names, and no other run
\* has one; a token whose deletion failed lives on by itself until it expires (tokens.py:44).
TokenLifecycle ==
  \A r \in Runs :
    /\ run[r].token # 0 <=> Active(r)
    /\ Active(r) => run[r].token \in live[r]
    /\ r \in DeleteFails \/ live[r] = IF Active(r) THEN {run[r].token} ELSE {}

\* SPEC.md 4.6: the JobResult a user sees is never out of step with the run.
ResultMirrors ==
  \A r \in Runs :
    /\ result[r].status = StatusOf(run[r].state)
    /\ run[r].state \in {"TERMINATED", "ABANDONED"} => result[r].revocation = run[r].state

\* SPEC.md 6.1: every claim granted is a new attempt, so a run is handed out at
\* most retry_max + 1 times however frames and reaper passes interleave.
RetryBudget ==
  \A r \in Runs :
    /\ minted[r] <= run[r].attempt
    /\ run[r].state = "PENDING" => minted[r] < run[r].attempt
    /\ minted[r] <= RetryMax[r] + 1

\* The engine implements the life cycle of SPEC.md 6.1; a settled run stays settled: a late
\* completion, a stale reaper list or a second cancel does not revive or restate it.
Life == INSTANCE RunLifecycle WITH state <- [r \in Runs |-> run[r].state],
                                   attempt <- [r \in Runs |-> run[r].attempt]
RefinesLifecycle == Life!Spec

-----------------------------------------------------------------------------
(* Progress *)

\* The reaper's beat fires every 30 seconds and walks its lists to the end.
FairReaper ==
  /\ WF_vars(ListExpired) /\ WF_vars(ListWaiting)
  /\ \A r \in Runs : SF_vars(ReapOne(r)) /\ SF_vars(FailWaiting(r))

\* A bridge thread goes on with the frame it took.
FairThreads == \A t \in Threads : WF_vars(Work(t))

FairSpec == Spec /\ FairReaper /\ FairThreads

\* SPEC.md 6.2: an expired lease does not stay: the run is renewed, settled or
\* reaped.
ExpiredLeaseHandled ==
  \A r \in Runs : (Active(r) /\ run[r].lease = "expired")
                    ~> ~(Active(r) /\ run[r].lease = "expired")

\* reaper.py:75: a run of a waiting zone does not stay queued past its budget.
WaitBudgetEnforced ==
  \A r \in WaitRuns : (run[r].state = "PENDING" /\ run[r].waited) ~> run[r].state # "PENDING"

\* SPEC.md 5: "a worker may only touch runs it has claimed": a status or a
\* completion changes a row only while its sender owns it.
OnlyOwnerTouches ==
  [][\A t \in Threads :
       (th[t].pc \in {"status", "complete"} /\ th' # th /\ th'[t] = Idle /\ run' # run)
         => run[th[t].r].worker = th[t].w]_vars
=============================================================================
