---------------------------- MODULE DispatchProofs ----------------------------
(***************************************************************************)
(* Theorems about Dispatch, for every number of runs, workers and threads, *)
(* every assignment of definitions and every retry policy.                 *)
(***************************************************************************)
EXTENDS Dispatch, FiniteSetTheorems, TLAPS

-----------------------------------------------------------------------------
(* Types *)

\* The mirror table maps every run state to a JobResult status.
LEMMA MirrorType ==
  ASSUME NEW res \in ResultRow, NEW s \in RunState
  PROVE  Mirror(res, s) \in ResultRow
<1>1. StatusOf(s) \in JobResultStatus
  BY DEF StatusOf, JobResultStatus, RunState
<1>. QED
  BY <1>1 DEF Mirror, ResultRow

LEMMA IdleType == Idle \in Thread /\ NoCopy \in [Runs -> Copy]
  BY DEF Idle, Thread, PC, RunState, NoCopy, Copy

\* Settling a row, the common end of a completion, a cancel and a reap.
LEMMA SettleType ==
  ASSUME TypeOK, NEW r \in Runs, NEW s \in RunState, Settle(r, s)
  PROVE  /\ run' \in [Runs -> RunRow] /\ result' \in [Runs -> ResultRow]
         /\ live' \in [Runs -> SUBSET Nat] /\ minted' \in [Runs -> Nat]
<1>1. Mirror(result[r], s) \in ResultRow
  BY MirrorType DEF TypeOK
<1>2. run' \in [Runs -> RunRow]
  BY DEF TypeOK, Settle, RunRow
<1>3. result' \in [Runs -> ResultRow]
  BY <1>1 DEF TypeOK, Settle
<1>. QED
  BY <1>2, <1>3 DEF TypeOK, Settle, Drop

\* A row put back in the queue, and a row just claimed.
LEMMA QueuedRow ==
  ASSUME NEW x \in RunRow, NEW n \in Nat, NEW k \in Nat
  PROVE  [x EXCEPT !.state = "PENDING", !.worker = NoOne, !.lease = "none",
                   !.token = k, !.attempt = n] \in RunRow
  BY DEF RunRow, RunState

LEMMA ClaimedRow ==
  ASSUME NEW x \in RunRow, NEW w \in Workers, NEW k \in Nat
  PROVE  [x EXCEPT !.state = "CLAIMED", !.worker = w, !.lease = "live",
                   !.token = k] \in RunRow
  BY DEF RunRow, RunState

LEMMA AbandonType ==
  ASSUME TypeOK, NEW r \in Runs, Abandon(r)
  PROVE  /\ run' \in [Runs -> RunRow] /\ result' \in [Runs -> ResultRow]
         /\ live' \in [Runs -> SUBSET Nat] /\ minted' \in [Runs -> Nat]
<1>1. CASE CanRetry(r, run[r].attempt)
  <2>1. Mirror(Mirror(result[r], "ABANDONED"), "PENDING") \in ResultRow
    BY MirrorType DEF TypeOK, RunState
  <2>2. [run[r] EXCEPT !.state = "PENDING", !.worker = NoOne, !.lease = "none",
                       !.token = 0, !.attempt = run[r].attempt + 1] \in RunRow
    <3>1. run[r] \in RunRow /\ run[r].attempt + 1 \in Nat
      BY DEF TypeOK, RunRow
    <3>. QED
      BY <3>1, QueuedRow
  <2>3. run' \in [Runs -> RunRow]
    BY <1>1, <2>2 DEF TypeOK, Abandon
  <2>4. result' \in [Runs -> ResultRow]
    BY <1>1, <2>1 DEF TypeOK, Abandon
  <2>. QED
    BY <1>1, <2>3, <2>4 DEF TypeOK, Abandon, Drop
<1>2. CASE ~CanRetry(r, run[r].attempt)
  BY <1>2, SettleType DEF Abandon, RunState
<1>. QED
  BY <1>1, <1>2

-----------------------------------------------------------------------------
(* What a thread's local state says at each point of a handler *)

Local(x) ==
  /\ x.pc \in {"claim", "picked"} => x.w \in Workers
  /\ x.pc \notin {"idle", "claim", "abandon"} => x.r \in Runs
  /\ x.pc = "complete" => x.arg \in CompletionStates
  /\ x.pc = "status" => x.arg \in ActiveStates
  /\ x.pc = "requeue" => CanRetry(x.r, x.copy[x.r].attempt)

Types == TypeOK /\ \A t \in Threads : Local(th[t])

\* A step that rewrites one thread and leaves the rows alone.
LEMMA ThreadStep ==
  ASSUME Types, NEW t \in Threads, NEW x \in Thread, Local(x),
         th' = [th EXCEPT ![t] = x]
  PROVE  th' \in [Threads -> Thread] /\ \A u \in Threads : Local(th'[u])
<1>1. \A u \in Threads : th'[u] = IF u = t THEN x ELSE th[u]
  BY DEF Types, TypeOK
<1>. QED
  BY <1>1 DEF Types, TypeOK

LEMMA DoneStep ==
  ASSUME Types, NEW t \in Threads, Done(t)
  PROVE  th' \in [Threads -> Thread] /\ \A u \in Threads : Local(th'[u])
<1>1. Local(Idle)
  BY DEF Local, Idle
<1>. QED
  BY <1>1, IdleType, ThreadStep DEF Done

LEMMA InitTypes == Init => Types
<1>1. Init => TypeOK
  BY DispatchAssumption, IdleType
     DEF Init, TypeOK, RunRow, ResultRow, RunState, JobResultStatus
<1>2. Local(Idle)
  BY DEF Local, Idle
<1>. QED
  BY <1>1, <1>2 DEF Init, Types

-----------------------------------------------------------------------------
(* job.claim *)

LEMMA CapacityType == ASSUME NEW w \in Workers PROVE FreeCapacity(w) \in Nat
<1>1. HeldBy(w) \subseteq Runs
  BY DEF HeldBy
<1>2. Cardinality(HeldBy(w)) \in Nat
  BY <1>1, DispatchAssumption, FS_Subset, FS_CardinalityType
<1>. QED
  BY <1>2, DispatchAssumption DEF FreeCapacity

\* A thread between two claims of one frame.
LEMMA ClaimingThread ==
  ASSUME NEW w \in Workers, NEW n \in Nat
  PROVE  /\ [Idle EXCEPT !.pc = "claim", !.w = w, !.budget = n] \in Thread
         /\ Local([Idle EXCEPT !.pc = "claim", !.w = w, !.budget = n])
  BY IdleType DEF Idle, Thread, PC, Local

LEMMA ClaimTypes ==
  ASSUME Types, NEW t \in Threads,
         (\E w \in Workers : BeginClaim(t, w)) \/ PickRun(t) \/ EndClaim(t) \/ CommitClaim(t)
  PROVE  Types'
<1>1. ASSUME NEW w \in Workers, BeginClaim(t, w)
      PROVE  Types'
  <2>1. PICK max \in 1..MaxOffers :
          th' = [th EXCEPT ![t] =
                   [Idle EXCEPT !.pc = "claim", !.w = w,
                      !.budget = IF max < FreeCapacity(w) THEN max ELSE FreeCapacity(w)]]
    BY <1>1 DEF BeginClaim
  <2> DEFINE b == IF max < FreeCapacity(w) THEN max ELSE FreeCapacity(w)
             x == [Idle EXCEPT !.pc = "claim", !.w = w, !.budget = b]
  <2>2. b \in Nat
    BY CapacityType, DispatchAssumption
  <2> HIDE DEF b
  <2>3. x \in Thread /\ Local(x)
    BY <2>2, ClaimingThread
  <2>4. th' = [th EXCEPT ![t] = x]
    BY <2>1 DEF b
  <2>5. th' \in [Threads -> Thread] /\ \A u \in Threads : Local(th'[u])
    BY <2>3, <2>4, ThreadStep
  <2>. QED
    BY <1>1, <2>5 DEF Types, TypeOK, BeginClaim, rows
<1>2. ASSUME PickRun(t)
      PROVE  Types'
  <2> DEFINE C == Candidates(th[t].w)
  <2>1. th[t].w \in Workers /\ th[t] \in Thread
    BY <1>2 DEF PickRun, Types, TypeOK, Local
  <2>2. C \in SUBSET Runs
    BY <2>1, DispatchAssumption DEF Candidates
  <2>3. Claimable(th[t].w) \subseteq Runs
    BY <2>2 DEF Claimable
  <2> HIDE DEF C
  <2>4. PICK r \in Runs : th' = [th EXCEPT ![t] = [th[t] EXCEPT !.pc = "picked", !.r = r,
                                                                !.rows = C]]
    BY <1>2, <2>3 DEF PickRun, C
  <2>5. /\ [th[t] EXCEPT !.pc = "picked", !.r = r, !.rows = C] \in Thread
        /\ Local([th[t] EXCEPT !.pc = "picked", !.r = r, !.rows = C])
    BY <2>1, <2>2 DEF Thread, PC, Local
  <2>6. th' \in [Threads -> Thread] /\ \A u \in Threads : Local(th'[u])
    BY <2>4, <2>5, ThreadStep
  <2>. QED
    BY <1>2, <2>6 DEF Types, TypeOK, PickRun, rows
<1>3. ASSUME EndClaim(t)
      PROVE  Types'
  BY <1>3, DoneStep DEF Types, TypeOK, EndClaim, rows
<1>4. ASSUME CommitClaim(t)
      PROVE  Types'
  <2>1. /\ th[t].w \in Workers /\ th[t].r \in Runs /\ th[t].budget \in Nat
    BY <1>4 DEF CommitClaim, Types, TypeOK, Local, Thread
  <2>2. PICK r \in Runs : r = th[t].r
    BY <2>1
  <2>3. /\ run \in [Runs -> RunRow] /\ result[r] \in ResultRow
        /\ live \in [Runs -> SUBSET Nat] /\ minted \in [Runs -> Nat]
    BY DEF Types, TypeOK
  <2>4. run' \in [Runs -> RunRow]
    <3>1. run' = [run EXCEPT ![r] = [@ EXCEPT !.state = "CLAIMED", !.worker = th[t].w,
                                              !.lease = "live", !.token = minted[r] + 1]]
      BY <1>4, <2>2 DEF CommitClaim
    <3>2. [run[r] EXCEPT !.state = "CLAIMED", !.worker = th[t].w,
                         !.lease = "live", !.token = minted[r] + 1] \in RunRow
      <4>1. run[r] \in RunRow /\ minted[r] + 1 \in Nat
        BY <2>3
      <4>. QED
        BY <2>1, <4>1, ClaimedRow
    <3>. QED
      BY <2>3, <3>1, <3>2
  <2>5. result' \in [Runs -> ResultRow]
    <3>1. Mirror(result[r], "CLAIMED") \in ResultRow
      BY <2>3, MirrorType DEF RunState
    <3>. QED
      BY <1>4, <2>2, <3>1 DEF CommitClaim, Types, TypeOK
  <2>6. /\ minted' = [minted EXCEPT ![r] = @ + 1]
        /\ live' = [live EXCEPT ![r] = @ \cup {minted[r] + 1}]
    BY <1>4, <2>2 DEF CommitClaim
  <2>7. minted' \in [Runs -> Nat] /\ live' \in [Runs -> SUBSET Nat]
    BY <2>3, <2>6
  <2>8. th' \in [Threads -> Thread] /\ \A u \in Threads : Local(th'[u])
    <3> DEFINE left == th[t].budget - 1
               x == [Idle EXCEPT !.pc = "claim", !.w = th[t].w, !.budget = left]
    <3>1. CASE left > 0
      <4>1. left \in Nat
        BY <2>1, <3>1
      <4> HIDE DEF left
      <4>2. x \in Thread /\ Local(x)
        BY <2>1, <4>1, ClaimingThread
      <4>3. th' = [th EXCEPT ![t] = x]
        BY <1>4, <3>1 DEF CommitClaim, left
      <4>. QED
        BY <4>2, <4>3, ThreadStep
    <3>2. CASE ~(left > 0)
      BY <1>4, <3>2, DoneStep DEF CommitClaim
    <3>. QED
      BY <3>1, <3>2
  <2>. QED
    BY <1>4, <2>4, <2>5, <2>7, <2>8 DEF Types, TypeOK, CommitClaim
<1>. QED
  BY <1>1, <1>2, <1>3, <1>4

-----------------------------------------------------------------------------
(* The frames that begin with a read *)

LEMMA ReadTypes ==
  ASSUME Types, NEW t \in Threads, NEW w \in Workers, NEW r \in Runs,
         ReadForStatus(t, w, r) \/ ReadForComplete(t, w, r)
  PROVE  Types'
<1>1. PICK f \in {"status", "complete"}, s \in RunState :
        /\ ReadOwned(t, w, r, f, s)
        /\ f = "status" => s \in ActiveStates
        /\ f = "complete" => s \in CompletionStates
  BY DispatchAssumption
     DEF ReadForStatus, ReadForComplete, RunState, ActiveStates, CompletionStates
<1> DEFINE x == [Idle EXCEPT !.pc = f, !.w = w, !.r = r, !.arg = s]
<1>2. x \in Thread /\ Local(x)
  BY <1>1, IdleType DEF Idle, Thread, PC, Local
<1>3. th' = [th EXCEPT ![t] = x]
  BY <1>1 DEF ReadOwned
<1>4. th' \in [Threads -> Thread] /\ \A u \in Threads : Local(th'[u])
  BY <1>2, <1>3, ThreadStep
<1>. QED
  BY <1>1, <1>4 DEF Types, TypeOK, ReadOwned, rows

LEMMA CopyType ==
  ASSUME TypeOK, NEW r \in Runs
  PROVE  CopyOf(r) \in Copy
  BY DEF TypeOK, CopyOf, Copy, RunRow

LEMMA HelloTypes ==
  ASSUME Types, NEW t \in Threads, NEW w \in Workers, Hello(t, w)
  PROVE  Types'
<1>1. PICK stale \in SUBSET HeldBy(w) :
        th' = [th EXCEPT ![t] =
                 [Idle EXCEPT !.pc = "abandon", !.w = w,
                              !.known = HeldBy(w) \ stale, !.todo = stale,
                              !.copy = [r \in Runs |-> IF r \in stale THEN CopyOf(r)
                                                       ELSE NoCopy[r]]]]
  BY DEF Hello
<1> DEFINE k == HeldBy(w) \ stale
           c == [r \in Runs |-> IF r \in stale THEN CopyOf(r) ELSE NoCopy[r]]
           x == [Idle EXCEPT !.pc = "abandon", !.w = w, !.known = k, !.todo = stale,
                             !.copy = c]
<1>2. stale \in SUBSET Runs /\ k \in SUBSET Runs
  BY DEF HeldBy
<1>3. c \in [Runs -> Copy]
  BY IdleType, CopyType DEF Types
<1>4. th' = [th EXCEPT ![t] = x]
  BY <1>1
<1> HIDE DEF k, c
<1>5. x \in Thread /\ Local(x)
  BY <1>2, <1>3, IdleType DEF Idle, Thread, PC, Local
<1>6. th' \in [Threads -> Thread] /\ \A u \in Threads : Local(th'[u])
  BY <1>4, <1>5, ThreadStep
<1>. QED
  BY <1>6 DEF Types, TypeOK, Hello, rows

LEMMA StrategyTypes ==
  ASSUME Types, NEW t \in Threads, NEW r \in Runs, StrategyReap(t, r)
  PROVE  Types'
<1> DEFINE c == [NoCopy EXCEPT ![r] = CopyOf(r)]
           x == [Idle EXCEPT !.pc = "abandon", !.todo = {r}, !.copy = c]
<1>1. c \in [Runs -> Copy]
  BY IdleType, CopyType DEF Types
<1>2. th' = [th EXCEPT ![t] = x]
  BY DEF StrategyReap
<1> HIDE DEF c
<1>3. x \in Thread /\ Local(x)
  BY <1>1, IdleType DEF Idle, Thread, PC, Local
<1>4. th' \in [Threads -> Thread] /\ \A u \in Threads : Local(th'[u])
  BY <1>2, <1>3, ThreadStep
<1>. QED
  BY <1>4 DEF Types, TypeOK, StrategyReap, rows

-----------------------------------------------------------------------------
(* The second half of job.status and job.complete *)

LEMMA ApplyTypes ==
  ASSUME Types, NEW t \in Threads, ApplyStatus(t) \/ ApplyComplete(t)
  PROVE  Types'
<1>1. th' \in [Threads -> Thread] /\ \A u \in Threads : Local(th'[u])
  BY DoneStep DEF ApplyStatus, ApplyComplete
<1>2. CASE ApplyStatus(t)
  <2>1. PICK r \in Runs : r = th[t].r
    BY <1>2 DEF ApplyStatus, Types, Local
  <2>2. CASE Active(r)
    <3>1. PICK s \in RunState :
            /\ run' = [run EXCEPT ![r] = [@ EXCEPT !.state = s, !.lease = "live"]]
            /\ \/ result' = result
               \/ result' = [result EXCEPT ![r] = Mirror(@, s)]
            /\ UNCHANGED <<live, minted>>
      BY <1>2, <2>1, <2>2 DEF ApplyStatus, Active, ActiveStates, RunState
    <3>2. Mirror(result[r], s) \in ResultRow
      BY MirrorType DEF Types, TypeOK
    <3>3. run' \in [Runs -> RunRow]
      <4>1. [run[r] EXCEPT !.state = s, !.lease = "live"] \in RunRow
        BY DEF Types, TypeOK, RunRow
      <4>. QED
        BY <3>1, <4>1 DEF Types, TypeOK
    <3>4. result' \in [Runs -> ResultRow]
      BY <3>1, <3>2 DEF Types, TypeOK
    <3>. QED
      BY <1>1, <1>2, <3>1, <3>3, <3>4 DEF Types, TypeOK, ApplyStatus
  <2>3. CASE ~Active(r)
    BY <1>1, <1>2, <2>1, <2>3 DEF Types, TypeOK, ApplyStatus, rows
  <2>. QED
    BY <2>2, <2>3
<1>3. CASE ApplyComplete(t)
  <2>1. PICK r \in Runs : r = th[t].r
    BY <1>3 DEF ApplyComplete, Types, Local
  <2>2. CASE Active(r)
    <3>1. th[t].arg \in RunState /\ Settle(r, th[t].arg)
      BY <1>3, <2>1, <2>2 DEF ApplyComplete, Types, TypeOK, Thread
    <3>2. /\ run' \in [Runs -> RunRow] /\ result' \in [Runs -> ResultRow]
          /\ live' \in [Runs -> SUBSET Nat] /\ minted' \in [Runs -> Nat]
      BY <3>1, SettleType DEF Types
    <3>. QED
      BY <1>1, <1>3, <3>2 DEF Types, TypeOK, ApplyComplete
  <2>3. CASE ~Active(r)
    BY <1>1, <1>3, <2>1, <2>3 DEF Types, TypeOK, ApplyComplete, rows
  <2>. QED
    BY <2>2, <2>3
<1>. QED
  BY <1>2, <1>3

-----------------------------------------------------------------------------
(* abandon_run, a statement at a time *)

LEMMA AbandonSaveTypes ==
  ASSUME Types, NEW t \in Threads, AbandonSave(t)
  PROVE  Types'
<1>1. PICK r \in th[t].todo :
        /\ run' = [run EXCEPT ![r].state = "ABANDONED"]
        /\ th' = [th EXCEPT ![t] = [@ EXCEPT !.pc = "sync", !.r = r, !.todo = th[t].todo \ {r}]]
  BY DEF AbandonSave
<1> DEFINE rest == th[t].todo \ {r}
           x == [th[t] EXCEPT !.pc = "sync", !.r = r, !.todo = rest]
<1>2. th[t] \in Thread /\ r \in Runs /\ rest \in SUBSET Runs
  BY DEF Types, TypeOK, Thread
<1>3. run' \in [Runs -> RunRow]
  BY <1>1, <1>2 DEF Types, TypeOK, RunRow, RunState
<1>4. th' = [th EXCEPT ![t] = x]
  BY <1>1
<1> HIDE DEF rest
<1>5. x \in Thread /\ Local(x)
  BY <1>2 DEF Thread, PC, Local
<1>6. th' \in [Threads -> Thread] /\ \A u \in Threads : Local(th'[u])
  BY <1>4, <1>5, ThreadStep
<1>. QED
  BY <1>3, <1>6 DEF Types, TypeOK, AbandonSave

\* Moving a thread's program counter on, within abandon_run.
LEMMA AdvanceStep ==
  ASSUME Types, NEW t \in Threads, NEW p \in {"abandon", "token", "requeue", "resync"},
         th' = [th EXCEPT ![t] = [@ EXCEPT !.pc = p]],
         th[t].r \in Runs,
         p = "requeue" => CanRetry(th[t].r, th[t].copy[th[t].r].attempt)
  PROVE  th' \in [Threads -> Thread] /\ \A u \in Threads : Local(th'[u])
<1> DEFINE x == [th[t] EXCEPT !.pc = p]
<1>1. th[t] \in Thread
  BY DEF Types, TypeOK
<1>2. x \in Thread
  BY <1>1 DEF Thread, PC
<1>3. /\ x.pc = p /\ x.r = th[t].r /\ x.copy = th[t].copy
  BY <1>1 DEF Thread
<1>4. Local(x)
  BY <1>3 DEF Local
<1>. QED
  BY <1>2, <1>4, ThreadStep

LEMMA AbandonSyncTypes ==
  ASSUME Types, NEW t \in Threads, AbandonSync(t) \/ AbandonResync(t)
  PROVE  Types'
<1>1. th[t].r \in Runs
  BY DEF AbandonSync, AbandonResync, Types, Local
<1>2. th' \in [Threads -> Thread] /\ \A u \in Threads : Local(th'[u])
  BY <1>1, AdvanceStep DEF AbandonSync, AbandonResync
<1>3. PICK s \in RunState : result' = [result EXCEPT ![th[t].r] = Mirror(@, s)]
  BY DEF AbandonSync, AbandonResync, RunState
<1>4. Mirror(result[th[t].r], s) \in ResultRow
  BY <1>1, MirrorType DEF Types, TypeOK
<1>5. result' \in [Runs -> ResultRow]
  BY <1>3, <1>4 DEF Types, TypeOK
<1>. QED
  BY <1>2, <1>5 DEF Types, TypeOK, AbandonSync, AbandonResync

LEMMA AbandonTokenTypes ==
  ASSUME Types, NEW t \in Threads, AbandonToken(t)
  PROVE  Types'
<1>1. PICK r \in Runs : r = th[t].r
  BY DEF AbandonToken, Types, Local
<1> DEFINE tok == th[t].copy[r].token
<1>2. CASE tok = 0 \/ tok \in live[r]
  <2> DEFINE next == IF CanRetry(r, th[t].copy[r].attempt) THEN "requeue" ELSE "abandon"
  <2>1. /\ run' = IF tok = 0 THEN run ELSE [run EXCEPT ![r].token = 0]
        /\ Drop(r, tok)
        /\ th' = [th EXCEPT ![t] = [@ EXCEPT !.pc = next]]
    BY <1>1, <1>2 DEF AbandonToken
  <2>2. th' \in [Threads -> Thread] /\ \A u \in Threads : Local(th'[u])
    BY <1>1, <2>1, AdvanceStep
  <2>3. run' \in [Runs -> RunRow]
    BY <2>1 DEF Types, TypeOK, RunRow
  <2>4. live' \in [Runs -> SUBSET Nat]
    BY <2>1 DEF Drop, Types, TypeOK
  <2>. QED
    BY <2>2, <2>3, <2>4 DEF Types, TypeOK, AbandonToken
<1>3. CASE ~(tok = 0 \/ tok \in live[r])
  <2>1. Done(t) /\ UNCHANGED <<run, live>>
    BY <1>1, <1>3 DEF AbandonToken
  <2>. QED
    BY <2>1, DoneStep DEF Types, TypeOK, AbandonToken
<1>. QED
  BY <1>2, <1>3

LEMMA AbandonRequeueTypes ==
  ASSUME Types, NEW t \in Threads, AbandonRequeue(t)
  PROVE  Types'
<1>1. PICK r \in Runs : r = th[t].r
  BY DEF AbandonRequeue, Types, Local
<1> DEFINE n == th[t].copy[r].attempt + 1
<1>2. n \in Nat
  BY DEF Types, TypeOK, Thread, Copy
<1>3. run' = [run EXCEPT ![r] = [@ EXCEPT !.state = "PENDING", !.worker = NoOne,
                                          !.lease = "none", !.attempt = n]]
  BY <1>1 DEF AbandonRequeue
<1> HIDE DEF n
<1>4. run' \in [Runs -> RunRow]
  <2>1. [run[r] EXCEPT !.state = "PENDING", !.worker = NoOne, !.lease = "none",
                       !.attempt = n] \in RunRow
    BY <1>2 DEF Types, TypeOK, RunRow, RunState
  <2>. QED
    BY <1>3, <2>1 DEF Types, TypeOK
<1>5. th' \in [Threads -> Thread] /\ \A u \in Threads : Local(th'[u])
  BY <1>1, AdvanceStep DEF AbandonRequeue
<1>. QED
  BY <1>4, <1>5 DEF Types, TypeOK, AbandonRequeue

LEMMA ExtendLeasesTypes ==
  ASSUME Types, NEW t \in Threads, ExtendLeases(t)
  PROVE  Types'
<1>1. run' \in [Runs -> RunRow]
  BY DEF ExtendLeases, Types, TypeOK, RunRow
<1>. QED
  BY <1>1, DoneStep DEF Types, TypeOK, ExtendLeases

-----------------------------------------------------------------------------
(* The reaper, users, operators and time leave the threads alone *)

LEMMA ReaperTypes ==
  ASSUME Types, Reaper
  PROVE  Types'
<1>1. CASE ListExpired \/ ListWaiting
  BY <1>1, DispatchAssumption DEF ListExpired, ListWaiting, Types, TypeOK, rows
<1>2. ASSUME NEW r \in Runs, ReapOne(r)
      PROVE  Types'
  <2>1. CASE Abandon(r)
    BY <1>2, <2>1, AbandonType DEF Types, TypeOK, ReapOne
  <2>2. CASE UNCHANGED rows
    BY <1>2, <2>2 DEF Types, TypeOK, ReapOne, rows
  <2>. QED
    BY <1>2, <2>1, <2>2 DEF ReapOne
<1>3. ASSUME NEW r \in Runs, FailWaiting(r)
      PROVE  Types'
  <2>1. CASE run[r].state = "PENDING" /\ ~RowLocked(r)
    <3>1. Mirror(result[r], "FAILED_DISPATCH") \in ResultRow
      BY MirrorType DEF Types, TypeOK, RunState
    <3>2. result' \in [Runs -> ResultRow]
      BY <1>3, <2>1, <3>1 DEF Types, TypeOK, FailWaiting
    <3>3. [run[r] EXCEPT !.state = "FAILED_DISPATCH"] \in RunRow
      BY DEF Types, TypeOK, RunRow, RunState
    <3>4. run' \in [Runs -> RunRow]
      BY <1>3, <2>1, <3>3 DEF Types, TypeOK, FailWaiting
    <3>. QED
      BY <1>3, <2>1, <3>2, <3>4 DEF Types, TypeOK, FailWaiting
  <2>2. CASE ~(run[r].state = "PENDING" /\ ~RowLocked(r))
    BY <1>3, <2>2 DEF Types, TypeOK, FailWaiting, rows
  <2>. QED
    BY <2>1, <2>2
<1>. QED
  BY <1>1, <1>2, <1>3 DEF Reaper

LEMMA OutsideTypes ==
  ASSUME Types,
         \/ \E r \in Runs : Time(r)
         \/ \E r \in CancelRuns : Cancel(r)
         \/ \E w \in DrainWorkers : Drain(w)
         \/ \E t \in CrashThreads : Crash(t)
  PROVE  Types'
<1>1. ASSUME NEW r \in Runs, Time(r)
      PROVE  Types'
  <2>1. /\ [run[r] EXCEPT !.lease = "expired"] \in RunRow
        /\ [run[r] EXCEPT !.waited = TRUE] \in RunRow
    BY DEF Types, TypeOK, RunRow
  <2>2. run' \in [Runs -> RunRow]
    BY <1>1, <2>1 DEF Types, TypeOK, Time, LeaseExpires, WaitBudgetExpires
  <2>. QED
    BY <1>1, <2>2 DEF Types, TypeOK, Time, LeaseExpires, WaitBudgetExpires
<1>2. ASSUME NEW r \in CancelRuns, Cancel(r)
      PROVE  Types'
  <2>0. r \in Runs
    BY DispatchAssumption
  <2>1. CASE Settle(r, "CANCELLED")
    BY <1>2, <2>0, <2>1, SettleType DEF Types, TypeOK, Cancel, RunState
  <2>2. CASE Abandon(r)
    BY <1>2, <2>0, <2>2, AbandonType DEF Types, TypeOK, Cancel
  <2>3. CASE /\ result' = [result EXCEPT ![r].cancelRequested = TRUE]
             /\ UNCHANGED <<run, live, minted>>
    <3>1. [result[r] EXCEPT !.cancelRequested = TRUE] \in ResultRow
      BY <2>0 DEF Types, TypeOK, ResultRow
    <3>2. result' \in [Runs -> ResultRow]
      BY <2>3, <3>1 DEF Types, TypeOK
    <3>. QED
      BY <1>2, <2>3, <3>2 DEF Types, TypeOK, Cancel
  <2>. QED
    BY <1>2, <2>1, <2>2, <2>3 DEF Cancel
<1>3. ASSUME NEW w \in DrainWorkers, Drain(w)
      PROVE  Types'
  BY <1>3, DispatchAssumption DEF Types, TypeOK, Drain, rows
<1>4. ASSUME NEW t \in CrashThreads, Crash(t)
      PROVE  Types'
  BY <1>4, DispatchAssumption, DoneStep DEF Types, TypeOK, Crash, rows
<1>. QED
  BY <1>1, <1>2, <1>3, <1>4

LEMMA NextTypes == Types /\ [Next]_vars => Types'
<1> SUFFICES ASSUME Types, [Next]_vars
             PROVE  Types'
  OBVIOUS
<1>1. CASE UNCHANGED vars
  BY <1>1 DEF vars, Types, TypeOK
<1>2. ASSUME NEW t \in Threads, Frame(t)
      PROVE  Types'
  BY <1>2, ClaimTypes, HelloTypes, ReadTypes, StrategyTypes DEF Frame
<1>3. ASSUME NEW t \in Threads, Work(t)
      PROVE  Types'
  BY <1>3, ClaimTypes, ApplyTypes, AbandonSaveTypes, AbandonSyncTypes,
     AbandonTokenTypes, AbandonRequeueTypes, ExtendLeasesTypes DEF Work
<1>. QED
  BY <1>1, <1>2, <1>3, ReaperTypes, OutsideTypes DEF Next

LEMMA TypesInvariant == Spec => []Types
  BY InitTypes, NextTypes, PTL DEF Spec

\* In every reachable state the tables and the threads hold values of their
\* types: no status outside core's choices is ever mirrored into a JobResult,
\* and a thread's references are to rows that exist.
THEOREM TypeCorrect == Spec => []TypeOK
<1>1. Types => TypeOK
  BY DEF Types
<1>. QED
  BY <1>1, TypesInvariant, PTL

-----------------------------------------------------------------------------
(* What one step may do to a row, and to the claims under way *)

\* The owner, the attempt and the state stay; the lease of an active row may move.
Keeps(r) ==
  /\ run'[r].state = run[r].state /\ run'[r].worker = run[r].worker
  /\ run'[r].attempt = run[r].attempt
  /\ run'[r].lease = run[r].lease \/ (Active(r) /\ run'[r].lease # "none")

Starts(r) ==
  /\ ~RowLocked(r) /\ Active(r)
  /\ run'[r].state \in {"RUNNING", run[r].state} /\ run'[r].lease = "live"
  /\ run'[r].worker = run[r].worker /\ run'[r].attempt = run[r].attempt

Ends(r) ==
  /\ ~RowLocked(r)
  /\ run'[r].state \in RunState \ (ActiveStates \cup {"PENDING"})
  /\ run'[r].attempt = run[r].attempt

Requeues(r) ==
  /\ ~RowLocked(r)
  /\ run'[r].state = "PENDING" /\ run'[r].worker = NoOne /\ run'[r].lease = "none"
  /\ run'[r].attempt \in 1..(RetryMax[r] + 1)

Claims(t, r) ==
  /\ th[t].pc = "picked" /\ th[t].r = r /\ th'[t].pc # "picked"
  /\ run'[r].state = "CLAIMED" /\ run'[r].worker \in Workers /\ run'[r].lease = "live"
  /\ run'[r].attempt = run[r].attempt

RowMoves(r) ==
  Keeps(r) \/ Starts(r) \/ Ends(r) \/ Requeues(r) \/ \E t \in Threads : Claims(t, r)

\* No thread begins to hold row locks.
NoPick == \A u \in Threads : th'[u].pc = "picked" => th'[u] = th[u]

Shaped == (\A r \in Runs : RowMoves(r)) /\ (NoPick \/ \E t \in Threads : PickRun(t))

LEMMA UnpickedStep ==
  ASSUME Types, NEW t \in Threads, NEW x, x.pc # "picked", th' = [th EXCEPT ![t] = x]
  PROVE  NoPick
  BY DEF Types, TypeOK, NoPick

LEMMA OthersStay ==
  ASSUME NEW t \in Threads, th'[t].pc # "picked", \A u \in Threads \ {t} : th'[u] = th[u]
  PROVE  NoPick
  BY DEF NoPick

LEMMA DoneUnpicked ==
  ASSUME Types, NEW t \in Threads, Done(t)
  PROVE  NoPick
  BY UnpickedStep DEF Done, Idle

LEMMA SameThreads == UNCHANGED th => NoPick
  BY DEF NoPick

LEMMA SameRows == UNCHANGED run => \A r \in Runs : RowMoves(r)
  BY DEF RowMoves, Keeps

\* A step that writes one row.
LEMMA OneRow ==
  ASSUME TypeOK, NEW r \in Runs, NEW x, run' = [run EXCEPT ![r] = x], RowMoves(r)
  PROVE  \A q \in Runs : RowMoves(q)
  BY DEF TypeOK, RowMoves, Keeps

LEMMA SettleMoves ==
  ASSUME TypeOK, NEW r \in Runs, NEW s \in RunState \ (ActiveStates \cup {"PENDING"}),
         Settle(r, s), ~RowLocked(r)
  PROVE  \A q \in Runs : RowMoves(q)
<1> DEFINE x == [run[r] EXCEPT !.state = s, !.token = 0]
<1>1. run' = [run EXCEPT ![r] = x]
  BY DEF Settle
<1>2. x.state = s /\ x.attempt = run[r].attempt
  BY DEF TypeOK, RunRow
<1>3. run'[r] = x
  BY <1>1 DEF TypeOK
<1>4. Ends(r)
  BY <1>2, <1>3 DEF Ends
<1>. QED
  BY <1>1, <1>4, OneRow DEF RowMoves

LEMMA AbandonMoves ==
  ASSUME TypeOK, NEW r \in Runs, Abandon(r), ~RowLocked(r)
  PROVE  \A q \in Runs : RowMoves(q)
<1>1. CASE CanRetry(r, run[r].attempt)
  <2> DEFINE n == run[r].attempt + 1
             x == [run[r] EXCEPT !.state = "PENDING", !.worker = NoOne, !.lease = "none",
                                 !.token = 0, !.attempt = n]
  <2>1. n \in 1..(RetryMax[r] + 1)
    BY <1>1, DispatchAssumption DEF TypeOK, RunRow, CanRetry
  <2>2. run' = [run EXCEPT ![r] = x]
    BY <1>1 DEF Abandon
  <2> HIDE DEF n
  <2>3. x.state = "PENDING" /\ x.worker = NoOne /\ x.lease = "none" /\ x.attempt = n
    BY DEF TypeOK, RunRow
  <2>4. run'[r] = x
    BY <2>2 DEF TypeOK
  <2>5. Requeues(r)
    BY <2>1, <2>3, <2>4 DEF Requeues
  <2>. QED
    BY <2>2, <2>5, OneRow DEF RowMoves
<1>2. CASE ~CanRetry(r, run[r].attempt)
  BY <1>2, SettleMoves DEF Abandon, RunState, ActiveStates
<1>. QED
  BY <1>1, <1>2

LEMMA FrameShape ==
  ASSUME Types, NEW t \in Threads, Frame(t)
  PROVE  Shaped
<1>1. UNCHANGED run
  BY DEF Frame, BeginClaim, Hello, ReadForStatus, ReadForComplete, ReadOwned,
         StrategyReap, rows
<1>2. th'[t].pc # "picked" /\ \A u \in Threads \ {t} : th'[u] = th[u]
  <2>1. th = [u \in Threads |-> th[u]]
    BY DEF Types, TypeOK
  <2>2. CASE \E w \in Workers : BeginClaim(t, w)
    BY <2>1, <2>2 DEF BeginClaim, Idle
  <2>3. CASE \E w \in Workers : Hello(t, w)
    BY <2>1, <2>3 DEF Hello, Idle
  <2>4. CASE \E w \in Workers, r \in Runs : ReadForStatus(t, w, r) \/ ReadForComplete(t, w, r)
    BY <2>1, <2>4 DEF ReadForStatus, ReadForComplete, ReadOwned, Idle
  <2>5. CASE \E r \in Runs : StrategyReap(t, r)
    BY <2>1, <2>5 DEF StrategyReap, Idle
  <2>. QED
    BY <2>2, <2>3, <2>4, <2>5 DEF Frame
<1>. QED
  BY <1>1, <1>2, OthersStay, SameRows DEF Shaped

LEMMA ClaimShape ==
  ASSUME Types, NEW t \in Threads, PickRun(t) \/ EndClaim(t) \/ CommitClaim(t)
  PROVE  Shaped
<1>1. CASE PickRun(t)
  BY <1>1, SameRows DEF Shaped, PickRun, rows
<1>2. CASE EndClaim(t)
  BY <1>2, SameRows, DoneUnpicked DEF Shaped, EndClaim, rows
<1>3. CASE CommitClaim(t)
  <2>1. PICK r \in Runs : r = th[t].r
    BY <1>3 DEF CommitClaim, Types, Local
  <2>2. th[t].pc = "picked" /\ th[t].w \in Workers
    BY <1>3 DEF CommitClaim, Types, Local
  <2>3. th'[t].pc # "picked" /\ \A u \in Threads \ {t} : th'[u] = th[u]
    <3>1. th = [u \in Threads |-> th[u]]
      BY DEF Types, TypeOK
    <3>2. CASE Done(t)
      BY <3>1, <3>2 DEF Done, Idle
    <3>3. CASE th' = [th EXCEPT ![t] = [Idle EXCEPT !.pc = "claim", !.w = th[t].w,
                                                    !.budget = th[t].budget - 1]]
      BY <3>1, <3>3 DEF Idle
    <3>. QED
      BY <1>3, <3>2, <3>3 DEF CommitClaim
  <2> DEFINE k == minted[r] + 1
             x == [run[r] EXCEPT !.state = "CLAIMED", !.worker = th[t].w,
                                 !.lease = "live", !.token = k]
  <2>4. run' = [run EXCEPT ![r] = x]
    BY <1>3, <2>1 DEF CommitClaim
  <2> HIDE DEF k
  <2>5. /\ x.state = "CLAIMED" /\ x.worker = th[t].w /\ x.lease = "live"
        /\ x.attempt = run[r].attempt
    BY DEF Types, TypeOK, RunRow
  <2>6. run'[r] = x
    BY <2>4 DEF Types, TypeOK
  <2>7. Claims(t, r)
    BY <2>1, <2>2, <2>3, <2>5, <2>6 DEF Claims
  <2>8. \A q \in Runs : RowMoves(q)
    BY <2>4, <2>7, OneRow DEF RowMoves, Types
  <2>. QED
    BY <2>3, <2>8, OthersStay DEF Shaped
<1>. QED
  BY <1>1, <1>2, <1>3

LEMMA ApplyShape ==
  ASSUME Types, NEW t \in Threads, ApplyStatus(t) \/ ApplyComplete(t)
  PROVE  Shaped
<1>1. NoPick
  BY DoneUnpicked DEF ApplyStatus, ApplyComplete
<1>2. CASE ApplyStatus(t)
  <2>1. PICK r \in Runs : r = th[t].r
    BY <1>2 DEF ApplyStatus, Types, Local
  <2>2. CASE Active(r)
    <3>1. PICK s \in {"RUNNING", run[r].state} :
            run' = [run EXCEPT ![r] = [@ EXCEPT !.state = s, !.lease = "live"]]
      BY <1>2, <2>1, <2>2 DEF ApplyStatus
    <3> DEFINE x == [run[r] EXCEPT !.state = s, !.lease = "live"]
    <3>2. /\ x.state = s /\ x.lease = "live" /\ x.worker = run[r].worker
          /\ x.attempt = run[r].attempt
      BY DEF Types, TypeOK, RunRow
    <3>3. run' = [run EXCEPT ![r] = x] /\ run'[r] = x
      BY <3>1 DEF Types, TypeOK
    <3>4. Starts(r)
      BY <1>2, <2>1, <2>2, <3>2, <3>3 DEF Starts, ApplyStatus
    <3>. QED
      BY <1>1, <3>3, <3>4, OneRow DEF RowMoves, Types, Shaped
  <2>3. CASE ~Active(r)
    BY <1>1, <1>2, <2>1, <2>3, SameRows DEF ApplyStatus, rows, Shaped
  <2>. QED
    BY <2>2, <2>3
<1>3. CASE ApplyComplete(t)
  <2>1. PICK r \in Runs : r = th[t].r
    BY <1>3 DEF ApplyComplete, Types, Local
  <2>2. CASE Active(r)
    <3>1. /\ Settle(r, th[t].arg) /\ ~RowLocked(r)
          /\ th[t].arg \in RunState \ (ActiveStates \cup {"PENDING"})
      BY <1>3, <2>1, <2>2
         DEF ApplyComplete, Types, Local, CompletionStates, RunState, ActiveStates
    <3>. QED
      BY <1>1, <3>1, SettleMoves DEF Types, Shaped
  <2>3. CASE ~Active(r)
    BY <1>1, <1>3, <2>1, <2>3, SameRows DEF ApplyComplete, rows, Shaped
  <2>. QED
    BY <2>2, <2>3
<1>. QED
  BY <1>2, <1>3

LEMMA AbandonShape ==
  ASSUME Types, NEW t \in Threads,
         \/ AbandonSave(t) \/ AbandonSync(t) \/ AbandonToken(t)
         \/ AbandonRequeue(t) \/ AbandonResync(t) \/ ExtendLeases(t)
  PROVE  Shaped
<1>1. NoPick
  <2>1. th[t] \in Thread
    BY DEF Types, TypeOK
  <2>2. CASE AbandonToken(t)
    BY <2>1, <2>2, UnpickedStep, DoneUnpicked DEF AbandonToken, Thread
  <2>3. CASE AbandonSave(t)
    BY <2>1, <2>3, UnpickedStep DEF AbandonSave, Thread
  <2>4. CASE AbandonSync(t) \/ AbandonRequeue(t) \/ AbandonResync(t)
    BY <2>1, <2>4, UnpickedStep DEF AbandonSync, AbandonRequeue, AbandonResync, Thread
  <2>5. CASE ExtendLeases(t)
    BY <2>5, DoneUnpicked DEF ExtendLeases
  <2>. QED
    BY <2>2, <2>3, <2>4, <2>5
<1>2. CASE AbandonSave(t)
  <2>1. PICK r \in Runs : ~RowLocked(r) /\ run' = [run EXCEPT ![r].state = "ABANDONED"]
    BY <1>2 DEF AbandonSave, Types, TypeOK, Thread
  <2>2. run'[r].state = "ABANDONED" /\ run'[r].attempt = run[r].attempt
    BY <2>1 DEF Types, TypeOK, RunRow
  <2>3. Ends(r)
    BY <2>1, <2>2 DEF Ends, RunState, ActiveStates
  <2>. QED
    BY <1>1, <2>1, <2>3, OneRow DEF RowMoves, Types, Shaped
<1>3. CASE AbandonToken(t)
  <2>1. PICK r \in Runs : run' = run \/ run' = [run EXCEPT ![r].token = 0]
    BY <1>3 DEF AbandonToken, Types, Local
  <2>2. Keeps(r)
    BY <2>1 DEF Keeps, Types, TypeOK, RunRow
  <2>. QED
    BY <1>1, <2>1, <2>2, OneRow, SameRows DEF RowMoves, Types, Shaped
<1>4. CASE AbandonSync(t) \/ AbandonResync(t)
  BY <1>1, <1>4, SameRows DEF AbandonSync, AbandonResync, Shaped
<1>5. CASE AbandonRequeue(t)
  <2>1. PICK r \in Runs : r = th[t].r
    BY <1>5 DEF AbandonRequeue, Types, Local
  <2> DEFINE n == th[t].copy[r].attempt + 1
             x == [run[r] EXCEPT !.state = "PENDING", !.worker = NoOne,
                                 !.lease = "none", !.attempt = n]
  <2>2. CanRetry(r, th[t].copy[r].attempt) /\ th[t].copy[r].attempt \in Nat
    BY <1>5, <2>1 DEF AbandonRequeue, Types, TypeOK, Local, Thread, Copy
  <2>3. n \in 1..(RetryMax[r] + 1)
    BY <2>2, DispatchAssumption DEF CanRetry
  <2>4. run' = [run EXCEPT ![r] = x] /\ ~RowLocked(r)
    BY <1>5, <2>1 DEF AbandonRequeue
  <2> HIDE DEF n
  <2>5. x.state = "PENDING" /\ x.worker = NoOne /\ x.lease = "none" /\ x.attempt = n
    BY DEF Types, TypeOK, RunRow
  <2>6. run'[r] = x
    BY <2>4 DEF Types, TypeOK
  <2>7. Requeues(r)
    BY <2>3, <2>4, <2>5, <2>6 DEF Requeues
  <2>. QED
    BY <1>1, <2>4, <2>7, OneRow DEF RowMoves, Types, Shaped
<1>6. CASE ExtendLeases(t)
  <2>1. ASSUME NEW r \in Runs
        PROVE  Keeps(r)
    <3>1. CASE run'[r] = run[r]
      BY <3>1 DEF Keeps
    <3>2. CASE Active(r) /\ run'[r] = [run[r] EXCEPT !.lease = "live"]
      BY <3>2 DEF Keeps, Types, TypeOK, RunRow
    <3>3. r \in HeldBy(th[t].w) => Active(r)
      BY DEF HeldBy
    <3>. QED
      BY <1>6, <3>1, <3>2, <3>3 DEF ExtendLeases
  <2>. QED
    BY <1>1, <2>1 DEF RowMoves, Shaped
<1>. QED
  BY <1>2, <1>3, <1>4, <1>5, <1>6

LEMMA ServerShape ==
  ASSUME Types,
         \/ Reaper
         \/ \E r \in Runs : Time(r)
         \/ \E r \in CancelRuns : Cancel(r)
         \/ \E w \in DrainWorkers : Drain(w)
         \/ \E t \in CrashThreads : Crash(t)
  PROVE  Shaped
<1>1. CASE ListExpired \/ ListWaiting \/ \E w \in DrainWorkers : Drain(w)
  BY <1>1, SameRows, SameThreads DEF ListExpired, ListWaiting, Drain, rows, Shaped
<1>2. ASSUME NEW r \in Runs, ReapOne(r)
      PROVE  Shaped
  BY <1>2, AbandonMoves, SameRows, SameThreads DEF ReapOne, rows, Shaped, Types
<1>3. ASSUME NEW r \in Runs, FailWaiting(r)
      PROVE  Shaped
  <2>1. CASE run[r].state = "PENDING" /\ ~RowLocked(r)
    <3>1. run' = [run EXCEPT ![r].state = "FAILED_DISPATCH"]
      BY <1>3, <2>1 DEF FailWaiting
    <3>2. run'[r].state = "FAILED_DISPATCH" /\ run'[r].attempt = run[r].attempt
      BY <3>1 DEF Types, TypeOK, RunRow
    <3>3. Ends(r)
      BY <2>1, <3>2 DEF Ends, RunState, ActiveStates
    <3>. QED
      BY <1>3, <3>1, <3>3, OneRow, SameThreads DEF RowMoves, FailWaiting, Types, Shaped
  <2>2. CASE ~(run[r].state = "PENDING" /\ ~RowLocked(r))
    BY <1>3, <2>2, SameRows, SameThreads DEF FailWaiting, rows, Shaped
  <2>. QED
    BY <2>1, <2>2
<1>4. ASSUME NEW r \in Runs, Time(r)
      PROVE  Shaped
  <2>1. \/ Active(r) /\ run' = [run EXCEPT ![r].lease = "expired"]
        \/ run' = [run EXCEPT ![r].waited = TRUE]
    BY <1>4 DEF Time, LeaseExpires, WaitBudgetExpires
  <2>2. Keeps(r)
    BY <2>1 DEF Keeps, Types, TypeOK, RunRow
  <2>3. \A q \in Runs : RowMoves(q)
    BY <2>1, <2>2, OneRow DEF RowMoves, Types
  <2>. QED
    BY <1>4, <2>3, SameThreads DEF Time, LeaseExpires, WaitBudgetExpires, Shaped
<1>5. ASSUME NEW r \in CancelRuns, Cancel(r)
      PROVE  Shaped
  <2>1. r \in Runs /\ ~RowLocked(r) /\ NoPick
    BY <1>5, DispatchAssumption, SameThreads DEF Cancel
  <2>2. CASE Settle(r, "CANCELLED")
    <3>1. "CANCELLED" \in RunState \ (ActiveStates \cup {"PENDING"})
      BY DEF RunState, ActiveStates
    <3>. QED
      BY <2>1, <2>2, <3>1, SettleMoves DEF Types, Shaped
  <2>3. CASE Abandon(r)
    BY <2>1, <2>3, AbandonMoves DEF Types, Shaped
  <2>4. CASE UNCHANGED <<run, live, minted>>
    BY <2>1, <2>4, SameRows DEF Shaped
  <2>. QED
    BY <1>5, <2>2, <2>3, <2>4 DEF Cancel
<1>6. ASSUME NEW t \in CrashThreads, Crash(t)
      PROVE  Shaped
  BY <1>6, DispatchAssumption, SameRows, DoneUnpicked DEF Crash, rows, Shaped
<1>. QED
  BY <1>1, <1>2, <1>3, <1>4, <1>5, <1>6 DEF Reaper

LEMMA StepShape == Types /\ [Next]_vars => Shaped
<1> SUFFICES ASSUME Types, [Next]_vars
             PROVE  Shaped
  OBVIOUS
<1>1. CASE UNCHANGED vars
  BY <1>1, SameRows, SameThreads DEF vars, Shaped
<1>2. ASSUME NEW t \in Threads, Work(t)
      PROVE  Shaped
  BY <1>2, ClaimShape, ApplyShape, AbandonShape DEF Work
<1>. QED
  BY <1>1, <1>2, FrameShape, ServerShape DEF Next

-----------------------------------------------------------------------------
(* The inductive invariant: what the locks of an open claim protect *)

SameDef(q, r) == DefOf[q] = DefOf[r] /\ DefOf[r] \in Singletons

\* An open claim has locked its run; the rows it locked are queued; no other run
\* of a singleton definition it claims is held.
ClaimHolds(t) ==
  /\ th[t].r \in th[t].rows
  /\ \A q \in th[t].rows : run[q].state = "PENDING"
  /\ \A q \in Runs \ {th[t].r} : SameDef(q, th[t].r) => ~Active(q)

\* Two open claims share no row and no singleton definition.
Apart(t, u) ==
  th[t].rows \cap th[u].rows = {} /\ ~SameDef(th[t].r, th[u].r)

Locks ==
  /\ \A t \in Threads : th[t].pc = "picked" => ClaimHolds(t)
  /\ \A t, u \in Threads :
       (t # u /\ th[t].pc = "picked" /\ th[u].pc = "picked") => Apart(t, u)

Inv == Types /\ RowShape /\ SingletonExclusion /\ Locks

LEMMA InitInv == Init => Inv
<1> SUFFICES ASSUME Init PROVE Inv
  OBVIOUS
<1>1. RowShape
  BY DispatchAssumption DEF Init, RowShape, Active, ActiveStates
<1>2. SingletonExclusion
  BY DEF Init, SingletonExclusion, Active, ActiveStates
<1>3. Locks
  BY DEF Init, Locks, Idle
<1>. QED
  BY <1>1, <1>2, <1>3, InitTypes DEF Inv

LEMMA ShapeStep ==
  ASSUME RowShape, Types, Shaped
  PROVE  RowShape'
<1> SUFFICES ASSUME NEW r \in Runs
             PROVE  /\ run'[r].attempt \in 1..(RetryMax[r] + 1)
                    /\ run'[r].state = "PENDING"
                         => run'[r].worker = NoOne /\ run'[r].lease = "none"
                    /\ run'[r].state \in ActiveStates
                         => run'[r].worker \in Workers /\ run'[r].lease # "none"
  BY DEF RowShape, Active
<1>1. /\ run[r].attempt \in 1..(RetryMax[r] + 1)
      /\ run[r].state = "PENDING" => run[r].worker = NoOne /\ run[r].lease = "none"
      /\ Active(r) => run[r].worker \in Workers /\ run[r].lease # "none"
  BY DEF RowShape
<1>2. CASE Keeps(r)
  BY <1>1, <1>2 DEF Keeps, Active, ActiveStates
<1>3. CASE Starts(r)
  BY <1>1, <1>3 DEF Starts, Active, ActiveStates
<1>4. CASE Ends(r)
  BY <1>1, <1>4 DEF Ends
<1>5. CASE Requeues(r)
  BY <1>1, <1>5 DEF Requeues, ActiveStates
<1>6. CASE \E t \in Threads : Claims(t, r)
  BY <1>1, <1>6 DEF Claims
<1>. QED
  BY <1>2, <1>3, <1>4, <1>5, <1>6 DEF Shaped, RowMoves

\* Only a claim that is committed makes a row active.
LEMMA NewlyActive ==
  ASSUME Shaped, NEW r \in Runs, Active(r)', ~Active(r)
  PROVE  \E t \in Threads : Claims(t, r)
<1>1. ~Keeps(r)
  BY DEF Keeps, Active
<1>2. ~Starts(r) /\ ~Ends(r) /\ ~Requeues(r)
  BY DEF Starts, Ends, Requeues, Active, ActiveStates
<1>. QED
  BY <1>1, <1>2 DEF Shaped, RowMoves

LEMMA ExclusionStep ==
  ASSUME Inv, Shaped
  PROVE  SingletonExclusion'
<1> SUFFICES ASSUME NEW q \in Runs, NEW r \in Runs, q # r, SameDef(q, r),
                    Active(q)', Active(r)'
             PROVE  FALSE
  BY DEF SingletonExclusion, SameDef
<1>1. ASSUME NEW x \in Runs, NEW y \in Runs, x # y, SameDef(x, y), ~Active(x),
             Active(x)', Active(y)'
      PROVE  FALSE
  <2>1. PICK t \in Threads : Claims(t, x)
    BY <1>1, NewlyActive
  <2>2. ~Active(y)
    BY <1>1, <2>1 DEF Inv, Locks, ClaimHolds, Claims, SameDef
  <2>3. PICK u \in Threads : Claims(u, y)
    BY <1>1, <2>2, NewlyActive
  <2>4. t # u
    BY <1>1, <2>1, <2>3 DEF Claims
  <2>. QED
    BY <1>1, <2>1, <2>3, <2>4 DEF Inv, Locks, Apart, Claims
<1>2. Active(q) /\ Active(r)
  BY <1>1 DEF SameDef
<1>. QED
  BY <1>2 DEF Inv, SingletonExclusion, SameDef

\* Rows locked by a claim that stays open do not move.
LEMMA LockedRowStays ==
  ASSUME Inv, Shaped, NEW t \in Threads, th[t].pc = "picked", th'[t].pc = "picked",
         NEW q \in th[t].rows, q \in Runs
  PROVE  run'[q].state = "PENDING"
<1>1. run[q].state = "PENDING" /\ RowLocked(q)
  BY DEF Inv, Locks, ClaimHolds, RowLocked
<1>2. ASSUME NEW u \in Threads, Claims(u, q)
      PROVE  FALSE
  <2>1. u # t /\ th[u].pc = "picked" /\ th[u].r = q
    BY <1>2 DEF Claims
  <2>2. q \in th[u].rows
    BY <2>1 DEF Inv, Locks, ClaimHolds
  <2>. QED
    BY <2>1, <2>2 DEF Inv, Locks, Apart
<1>3. Keeps(q)
  BY <1>1, <1>2 DEF Shaped, RowMoves, Starts, Ends, Requeues
<1>. QED
  BY <1>1, <1>3 DEF Keeps

LEMMA HoldsStep ==
  ASSUME Inv, Shaped, NEW t \in Threads, th[t].pc = "picked", th'[t].pc = "picked",
         th'[t] = th[t]
  PROVE  ClaimHolds(t)'
<1>1. ClaimHolds(t) /\ th[t].rows \subseteq Runs /\ th[t].r \in Runs
  BY DEF Inv, Locks, Types, TypeOK, Thread, Local
<1>2. \A q \in th[t].rows : run'[q].state = "PENDING"
  BY <1>1, LockedRowStays
<1>3. ASSUME NEW q \in Runs \ {th[t].r}, SameDef(q, th[t].r), Active(q)'
      PROVE  FALSE
  <2>1. ~Active(q)
    BY <1>1, <1>3 DEF ClaimHolds
  <2>2. PICK u \in Threads : Claims(u, q)
    BY <1>3, <2>1, NewlyActive
  <2>3. u # t /\ th[u].pc = "picked" /\ th[u].r = q
    BY <2>2 DEF Claims
  <2>4. ~SameDef(th[u].r, th[t].r)
    BY <2>3 DEF Inv, Locks, Apart
  <2>. QED
    BY <1>3, <2>3, <2>4
<1>. QED
  BY <1>1, <1>2, <1>3 DEF ClaimHolds

LEMMA LocksStep ==
  ASSUME Inv, Shaped
  PROVE  Locks'
<1>1. CASE NoPick
  <2>1. ASSUME NEW t \in Threads, th'[t].pc = "picked"
        PROVE  th'[t] = th[t] /\ th[t].pc = "picked"
    BY <1>1, <2>1 DEF NoPick
  <2>2. ASSUME NEW t \in Threads, th'[t].pc = "picked"
        PROVE  ClaimHolds(t)'
    BY <2>1, <2>2, HoldsStep
  <2>3. ASSUME NEW t \in Threads, NEW u \in Threads, t # u, th'[t].pc = "picked",
               th'[u].pc = "picked"
        PROVE  Apart(t, u)'
    BY <2>1, <2>3 DEF Inv, Locks, Apart
  <2>. QED
    BY <2>2, <2>3 DEF Locks
<1>2. ASSUME NEW t \in Threads, PickRun(t)
      PROVE  Locks'
  <2> DEFINE w == th[t].w
  <2>1. PICK r \in Claimable(w) :
          /\ DefOf[r] \in Singletons => ~DefLocked(r)
          /\ th' = [th EXCEPT ![t] = [th[t] EXCEPT !.pc = "picked", !.r = r,
                                                   !.rows = Candidates(w)]]
          /\ UNCHANGED run
    BY <1>2 DEF PickRun, rows
  <2>2. th[t] \in Thread /\ w \in Workers
    BY <1>2 DEF PickRun, Inv, Types, TypeOK, Local
  <2>3. th'[t].r = r /\ th'[t].rows = Candidates(w)
    BY <2>1, <2>2 DEF Inv, Types, TypeOK, Thread
  <2>4. \A u \in Threads \ {t} : th'[u] = th[u]
    BY <2>1 DEF Inv, Types, TypeOK
  <2>5. r \in Candidates(w) /\ r \in Runs
    BY <2>1, <2>2, DispatchAssumption DEF Claimable, Candidates
  <2>6. ClaimHolds(t)'
    <3>1. \A q \in Candidates(w) : run'[q].state = "PENDING"
      BY <2>1 DEF Candidates
    <3>2. \A q \in Runs \ {r} : SameDef(q, r) => ~Active(q)'
      BY <2>1 DEF Claimable, SingletonHeld, SameDef, Active
    <3>. QED
      BY <2>3, <2>5, <3>1, <3>2 DEF ClaimHolds
  <2>7. ASSUME NEW u \in Threads \ {t}, th[u].pc = "picked"
        PROVE  /\ Candidates(w) \cap th[u].rows = {}
               /\ ~SameDef(r, th[u].r) /\ ~SameDef(th[u].r, r)
    <3>1. Candidates(w) \cap th[u].rows = {}
      BY <2>7 DEF Candidates, RowLocked
    <3>. QED
      BY <2>1, <2>7, <3>1 DEF DefLocked, SameDef
  <2>8. ASSUME NEW u \in Threads \ {t}, th'[u].pc = "picked"
        PROVE  ClaimHolds(u)' /\ Apart(t, u)' /\ Apart(u, t)'
    <3>1. ClaimHolds(u) /\ th'[u] = th[u] /\ th[u].pc = "picked"
      BY <2>4, <2>8 DEF Inv, Locks
    <3>2. ClaimHolds(u)'
      BY <3>1, <2>1 DEF ClaimHolds, Active
    <3>3. Apart(t, u)' /\ Apart(u, t)'
      BY <2>3, <2>7, <3>1 DEF Apart, SameDef
    <3>. QED
      BY <3>2, <3>3
  <2>9. ASSUME NEW u \in Threads \ {t}, NEW v \in Threads \ {t}, u # v,
               th'[u].pc = "picked", th'[v].pc = "picked"
        PROVE  Apart(u, v)'
    BY <2>4, <2>9 DEF Inv, Locks, Apart
  <2>. QED
    BY <2>6, <2>8, <2>9 DEF Locks
<1>. QED
  BY <1>1, <1>2 DEF Shaped

LEMMA InvStep == Inv /\ [Next]_vars => Inv'
<1> SUFFICES ASSUME Inv, [Next]_vars
             PROVE  Inv'
  OBVIOUS
<1>1. Types /\ Shaped
  BY StepShape DEF Inv
<1>2. Types'
  BY <1>1, NextTypes
<1>. QED
  BY <1>1, <1>2, ShapeStep, ExclusionStep, LocksStep DEF Inv

LEMMA Invariant == Spec => []Inv
  BY InitInv, InvStep, PTL DEF Spec

\* Two runs of one singleton definition are never claimed or running together:
\* the definition row locked in _claim_one closes the window in which two claim
\* transactions each see the other's run still queued.
THEOREM SingletonSafe == Spec => []SingletonExclusion
<1>1. Inv => SingletonExclusion
  BY DEF Inv
<1>. QED
  BY <1>1, Invariant, PTL

\* Queued rows carry no owner and no lease, active rows both, and no run is given
\* more attempts than its retry policy allows, although worker.hello and the core
\* strategy abandon runs from copies they read without a lock.
THEOREM ShapeSafe == Spec => []RowShape
<1>1. Inv => RowShape
  BY DEF Inv
<1>. QED
  BY <1>1, Invariant, PTL

\* A claim is granted on a queued, unowned run only: nothing moves the run between
\* the claim's choice and its commit.
THEOREM ClaimSafe == Spec => ClaimedFromQueue
<1>1. ASSUME Inv, [Next]_vars
      PROVE  [\A r \in Runs :
                (run'[r].state = "CLAIMED" /\ run[r].state # "CLAIMED")
                  => (run[r].state = "PENDING" /\ run[r].worker = NoOne)]_vars
  <2> SUFFICES ASSUME NEW r \in Runs, run'[r].state = "CLAIMED", run[r].state # "CLAIMED"
               PROVE  run[r].state = "PENDING" /\ run[r].worker = NoOne
    OBVIOUS
  <2>1. Shaped
    BY <1>1, StepShape DEF Inv
  <2>2. ~Keeps(r) /\ ~Starts(r) /\ ~Ends(r) /\ ~Requeues(r)
    BY DEF Keeps, Starts, Ends, Requeues, ActiveStates
  <2>3. PICK t \in Threads : Claims(t, r)
    BY <2>1, <2>2 DEF Shaped, RowMoves
  <2>4. run[r].state = "PENDING"
    BY <1>1, <2>3 DEF Inv, Locks, ClaimHolds, Claims
  <2>. QED
    BY <1>1, <2>4 DEF Inv, RowShape
<1>. QED
  BY <1>1, Invariant, PTL DEF Spec, ClaimedFromQueue

-----------------------------------------------------------------------------
(* When every abandon holds its row (hellos name every run, core has no cancel *)
(* strategy) each step moves one run, and all that belongs to it together      *)

Holding == ~StaleHello /\ ~CoreCancel

\* No thread is inside an abandon_run without a transaction.
Calm ==
  \A t \in Threads :
    /\ th[t].pc \notin {"sync", "token", "requeue", "resync"}
    /\ th[t].pc = "abandon" => th[t].todo = {}

\* TokenLifecycle, ResultMirrors and RetryBudget of one run.
TokenOf(r) ==
  /\ run[r].token # 0 <=> Active(r)
  /\ Active(r) => run[r].token \in live[r]
  /\ r \in DeleteFails \/ live[r] = IF Active(r) THEN {run[r].token} ELSE {}

Mirrored(r) ==
  /\ result[r].status = StatusOf(run[r].state)
  /\ run[r].state \in {"TERMINATED", "ABANDONED"} => result[r].revocation = run[r].state

InBudget(r) ==
  /\ minted[r] <= run[r].attempt
  /\ run[r].state = "PENDING" => minted[r] < run[r].attempt
  /\ minted[r] <= RetryMax[r] + 1

Kept(r) == TokenOf(r) /\ Mirrored(r) /\ InBudget(r)

\* The run's state, attempt, mirror and tokens stay.
Untouched(r) ==
  /\ run'[r].state = run[r].state /\ run'[r].attempt = run[r].attempt
  /\ run'[r].token = run[r].token
  /\ result'[r].status = result[r].status /\ result'[r].revocation = result[r].revocation
  /\ live'[r] = live[r] /\ minted'[r] = minted[r]

\* The run is in state s, and its mirror says so.
Turns(r, s) ==
  /\ run'[r].state = s
  /\ result'[r].status = StatusOf(s)
  /\ s \in {"TERMINATED", "ABANDONED"} => result'[r].revocation = s

Starting(r) ==
  /\ run[r].state = "CLAIMED" /\ Turns(r, "RUNNING")
  /\ UNCHANGED <<run[r].attempt, run[r].token, live[r], minted[r]>>

Ending(r, s) ==
  /\ \/ Active(r) /\ s \in CompletionStates
     \/ run[r].state = "PENDING" /\ s \in {"CANCELLED", "FAILED_DISPATCH"}
     \/ Active(r) /\ s = "ABANDONED" /\ ~CanRetry(r, run[r].attempt)
  /\ Turns(r, s) /\ run'[r].token = 0 /\ (r \in DeleteFails \/ live'[r] = {})
  /\ UNCHANGED <<run[r].attempt, minted[r]>>

Losing(r) ==
  /\ Active(r) /\ CanRetry(r, run[r].attempt)
  /\ Turns(r, "PENDING") /\ run'[r].token = 0 /\ (r \in DeleteFails \/ live'[r] = {})
  /\ run'[r].attempt = run[r].attempt + 1 /\ UNCHANGED minted[r]

Claiming(r) ==
  /\ run[r].state = "PENDING" /\ Turns(r, "CLAIMED")
  /\ minted'[r] = minted[r] + 1
  /\ run'[r].token = minted[r] + 1 /\ minted[r] + 1 \in live'[r]
  /\ r \in DeleteFails \/ live'[r] = {minted[r] + 1}
  /\ UNCHANGED run[r].attempt

OneMoves(r) ==
  /\ Starting(r) \/ (\E s \in RunState : Ending(r, s)) \/ Losing(r) \/ Claiming(r)
  /\ \A q \in Runs \ {r} : Untouched(q)

OneAtMost == (\A q \in Runs : Untouched(q)) \/ \E r \in Runs : OneMoves(r)

LEMMA MirrorSays ==
  ASSUME NEW res \in ResultRow, NEW s \in RunState
  PROVE  /\ Mirror(res, s).status = StatusOf(s)
         /\ Mirror(res, s).revocation
              = IF s \in {"TERMINATED", "ABANDONED"} THEN s ELSE res.revocation
  BY DEF Mirror, ResultRow

LEMMA SameUntouched ==
  ASSUME UNCHANGED rows
  PROVE  OneAtMost
  BY DEF rows, OneAtMost, Untouched

\* A step that writes the rows of r only.
LEMMA OthersUntouched ==
  ASSUME TypeOK, NEW r \in Runs, NEW a, NEW b, NEW c, NEW d,
         run' = [run EXCEPT ![r] = a], result' = [result EXCEPT ![r] = b],
         live' = [live EXCEPT ![r] = c], minted' = [minted EXCEPT ![r] = d]
  PROVE  /\ run'[r] = a /\ result'[r] = b /\ live'[r] = c /\ minted'[r] = d
         /\ \A q \in Runs \ {r} : Untouched(q)
  BY DEF TypeOK, Untouched

\* What is left of a run's tokens when its row lets go of the one it names.
LEMMA DropLeaves ==
  ASSUME TypeOK, NEW r \in Runs, NEW tok \in Nat, Drop(r, tok)
  PROVE  \E c \in SUBSET Nat : /\ live' = [live EXCEPT ![r] = c]
                               /\ r \in DeleteFails \/ c = live[r] \ {tok}
<1>1. CASE live' = [live EXCEPT ![r] = live[r] \ {tok}]
  BY <1>1 DEF TypeOK
<1>2. CASE r \in DeleteFails /\ UNCHANGED live
  <2>1. live' = [live EXCEPT ![r] = live[r]] /\ live[r] \in SUBSET Nat
    BY <1>2 DEF TypeOK
  <2>. QED
    BY <1>2, <2>1
<1>. QED
  BY <1>1, <1>2 DEF Drop

LEMMA SettleEnds ==
  ASSUME TypeOK, NEW r \in Runs, Kept(r), NEW s \in RunState, Settle(r, s),
         \/ Active(r) /\ s \in CompletionStates
         \/ run[r].state = "PENDING" /\ s \in {"CANCELLED", "FAILED_DISPATCH"}
         \/ Active(r) /\ s = "ABANDONED" /\ ~CanRetry(r, run[r].attempt)
  PROVE  OneMoves(r)
<1> DEFINE a == [run[r] EXCEPT !.state = s, !.token = 0]
           b == Mirror(result[r], s)
<1>0. PICK c \in SUBSET Nat : /\ live' = [live EXCEPT ![r] = c]
                              /\ r \in DeleteFails \/ c = live[r] \ {run[r].token}
  BY DropLeaves DEF Settle, TypeOK, RunRow
<1>1. /\ run' = [run EXCEPT ![r] = a] /\ result' = [result EXCEPT ![r] = b]
      /\ live' = [live EXCEPT ![r] = c] /\ minted' = [minted EXCEPT ![r] = minted[r]]
  BY <1>0 DEF Settle, TypeOK
<1>2. a.state = s /\ a.token = 0 /\ a.attempt = run[r].attempt
  BY DEF TypeOK, RunRow
<1>3. b.status = StatusOf(s) /\ (s \in {"TERMINATED", "ABANDONED"} => b.revocation = s)
  BY MirrorSays DEF TypeOK
<1>4. r \in DeleteFails \/ c = {}
  BY <1>0 DEF Kept, TokenOf
<1> HIDE DEF a, b
<1>5. /\ run'[r] = a /\ result'[r] = b /\ live'[r] = c /\ minted'[r] = minted[r]
      /\ \A q \in Runs \ {r} : Untouched(q)
  BY <1>1, OthersUntouched
<1>6. Turns(r, s)
  BY <1>2, <1>3, <1>5 DEF Turns
<1>7. Ending(r, s)
  BY <1>2, <1>4, <1>5, <1>6 DEF Ending
<1>. QED
  BY <1>5, <1>7 DEF OneMoves

LEMMA AbandonLoses ==
  ASSUME TypeOK, NEW r \in Runs, Kept(r), Active(r), Abandon(r)
  PROVE  OneMoves(r)
<1>1. CASE CanRetry(r, run[r].attempt)
  <2> DEFINE n == run[r].attempt + 1
             a == [run[r] EXCEPT !.state = "PENDING", !.worker = NoOne, !.lease = "none",
                                 !.token = 0, !.attempt = n]
             b == Mirror(Mirror(result[r], "ABANDONED"), "PENDING")
  <2>0. PICK c \in SUBSET Nat : /\ live' = [live EXCEPT ![r] = c]
                                /\ r \in DeleteFails \/ c = live[r] \ {run[r].token}
    BY <1>1, DropLeaves DEF Abandon, TypeOK, RunRow
  <2>1. /\ run' = [run EXCEPT ![r] = a] /\ result' = [result EXCEPT ![r] = b]
        /\ live' = [live EXCEPT ![r] = c] /\ minted' = [minted EXCEPT ![r] = minted[r]]
    BY <1>1, <2>0 DEF Abandon, TypeOK
  <2> HIDE DEF n
  <2>2. a.state = "PENDING" /\ a.token = 0 /\ a.attempt = n
    BY DEF TypeOK, RunRow
  <2>3. b.status = StatusOf("PENDING")
    <3>1. Mirror(result[r], "ABANDONED") \in ResultRow /\ "PENDING" \in RunState
      BY MirrorType DEF TypeOK, RunState
    <3>. QED
      BY <3>1, MirrorSays
  <2>4. r \in DeleteFails \/ c = {}
    BY <2>0 DEF Kept, TokenOf
  <2> HIDE DEF a, b
  <2>5. /\ run'[r] = a /\ result'[r] = b /\ live'[r] = c /\ minted'[r] = minted[r]
        /\ \A q \in Runs \ {r} : Untouched(q)
    BY <2>1, OthersUntouched
  <2>6. Turns(r, "PENDING")
    BY <2>2, <2>3, <2>5 DEF Turns
  <2>7. Losing(r)
    BY <1>1, <2>2, <2>4, <2>5, <2>6 DEF Losing, n
  <2>. QED
    BY <2>5, <2>7 DEF OneMoves
<1>2. CASE ~CanRetry(r, run[r].attempt)
  BY <1>2, SettleEnds DEF Abandon, RunState
<1>. QED
  BY <1>1, <1>2

LEMMA CommitMoves ==
  ASSUME Inv, NEW t \in Threads, CommitClaim(t), \A q \in Runs : Kept(q)
  PROVE  OneAtMost
<1>1. PICK r \in Runs : r = th[t].r
  BY DEF CommitClaim, Inv, Types, Local
<1>2. run[r].state = "PENDING" /\ Kept(r) /\ TypeOK
  BY <1>1 DEF CommitClaim, Inv, Types, Locks, ClaimHolds
<1> DEFINE k == minted[r] + 1
           a == [run[r] EXCEPT !.state = "CLAIMED", !.worker = th[t].w,
                               !.lease = "live", !.token = k]
           b == Mirror(result[r], "CLAIMED")
           c == live[r] \cup {k}
<1>3. /\ run' = [run EXCEPT ![r] = a] /\ result' = [result EXCEPT ![r] = b]
      /\ live' = [live EXCEPT ![r] = c] /\ minted' = [minted EXCEPT ![r] = k]
  BY <1>1 DEF CommitClaim
<1> HIDE DEF k
<1>4. a.state = "CLAIMED" /\ a.token = k /\ a.attempt = run[r].attempt
  BY <1>2 DEF TypeOK, RunRow
<1>5. b.status = StatusOf("CLAIMED")
  BY <1>2, MirrorSays DEF TypeOK, RunState
<1>6. k \in c /\ (r \in DeleteFails \/ c = {k})
  BY <1>2 DEF Kept, TokenOf, Active, ActiveStates
<1> HIDE DEF a, b, c
<1>7. /\ run'[r] = a /\ result'[r] = b /\ live'[r] = c /\ minted'[r] = k
      /\ \A q \in Runs \ {r} : Untouched(q)
  BY <1>2, <1>3, OthersUntouched
<1>8. Turns(r, "CLAIMED")
  BY <1>4, <1>5, <1>7 DEF Turns
<1>9. Claiming(r)
  BY <1>2, <1>4, <1>6, <1>7, <1>8 DEF Claiming, k
<1>. QED
  BY <1>7, <1>9 DEF OneMoves, OneAtMost

LEMMA ApplyMoves ==
  ASSUME Types, NEW t \in Threads, ApplyStatus(t) \/ ApplyComplete(t),
         \A q \in Runs : Kept(q)
  PROVE  OneAtMost
<1>0. PICK r \in Runs : r = th[t].r
  BY DEF ApplyStatus, ApplyComplete, Types, Local
<1>1. CASE ApplyComplete(t)
  <2>1. CASE Active(r)
    <3>1. Settle(r, th[t].arg) /\ th[t].arg \in CompletionStates /\ th[t].arg \in RunState
      BY <1>0, <1>1, <2>1 DEF ApplyComplete, Types, Local, CompletionStates, RunState
    <3>. QED
      BY <2>1, <3>1, SettleEnds DEF Types, OneAtMost
  <2>2. CASE ~Active(r)
    BY <1>0, <1>1, <2>2, SameUntouched DEF ApplyComplete
  <2>. QED
    BY <2>1, <2>2
<1>2. CASE ApplyStatus(t) /\ ~Active(r)
  BY <1>0, <1>2, SameUntouched DEF ApplyStatus
<1>3. CASE ApplyStatus(t) /\ Active(r)
  <2> DEFINE s == IF th[t].arg = "RUNNING" THEN "RUNNING" ELSE run[r].state
             a == [run[r] EXCEPT !.state = s, !.lease = "live"]
             b == IF s = run[r].state THEN result[r] ELSE Mirror(result[r], s)
  <2>1. TypeOK /\ s \in RunState
    BY <1>3 DEF Types, Active, ActiveStates, RunState
  <2>2. /\ run' = [run EXCEPT ![r] = a]
        /\ result' = IF s = run[r].state THEN result ELSE [result EXCEPT ![r] = Mirror(@, s)]
        /\ UNCHANGED <<live, minted>>
    BY <1>0, <1>3 DEF ApplyStatus
  <2>3. /\ result' = [result EXCEPT ![r] = b]
        /\ live' = [live EXCEPT ![r] = live[r]] /\ minted' = [minted EXCEPT ![r] = minted[r]]
    BY <2>1, <2>2 DEF TypeOK
  <2>4. s # run[r].state => s = "RUNNING" /\ run[r].state = "CLAIMED"
    BY <1>3 DEF Active, ActiveStates
  <2> HIDE DEF s
  <2>5. a.state = s /\ a.token = run[r].token /\ a.attempt = run[r].attempt
    BY <2>1 DEF TypeOK, RunRow
  <2>6. s # run[r].state => b.status = StatusOf(s)
    BY <2>1, MirrorSays DEF TypeOK
  <2>7. s = run[r].state => b = result[r]
    OBVIOUS
  <2> HIDE DEF a, b
  <2>8. /\ run'[r] = a /\ result'[r] = b /\ live'[r] = live[r] /\ minted'[r] = minted[r]
        /\ \A q \in Runs \ {r} : Untouched(q)
    BY <2>1, <2>2, <2>3, OthersUntouched
  <2>9. CASE s = run[r].state
    BY <2>5, <2>7, <2>8, <2>9 DEF Untouched, OneAtMost
  <2>10. CASE s # run[r].state
    <3>1. Turns(r, "RUNNING")
      BY <2>4, <2>5, <2>6, <2>8, <2>10 DEF Turns
    <3>2. Starting(r)
      BY <2>4, <2>5, <2>8, <2>10, <3>1 DEF Starting
    <3>. QED
      BY <2>8, <3>2 DEF OneMoves, OneAtMost
  <2>. QED
    BY <2>9, <2>10
<1>. QED
  BY <1>1, <1>2, <1>3

LEMMA ServerMoves ==
  ASSUME Types, \A q \in Runs : Kept(q),
         \/ Reaper
         \/ \E r \in Runs : Time(r)
         \/ \E r \in CancelRuns : Cancel(r)
         \/ \E w \in DrainWorkers : Drain(w)
         \/ \E t \in CrashThreads : Crash(t)
  PROVE  OneAtMost
<1>1. CASE \/ ListExpired \/ ListWaiting \/ \E w \in DrainWorkers : Drain(w)
           \/ \E t \in CrashThreads : Crash(t)
  BY <1>1, SameUntouched DEF ListExpired, ListWaiting, Drain, Crash
<1>2. ASSUME NEW r \in Runs, ReapOne(r)
      PROVE  OneAtMost
  BY <1>2, AbandonLoses, SameUntouched DEF ReapOne, Types, OneAtMost
<1>3. ASSUME NEW r \in Runs, FailWaiting(r)
      PROVE  OneAtMost
  <2>1. CASE run[r].state = "PENDING" /\ ~RowLocked(r)
    <3> DEFINE a == [run[r] EXCEPT !.state = "FAILED_DISPATCH"]
               b == Mirror(result[r], "FAILED_DISPATCH")
    <3>1. /\ run' = [run EXCEPT ![r] = a] /\ result' = [result EXCEPT ![r] = b]
          /\ live' = [live EXCEPT ![r] = live[r]] /\ minted' = [minted EXCEPT ![r] = minted[r]]
      BY <1>3, <2>1 DEF FailWaiting, Types, TypeOK
    <3>2. a.state = "FAILED_DISPATCH" /\ a.token = run[r].token /\ a.attempt = run[r].attempt
      BY DEF Types, TypeOK, RunRow
    <3>3. b.status = StatusOf("FAILED_DISPATCH")
      BY MirrorSays DEF Types, TypeOK, RunState
    <3>4. run[r].token = 0 /\ (r \in DeleteFails \/ live[r] = {})
      BY <2>1 DEF Kept, TokenOf, Active, ActiveStates
    <3> HIDE DEF a, b
    <3>5. /\ run'[r] = a /\ result'[r] = b /\ live'[r] = live[r] /\ minted'[r] = minted[r]
          /\ \A q \in Runs \ {r} : Untouched(q)
      BY <3>1, OthersUntouched DEF Types
    <3>6. Turns(r, "FAILED_DISPATCH")
      BY <3>2, <3>3, <3>5 DEF Turns
    <3>7. Ending(r, "FAILED_DISPATCH")
      BY <2>1, <3>2, <3>4, <3>5, <3>6 DEF Ending
    <3>. QED
      BY <3>5, <3>7 DEF OneMoves, OneAtMost, RunState
  <2>2. CASE ~(run[r].state = "PENDING" /\ ~RowLocked(r))
    BY <1>3, <2>2, SameUntouched DEF FailWaiting
  <2>. QED
    BY <2>1, <2>2
<1>4. ASSUME NEW r \in Runs, Time(r)
      PROVE  OneAtMost
  <2>1. \A q \in Runs : /\ run'[q].state = run[q].state /\ run'[q].attempt = run[q].attempt
                        /\ run'[q].token = run[q].token
    BY <1>4 DEF Time, LeaseExpires, WaitBudgetExpires, Types, TypeOK, RunRow
  <2>. QED
    BY <1>4, <2>1 DEF Time, LeaseExpires, WaitBudgetExpires, OneAtMost, Untouched
<1>5. ASSUME NEW r \in CancelRuns, Cancel(r)
      PROVE  OneAtMost
  <2>0. r \in Runs
    BY DispatchAssumption
  <2>1. CASE run[r].state = "PENDING" /\ Settle(r, "CANCELLED")
    BY <2>0, <2>1, SettleEnds DEF Types, RunState, OneAtMost
  <2>2. CASE Active(r) /\ Abandon(r)
    BY <2>0, <2>2, AbandonLoses DEF Types, OneAtMost
  <2>3. CASE /\ result' = [result EXCEPT ![r].cancelRequested = TRUE]
             /\ UNCHANGED <<run, live, minted>>
    <3>1. \A q \in Runs : /\ result'[q].status = result[q].status
                          /\ result'[q].revocation = result[q].revocation
      BY <2>0, <2>3 DEF Types, TypeOK, ResultRow
    <3>. QED
      BY <2>3, <3>1 DEF OneAtMost, Untouched
  <2>. QED
    BY <1>5, <2>1, <2>2, <2>3 DEF Cancel
<1>. QED
  BY <1>1, <1>2, <1>3, <1>4, <1>5 DEF Reaper

LEMMA LeaseMoves ==
  ASSUME Types, NEW t \in Threads, ExtendLeases(t)
  PROVE  OneAtMost
<1>1. \A q \in Runs : /\ run'[q].state = run[q].state /\ run'[q].attempt = run[q].attempt
                      /\ run'[q].token = run[q].token
  BY DEF ExtendLeases, Types, TypeOK, RunRow
<1>. QED
  BY <1>1 DEF ExtendLeases, OneAtMost, Untouched

\* Only a hello that leaves out a run, or the strategy, opens an unlocked abandon.
LEMMA CalmStep ==
  ASSUME Holding
  PROVE  Types /\ Calm /\ [Next]_vars => Calm'
<1> SUFFICES ASSUME Types, Calm, [Next]_vars PROVE Calm'
  OBVIOUS
<1> DEFINE quiet(x) == /\ x.pc \notin {"sync", "token", "requeue", "resync"}
                       /\ x.pc = "abandon" => x.todo = {}
<1>1. ASSUME NEW t \in Threads, NEW x, quiet(x), th' = [th EXCEPT ![t] = x]
      PROVE  Calm'
  BY <1>1 DEF Calm, Types, TypeOK
<1>2. CASE UNCHANGED th
  BY <1>2 DEF Calm
<1>3. ASSUME NEW t \in Threads, Done(t)
      PROVE  Calm'
  <2>1. quiet(Idle)
    BY DEF Idle
  <2>. QED
    BY <1>1, <1>3, <2>1 DEF Done
<1>4. ASSUME NEW t \in Threads, Frame(t)
      PROVE  Calm'
  <2>1. ASSUME NEW w \in Workers, BeginClaim(t, w)
        PROVE  Calm'
    <3>1. PICK n : th' = [th EXCEPT ![t] = [Idle EXCEPT !.pc = "claim", !.w = w, !.budget = n]]
      BY <2>1 DEF BeginClaim
    <3>2. quiet([Idle EXCEPT !.pc = "claim", !.w = w, !.budget = n])
      BY DEF Idle
    <3>. QED
      BY <1>1, <3>1, <3>2
  <2>2. ASSUME NEW w \in Workers, Hello(t, w)
        PROVE  Calm'
    <3>1. PICK k, c : th' = [th EXCEPT ![t] =
                              [Idle EXCEPT !.pc = "abandon", !.w = w, !.known = k, !.todo = {},
                                           !.copy = c]]
      BY <2>2 DEF Hello, Holding
    <3>2. quiet([Idle EXCEPT !.pc = "abandon", !.w = w, !.known = k, !.todo = {}, !.copy = c])
      BY DEF Idle
    <3>. QED
      BY <1>1, <3>1, <3>2
  <2>3. ASSUME NEW w \in Workers, NEW r \in Runs, ReadForStatus(t, w, r) \/ ReadForComplete(t, w, r)
        PROVE  Calm'
    <3>1. PICK f \in {"status", "complete"}, s \in RunState :
            th' = [th EXCEPT ![t] = [Idle EXCEPT !.pc = f, !.w = w, !.r = r, !.arg = s]]
      BY <2>3, DispatchAssumption
         DEF ReadForStatus, ReadForComplete, ReadOwned, RunState, ActiveStates,
             CompletionStates
    <3>2. quiet([Idle EXCEPT !.pc = f, !.w = w, !.r = r, !.arg = s])
      BY DEF Idle
    <3>. QED
      BY <1>1, <3>1, <3>2
  <2>4. ~(\E r \in Runs : StrategyReap(t, r))
    BY DEF StrategyReap, Holding
  <2>. QED
    BY <1>4, <2>1, <2>2, <2>3, <2>4 DEF Frame
<1>5. ASSUME NEW t \in Threads, PickRun(t)
      PROVE  Calm'
  <2>1. PICK r, C : th' = [th EXCEPT ![t] = [th[t] EXCEPT !.pc = "picked", !.r = r, !.rows = C]]
    BY <1>5 DEF PickRun
  <2>2. quiet([th[t] EXCEPT !.pc = "picked", !.r = r, !.rows = C])
    BY DEF Types, TypeOK, Thread
  <2>. QED
    BY <1>1, <2>1, <2>2
<1>6. ASSUME NEW t \in Threads, CommitClaim(t)
      PROVE  Calm'
  <2>1. ASSUME NEW w, NEW n, th' = [th EXCEPT ![t] = [Idle EXCEPT !.pc = "claim", !.w = w,
                                                                  !.budget = n]]
        PROVE  Calm'
    <3>1. quiet([Idle EXCEPT !.pc = "claim", !.w = w, !.budget = n])
      BY DEF Idle
    <3>. QED
      BY <1>1, <2>1, <3>1
  <2>. QED
    BY <1>3, <1>6, <2>1 DEF CommitClaim
<1>7. ASSUME NEW t \in Threads, EndClaim(t) \/ ApplyStatus(t) \/ ApplyComplete(t) \/ ExtendLeases(t)
      PROVE  Calm'
  BY <1>3, <1>7 DEF EndClaim, ApplyStatus, ApplyComplete, ExtendLeases
<1>8. ASSUME NEW t \in Threads,
             \/ AbandonSave(t) \/ AbandonSync(t) \/ AbandonToken(t)
             \/ AbandonRequeue(t) \/ AbandonResync(t)
      PROVE  FALSE
  BY <1>8 DEF Calm, AbandonSave, AbandonSync, AbandonToken, AbandonRequeue, AbandonResync
<1>9. ASSUME NEW t \in CrashThreads, Crash(t)
      PROVE  Calm'
  BY <1>3, <1>9, DispatchAssumption DEF Crash
<1>10. CASE \/ Reaper
            \/ \E r \in Runs : Time(r)
            \/ \E r \in CancelRuns : Cancel(r)
            \/ \E w \in DrainWorkers : Drain(w)
  BY <1>2, <1>10 DEF Reaper, ListExpired, ListWaiting, ReapOne, FailWaiting, Time, LeaseExpires,
                     WaitBudgetExpires, Cancel, Drain
<1>11. CASE UNCHANGED vars
  BY <1>2, <1>11 DEF vars
<1>. QED
  BY <1>4, <1>5, <1>6, <1>7, <1>8, <1>9, <1>10, <1>11 DEF Next, Work

AllKept == \A r \in Runs : Kept(r)

LEMMA StepMoves ==
  Inv /\ Calm /\ AllKept /\ [Next]_vars => OneAtMost
<1> SUFFICES ASSUME Inv, Calm, AllKept, [Next]_vars PROVE OneAtMost
  OBVIOUS
<1>0. Types /\ \A q \in Runs : Kept(q)
  BY DEF Inv, AllKept
<1>1. CASE UNCHANGED vars
  BY <1>1, SameUntouched DEF vars, rows
<1>2. ASSUME NEW t \in Threads, Frame(t) \/ PickRun(t) \/ EndClaim(t)
      PROVE  OneAtMost
  BY <1>2, SameUntouched DEF Frame, BeginClaim, Hello, ReadForStatus, ReadForComplete, ReadOwned,
                             StrategyReap, PickRun, EndClaim
<1>3. ASSUME NEW t \in Threads,
             \/ AbandonSave(t) \/ AbandonSync(t) \/ AbandonToken(t)
             \/ AbandonRequeue(t) \/ AbandonResync(t)
      PROVE  FALSE
  BY <1>3 DEF Calm, AbandonSave, AbandonSync, AbandonToken, AbandonRequeue, AbandonResync
<1>4. ASSUME NEW t \in Threads, Work(t)
      PROVE  OneAtMost
  BY <1>0, <1>2, <1>3, <1>4, CommitMoves, ApplyMoves, LeaseMoves DEF Work
<1>. QED
  BY <1>0, <1>1, <1>2, <1>4, ServerMoves DEF Next

LEMMA InitKept == Init => AllKept /\ Calm
<1> SUFFICES ASSUME Init PROVE AllKept /\ Calm
  OBVIOUS
<1>1. Calm
  BY DEF Init, Calm, Idle
<1>2. ASSUME NEW r \in Runs
      PROVE  Kept(r)
  <2>1. run[r].state = "PENDING" /\ run[r].attempt = 1 /\ run[r].token = 0
    BY DEF Init
  <2>2. live[r] = {} /\ minted[r] = 0 /\ result[r].status = "PENDING"
    BY DEF Init
  <2>3. StatusOf("PENDING") = "PENDING"
    BY DEF StatusOf
  <2>4. TokenOf(r) /\ Mirrored(r)
    BY <2>1, <2>2, <2>3 DEF TokenOf, Mirrored, Active, ActiveStates
  <2>5. InBudget(r)
    BY <2>1, <2>2, DispatchAssumption DEF InBudget
  <2>. QED
    BY <2>4, <2>5 DEF Kept
<1>. QED
  BY <1>1, <1>2 DEF AllKept

LEMMA KeptStep ==
  ASSUME Inv, AllKept, OneAtMost
  PROVE  AllKept'
<1> SUFFICES ASSUME NEW r \in Runs PROVE Kept(r)'
  BY DEF AllKept
<1>0. TokenOf(r) /\ Mirrored(r) /\ InBudget(r)
  BY DEF AllKept, Kept
<1>1. /\ run[r].attempt \in 1..(RetryMax[r] + 1) /\ minted[r] \in Nat /\ RetryMax[r] \in Nat
      /\ run[r].attempt \in Nat
  BY DispatchAssumption DEF Inv, RowShape, Types, TypeOK
<1>2. CASE Untouched(r)
  <2>1. TokenOf(r)' /\ Mirrored(r)'
    BY <1>0, <1>2 DEF Untouched, TokenOf, Mirrored, Active
  <2>2. InBudget(r)'
    BY <1>0, <1>2 DEF Untouched, InBudget
  <2>. QED
    BY <2>1, <2>2 DEF Kept
<1>3. CASE Starting(r)
  <2>1. TokenOf(r)' /\ Mirrored(r)'
    BY <1>0, <1>3 DEF Starting, Turns, TokenOf, Mirrored, Active, ActiveStates
  <2>2. InBudget(r)'
    BY <1>0, <1>3 DEF Starting, Turns, InBudget
  <2>. QED
    BY <2>1, <2>2 DEF Kept
<1>4. ASSUME NEW s \in RunState, Ending(r, s)
      PROVE  Kept(r)'
  <2>1. s \notin ActiveStates /\ s # "PENDING"
    BY <1>4 DEF Ending, CompletionStates, ActiveStates
  <2>2. TokenOf(r)' /\ Mirrored(r)'
    BY <1>4, <2>1 DEF Ending, Turns, TokenOf, Mirrored, Active
  <2>3. InBudget(r)'
    BY <1>0, <1>4, <2>1 DEF Ending, Turns, InBudget
  <2>. QED
    BY <2>2, <2>3 DEF Kept
<1>5. CASE Losing(r)
  <2>1. TokenOf(r)' /\ Mirrored(r)'
    BY <1>5 DEF Losing, Turns, TokenOf, Mirrored, Active, ActiveStates
  <2>2. InBudget(r)'
    BY <1>0, <1>1, <1>5 DEF Losing, Turns, InBudget
  <2>. QED
    BY <2>1, <2>2 DEF Kept
<1>6. CASE Claiming(r)
  <2>1. minted[r] + 1 # 0
    BY <1>1
  <2>2. TokenOf(r)' /\ Mirrored(r)'
    BY <1>6, <2>1 DEF Claiming, Turns, TokenOf, Mirrored, Active, ActiveStates
  <2>3. InBudget(r)'
    BY <1>0, <1>1, <1>6 DEF Claiming, Turns, InBudget
  <2>. QED
    BY <2>2, <2>3 DEF Kept
<1>. QED
  BY <1>2, <1>3, <1>4, <1>5, <1>6 DEF OneAtMost, OneMoves

LEMMA KeptInvariant ==
  ASSUME Holding
  PROVE  Spec => [](Inv /\ Calm /\ AllKept)
<1>1. Inv /\ Calm /\ AllKept /\ [Next]_vars => Calm' /\ AllKept'
  BY CalmStep, StepMoves, KeptStep DEF Inv
<1>. QED
  BY <1>1, InitInv, InitKept, InvStep, PTL DEF Spec

\* SPEC.md 7.3: when every abandon holds its row, a run has exactly one token while
\* it is claimed or running and none otherwise, whatever frames arrive late or twice.
THEOREM TokensLive ==
  ASSUME Holding
  PROVE  Spec => []TokenLifecycle
<1>1. AllKept => TokenLifecycle
  BY DEF AllKept, Kept, TokenOf, TokenLifecycle
<1>. QED
  BY <1>1, KeptInvariant, PTL

\* SPEC.md 4.6: with the same, the JobResult never disagrees with its run.
THEOREM ResultsMirror ==
  ASSUME Holding
  PROVE  Spec => []ResultMirrors
<1>1. AllKept => ResultMirrors
  BY DEF AllKept, Kept, Mirrored, ResultMirrors
<1>. QED
  BY <1>1, KeptInvariant, PTL

\* SPEC.md 6.1: with the same, a run is handed out at most retry_max + 1 times.
THEOREM RetriesBounded ==
  ASSUME Holding
  PROVE  Spec => []RetryBudget
<1>1. AllKept => RetryBudget
  BY DEF AllKept, Kept, InBudget, RetryBudget
<1>. QED
  BY <1>1, KeptInvariant, PTL

-----------------------------------------------------------------------------
(* The engine implements the abstract life cycle *)

StateMap == [r \in Runs |-> run[r].state]
AttemptMap == [r \in Runs |-> run[r].attempt]

LEMMA MapsStay ==
  ASSUME \A q \in Runs : Untouched(q)
  PROVE  UNCHANGED <<StateMap, AttemptMap>>
  BY DEF Untouched, StateMap, AttemptMap

LEMMA MapsMove ==
  ASSUME NEW r \in Runs, \A q \in Runs \ {r} : Untouched(q)
  PROVE  /\ StateMap' = [StateMap EXCEPT ![r] = run'[r].state]
         /\ AttemptMap' = [AttemptMap EXCEPT ![r] = run'[r].attempt]
         /\ StateMap[r] = run[r].state /\ AttemptMap[r] = run[r].attempt
  BY DEF Untouched, StateMap, AttemptMap

LEMMA LifeStep ==
  ASSUME Inv, OneAtMost
  PROVE  [Life!Next]_(Life!lvars)
<1>1. CASE \A q \in Runs : Untouched(q)
  BY <1>1, MapsStay DEF Life!lvars, StateMap, AttemptMap
<1>2. ASSUME NEW r \in Runs, OneMoves(r)
      PROVE  Life!Next
  <2>1. /\ StateMap' = [StateMap EXCEPT ![r] = run'[r].state]
        /\ AttemptMap' = [AttemptMap EXCEPT ![r] = run'[r].attempt]
        /\ StateMap[r] = run[r].state /\ AttemptMap[r] = run[r].attempt
    BY <1>2, MapsMove DEF OneMoves
  <2>2. run[r].attempt \in Nat /\ RetryMax[r] \in Nat
    BY DispatchAssumption DEF Inv, Types, TypeOK, RunRow
  <2>3. run'[r].attempt = run[r].attempt => UNCHANGED AttemptMap
    BY <2>1 DEF AttemptMap
  <2>4. CASE Starting(r)
    BY <2>1, <2>3, <2>4 DEF Starting, Turns, Life!Next, Life!Start, Life!Move, StateMap, AttemptMap
  <2>5. CASE Claiming(r)
    BY <2>1, <2>3, <2>5 DEF Claiming, Turns, Life!Next, Life!Claim, Life!Move, StateMap, AttemptMap
  <2>6. ASSUME NEW s \in RunState, Ending(r, s)
        PROVE  Life!Next
    <3>1. StateMap' = [StateMap EXCEPT ![r] = s] /\ UNCHANGED AttemptMap
      BY <2>1, <2>3, <2>6 DEF Ending, Turns
    <3>2. CASE Active(r) /\ s \in CompletionStates
      BY <2>1, <3>1, <3>2 DEF Active, Life!Next, Life!Finish, Life!Move, Life!CompletionStates,
           Life!ActiveStates, CompletionStates, ActiveStates, StateMap, AttemptMap
    <3>3. CASE run[r].state = "PENDING" /\ s \in {"CANCELLED", "FAILED_DISPATCH"}
      BY <2>1, <3>1, <3>3 DEF Life!Next, Life!Withdraw, Life!Move, StateMap, AttemptMap
    <3>4. CASE Active(r) /\ s = "ABANDONED" /\ ~CanRetry(r, run[r].attempt)
      <4>1. run[r].attempt > RetryMax[r]
        BY <2>2, <3>4 DEF CanRetry
      <4>. QED
        BY <2>1, <3>1, <3>4, <4>1 DEF Active, Life!Next, Life!Lose, Life!Move,
             Life!ActiveStates, ActiveStates, StateMap, AttemptMap
    <3>. QED
      BY <2>6, <3>2, <3>3, <3>4 DEF Ending
  <2>7. CASE Losing(r)
    <3>1. run[r].attempt <= RetryMax[r]
      BY <2>2, <2>7 DEF Losing, CanRetry
    <3>. QED
      BY <2>1, <2>7, <3>1 DEF Losing, Turns, Active, Life!Next, Life!Lose,
           Life!ActiveStates, ActiveStates, StateMap, AttemptMap
  <2>. QED
    BY <1>2, <2>4, <2>5, <2>6, <2>7 DEF OneMoves
<1>. QED
  BY <1>1, <1>2 DEF OneAtMost

\* SPEC.md 6.1: the engine implements the abstract life cycle of a run: each of its
\* steps is a step of RunLifecycle for one run or leaves all states and attempts alone,
\* so a settled run stays settled and only a lost claim starts a new attempt.
THEOREM ImplementsLifecycle ==
  ASSUME Holding
  PROVE  Spec => RefinesLifecycle
<1>1. Init => Life!Init
  BY DEF Init, Life!Init
<1>2. Inv /\ Calm /\ AllKept /\ [Next]_vars => [Life!Next]_(Life!lvars)
  BY StepMoves, LifeStep
<1>. QED
  BY <1>1, <1>2, KeptInvariant, PTL DEF Spec, RefinesLifecycle, Life!Spec

\* The life cycle leaves what has ended alone.
LEMMA LifeSettles ==
  ASSUME Inv, [Life!Next]_(Life!lvars), NEW r \in Runs, IsTerminal(run[r].state)
  PROVE  run'[r].state = run[r].state /\ run'[r].attempt = run[r].attempt
<1>1. StateMap[r] = run[r].state /\ AttemptMap[r] = run[r].attempt
      /\ StateMap'[r] = run'[r].state /\ AttemptMap'[r] = run'[r].attempt
  BY DEF StateMap, AttemptMap
<1>2. CASE UNCHANGED Life!lvars
  <2>1. StateMap' = StateMap /\ AttemptMap' = AttemptMap
    BY <1>2 DEF Life!lvars, StateMap, AttemptMap
  <2> QED BY <1>1, <2>1
<1>3. CASE Life!Next
  <2>1. PICK q \in Runs : Life!Claim(q) \/ Life!Start(q) \/ Life!Finish(q) \/ Life!Withdraw(q) \/ Life!Lose(q)
    BY <1>3 DEF Life!Next
  <2>2. /\ StateMap[q] \in {"PENDING", "CLAIMED", "RUNNING"}
        /\ StateMap'[r] = StateMap[r] \/ q = r
        /\ AttemptMap'[r] = AttemptMap[r] \/ q = r
    <3>1. CASE Life!Claim(q) \/ Life!Start(q)
      BY <3>1 DEF Life!Claim, Life!Start, Life!Move, StateMap, AttemptMap
    <3>2. CASE Life!Finish(q) \/ Life!Withdraw(q)
      BY <3>2 DEF Life!Finish, Life!Withdraw, Life!Move, Life!ActiveStates, StateMap, AttemptMap
    <3>3. CASE Life!Lose(q)
      BY <3>3 DEF Life!Lose, Life!Move, Life!ActiveStates, StateMap, AttemptMap
    <3>. QED
      BY <2>1, <3>1, <3>2, <3>3
  <2>3. q # r
    BY <1>1, <2>2 DEF IsTerminal, TerminalStates
  <2>4. StateMap'[r] = StateMap[r] /\ AttemptMap'[r] = AttemptMap[r]
    BY <2>2, <2>3
  <2> QED BY <1>1, <2>4
<1> QED BY <1>2, <1>3

\* cancel.py:46, claims.py:190, reaper.py:35: whatever frames, cancels, sweeps and claims
\* are under way, a run that has ended is never started over, nor ended another way.
THEOREM SettledForGood ==
  ASSUME Holding
  PROVE  Spec => [][\A r \in Runs : IsTerminal(run[r].state) =>
                      run'[r].state = run[r].state /\ run'[r].attempt = run[r].attempt]_vars
<1>1. Inv /\ [Next]_vars /\ [Life!Next]_(Life!lvars)
        => [\A r \in Runs : IsTerminal(run[r].state) =>
              run'[r].state = run[r].state /\ run'[r].attempt = run[r].attempt]_vars
  BY LifeSettles
<1>2. Spec => []Inv
  BY Invariant
<1>. QED
  BY <1>1, <1>2, ImplementsLifecycle, PTL DEF Spec, RefinesLifecycle, Life!Spec

=============================================================================
