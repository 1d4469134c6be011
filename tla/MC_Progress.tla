----------------------------- MODULE MC_Progress -----------------------------
(* What gets done in the end: by Celery beat's two tasks, dispatch_scheduled  *)
(* (Schedules) and reap_expired (Dispatch with one frame at a time and no     *)
(* crashes), and by claims (ClaimScan).  They share no state, so each is      *)
(* explored by itself.                                                        *)
EXTENDS Schedules

VARIABLES run, result, live, minted, draining, th, reapList, waitList
Engine == <<run, result, live, minted, draining, th, reapList, waitList>>

VARIABLES state, scan
Claims == <<state, scan>>
VARIABLE part

TwoRuns == {"r1", "r2"}
D == INSTANCE Dispatch WITH
  Runs <- TwoRuns, Workers <- {"w1"}, Threads <- {"t1"}, NoOne <- "nobody",
  DefOf <- [r \in TwoRuns |-> r], Singletons <- {},
  RetryMax <- [r \in TwoRuns |-> IF r = "r1" THEN 1 ELSE 0],
  QueuePos <- [r \in TwoRuns |-> IF r = "r1" THEN 1 ELSE 2],
  InZone <- [w \in {"w1"} |-> TwoRuns], Capable <- [w \in {"w1"} |-> TwoRuns],
  Capacity <- [w \in {"w1"} |-> 1], MaxOffers <- 2, WaitRuns <- {"r2"},
  StaleHello <- FALSE, CoreCancel <- FALSE, DeleteFails <- {}, MaxClaims <- 2, Reports <- {"SUCCESS"},
  CancelRuns <- {"r2"}, DrainWorkers <- {"w1"}, CrashThreads <- {}

\* The definitions x and y have fan-out parents, and two scans may lock them in opposite
\* orders; or a singleton s is queued with runs that nobody, or only one worker, can do.
Queued == {"x1", "y1", "y2", "x2", "s1", "n", "s2", "f", "p"}
Queue == <<"x1", "y1", "y2", "x2", "s1", "n", "s2", "f", "p">>
C == INSTANCE ClaimScan WITH
  Runs <- Queued, Workers <- {"w1", "w2"}, Queues <- {{Queue[i] : i \in 1..4}, {Queue[i] : i \in 5..9}, {}},
  Zone <- [x \in Queued \cup {"w1", "w2"} |-> "zone"],
  Place <- [r \in Queued |-> CHOOSE i \in 1..9 : Queue[i] = r],
  Definition <- [r \in Queued |-> CASE r \in {"x1", "x2"} -> "x" [] r \in {"y1", "y2"} -> "y"
                                     [] r \in {"s1", "s2"} -> "s" [] OTHER -> r],
  Singletons <- {"x", "y", "s", "f"}, Fanned <- {"x1", "y1", "f"},
  Able <- [w \in {"w1", "w2"} |-> Queued \ IF w = "w1" THEN {"n"} ELSE {"n", "s1"}],
  Capacity <- [w \in {"w1", "w2"} |-> IF w = "w1" THEN 2 ELSE 1], Window <- 2

AllInit ==
  /\ part \in {"schedules", "engine", "claims"}
  /\ Init /\ D!Init /\ C!Init
  \* no queue where the part stands still
  /\ part = "claims" \/ \A r \in Queued : state[r] = "ended"
Scheduling == part = "schedules" /\ Next /\ UNCHANGED <<part, Engine, Claims>>
Dispatching == part = "engine" /\ D!Next /\ UNCHANGED <<part, vars, Claims>>
Claiming == part = "claims" /\ C!Next /\ UNCHANGED <<part, vars, Engine>>

ProgressSpec ==
  /\ AllInit /\ [][Scheduling \/ Dispatching \/ Claiming]_<<part, vars, Engine, Claims>>
  /\ \A b \in Beats : WF_vars(part = "schedules" /\ Dispatch(b))
  /\ D!FairReaper /\ D!FairThreads   \* nothing of it is enabled in Dispatch's first state
  /\ \A w \in {"w1", "w2"} : WF_Claims(part = "claims" /\ C!Proceed(w))
  /\ WF_Claims(part = "claims" /\ \E r \in Queued : C!End(r))

-----------------------------------------------------------------------------
\* Dispatch's and ClaimScan's properties of those names.
ExpiredLeaseHandled == D!ExpiredLeaseHandled
WaitBudgetEnforced == D!WaitBudgetEnforced
QueueMoves == C!QueueMoves

\* Values of the constants: both schedules have a crontab that matches minutes 1 and 2.
NextOf(times) ==
  [t \in Times |-> IF \A u \in times : u <= t THEN Never
                   ELSE CHOOSE u \in times : u > t /\ \A v \in times : v > t => u <= v]
ByNumber == [s \in Schedules |-> s]
Custom == [s \in Schedules |-> "custom"]
EveryTwo == [s \in Schedules |-> 2]
OneAndTwo == [s \in Schedules |-> NextOf({1, 2})]
LateFirst == [s \in Schedules |-> IF s = 1 THEN 2 ELSE 0]
=============================================================================
