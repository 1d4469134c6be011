-------------------------------- MODULE FanOut --------------------------------
(***************************************************************************)
(* A per_device or fan_out submission: a parent run that only aggregates,  *)
(* and its children (dispatch/submission.py _submit_fanout).  Each         *)
(* transaction that ends a child re-derives the parent                     *)
(* (models/runs.py refresh_parent_state); cancelling the parent terminates *)
(* it and then cancels the children one by one (cancel.py).                *)
(*                                                                         *)
(* A child's own life is the abstract one of RunLifecycle, which Dispatch  *)
(* implements; what is detailed here is the order of the statements that   *)
(* read and write the parent.  They run inside the child's transaction at  *)
(* READ COMMITTED: it sees its own write and what others have committed,   *)
(* and nothing locks the parent or the siblings.  A worker.hello abandons  *)
(* a child outside any transaction: each of its writes is seen at once.    *)
(***************************************************************************)
EXTENDS RunStates, Integers

CONSTANTS
  Children,   \* the child runs
  Threads,    \* bridge threads, reaper passes and web requests
  RetryMax,   \* child -> its definition's retry_max
  Singleton,  \* TRUE: the definition of parent and children is a singleton
  Offline,    \* children whose worker may be OFFLINE when they are cancelled
  Hellos      \* bound: the threads that serve a hello which leaves out a child

ASSUME FanOutAssumption ==
  /\ RetryMax \in [Children -> Nat]
  /\ Singleton \in BOOLEAN
  /\ Offline \subseteq Children
  /\ Hellos \subseteq Threads

VARIABLES
  parent,   \* state of the parent row
  state,    \* child -> committed state
  attempt,  \* child -> attempt
  flagged,  \* children whose JobResult carries cancel_requested
  th,       \* what each thread is doing
  misled    \* ghost: a hello wrote a child after the parent's verdict was derived

vars == <<parent, state, attempt, flagged, th, misled>>

Life == INSTANCE RunLifecycle WITH Runs <- Children

-----------------------------------------------------------------------------
\* The verdict of a refresh; "none" leaves the parent as it is.
Verdict == {"none", "SUCCESS", "FAILURE"}

\* pc is the next statement of the transaction that ends child c in state new:
\* fetch the parent, read the siblings, commit.  todo are the children a cancel
\* of the parent still has to visit.  stale is the child a hello abandons, copy
\* its attempt as the hello read it.
Thread == [pc: {"idle", "parent", "siblings", "commit", "spread", "abandon", "requeue"},
           c: SUBSET Children, new: RunState, seen: RunState, verdict: Verdict,
           todo: SUBSET Children, stale: SUBSET Children, copy: Nat]

Idle == [pc |-> "idle", c |-> {}, new |-> "PENDING", seen |-> "PENDING",
         verdict |-> "none", todo |-> {}, stale |-> {}, copy |-> 0]

TypeOK ==
  /\ parent \in RunState
  /\ state \in [Children -> RunState]
  /\ attempt \in [Children -> Nat]
  /\ flagged \subseteq Children
  /\ th \in [Threads -> Thread]
  /\ misled \in BOOLEAN

\* _submit_fanout, one transaction: children PENDING in their zones, the parent
\* RUNNING.  A submission without devices or zones has no children to speak of.
Init ==
  /\ parent = "RUNNING"
  /\ state = [c \in Children |-> "PENDING"]
  /\ attempt = [c \in Children |-> 1]
  /\ flagged = {}
  /\ th = [t \in Threads |-> Idle]
  /\ misled = FALSE

Active(c) == state[c] \in ActiveStates
Ended(c) == IsTerminal(state[c])

\* The row lock of the transaction that ends c.
Locked(c) == \E t \in Threads : c \in th[t].c

-----------------------------------------------------------------------------
(* The children's own life *)

\* _claim_one.  _singleton_held counts every active run of the definition, the
\* parent too.
Claim(c) ==
  /\ ~Locked(c) /\ Life!Claim(c)
  /\ Singleton => parent \notin ActiveStates /\ \A q \in Children : ~Active(q)
  /\ UNCHANGED <<parent, flagged, th, misled>>

Start(c) == ~Locked(c) /\ Life!Start(c) /\ UNCHANGED <<parent, flagged, th, misled>>

CanRetry(c) == attempt[c] < RetryMax[c] + 1

\* abandon_run of a child with attempts left: it is queued again and the parent
\* is not looked at.
Requeue(c) ==
  /\ ~Locked(c) /\ CanRetry(c) /\ Life!Lose(c)
  /\ UNCHANGED <<parent, flagged, th, misled>>

\* The transaction of thread t has written state s into the locked child c.
EndIn(t, c, s) ==
  th' = [th EXCEPT ![t] = [@ EXCEPT !.pc = "parent", !.c = {c}, !.new = s]]

\* complete_run, the wait sweep, a cancel before any claim, the reaper when no
\* attempt is left: each ends the child and goes on to refresh_parent_state.
End(t, c) ==
  /\ th[t].pc = "idle" /\ ~Locked(c)
  /\ \/ Active(c) /\ \E s \in CompletionStates : EndIn(t, c, s)
     \/ state[c] = "PENDING" /\ \E s \in {"FAILED_DISPATCH", "CANCELLED"} : EndIn(t, c, s)
     \/ Active(c) /\ ~CanRetry(c) /\ EndIn(t, c, "ABANDONED")
  /\ UNCHANGED <<parent, state, attempt, flagged, misled>>

-----------------------------------------------------------------------------
(* refresh_parent_state, a statement at a time *)

\* self.parent is fetched on first use, before the siblings are read.
FetchParent(t) ==
  /\ th[t].pc = "parent"
  /\ th' = [th EXCEPT ![t] = [@ EXCEPT !.pc = "siblings", !.seen = parent]]
  /\ UNCHANGED <<parent, state, attempt, flagged, misled>>

Verdict_FirstFailure(states) ==
  IF \A c \in Children : states[c] = "SUCCESS" THEN "SUCCESS"
  ELSE IF \E c \in Children : IsTerminal(states[c]) /\ states[c] # "SUCCESS" THEN "FAILURE"
  ELSE "none"

\* What the parent's state becomes, from the states of its children.
VerdictOf(states) ==
  IF \E c \in Children : ~IsTerminal(states[c]) THEN "none"
  ELSE IF \A c \in Children : states[c] = "SUCCESS" THEN "SUCCESS"
  ELSE "FAILURE"

\* The children as the transaction sees them: its own write, and what is committed.
Seen(t) == [c \in Children |-> IF c \in th[t].c THEN th[t].new ELSE state[c]]

ReadSiblings(t) ==
  /\ th[t].pc = "siblings"
  /\ th' = [th EXCEPT ![t] = [@ EXCEPT !.pc = "commit", !.verdict = VerdictOf(Seen(t))]]
  /\ UNCHANGED <<parent, state, attempt, flagged, misled>>

\* The parent is overwritten if it was not terminal when it was fetched.
Overwrites(t) == th[t].verdict # "none" /\ ~IsTerminal(th[t].seen)

\* A cancel of the parent goes on to the next child, if any is left.
Resume(t) ==
  [Idle EXCEPT !.pc = IF th[t].todo = {} THEN "idle" ELSE "spread", !.todo = th[t].todo]

Commit(t) ==
  /\ th[t].pc = "commit"
  /\ state' = Seen(t)
  /\ parent' = IF Overwrites(t) THEN th[t].verdict ELSE parent
  /\ th' = [th EXCEPT ![t] = Resume(t)]
  /\ UNCHANGED <<attempt, flagged, misled>>

-----------------------------------------------------------------------------
(* Cancelling the parent *)

CancelParent_Settled(t) ==
  /\ th[t].pc = "idle" /\ parent # "TERMINATED"
  /\ parent' = "TERMINATED"
  /\ th' = [th EXCEPT ![t] = [Idle EXCEPT
              !.pc = IF \A c \in Children : Ended(c) THEN "idle" ELSE "spread",
              !.todo = {c \in Children : ~Ended(c)}]]
  /\ UNCHANGED <<state, attempt, flagged, misled>>

\* cancel_run of a run with children: one transaction, the parent row locked.
CancelParent(t) ==
  /\ th[t].pc = "idle" /\ ~IsTerminal(parent)
  /\ parent' = "TERMINATED"
  /\ th' = [th EXCEPT ![t] = [Idle EXCEPT
              !.pc = IF \A c \in Children : Ended(c) THEN "idle" ELSE "spread",
              !.todo = {c \in Children : ~Ended(c)}]]
  /\ UNCHANGED <<state, attempt, flagged, misled>>

Visited(t, c) ==
  [Idle EXCEPT !.pc = IF th[t].todo = {c} THEN "idle" ELSE "spread", !.todo = th[t].todo \ {c}]

CancelChild_PendingOnly(t) ==
  /\ th[t].pc = "spread"
  /\ \E c \in th[t].todo :
       /\ ~Locked(c)
       /\ IF state[c] = "PENDING"
            THEN th' = [th EXCEPT ![t] = [@ EXCEPT !.pc = "parent", !.c = {c},
                                          !.new = "CANCELLED", !.todo = th[t].todo \ {c}]]
            ELSE th' = [th EXCEPT ![t] = Visited(t, c)]
  /\ UNCHANGED <<parent, state, attempt, flagged, misled>>

\* _cancel_children: cancel_run of the next child, which is read again under its
\* lock.  PENDING: cancelled.  Held by a worker that is OFFLINE: abandoned, which
\* queues it again while attempts are left.  Held otherwise: flagged.
CancelChild(t) ==
  /\ th[t].pc = "spread"
  /\ \E c \in th[t].todo :
       LET ending(s) == [th EXCEPT ![t] = [@ EXCEPT !.pc = "parent", !.c = {c},
                                           !.new = s, !.todo = th[t].todo \ {c}]]
           visited == [th EXCEPT ![t] = Visited(t, c)]
       IN /\ ~Locked(c)
          /\ \/ Ended(c) /\ th' = visited /\ UNCHANGED <<state, attempt, flagged>>
             \/ /\ state[c] = "PENDING" /\ th' = ending("CANCELLED")
                /\ UNCHANGED <<state, attempt, flagged>>
             \/ /\ Active(c) /\ c \in Offline /\ ~CanRetry(c) /\ th' = ending("ABANDONED")
                /\ UNCHANGED <<state, attempt, flagged>>
             \/ /\ c \in Offline /\ CanRetry(c) /\ Life!Lose(c) /\ th' = visited
                /\ UNCHANGED flagged
             \/ /\ Active(c) /\ flagged' = flagged \cup {c} /\ th' = visited
                /\ UNCHANGED <<state, attempt>>
  /\ UNCHANGED <<parent, misled>>

-----------------------------------------------------------------------------
(* worker.hello: abandon_run with no transaction, from an instance read before *)

\* The parent has a verdict, or a transaction is about to give it one.
Settling ==
  \/ parent \in {"SUCCESS", "FAILURE"}
  \/ \E t \in Threads : th[t].pc = "commit" /\ th[t].verdict # "none"

\* reconcile_in_flight reads a child its worker does not name.  A hello that leaves
\* out several is several of these: their copies may be old when they are used.
Hello(t, c) ==
  /\ t \in Hellos /\ th[t].pc = "idle" /\ Active(c)
  /\ th' = [th EXCEPT ![t] = [Idle EXCEPT !.pc = "abandon", !.stale = {c}, !.copy = attempt[c]]]
  /\ UNCHANGED <<parent, state, attempt, flagged, misled>>

\* transition(ABANDONED), whatever the row holds by now.  Without an attempt left
\* the parent is refreshed, a statement at a time and nothing locked.
AbandonSave(t) ==
  /\ th[t].pc = "abandon"
  /\ \E c \in th[t].stale :
       /\ ~Locked(c)
       /\ state' = [state EXCEPT ![c] = "ABANDONED"]
       /\ IF th[t].copy < RetryMax[c] + 1
            THEN th' = [th EXCEPT ![t].pc = "requeue"]
            ELSE th' = [th EXCEPT ![t] = [Idle EXCEPT !.pc = "parent"]]
  /\ misled' = (misled \/ Settling)
  /\ UNCHANGED <<parent, attempt, flagged>>

AbandonRequeue(t) ==
  /\ th[t].pc = "requeue"
  /\ \E c \in th[t].stale :
       /\ ~Locked(c)
       /\ state' = [state EXCEPT ![c] = "PENDING"]
       /\ attempt' = [attempt EXCEPT ![c] = th[t].copy + 1]
  /\ th' = [th EXCEPT ![t] = Idle]
  /\ misled' = (misled \/ Settling)
  /\ UNCHANGED <<parent, flagged>>

-----------------------------------------------------------------------------
Work(t) ==
  \/ FetchParent(t) \/ ReadSiblings(t) \/ Commit(t) \/ CancelChild(t)
  \/ AbandonSave(t) \/ AbandonRequeue(t)

Next ==
  \/ \E c \in Children : Claim(c) \/ Start(c) \/ Requeue(c)
  \/ \E t \in Threads : Work(t) \/ CancelParent(t)
  \/ \E t \in Threads, c \in Children : End(t, c) \/ Hello(t, c)

Spec == Init /\ [][Next]_vars

\* A thread goes on with its transaction; a queued child whose claim is possible
\* is claimed, or ended otherwise, in time.
FairSpec ==
  /\ Spec
  /\ \A t \in Threads : WF_vars(Work(t))
  /\ \A c \in Children : SF_vars(Claim(c))

-----------------------------------------------------------------------------
\* SPEC.md 6.4 (runs.py:219): the parent is SUCCESS or FAILURE only when every
\* child has ended, and SUCCESS exactly if all of them succeeded; whichever
\* transactions refresh it concurrently, and whatever retries do to the children.
\* The one exception is a hello that wrote a child, without a lock, when the verdict
\* was derived already: from the instant of ABANDONED, or over a child that had ended.
ParentSound ==
  \/ misled
  \/ /\ parent \in {"SUCCESS", "FAILURE"} => \A c \in Children : Ended(c)
     /\ parent = "SUCCESS" => \A c \in Children : state[c] = "SUCCESS"
     /\ parent = "FAILURE" => \E c \in Children : state[c] # "SUCCESS"

\* runs.py:234 and cancel.py:46: a derived verdict is final; neither a second
\* refresh nor a cancel that was already under way changes it, with the exception above.
VerdictFinal ==
  [][(parent \in {"SUCCESS", "FAILURE"} /\ ~misled) => parent' = parent]_vars

\* cancel.py:84: cancelling the parent reaches every child that has not ended: it
\* ends, its worker is told, or (its worker gone, attempts left) it starts over.
CancelSpreads ==
  \A c \in Children :
    (parent = "TERMINATED" /\ attempt[c] = 1)
      ~> (Ended(c) \/ c \in flagged \/ attempt[c] > 1)

\* SPEC.md 6.4: "Parent run state derives from children": once they have all
\* ended the parent is settled too.
ParentSettles == (\A c \in Children : Ended(c)) ~> IsTerminal(parent)
=============================================================================
