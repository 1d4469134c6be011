----------------------------- MODULE FanOutProofs -----------------------------
(***************************************************************************)
(* Theorems about FanOut, for any set of children, any number of threads   *)
(* and any retry policy.                                                   *)
(***************************************************************************)
EXTENDS FanOut, TLAPS

\* The thread is in the transaction that ends a child; a hello refreshes without one.
Ending(t) == th[t].c # {}

\* A verdict that agrees with the states it was derived from.
Agrees(v, states) ==
  /\ v \in {"SUCCESS", "FAILURE"} => \A c \in Children : IsTerminal(states[c])
  /\ v = "SUCCESS" => \A c \in Children : states[c] = "SUCCESS"
  /\ v = "FAILURE" => \E c \in Children : states[c] # "SUCCESS"

Right(v, states) == misled \/ Agrees(v, states)

\* What holds of a thread: a transaction that ends a child holds its row lock and
\* the committed row is not terminal yet; a verdict is about what the thread sees.
ThreadInv(t) ==
  /\ Ending(t) => /\ th[t].pc \in {"parent", "siblings", "commit"}
                  /\ \E c \in Children : th[t].c = {c}
                  /\ \A c \in th[t].c : ~IsTerminal(state[c])
                  /\ IsTerminal(th[t].new)
  /\ th[t].pc = "commit" => Right(th[t].verdict, Seen(t))

Exclusive == \A t, u \in Threads : t # u => th[t].c \cap th[u].c = {}

Inv == TypeOK /\ (\A t \in Threads : ThreadInv(t)) /\ Exclusive /\ Right(parent, state)

LEMMA InitInv == Init => Inv
<1> SUFFICES ASSUME Init PROVE Inv
  OBVIOUS
<1>1. Idle \in Thread
  BY DEF Idle, Thread, RunState, Verdict
<1>2. TypeOK
  BY <1>1 DEF Init, TypeOK, RunState
<1>3. \A t \in Threads : ThreadInv(t) /\ th[t].c = {}
  BY DEF Init, ThreadInv, Ending, Idle
<1>4. Right(parent, state)
  BY DEF Init, Agrees, Right
<1>. QED
  BY <1>2, <1>3, <1>4 DEF Inv, Exclusive

-----------------------------------------------------------------------------
(* Steps that move one unlocked child and leave the threads and the parent     *)

Moves(c) ==
  /\ ~Locked(c) /\ state[c] \in ActiveStates \cup {"PENDING"}
  /\ \E s \in RunState \ (TerminalStates \cup {"ABANDONED"}) : state' = [state EXCEPT ![c] = s]
  /\ attempt' \in [Children -> Nat] /\ UNCHANGED <<parent, misled>>

\* The transactions under way are not disturbed: one that has its verdict found
\* c not ended, so the verdict is to leave the parent alone.
LEMMA OtherMoves ==
  ASSUME Inv, NEW c \in Children, Moves(c), NEW t \in Threads, th'[t] = th[t]
  PROVE  ThreadInv(t)'
<1>1. PICK s \in RunState : state' = [state EXCEPT ![c] = s] /\ ~IsTerminal(s)
  BY DEF Moves, IsTerminal
<1>2. ~IsTerminal(state[c])
  BY DEF Moves, IsTerminal, TerminalStates, ActiveStates
<1>3. \A q \in Children \ {c} : state'[q] = state[q]
  BY <1>1 DEF Inv, TypeOK
<1>4. c \notin th[t].c /\ ThreadInv(t)
  BY DEF Moves, Locked, Inv
<1>5. Ending(t) => \A q \in th[t].c : ~IsTerminal(state'[q])
  BY <1>3, <1>4 DEF ThreadInv
<1>6. th[t].pc = "commit" => misled \/ th[t].verdict = "none"
  <2>1. th[t] \in Thread
    BY DEF Inv, TypeOK
  <2>2. SUFFICES ASSUME th[t].pc = "commit", ~misled
                 PROVE  th[t].verdict \notin {"SUCCESS", "FAILURE"}
    BY <2>1 DEF Thread, Verdict
  <2>3. Seen(t)[c] = state[c]
    BY <1>4 DEF Seen
  <2>. QED
    BY <1>2, <1>4, <2>2, <2>3 DEF ThreadInv, Agrees, Right
<1>. QED
  BY <1>4, <1>5, <1>6 DEF ThreadInv, Ending, Agrees, Right, Moves

LEMMA MoveInv ==
  ASSUME Inv, NEW c \in Children, Moves(c), UNCHANGED th, flagged' \subseteq Children
  PROVE  Inv'
<1>1. PICK s \in RunState : state' = [state EXCEPT ![c] = s]
  BY DEF Moves
<1>2. ~IsTerminal(state[c])
  BY DEF Moves, IsTerminal, TerminalStates, ActiveStates
<1>3. TypeOK'
  BY <1>1 DEF Inv, TypeOK, Moves
<1>4. Right(parent, state)'
  <2>1. misled \/ parent \notin {"SUCCESS", "FAILURE"}
    BY <1>2 DEF Inv, Agrees, Right
  <2>. QED
    BY <2>1 DEF Agrees, Right, Moves
<1>5. \A t \in Threads : ThreadInv(t)'
  BY OtherMoves
<1>. QED
  BY <1>3, <1>4, <1>5 DEF Inv, Exclusive

LEMMA LifeMoves ==
  ASSUME Inv, NEW c \in Children, ~Locked(c), UNCHANGED <<parent, misled>>,
         Life!Claim(c) \/ Life!Start(c) \/ (CanRetry(c) /\ Life!Lose(c))
  PROVE  Moves(c)
<1>1. CASE Life!Claim(c)
  BY <1>1 DEF Life!Claim, Life!Move, Moves, RunState, TerminalStates, Inv, TypeOK
<1>2. CASE Life!Start(c)
  BY <1>2 DEF Life!Start, Life!Move, Moves, RunState, TerminalStates, ActiveStates, Inv, TypeOK
<1>3. CASE CanRetry(c) /\ Life!Lose(c)
  <2>1. ~(attempt[c] > RetryMax[c])
    BY <1>3, FanOutAssumption DEF CanRetry, Inv, TypeOK
  <2>2. /\ state[c] \in ActiveStates
        /\ state' = [state EXCEPT ![c] = "PENDING"]
        /\ attempt' = [attempt EXCEPT ![c] = attempt[c] + 1]
    BY <1>3, <2>1 DEF Life!Lose, Life!ActiveStates, ActiveStates
  <2>3. attempt' \in [Children -> Nat]
    BY <2>2 DEF Inv, TypeOK
  <2>. QED
    BY <2>2, <2>3 DEF Moves, RunState, TerminalStates
<1>. QED
  BY <1>1, <1>2, <1>3

-----------------------------------------------------------------------------
(* Steps of one thread *)

\* A step of thread t that changes no child and not the parent.
LEMMA ThreadStep ==
  ASSUME Inv, NEW t \in Threads, NEW x \in Thread, th' = [th EXCEPT ![t] = x],
         UNCHANGED <<parent, state, attempt, misled>>, flagged' \subseteq Children,
         ThreadInv(t)', \A u \in Threads \ {t} : x.c \cap th[u].c = {}
  PROVE  Inv'
<1>1. th'[t] = x /\ \A u \in Threads \ {t} : th'[u] = th[u]
  BY DEF Inv, TypeOK
<1>2. TypeOK'
  BY DEF Inv, TypeOK
<1>3. Exclusive'
  BY <1>1 DEF Inv, Exclusive
<1>4. ASSUME NEW u \in Threads \ {t}
      PROVE  ThreadInv(u)'
  BY <1>1 DEF Inv, ThreadInv, Ending, Agrees, Right, Seen
<1>. QED
  BY <1>2, <1>3, <1>4 DEF Inv, Agrees, Right

\* Taking the lock of a child that has not ended, to end it.
LEMMA EndStep ==
  ASSUME Inv, NEW t \in Threads, NEW c \in Children, NEW s \in RunState,
         NEW D \in SUBSET Children,
         IsTerminal(s), ~IsTerminal(state[c]), ~Locked(c),
         th' = [th EXCEPT ![t] = [@ EXCEPT !.pc = "parent", !.c = {c}, !.new = s,
                                           !.todo = D]],
         UNCHANGED <<parent, state, attempt, flagged, misled>>
  PROVE  Inv'
<1> DEFINE x == [th[t] EXCEPT !.pc = "parent", !.c = {c}, !.new = s, !.todo = D]
<1>1. x \in Thread /\ x.pc = "parent" /\ x.c = {c} /\ x.new = s
  BY DEF Inv, TypeOK, Thread
<1>2. th'[t] = x
  BY DEF Inv, TypeOK
<1>3. ThreadInv(t)'
  BY <1>1, <1>2 DEF ThreadInv, Ending
<1>4. \A u \in Threads \ {t} : x.c \cap th[u].c = {}
  BY <1>1 DEF Locked
<1>. QED
  BY <1>1, <1>3, <1>4, ThreadStep DEF Inv, TypeOK

LEMMA EndInv ==
  ASSUME Inv, NEW t \in Threads, NEW c \in Children, End(t, c)
  PROVE  Inv'
<1>1. PICK s \in RunState : IsTerminal(s) /\ EndIn(t, c, s)
  BY DEF End, IsTerminal, TerminalStates, CompletionStates, RunState
<1>2. ~IsTerminal(state[c]) /\ ~Locked(c)
  BY DEF End, IsTerminal, TerminalStates, Active, ActiveStates
<1>3. th[t] \in Thread /\ th[t].todo \in SUBSET Children
  BY DEF Inv, TypeOK, Thread
<1>4. [th[t] EXCEPT !.pc = "parent", !.c = {c}, !.new = s]
        = [th[t] EXCEPT !.pc = "parent", !.c = {c}, !.new = s, !.todo = th[t].todo]
  BY <1>3 DEF Thread
<1>5. th' = [th EXCEPT ![t] = [th[t] EXCEPT !.pc = "parent", !.c = {c}, !.new = s,
                                            !.todo = th[t].todo]]
  BY <1>1, <1>4 DEF EndIn
<1>. QED
  BY <1>1, <1>2, <1>3, <1>5, EndStep DEF End

LEMMA FetchParentInv ==
  ASSUME Inv, NEW t \in Threads, FetchParent(t)
  PROVE  Inv'
<1> DEFINE x == [th[t] EXCEPT !.pc = "siblings", !.seen = parent]
<1>1. x \in Thread /\ x.pc = "siblings" /\ x.c = th[t].c /\ x.new = th[t].new
  BY DEF Inv, TypeOK, Thread
<1>2. th' = [th EXCEPT ![t] = x] /\ th'[t] = x
  BY DEF FetchParent, Inv, TypeOK
<1>3. ThreadInv(t)'
  BY <1>1, <1>2 DEF ThreadInv, Ending, Inv, FetchParent
<1>4. \A u \in Threads \ {t} : x.c \cap th[u].c = {}
  BY <1>1 DEF Inv, Exclusive
<1>. QED
  BY <1>1, <1>2, <1>3, <1>4, ThreadStep DEF FetchParent, Inv, TypeOK

LEMMA VerdictAgrees ==
  ASSUME NEW states
  PROVE  VerdictOf(states) \in Verdict /\ Agrees(VerdictOf(states), states)
  BY DEF VerdictOf, Verdict, Agrees

LEMMA ReadSiblingsInv ==
  ASSUME Inv, NEW t \in Threads, ReadSiblings(t)
  PROVE  Inv'
<1> DEFINE v == VerdictOf(Seen(t))
           x == [th[t] EXCEPT !.pc = "commit", !.verdict = v]
<1>1. v \in Verdict /\ Agrees(v, Seen(t))
  BY VerdictAgrees
<1>2. th' = [th EXCEPT ![t] = x] /\ th'[t] = x
  BY DEF ReadSiblings, Inv, TypeOK
<1> HIDE DEF v
<1>3. x \in Thread /\ x.pc = "commit" /\ x.c = th[t].c /\ x.new = th[t].new /\ x.verdict = v
  BY <1>1 DEF Inv, TypeOK, Thread
<1>4. Seen(t)' = Seen(t)
  BY <1>2, <1>3 DEF Seen, ReadSiblings
<1>5. ThreadInv(t)'
  <2>1. Right(th[t].verdict, Seen(t))'
    BY <1>1, <1>2, <1>3, <1>4 DEF Agrees, Right, ReadSiblings
  <2>2. UNCHANGED <<state, Ending(t)>>
    BY <1>2, <1>3 DEF Ending, ReadSiblings
  <2>. QED
    BY <1>2, <1>3, <2>1, <2>2 DEF ThreadInv, Inv
<1>6. \A u \in Threads \ {t} : x.c \cap th[u].c = {}
  BY <1>3 DEF Inv, Exclusive
<1>. QED
  BY <1>2, <1>3, <1>5, <1>6, ThreadStep DEF ReadSiblings, Inv, TypeOK

LEMMA CancelParentInv ==
  ASSUME Inv, NEW t \in Threads, CancelParent(t)
  PROVE  Inv'
<1> DEFINE D == {c \in Children : ~Ended(c)}
           p == IF \A c \in Children : Ended(c) THEN "idle" ELSE "spread"
           x == [Idle EXCEPT !.pc = p, !.todo = D]
<1>1. th' = [th EXCEPT ![t] = x] /\ th'[t] = x
  BY DEF CancelParent, Inv, TypeOK
<1>2. p \in {"idle", "spread"} /\ D \in SUBSET Children
  OBVIOUS
<1> HIDE DEF p, D
<1>3. x \in Thread /\ x.c = {} /\ x.pc = p
  BY <1>2 DEF Idle, Thread, RunState, Verdict
<1>4. TypeOK'
  BY <1>1, <1>3 DEF Inv, TypeOK, CancelParent, RunState
<1>5. \A u \in Threads \ {t} : th'[u] = th[u]
  BY <1>1 DEF Inv, TypeOK
<1>6. Exclusive'
  BY <1>1, <1>3, <1>5 DEF Inv, Exclusive
<1>7. ThreadInv(t)'
  BY <1>1, <1>2, <1>3 DEF ThreadInv, Ending
<1>8. ASSUME NEW u \in Threads \ {t}
      PROVE  ThreadInv(u)'
  BY <1>5 DEF Inv, ThreadInv, Ending, Agrees, Right, Seen, CancelParent
<1>9. Right(parent, state)'
  BY DEF CancelParent, Agrees, Right
<1>. QED
  BY <1>4, <1>6, <1>7, <1>8, <1>9 DEF Inv

\* The thread's transaction is over; the children it still has to visit remain.
LEMMA VisitedType ==
  ASSUME Inv, NEW t \in Threads, NEW D \in SUBSET Children, NEW p \in {"idle", "spread"}
  PROVE  /\ [Idle EXCEPT !.pc = p, !.todo = D] \in Thread
         /\ [Idle EXCEPT !.pc = p, !.todo = D].c = {}
         /\ [Idle EXCEPT !.pc = p, !.todo = D].pc = p
  BY DEF Idle, Thread, RunState, Verdict

LEMMA VisitedStep ==
  ASSUME Inv, NEW t \in Threads, NEW c \in Children, th' = [th EXCEPT ![t] = Visited(t, c)],
         ~Ending(t), UNCHANGED <<parent, misled>>, flagged' \subseteq Children,
         UNCHANGED <<state, attempt>> \/ Moves(c)
  PROVE  Inv'
<1> DEFINE D == th[t].todo \ {c}
           p == IF th[t].todo = {c} THEN "idle" ELSE "spread"
           x == [Idle EXCEPT !.pc = p, !.todo = D]
<1>1. p \in {"idle", "spread"} /\ D \in SUBSET Children
  BY DEF Inv, TypeOK, Thread
<1>2. th' = [th EXCEPT ![t] = x] /\ th'[t] = x
  BY DEF Visited, Inv, TypeOK
<1> HIDE DEF p, D
<1>3. x \in Thread /\ x.c = {} /\ x.pc = p
  BY <1>1, VisitedType
<1>4. \A u \in Threads \ {t} : th'[u] = th[u]
  BY <1>2 DEF Inv, TypeOK
<1>5. th[t].c = {}
  BY DEF Ending
<1>6. CASE UNCHANGED <<state, attempt>>
  <2>1. ThreadInv(t)'
    BY <1>1, <1>2, <1>3 DEF ThreadInv, Ending
  <2>. QED
    BY <1>2, <1>3, <1>6, <2>1, ThreadStep
<1>7. CASE Moves(c)
  <2>1. PICK s \in RunState : state' = [state EXCEPT ![c] = s] /\ ~IsTerminal(s)
    BY <1>7 DEF Moves, IsTerminal
  <2>2. ~IsTerminal(state[c]) /\ \A q \in Children \ {c} : state'[q] = state[q]
    BY <1>7, <2>1 DEF Moves, IsTerminal, TerminalStates, ActiveStates, Inv, TypeOK
  <2>3. TypeOK'
    <3>1. th' \in [Threads -> Thread]
      BY <1>2, <1>3 DEF Inv, TypeOK
    <3>2. state' \in [Children -> RunState] /\ attempt' \in [Children -> Nat]
      BY <1>7, <2>1 DEF Inv, TypeOK, Moves
    <3>. QED
      BY <3>1, <3>2 DEF Inv, TypeOK
  <2>4. Exclusive'
    BY <1>2, <1>3, <1>4 DEF Inv, Exclusive
  <2>5. Right(parent, state)'
    <3>1. misled \/ parent \notin {"SUCCESS", "FAILURE"}
      BY <2>2 DEF Inv, Agrees, Right
    <3>. QED
      BY <3>1 DEF Agrees, Right
  <2>6. ThreadInv(t)'
    BY <1>1, <1>2, <1>3 DEF ThreadInv, Ending
  <2>7. ASSUME NEW u \in Threads \ {t}
        PROVE  ThreadInv(u)'
    BY <1>4, <1>7, <2>2, <2>7, OtherMoves
  <2>. QED
    BY <2>3, <2>4, <2>5, <2>6, <2>7 DEF Inv
<1>. QED
  BY <1>6, <1>7

LEMMA CancelChildInv ==
  ASSUME Inv, NEW t \in Threads, CancelChild(t)
  PROVE  Inv'
<1>1. PICK c \in th[t].todo :
        /\ ~Locked(c)
        /\ \/ /\ th' = [th EXCEPT ![t] = Visited(t, c)]
              /\ \/ UNCHANGED <<state, attempt, flagged>>
                 \/ CanRetry(c) /\ Life!Lose(c) /\ UNCHANGED flagged
                 \/ flagged' = flagged \cup {c} /\ UNCHANGED <<state, attempt>>
           \/ \E s \in {"CANCELLED", "ABANDONED"} :
                /\ Active(c) \/ state[c] = "PENDING"
                /\ th' = [th EXCEPT ![t] = [@ EXCEPT !.pc = "parent", !.c = {c}, !.new = s,
                                                     !.todo = th[t].todo \ {c}]]
                /\ UNCHANGED <<state, attempt, flagged>>
  BY DEF CancelChild
<1>2. c \in Children /\ th[t] \in Thread /\ ~Ending(t) /\ UNCHANGED <<parent, misled>>
  BY DEF Inv, TypeOK, Thread, ThreadInv, CancelChild
<1>3. CASE /\ th' = [th EXCEPT ![t] = Visited(t, c)]
           /\ \/ UNCHANGED <<state, attempt, flagged>>
              \/ CanRetry(c) /\ Life!Lose(c) /\ UNCHANGED flagged
              \/ flagged' = flagged \cup {c} /\ UNCHANGED <<state, attempt>>
  <2>1. flagged' \subseteq Children
    BY <1>2, <1>3 DEF Inv, TypeOK
  <2>2. UNCHANGED <<state, attempt>> \/ Moves(c)
    BY <1>1, <1>2, <1>3, LifeMoves
  <2>. QED
    BY <1>2, <1>3, <2>1, <2>2, VisitedStep
<1>4. ASSUME NEW s \in {"CANCELLED", "ABANDONED"},
             Active(c) \/ state[c] = "PENDING",
             th' = [th EXCEPT ![t] = [@ EXCEPT !.pc = "parent", !.c = {c}, !.new = s,
                                               !.todo = th[t].todo \ {c}]],
             UNCHANGED <<state, attempt, flagged>>
      PROVE  Inv'
  <2> DEFINE D == th[t].todo \ {c}
  <2>1. D \in SUBSET Children
    BY <1>2 DEF Thread
  <2>2. s \in RunState /\ IsTerminal(s) /\ ~IsTerminal(state[c])
    BY <1>4 DEF RunState, IsTerminal, TerminalStates, Active, ActiveStates
  <2>3. th' = [th EXCEPT ![t] = [th[t] EXCEPT !.pc = "parent", !.c = {c}, !.new = s,
                                              !.todo = D]]
    BY <1>2, <1>4 DEF Thread
  <2> HIDE DEF D
  <2>. QED
    BY <1>1, <1>2, <1>4, <2>1, <2>2, <2>3, EndStep
<1>. QED
  BY <1>1, <1>3, <1>4

\* The verdict a transaction commits is about the states that hold after it.  Only a
\* hello commits one when the parent may have a verdict; then both are about the same
\* states and agree.
LEMMA CommitInv ==
  ASSUME Inv, NEW t \in Threads, Commit(t)
  PROVE  Inv' /\ ((parent \in {"SUCCESS", "FAILURE"} /\ ~misled) => parent' = parent)
<1>1. /\ th[t] \in Thread /\ UNCHANGED misled /\ state' = Seen(t)
      /\ Right(th[t].verdict, Seen(t))
  BY DEF Commit, Inv, ThreadInv, TypeOK
<1>2. \A q \in Children : state'[q] = IF q \in th[t].c THEN th[t].new ELSE state[q]
  BY <1>1 DEF Seen
<1>3. Ending(t) => \E c \in Children : th[t].c = {c} /\ ~IsTerminal(state[c])
  BY DEF Inv, ThreadInv
<1>4. Ending(t) => misled \/ parent \notin {"SUCCESS", "FAILURE"}
  BY <1>3 DEF Inv, Agrees, Right
<1>5. ~Ending(t) => \A q \in Children : state'[q] = state[q]
  BY <1>2 DEF Ending
<1>6. Right(parent, state)'
  <2>1. CASE Overwrites(t)
    <3>1. parent' = th[t].verdict
      BY <2>1 DEF Commit
    <3>. QED
      BY <1>1, <3>1 DEF Agrees, Right
  <2>2. CASE ~Overwrites(t)
    <3>1. parent' = parent
      BY <2>2 DEF Commit
    <3>. QED
      BY <1>1, <1>4, <1>5, <3>1 DEF Agrees, Right, Inv
  <2>. QED
    BY <2>1, <2>2
<1>7. (parent \in {"SUCCESS", "FAILURE"} /\ ~misled) => parent' = parent
  <2> SUFFICES ASSUME parent \in {"SUCCESS", "FAILURE"}, ~misled, Overwrites(t)
               PROVE  th[t].verdict = parent
    BY DEF Commit
  <2>1. \A q \in Children : Seen(t)[q] = state[q]
    BY <1>1, <1>4, <1>5
  <2>2. Agrees(th[t].verdict, Seen(t)) /\ Agrees(parent, state)
    BY <1>1 DEF Right, Inv
  <2>3. th[t].verdict \in {"SUCCESS", "FAILURE"}
    BY <1>1 DEF Overwrites, Thread, Verdict
  <2>. QED
    BY <2>1, <2>2, <2>3 DEF Agrees
<1> DEFINE D == th[t].todo
           p == IF th[t].todo = {} THEN "idle" ELSE "spread"
           x == [Idle EXCEPT !.pc = p, !.todo = D]
<1>8. p \in {"idle", "spread"} /\ D \in SUBSET Children
  BY <1>1 DEF Thread
<1>9. th' = [th EXCEPT ![t] = x] /\ th'[t] = x
  BY DEF Commit, Resume, Inv, TypeOK
<1> HIDE DEF p, D
<1>10. x \in Thread /\ x.c = {} /\ x.pc = p
  BY <1>8, VisitedType
<1>11. \A u \in Threads \ {t} : th'[u] = th[u]
  BY <1>9 DEF Inv, TypeOK
<1>12. TypeOK'
  <2>1. th' \in [Threads -> Thread]
    BY <1>9, <1>10 DEF Inv, TypeOK
  <2>2. state' \in [Children -> RunState]
    BY <1>1 DEF Seen, Thread, Inv, TypeOK
  <2>3. parent' \in RunState
    BY <1>1 DEF Commit, Thread, Verdict, Overwrites, RunState, Inv, TypeOK
  <2>. QED
    BY <2>1, <2>2, <2>3 DEF Inv, TypeOK, Commit
<1>13. Exclusive'
  BY <1>9, <1>10, <1>11 DEF Inv, Exclusive
<1>14. ThreadInv(t)'
  BY <1>8, <1>9, <1>10 DEF ThreadInv, Ending
<1>15. ASSUME NEW u \in Threads \ {t}
       PROVE  ThreadInv(u)'
  <2>1. ThreadInv(u) /\ th'[u] = th[u] /\ th[u] \in Thread /\ th[t].c \cap th[u].c = {}
    BY <1>11 DEF Inv, Exclusive, TypeOK
  <2>2. Ending(u) => \A q \in th[u].c : ~IsTerminal(state'[q])
    BY <1>2, <2>1 DEF ThreadInv
  <2>3. CASE Ending(t)
    <3>1. PICK c \in Children : th[t].c = {c} /\ ~IsTerminal(state[c])
      BY <1>3, <2>3
    <3>2. th[u].pc = "commit" => misled \/ th[u].verdict = "none"
      <4>1. SUFFICES ASSUME th[u].pc = "commit", ~misled
                     PROVE  th[u].verdict \notin {"SUCCESS", "FAILURE"}
        BY <2>1 DEF Thread, Verdict
      <4>2. Seen(u)[c] = state[c]
        BY <2>1, <3>1 DEF Seen
      <4>. QED
        BY <2>1, <3>1, <4>1, <4>2 DEF ThreadInv, Agrees, Right
    <3>. QED
      BY <1>1, <2>1, <2>2, <3>2 DEF ThreadInv, Ending, Agrees, Right
  <2>4. CASE ~Ending(t)
    <3>1. \A q \in Children : Seen(u)'[q] = Seen(u)[q]
      BY <1>5, <2>1, <2>4 DEF Seen
    <3>2. th[u].pc = "commit" => Right(th[u].verdict, Seen(u))'
      BY <1>1, <2>1, <3>1 DEF ThreadInv, Agrees, Right
    <3>. QED
      BY <2>1, <2>2, <3>2 DEF ThreadInv, Ending
  <2>. QED
    BY <2>3, <2>4
<1>. QED
  BY <1>6, <1>7, <1>12, <1>13, <1>14, <1>15 DEF Inv

-----------------------------------------------------------------------------
(* A hello that leaves out a child *)

LEMMA HelloInv ==
  ASSUME Inv, NEW t \in Threads, NEW c \in Children, Hello(t, c)
  PROVE  Inv'
<1> DEFINE n == attempt[c]
           x == [Idle EXCEPT !.pc = "abandon", !.stale = {c}, !.copy = n]
<1>1. n \in Nat
  BY DEF Inv, TypeOK
<1>2. th' = [th EXCEPT ![t] = x] /\ th'[t] = x
  BY DEF Hello, Inv, TypeOK
<1> HIDE DEF n
<1>3. x \in Thread /\ x.c = {} /\ x.pc = "abandon"
  BY <1>1 DEF Idle, Thread, RunState, Verdict
<1>4. ThreadInv(t)'
  BY <1>2, <1>3 DEF ThreadInv, Ending
<1>. QED
  BY <1>2, <1>3, <1>4, ThreadStep DEF Hello, Inv, TypeOK

\* A write of a hello while no verdict is given or on its way disturbs nobody, and
\* any other is recorded.
LEMMA HelloWrites ==
  ASSUME Inv, NEW t \in Threads, NEW c \in Children, NEW s \in RunState, NEW x \in Thread,
         ~Locked(c), x.c = {}, x.pc # "commit",
         th' = [th EXCEPT ![t] = x], state' = [state EXCEPT ![c] = s],
         attempt' \in [Children -> Nat], UNCHANGED <<parent, flagged>>,
         misled' = (misled \/ Settling)
  PROVE  Inv'
<1>1. th'[t] = x /\ \A u \in Threads \ {t} : th'[u] = th[u]
  BY DEF Inv, TypeOK
<1>2. \A q \in Children \ {c} : state'[q] = state[q]
  BY DEF Inv, TypeOK
<1>3. misled' \in BOOLEAN
  OBVIOUS
<1>4. TypeOK'
  BY <1>3 DEF Inv, TypeOK
<1>5. Exclusive'
  BY <1>1 DEF Inv, Exclusive
<1>6. ThreadInv(t)'
  BY <1>1 DEF ThreadInv, Ending
<1>7. ASSUME NEW u \in Threads \ {t}
      PROVE  ThreadInv(u)'
  <2>1. c \notin th[u].c /\ ThreadInv(u) /\ th[u] \in Thread /\ th'[u] = th[u]
    BY <1>1 DEF Locked, Inv, TypeOK
  <2>2. Ending(u) => \A q \in th[u].c : ~IsTerminal(state'[q])
    BY <1>2, <2>1 DEF ThreadInv
  <2>3. th[u].pc = "commit" => misled' \/ th[u].verdict = "none"
    BY DEF Settling
  <2>. QED
    BY <2>1, <2>2, <2>3 DEF ThreadInv, Ending, Agrees, Right
<1>8. Right(parent, state)'
  <2>1. misled' \/ parent \notin {"SUCCESS", "FAILURE"}
    BY DEF Settling
  <2>. QED
    BY <2>1 DEF Agrees, Right
<1>. QED
  BY <1>4, <1>5, <1>6, <1>7, <1>8 DEF Inv

LEMMA AbandonInv ==
  ASSUME Inv, NEW t \in Threads, AbandonSave(t) \/ AbandonRequeue(t)
  PROVE  Inv'
<1>0. th[t] \in Thread /\ th[t].stale \subseteq Children /\ th[t].copy \in Nat
  BY DEF Inv, TypeOK, Thread
<1>1. CASE AbandonSave(t)
  <2>1. PICK c \in Children :
          /\ ~Locked(c) /\ state' = [state EXCEPT ![c] = "ABANDONED"]
          /\ \/ th' = [th EXCEPT ![t].pc = "requeue"]
             \/ th' = [th EXCEPT ![t] = [Idle EXCEPT !.pc = "parent"]]
    BY <1>0, <1>1 DEF AbandonSave
  <2>2. th[t].c = {}
    BY <1>1 DEF AbandonSave, Inv, ThreadInv, Ending
  <2>3. PICK x \in Thread : x.c = {} /\ x.pc # "commit" /\ th' = [th EXCEPT ![t] = x]
    <3>1. /\ [th[t] EXCEPT !.pc = "requeue"] \in Thread
          /\ [th[t] EXCEPT !.pc = "requeue"].c = {}
          /\ [th[t] EXCEPT !.pc = "requeue"].pc = "requeue"
      BY <1>0, <2>2 DEF Thread
    <3>2. /\ [Idle EXCEPT !.pc = "parent"] \in Thread
          /\ [Idle EXCEPT !.pc = "parent"].c = {}
          /\ [Idle EXCEPT !.pc = "parent"].pc = "parent"
      BY DEF Idle, Thread, RunState, Verdict
    <3>3. th' = [th EXCEPT ![t].pc = "requeue"]
            => th' = [th EXCEPT ![t] = [th[t] EXCEPT !.pc = "requeue"]]
      BY DEF Inv, TypeOK
    <3>. QED
      BY <2>1, <3>1, <3>2, <3>3
  <2>4. /\ attempt' \in [Children -> Nat] /\ UNCHANGED <<parent, flagged>>
        /\ misled' = (misled \/ Settling)
    BY <1>1 DEF AbandonSave, Inv, TypeOK
  <2>. QED
    BY <2>1, <2>3, <2>4, HelloWrites DEF RunState
<1>2. CASE AbandonRequeue(t)
  <2>1. PICK c \in Children :
          /\ ~Locked(c) /\ state' = [state EXCEPT ![c] = "PENDING"]
          /\ attempt' = [attempt EXCEPT ![c] = th[t].copy + 1]
    BY <1>0, <1>2 DEF AbandonRequeue
  <2>2. attempt' \in [Children -> Nat]
    BY <1>0, <2>1 DEF Inv, TypeOK
  <2>3. Idle \in Thread /\ Idle.c = {} /\ Idle.pc = "idle"
    BY DEF Idle, Thread, RunState, Verdict
  <2>4. /\ th' = [th EXCEPT ![t] = Idle] /\ UNCHANGED <<parent, flagged>>
        /\ misled' = (misled \/ Settling)
    BY <1>2 DEF AbandonRequeue
  <2>. QED
    BY <2>1, <2>2, <2>3, <2>4, HelloWrites DEF RunState
<1>. QED
  BY <1>1, <1>2

-----------------------------------------------------------------------------
Final == (parent \in {"SUCCESS", "FAILURE"} /\ ~misled) => parent' = parent

LEMMA NextInv == Inv /\ [Next]_vars => Inv' /\ Final
<1> SUFFICES ASSUME Inv, [Next]_vars PROVE Inv' /\ Final
  OBVIOUS
<1> USE DEF Final
<1>1. CASE UNCHANGED vars
  BY <1>1 DEF vars, Inv, TypeOK, ThreadInv, Ending, Exclusive, Agrees, Right, Seen
<1>2. ASSUME NEW c \in Children, Claim(c) \/ Start(c) \/ Requeue(c)
      PROVE  Inv' /\ parent' = parent
  <2>1. UNCHANGED <<parent, flagged, th, misled>> /\ Moves(c)
    BY <1>2, LifeMoves DEF Claim, Start, Requeue
  <2>. QED
    BY <2>1, MoveInv DEF Inv, TypeOK
<1>3. ASSUME NEW t \in Threads, FetchParent(t) \/ ReadSiblings(t)
      PROVE  Inv' /\ parent' = parent
  BY <1>3, FetchParentInv, ReadSiblingsInv DEF FetchParent, ReadSiblings
<1>4. ASSUME NEW t \in Threads, Commit(t)
      PROVE  Inv' /\ Final
  BY <1>4, CommitInv
<1>5. ASSUME NEW t \in Threads, CancelChild(t)
      PROVE  Inv' /\ parent' = parent
  BY <1>5, CancelChildInv DEF CancelChild
<1>6. ASSUME NEW t \in Threads, CancelParent(t)
      PROVE  Inv' /\ parent \notin {"SUCCESS", "FAILURE"}
  BY <1>6, CancelParentInv DEF CancelParent, IsTerminal, TerminalStates
<1>7. ASSUME NEW t \in Threads, NEW c \in Children, End(t, c) \/ Hello(t, c)
      PROVE  Inv' /\ parent' = parent
  BY <1>7, EndInv, HelloInv DEF End, Hello
<1>8. ASSUME NEW t \in Threads, AbandonSave(t) \/ AbandonRequeue(t)
      PROVE  Inv' /\ parent' = parent
  BY <1>8, AbandonInv DEF AbandonSave, AbandonRequeue
<1>. QED
  BY <1>1, <1>2, <1>3, <1>4, <1>5, <1>6, <1>7, <1>8 DEF Next, Work

LEMMA Invariant == Spec => []Inv
<1>1. Inv /\ [Next]_vars => Inv'
  BY NextInv
<1>. QED
  BY <1>1, InitInv, PTL DEF Spec

\* A derived parent state is right about its children: SUCCESS or FAILURE is written
\* only when all of them have ended, and stays right although nothing locks the parent
\* or the siblings while refresh_parent_state reads them, unless a hello wrote a child
\* outside a transaction when the verdict was derived already.
THEOREM ParentRight == Spec => []ParentSound
<1>1. Inv => ParentSound
  BY DEF Inv, Agrees, Right, ParentSound, Ended
<1>. QED
  BY <1>1, Invariant, PTL

\* A derived verdict is final, with the same exception: no concurrent refresh, not
\* even one without a lock, and no cancel changes it.
THEOREM VerdictStays == Spec => VerdictFinal
<1>1. Inv /\ [Next]_vars
        => [(parent \in {"SUCCESS", "FAILURE"} /\ ~misled) => parent' = parent]_vars
  BY NextInv DEF Final
<1>. QED
  BY <1>1, Invariant, PTL DEF Spec, VerdictFinal

-----------------------------------------------------------------------------
(* The life of a child *)

\* The end s is one that the life cycle has for child c as it is now.
Lawful(c, s) ==
  \/ s \in CompletionStates /\ Active(c)
  \/ s \in {"CANCELLED", "FAILED_DISPATCH"} /\ state[c] = "PENDING"
  \/ s = "ABANDONED" /\ Active(c) /\ ~CanRetry(c)

\* A transaction ends a child from the state in which it locked it.
Promised == \A t \in Threads : \A c \in th[t].c : Lawful(c, th[t].new)

Leaving == \A t \in Threads : th[t].pc \in {"abandon", "requeue"} => t \in Hellos
Unlocked == \E t \in Hellos : AbandonSave(t) \/ AbandonRequeue(t)

\* A child is locked by one transaction, so steps on others do not touch what it is about
\* to do.
LEMMA PromiseKept ==
  ASSUME Inv, Promised, NEW t \in Threads, \A u \in Threads \ {t} : th'[u] = th[u],
         \A q \in Children :
           (\E u \in Threads \ {t} : q \in th[u].c) => state'[q] = state[q] /\ attempt'[q] = attempt[q],
         \A c \in th'[t].c : Lawful(c, th[t].new)'
  PROVE  Promised'
<1>1. ASSUME NEW u \in Threads \ {t}, NEW c \in th[u].c PROVE Lawful(c, th[u].new)'
  <2>1. c \in Children
    BY DEF Inv, TypeOK, Thread
  <2>2. state'[c] = state[c] /\ attempt'[c] = attempt[c]
    BY <2>1
  <2> QED BY <2>2 DEF Promised, Lawful, Active, CanRetry
<1> QED BY <1>1 DEF Promised

\* Claims, starts and re-queues, also by the cancel of a parent, as the life cycle has them.
LEMMA ChildMoves ==
  ASSUME Inv, NEW c \in Children, Life!Claim(c) \/ Life!Start(c) \/ Life!Lose(c)
  PROVE  /\ Life!Next
         /\ \A q \in Children \ {c} : state'[q] = state[q] /\ attempt'[q] = attempt[q]
<1>1. Life!Next
  BY DEF Life!Next
<1>2. \A q \in Children \ {c} : state'[q] = state[q] /\ attempt'[q] = attempt[q]
  BY DEF Life!Claim, Life!Start, Life!Lose, Life!Move, Inv, TypeOK
<1> QED BY <1>1, <1>2

LEMMA CommitLives ==
  ASSUME Inv, Promised, NEW t \in Threads, Commit(t)
  PROVE  Promised' /\ [Life!Next]_<<state, attempt>>
<1>0. /\ state' = Seen(t) /\ attempt' = attempt /\ th[t] \in Thread
      /\ th' = [th EXCEPT ![t] = Resume(t)]
      /\ state \in [Children -> RunState] /\ attempt \in [Children -> Nat]
  BY DEF Commit, Inv, TypeOK
<1>1. \A u \in Threads \ {t} : th'[u] = th[u] /\ th[t].c \cap th[u].c = {}
  BY <1>0 DEF Inv, TypeOK, Exclusive
<1>2. th'[t].c = {}
  BY <1>0 DEF Resume, Idle, Inv, TypeOK
<1>3. \A q \in Children \ th[t].c : state'[q] = state[q] /\ attempt'[q] = attempt[q]
  BY <1>0 DEF Seen
<1>4. Promised'
  BY <1>1, <1>2, <1>3, PromiseKept
<1>5. CASE th[t].c = {}
  <2>1. state' = state
    BY <1>0, <1>5 DEF Seen
  <2> QED BY <1>0, <1>4, <2>1
<1>6. CASE th[t].c # {}
  <2>1. PICK c \in Children : th[t].c = {c}
    BY <1>6 DEF Inv, ThreadInv, Ending
  <2>2. state' = [state EXCEPT ![c] = th[t].new]
    BY <1>0, <2>1 DEF Seen
  <2>3. Lawful(c, th[t].new)
    BY <2>1 DEF Promised
  <2>4. CASE th[t].new \in CompletionStates /\ Active(c)
    <3>1. Life!Finish(c)
      BY <1>0, <2>2, <2>4 DEF Life!Finish, Life!Move, Life!CompletionStates, Life!ActiveStates,
                              CompletionStates, Active, ActiveStates
    <3> QED BY <1>4, <3>1 DEF Life!Next
  <2>5. CASE th[t].new \in {"CANCELLED", "FAILED_DISPATCH"} /\ state[c] = "PENDING"
    <3>1. Life!Withdraw(c)
      BY <1>0, <2>2, <2>5 DEF Life!Withdraw, Life!Move
    <3> QED BY <1>4, <3>1 DEF Life!Next
  <2>6. CASE th[t].new = "ABANDONED" /\ Active(c) /\ ~CanRetry(c)
    <3>1. attempt[c] > RetryMax[c]
      BY <1>0, <2>6, FanOutAssumption DEF CanRetry
    <3>2. Life!Lose(c)
      BY <1>0, <2>2, <2>6, <3>1 DEF Life!Lose, Life!Move, Life!ActiveStates, Active, ActiveStates
    <3> QED BY <1>4, <3>2 DEF Life!Next
  <2> QED BY <2>3, <2>4, <2>5, <2>6 DEF Lawful
<1> QED BY <1>5, <1>6

LEMMA CancelLives ==
  ASSUME Inv, Promised, Leaving, NEW t \in Threads, CancelChild(t)
  PROVE  Promised' /\ Leaving' /\ [Life!Next]_<<state, attempt>>
<1>1. PICK c \in th[t].todo :
        /\ ~Locked(c)
        /\ \/ /\ th' = [th EXCEPT ![t] = Visited(t, c)]
              /\ UNCHANGED <<state, attempt>> \/ Life!Lose(c)
           \/ \E s \in {"CANCELLED", "ABANDONED"} :
                /\ Lawful(c, s)
                /\ th' = [th EXCEPT ![t] = [@ EXCEPT !.pc = "parent", !.c = {c}, !.new = s,
                                                     !.todo = th[t].todo \ {c}]]
                /\ UNCHANGED <<state, attempt>>
  BY DEF CancelChild, Lawful
<1>2. c \in Children /\ th[t] \in Thread /\ th \in [Threads -> Thread]
  BY DEF Inv, TypeOK, Thread
<1>3. \A u \in Threads \ {t} : th'[u] = th[u] /\ c \notin th[u].c
  BY <1>1, <1>2 DEF Locked
<1>4. CASE /\ th' = [th EXCEPT ![t] = Visited(t, c)]
           /\ UNCHANGED <<state, attempt>> \/ Life!Lose(c)
  <2>1. th'[t].c = {} /\ th'[t].pc \in {"idle", "spread"}
    BY <1>2, <1>4 DEF Visited, Idle
  <2>2. /\ [Life!Next]_<<state, attempt>>
        /\ \A q \in Children \ {c} : state'[q] = state[q] /\ attempt'[q] = attempt[q]
    BY <1>2, <1>4, ChildMoves
  <2>3. Promised'
    BY <1>3, <2>1, <2>2, PromiseKept
  <2> QED BY <1>3, <2>1, <2>2, <2>3 DEF Leaving
<1>5. CASE \E s \in {"CANCELLED", "ABANDONED"} :
             /\ Lawful(c, s)
             /\ th' = [th EXCEPT ![t] = [@ EXCEPT !.pc = "parent", !.c = {c}, !.new = s,
                                                  !.todo = th[t].todo \ {c}]]
             /\ UNCHANGED <<state, attempt>>
  <2>1. PICK s : /\ Lawful(c, s) /\ UNCHANGED <<state, attempt>>
                 /\ th' = [th EXCEPT ![t] = [@ EXCEPT !.pc = "parent", !.c = {c}, !.new = s,
                                                      !.todo = th[t].todo \ {c}]]
    BY <1>5
  <2>2. th'[t].c = {c} /\ th'[t].new = s /\ th'[t].pc = "parent"
    BY <1>2, <2>1 DEF Thread
  <2>3. Lawful(c, th[t].new)'
    BY <2>1, <2>2 DEF Lawful, Active, CanRetry
  <2>4. Promised'
    BY <1>3, <2>1, <2>2, <2>3, PromiseKept
  <2> QED BY <1>3, <2>1, <2>2, <2>4 DEF Leaving
<1> QED BY <1>1, <1>4, <1>5

LEMMA HelloLives ==
  ASSUME Inv, Promised, Leaving, NEW t \in Threads, AbandonSave(t) \/ AbandonRequeue(t)
  PROVE  Promised' /\ Leaving' /\ Unlocked
<1>1. t \in Hellos
  BY DEF Leaving, AbandonSave, AbandonRequeue
<1>2. th[t] \in Thread /\ th \in [Threads -> Thread] /\ th[t].c = {}
  BY DEF Inv, TypeOK, ThreadInv, Ending, AbandonSave, AbandonRequeue
<1>3. PICK c \in th[t].stale :
        /\ ~Locked(c)
        /\ \A q \in Children \ {c} : state'[q] = state[q] /\ attempt'[q] = attempt[q]
        /\ \E x : /\ th' = [th EXCEPT ![t] = x]
                  /\ x.c = {}
  <2>1. CASE AbandonSave(t)
    <3>1. PICK c \in th[t].stale :
            /\ ~Locked(c) /\ state' = [state EXCEPT ![c] = "ABANDONED"] /\ attempt' = attempt
            /\ \/ th' = [th EXCEPT ![t].pc = "requeue"]
               \/ th' = [th EXCEPT ![t] = [Idle EXCEPT !.pc = "parent"]]
      BY <2>1 DEF AbandonSave
    <3>2. \A q \in Children \ {c} : state'[q] = state[q] /\ attempt'[q] = attempt[q]
      BY <3>1 DEF Inv, TypeOK
    <3>3. [th[t] EXCEPT !.pc = "requeue"].c = {} /\ [Idle EXCEPT !.pc = "parent"].c = {}
      BY <1>2 DEF Idle, Thread
    <3>4. th' = [th EXCEPT ![t].pc = "requeue"] =>
            th' = [th EXCEPT ![t] = [th[t] EXCEPT !.pc = "requeue"]]
      BY <1>2
    <3>5. \E x : th' = [th EXCEPT ![t] = x] /\ x.c = {}
      BY <3>1, <3>3, <3>4
    <3> QED BY <3>1, <3>2, <3>5
  <2>2. CASE AbandonRequeue(t)
    <3>1. PICK c \in th[t].stale :
            /\ ~Locked(c) /\ state' = [state EXCEPT ![c] = "PENDING"]
            /\ attempt' = [attempt EXCEPT ![c] = th[t].copy + 1]
      BY <2>2 DEF AbandonRequeue
    <3>2. \A q \in Children \ {c} : state'[q] = state[q] /\ attempt'[q] = attempt[q]
      BY <3>1 DEF Inv, TypeOK
    <3>3. th' = [th EXCEPT ![t] = Idle] /\ Idle.c = {}
      BY <2>2 DEF AbandonRequeue, Idle
    <3>4. \E x : th' = [th EXCEPT ![t] = x] /\ x.c = {}
      BY <3>3
    <3> QED BY <3>1, <3>2, <3>4
  <2> QED BY <2>1, <2>2
<1>4. /\ \A u \in Threads \ {t} : th'[u] = th[u] /\ c \notin th[u].c
      /\ th'[t].c = {}
  BY <1>2, <1>3 DEF Locked
<1>5. Promised'
  BY <1>3, <1>4, PromiseKept
<1>6. Leaving'
  BY <1>1, <1>4 DEF Leaving
<1> QED BY <1>1, <1>5, <1>6 DEF Unlocked

LEMMA LifeNext ==
  ASSUME Inv, Promised, Leaving, [Next]_vars
  PROVE  Promised' /\ Leaving' /\ [Life!Next \/ Unlocked]_<<state, attempt>>
<1>0. th \in [Threads -> Thread]
  BY DEF Inv, TypeOK
<1>1. CASE UNCHANGED vars
  BY <1>1 DEF vars, Promised, Leaving, Lawful, Active, CanRetry
<1>2. ASSUME NEW c \in Children, Claim(c) \/ Start(c) \/ Requeue(c)
      PROVE  Promised' /\ Leaving' /\ Life!Next
  <2>1. /\ ~Locked(c) /\ th' = th
        /\ Life!Claim(c) \/ Life!Start(c) \/ Life!Lose(c)
    BY <1>2 DEF Claim, Start, Requeue
  <2>2. /\ Life!Next
        /\ \A q \in Children \ {c} : state'[q] = state[q] /\ attempt'[q] = attempt[q]
    BY <2>1, ChildMoves
  <2>3. ASSUME NEW t \in Threads, NEW q \in th[t].c PROVE Lawful(q, th[t].new)'
    <3>1. q \in Children \ {c}
      BY <2>1 DEF Locked, Inv, TypeOK, Thread
    <3> QED BY <2>1, <2>2, <3>1 DEF Promised, Lawful, Active, CanRetry
  <2> QED BY <2>1, <2>2, <2>3 DEF Promised, Leaving
<1>3. ASSUME NEW t \in Threads, FetchParent(t) \/ ReadSiblings(t) \/ CancelParent(t)
      PROVE  Promised' /\ Leaving' /\ UNCHANGED <<state, attempt>>
  <2>1. UNCHANGED <<state, attempt>> /\ \A u \in Threads \ {t} : th'[u] = th[u]
    BY <1>0, <1>3 DEF FetchParent, ReadSiblings, CancelParent
  <2>2. /\ th'[t].c = {} \/ (th'[t].c = th[t].c /\ th'[t].new = th[t].new)
        /\ th'[t].pc \in {"siblings", "commit", "idle", "spread"}
    <3>1. CASE FetchParent(t)
      BY <1>0, <3>1 DEF FetchParent, Thread
    <3>2. CASE ReadSiblings(t)
      BY <1>0, <3>2 DEF ReadSiblings, Thread
    <3>3. CASE CancelParent(t)
      BY <1>0, <3>3 DEF CancelParent, Idle
    <3> QED BY <1>3, <3>1, <3>2, <3>3
  <2>3. \A c \in th'[t].c : Lawful(c, th[t].new)'
    BY <2>1, <2>2 DEF Promised, Lawful, Active, CanRetry
  <2>4. Promised'
    BY <2>1, <2>3, PromiseKept
  <2> QED BY <2>1, <2>2, <2>4 DEF Leaving
<1>4. ASSUME NEW t \in Threads, Commit(t)
      PROVE  Promised' /\ Leaving' /\ [Life!Next]_<<state, attempt>>
  <2>1. Leaving'
    BY <1>0, <1>4 DEF Commit, Resume, Idle, Leaving
  <2> QED BY <1>4, <2>1, CommitLives
<1>5. ASSUME NEW t \in Threads, NEW c \in Children, End(t, c)
      PROVE  Promised' /\ Leaving' /\ UNCHANGED <<state, attempt>>
  <2>1. PICK s : EndIn(t, c, s) /\ Lawful(c, s)
    BY <1>5 DEF End, Lawful
  <2>2. /\ UNCHANGED <<state, attempt>> /\ \A u \in Threads \ {t} : th'[u] = th[u]
        /\ th'[t].c = {c} /\ th'[t].new = s /\ th'[t].pc = "parent"
    BY <1>0, <1>5, <2>1 DEF End, EndIn, Thread
  <2>3. \A q \in th'[t].c : Lawful(q, th[t].new)'
    BY <2>1, <2>2 DEF Lawful, Active, CanRetry
  <2>4. Promised'
    BY <2>2, <2>3, PromiseKept
  <2> QED BY <2>2, <2>4 DEF Leaving
<1>6. ASSUME NEW t \in Threads, NEW c \in Children, Hello(t, c)
      PROVE  Promised' /\ Leaving' /\ UNCHANGED <<state, attempt>>
  <2>1. /\ UNCHANGED <<state, attempt>> /\ \A u \in Threads \ {t} : th'[u] = th[u]
        /\ th'[t].c = {} /\ t \in Hellos
    BY <1>0, <1>6 DEF Hello, Idle
  <2>2. Promised'
    BY <2>1, PromiseKept
  <2> QED BY <2>1, <2>2 DEF Leaving
<1> QED
  BY <1>1, <1>2, <1>3, <1>4, <1>5, <1>6, CancelLives, HelloLives DEF Next, Work

LEMMA LifeInvariant == Spec => [](Inv /\ Promised /\ Leaving)
<1>1. Init => Promised /\ Leaving
  BY DEF Init, Idle, Promised, Leaving
<1>2. Inv /\ Promised /\ Leaving /\ [Next]_vars => Promised' /\ Leaving'
  BY LifeNext
<1> QED BY <1>1, <1>2, Invariant, PTL DEF Spec

\* Whatever refreshes, cancels of the parent and abandons interleave, a child moves as
\* the life cycle says, from the state its transaction locked it in, unless a hello
\* writes it outside a transaction.
THEOREM ChildrenLawful == Spec => [][Life!Next \/ Unlocked]_<<state, attempt>>
<1>1. Inv /\ Promised /\ Leaving /\ [Next]_vars => [Life!Next \/ Unlocked]_<<state, attempt>>
  BY LifeNext
<1> QED BY <1>1, LifeInvariant, PTL DEF Spec

\* Without such hellos the children of a parent implement the life cycle that Dispatch
\* implements for runs without one: being aggregated changes no child's life.
THEOREM ChildrenImplementLifecycle == ASSUME Hellos = {} PROVE Spec => Life!Spec
<1>1. Init => Life!Init
  BY DEF Init, Life!Init
<1>2. [Life!Next \/ Unlocked]_<<state, attempt>> => [Life!Next]_Life!lvars
  BY DEF Unlocked, Life!lvars
<1> QED BY <1>1, <1>2, ChildrenLawful, PTL DEF Spec, Life!Spec

=============================================================================
