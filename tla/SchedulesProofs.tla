-------------------------- MODULE SchedulesProofs --------------------------
(***************************************************************************)
(* Type correctness of Schedules and SpacedOut.  SpacedOut is not          *)
(* inductive: it needs what each stage of an execution knows of the last   *)
(* run of a schedule and of last_run_at, which is Good.                    *)
(***************************************************************************)
EXTENDS Schedules, TLAPS, WellFoundedInduction

LEMMA LeastNat ==
  ASSUME NEW T, T \subseteq Nat, T # {}
  PROVE  \E x \in T : \A y \in T : x <= y
<1> DEFINE R == OpToRel(<, Nat)
<1>1. \E x \in T : \A y \in T : ~ (<<y, x>> \in R)
  BY NatLessThanWellFounded, WFMin
<1>2. \A x, y \in Nat : <<y, x>> \in R <=> y < x
  BY DEF OpToRel
<1> HIDE DEF R
<1>3. PICK x \in T : \A y \in T : ~ (<<y, x>> \in R)
  BY <1>1
<1>4. \A y \in T : ~ (y < x)
  BY <1>2, <1>3
<1> QED BY <1>3, <1>4

LEMMA FirstIn ==
  ASSUME NEW ss, ss \subseteq Schedules, ss # {}
  PROVE  First(ss) \in ss
<1>0. Rank \in [Schedules -> Nat]
  BY SchedulesAssumption DEF SchedulesAssumption
<1> DEFINE T == {Rank[s] : s \in ss}
<1>1. T \subseteq Nat /\ T # {}
  BY <1>0
<1>2. PICK x \in T : \A y \in T : x <= y
  BY <1>1, LeastNat
<1>3. \E s \in ss : \A p \in ss : Rank[s] <= Rank[p]
  BY <1>2
<1> QED BY <1>3 DEF First

LEMMA Bounds ==
  /\ MaxTime \in Nat /\ MaxDeaths \in Nat /\ MaxEdits \in Nat
  /\ \A s \in Schedules : /\ Interval[s] \in {"once", "every", "custom"}
                          /\ Every[s] \in Nat \ {0} /\ StartTime[s] \in 0..MaxTime
  /\ \A s \in Schedules, t \in Times : CronNext[s][t] \in Int /\ t < CronNext[s][t]
  /\ \A s \in Schedules, t, u \in Times : t <= u => CronNext[s][t] <= CronNext[s][u]
<1>1. MaxTime \in Nat
  BY SchedulesAssumption DEF SchedulesAssumption
<1>2. \A s \in Schedules, t \in Times : CronNext[s][t] \in 1..Never
  BY SchedulesAssumption DEF SchedulesAssumption
<1> QED BY <1>1, <1>2, SchedulesAssumption DEF SchedulesAssumption, Times, Never

\* The time of the next run lies after the last one, and a later last run does not make it
\* earlier.
LEMMA NextRunLater ==
  ASSUME NEW s \in Schedules, NEW t \in Times
  PROVE  /\ NextRun(s, t) \in Int /\ t < NextRun(s, t)
         /\ \A u \in Times : t <= u => NextRun(s, t) <= NextRun(s, u)
BY Bounds DEF NextRun, Times, None, Never

-----------------------------------------------------------------------------
(* Types. *)

LEMMA TypeInit == Init => TypeOK
BY Bounds DEF Init, TypeOK, Row, Beat, Idle, Rows, Editing, Times

LEMMA CurrentIn ==
  ASSUME TypeOK, NEW b \in Beats, beat[b].todo # {}
  PROVE  Current(b) \in beat[b].todo /\ Current(b) \in Schedules
<1>1. beat[b].todo \subseteq Schedules
  BY DEF TypeOK, Beat
<1> QED BY <1>1, FirstIn DEF Current

\* One row, or one execution, is given a new value.
LEMMA RowUpdate ==
  ASSUME NEW S, NEW f \in [S -> Row], NEW s \in S, NEW v \in Row
  PROVE  DOMAIN [f EXCEPT ![s] = v] = S /\ [f EXCEPT ![s] = v] \in [S -> Row]
OBVIOUS

LEMMA RowFields ==
  ASSUME NEW r \in Row
  PROVE  /\ r.enabled \in BOOLEAN /\ r.last \in Times \cup {None}
         /\ \A t \in Times : [r EXCEPT !.last = t] \in Row
         /\ [r EXCEPT !.enabled = ~@] \in Row
BY DEF Row

LEMMA BeatUpdate ==
  ASSUME TypeOK, NEW b \in Beats, NEW v \in Beat, v.phase = "save" => v.todo # {},
         beat' = [beat EXCEPT ![b] = v]
  PROVE  /\ beat' \in [Beats -> Beat]
         /\ \A c \in Beats : beat'[c].phase = "save" => beat'[c].todo # {}
BY DEF TypeOK

LEMMA BeatFields ==
  ASSUME NEW v \in Beat
  PROVE  /\ v.at \in Times /\ v.todo \subseteq Schedules
         /\ v.phase \in {"idle", "fetch", "loop", "save"}
BY DEF Beat

LEMMA TypeNext == ASSUME TypeOK, [Next]_vars PROVE TypeOK'
<1>0. /\ MaxDeaths \in Nat /\ MaxEdits \in Nat /\ MaxTime \in Nat
  BY Bounds
<1>1. CASE Tick
  <2>1. now' \in Times
    BY <1>0, <1>1 DEF Tick, TypeOK, Times
  <2> QED BY <1>1, <2>1 DEF Tick, TypeOK, Rows, Editing
<1>2. ASSUME NEW b \in Beats, Start(b) PROVE TypeOK'
  <2>1. [Idle EXCEPT !.phase = "fetch", !.at = now] \in Beat
    BY <1>0 DEF Idle, Beat, TypeOK, Times
  <2> QED BY <1>2, <2>1, BeatUpdate DEF Start, TypeOK, Rows, Editing, Idle
<1>3. ASSUME NEW b \in Beats, Fetch(b) PROVE TypeOK'
  <2>1. PICK due : due = DueRows(beat[b].at)
    OBVIOUS
  <2>2. due \subseteq Schedules
    BY <2>1 DEF DueRows, TypeOK
  <2>3. [beat[b] EXCEPT !.phase = "loop", !.todo = due] \in Beat
    BY <2>2 DEF Beat, TypeOK
  <2>4. beat' = [beat EXCEPT ![b] = [beat[b] EXCEPT !.phase = "loop", !.todo = due]]
    BY <1>3, <2>1 DEF Fetch, TypeOK
  <2>5. overlap' \in [Schedules -> BOOLEAN]
    BY <1>3 DEF Fetch, TypeOK
  <2>6. behind' \subseteq Schedules
    BY <1>3 DEF Fetch, TypeOK
  <2>7. UNCHANGED <<now, row, form, runs, deaths, edits>>
    BY <1>3 DEF Fetch
  <2> QED BY <2>3, <2>4, <2>5, <2>6, <2>7, BeatUpdate, BeatFields DEF TypeOK, Rows, Editing, Beat
<1>4. ASSUME NEW b \in Beats, Return(b) PROVE TypeOK'
  <2>1. Idle \in Beat
    BY <1>0 DEF Idle, Beat, Times
  <2> QED BY <1>4, <2>1, BeatUpdate DEF Return, TypeOK, Rows, Editing, Idle
<1>5. ASSUME NEW b \in Beats, NEW o \in {"run", "refused", "raised"}, Submit(b, o)
      PROVE TypeOK'
  <2>1. PICK s \in Schedules : s = Current(b) /\ s \in beat[b].todo
    BY <1>5, CurrentIn DEF Submit
  <2>2. beat[b] \in Beat
    BY DEF TypeOK
  <2>3. runs' \in [Schedules -> Seq(Times)]
    BY <1>5, <2>1, <2>2, BeatFields DEF Submit, TypeOK
  <2>4. PICK v : v = [beat[b] EXCEPT !.phase = "save",
                                    !.todo = IF o = "raised" THEN {s} ELSE @]
    OBVIOUS
  <2>5. v \in Beat /\ v.todo # {}
    BY <2>1, <2>2, <2>4 DEF Beat
  <2>6. beat' = [beat EXCEPT ![b] = v]
    BY <1>5, <2>1, <2>4 DEF Submit, TypeOK
  <2>7. behind' \subseteq Schedules
    <3>1. beat[b].todo \subseteq Schedules
      BY <2>2 DEF Beat
    <3> QED BY <1>5, <3>1 DEF Submit, TypeOK
  <2>8. UNCHANGED <<now, row, form, overlap, deaths, edits>>
    BY <1>5 DEF Submit
  <2> QED BY <2>3, <2>5, <2>6, <2>7, <2>8, BeatUpdate DEF TypeOK, Rows, Editing
<1>6. ASSUME NEW b \in Beats, Save(b) PROVE TypeOK'
  <2>1. PICK s \in Schedules : s = Current(b) /\ s \in beat[b].todo
    BY <1>6, CurrentIn DEF Save, TypeOK
  <2>2. beat[b] \in Beat
    BY DEF TypeOK
  <2>3. PICK v : v = [beat[b] EXCEPT !.phase = "loop", !.todo = IF s \in Rows THEN @ \ {s} ELSE {}]
    OBVIOUS
  <2>4. v \in Beat /\ v.phase = "loop"
    BY <2>2, <2>3 DEF Beat
  <2>5. beat' = [beat EXCEPT ![b] = v]
    BY <1>6, <2>1, <2>3 DEF Save, TypeOK
  <2>6. row' \in [Rows -> Row] /\ DOMAIN row' = Rows
    <3>1. CASE s \in Rows
      <4>1. row[s] \in Row
        BY <3>1 DEF TypeOK
      <4>2. [row[s] EXCEPT !.last = beat[b].at] \in Row
        BY <2>2, <4>1, RowFields, BeatFields
      <4>3. row' = [row EXCEPT ![s] = [row[s] EXCEPT !.last = beat[b].at]]
        BY <1>6, <2>1, <3>1 DEF Save
      <4> QED BY <3>1, <4>2, <4>3, RowUpdate DEF TypeOK
    <3>2. CASE s \notin Rows
      BY <1>6, <2>1, <3>2 DEF Save, TypeOK, Rows
    <3> QED BY <3>1, <3>2
  <2> QED BY <1>6, <2>4, <2>5, <2>6, BeatUpdate DEF Save, TypeOK, Rows, Editing
<1>7. ASSUME NEW b \in Beats, Die(b) PROVE TypeOK'
  <2>1. Idle \in Beat
    BY <1>0 DEF Idle, Beat, Times
  <2>2. overlap' \in [Schedules -> BOOLEAN]
    BY <1>7 DEF Die, TypeOK
  <2>3. deaths' \in 0..MaxDeaths
    BY <1>0, <1>7 DEF Die, TypeOK
  <2> QED BY <1>7, <2>1, <2>2, <2>3, BeatUpdate DEF Die, TypeOK, Rows, Editing, Idle
<1>8. ASSUME NEW s \in Schedules, EditLoad(s) PROVE TypeOK'
  <2>1. form' \in [Editing \cup {s} -> Row] /\ DOMAIN form' = Editing \cup {s}
    BY <1>8 DEF EditLoad, TypeOK
  <2>2. edits' \in 0..MaxEdits
    BY <1>0, <1>8 DEF EditLoad, TypeOK
  <2> QED BY <1>8, <2>1, <2>2 DEF EditLoad, TypeOK, Rows, Editing
<1>9. ASSUME NEW s \in Schedules, NEW d \in BOOLEAN, EditSave(s, d) PROVE TypeOK'
  <2>1. DOMAIN form' \subseteq Schedules /\ form' \in [DOMAIN form' -> Row]
    BY <1>9 DEF EditSave, TypeOK, Editing
  <2>2. DOMAIN row' \subseteq Schedules /\ row' \in [DOMAIN row' -> Row]
    <3>1. CASE d
      BY <1>9, <3>1 DEF EditSave, TypeOK, Rows
    <3>2. CASE ~d
      <4>1. form[s] \in Row
        BY <1>9 DEF EditSave, TypeOK
      <4>2. [form[s] EXCEPT !.enabled = ~@] \in Row
        BY <4>1, RowFields
      <4>3. row' = [row EXCEPT ![s] = [form[s] EXCEPT !.enabled = ~@]]
        BY <1>9, <3>2 DEF EditSave
      <4> QED BY <1>9, <4>2, <4>3, RowUpdate DEF EditSave, TypeOK
    <3> QED BY <3>1, <3>2
  <2>3. overlap' \in [Schedules -> BOOLEAN]
    BY <1>9 DEF EditSave, TypeOK
  <2> QED BY <1>9, <2>1, <2>2, <2>3 DEF EditSave, TypeOK, Rows, Editing
<1>10. CASE UNCHANGED vars
  BY <1>10 DEF vars, TypeOK, Rows, Editing
<1> QED
  BY <1>1, <1>2, <1>3, <1>4, <1>5, <1>6, <1>7, <1>8, <1>9, <1>10 DEF Next, Dispatch

\* The type invariant holds of every reachable state.
THEOREM TypeCorrect == Spec => []TypeOK
<1>1. Init => TypeOK
  BY TypeInit
<1>2. TypeOK /\ [Next]_vars => TypeOK'
  BY TypeNext
<1> QED BY <1>1, <1>2, PTL DEF Spec

-----------------------------------------------------------------------------
(* SpacedOut. *)

Ran(s) == runs[s] # <<>>
LastRun(s) == runs[s][Len(runs[s])]
Saving(b, s) == Working(b, s) /\ beat[b].phase = "save" /\ s = Current(b)

\* What is known of a schedule that no two executions had at once: who has it, has it
\* alone; a run it is about to have, or has just had, comes when it may; and last_run_at is
\* never before its last run, unless that is yet to be saved.
Alone(s) == \A b, c \in Beats : Working(b, s) /\ Working(c, s) => b = c
Ready(s) == \A b \in Beats : Working(b, s) /\ ~Saving(b, s) /\ Ran(s) =>
              NextRun(s, LastRun(s)) <= beat[b].at
Submitted(s) == \A b \in Beats : Saving(b, s) /\ Ran(s) => LastRun(s) <= beat[b].at
Recorded(s) == s \in Rows /\ Ran(s) /\ (\A b \in Beats : ~Saving(b, s)) =>
                 row[s].last \in Times /\ LastRun(s) <= row[s].last
Spaced(s) == \A i \in 1..(Len(runs[s]) - 1) : NextRun(s, runs[s][i]) <= runs[s][i + 1]
Good(s) == overlap[s] \/ (Alone(s) /\ Ready(s) /\ Submitted(s) /\ Recorded(s) /\ Spaced(s))

IInv == TypeOK /\ \A s \in Schedules : Good(s)

LEMMA LastRunType ==
  ASSUME TypeOK, NEW s \in Schedules, Ran(s)
  PROVE  LastRun(s) \in Times /\ Len(runs[s]) \in Nat \ {0}
BY DEF TypeOK, Ran, LastRun

LEMMA AtType == ASSUME TypeOK, NEW b \in Beats PROVE beat[b].at \in Times
BY BeatFields DEF TypeOK

LEMMA TimesInt == Times \subseteq Int /\ None \notin Times
BY Bounds DEF Times, None

\* A step that gives nobody the schedule s, and leaves its runs and its row alone.
LEMMA Kept ==
  ASSUME TypeOK, NEW s \in Schedules, Good(s),
         overlap'[s] = overlap[s], runs'[s] = runs[s],
         s \in Rows' => s \in Rows /\ row'[s].last = row[s].last,
         \A b \in Beats : /\ Working(b, s)' => Working(b, s) /\ beat'[b].at = beat[b].at
                          /\ Working(b, s)' => (Saving(b, s)' <=> Saving(b, s))
                          /\ Saving(b, s) => Saving(b, s)'
  PROVE  Good(s)'
<1>1. CASE overlap[s]
  BY <1>1 DEF Good
<1>2. CASE ~overlap[s]
  <2>0. Alone(s) /\ Ready(s) /\ Submitted(s) /\ Recorded(s) /\ Spaced(s)
    BY <1>2 DEF Good
  <2>1. (Ran(s)' <=> Ran(s)) /\ LastRun(s)' = LastRun(s)
    BY DEF Ran, LastRun
  <2>2. Alone(s)'
    BY <2>0 DEF Alone
  <2>3. Ready(s)'
    BY <2>0, <2>1 DEF Ready, NextRun
  <2>4. Submitted(s)'
    BY <2>0, <2>1 DEF Submitted, Saving
  <2>5. Recorded(s)'
    BY <2>0, <2>1 DEF Recorded
  <2>6. Spaced(s)'
    BY <2>0 DEF Spaced, NextRun
  <2> QED BY <2>2, <2>3, <2>4, <2>5, <2>6 DEF Good
<1> QED BY <1>1, <1>2

\* It is enough that the executions whose value changes had not the schedule, or lose it.
LEMMA BeatKept ==
  ASSUME TypeOK, NEW s \in Schedules, NEW b \in Beats, NEW v,
         beat' = [beat EXCEPT ![b] = v],
         ~(v.phase \in {"loop", "save"} /\ s \in v.todo), ~Saving(b, s)
  PROVE  \A c \in Beats : /\ Working(c, s)' => Working(c, s) /\ beat'[c].at = beat[c].at
                          /\ Working(c, s)' => (Saving(c, s)' <=> Saving(c, s))
                          /\ Saving(c, s) => Saving(c, s)'
<1> SUFFICES ASSUME NEW c \in Beats
             PROVE  /\ Working(c, s)' => Working(c, s) /\ beat'[c].at = beat[c].at
                    /\ Working(c, s)' => (Saving(c, s)' <=> Saving(c, s))
                    /\ Saving(c, s) => Saving(c, s)'
  OBVIOUS
<1>1. CASE c = b
  <2>1. beat'[c] = v
    BY <1>1 DEF TypeOK
  <2>2. ~Working(c, s)'
    BY <2>1 DEF Working
  <2> QED BY <1>1, <2>2 DEF Saving
<1>2. CASE c # b
  <2>1. beat'[c] = beat[c]
    BY <1>2 DEF TypeOK
  <2>2. Current(c)' = Current(c)
    BY <2>1 DEF Current, First
  <2> QED BY <2>1, <2>2 DEF Working, Saving
<1> QED BY <1>1, <1>2

LEMMA InitGood == Init => \A s \in Schedules : Good(s)
<1> SUFFICES ASSUME Init, NEW s \in Schedules PROVE Good(s)
  OBVIOUS
<1>1. runs[s] = <<>> /\ \A b \in Beats : ~Working(b, s)
  BY DEF Init, Working, Idle
<1>2. ~Ran(s) /\ \A b \in Beats : ~Saving(b, s)
  BY <1>1 DEF Ran, Saving
<1>3. Spaced(s)
  BY <1>1 DEF Spaced
<1> QED BY <1>1, <1>2, <1>3 DEF Good, Alone, Ready, Submitted, Recorded

\* Due rows: the run that is to come is not early.
LEMMA FetchGood ==
  ASSUME TypeOK, NEW b \in Beats, Fetch(b), NEW s \in Schedules, Good(s)
  PROVE  Good(s)'
<1>1. PICK due : due = DueRows(beat[b].at)
  OBVIOUS
<1>2. PICK v : v = [beat[b] EXCEPT !.phase = "loop", !.todo = due]
  OBVIOUS
<1>3. beat' = [beat EXCEPT ![b] = v] /\ beat[b].phase = "fetch"
  BY <1>1, <1>2 DEF Fetch, TypeOK
<1>4. v.phase = "loop" /\ v.todo = due /\ v.at = beat[b].at
  BY <1>2 DEF TypeOK, Beat
<1>5. UNCHANGED <<now, row, form, runs, deaths, edits>>
  BY DEF Fetch
<1>6. ~Working(b, s) /\ ~Saving(b, s)
  BY <1>3 DEF Working, Saving
<1>7. CASE s \notin due
  <2>1. overlap'[s] = overlap[s]
    BY <1>1, <1>7 DEF Fetch, TypeOK
  <2> QED BY <1>3, <1>4, <1>5, <1>6, <1>7, <2>1, BeatKept, Kept DEF Rows
<1>8. CASE s \in due /\ ~overlap'[s]
  <2>1. ~overlap[s] /\ \A c \in Beats \ {b} : ~Working(c, s)
    BY <1>1, <1>8 DEF Fetch, TypeOK
  <2>2. \A c \in Beats : ~Working(c, s) /\ ~Saving(c, s)
    BY <1>6, <2>1 DEF Saving
  <2>3. Recorded(s) /\ Spaced(s)
    BY <2>1 DEF Good
  <2>4. \A c \in Beats : Working(c, s)' => c = b
    BY <1>3, <2>1 DEF Working, TypeOK
  <2>5. beat'[b] = v
    BY <1>3 DEF TypeOK
  <2>6. \A c \in Beats : ~Saving(c, s)'
    BY <1>4, <2>4, <2>5 DEF Saving
  <2>7. s \in Rows /\ IsDue(s, row[s].last, beat[b].at)
    BY <1>1, <1>8 DEF DueRows
  <2>8. Ran(s) => NextRun(s, LastRun(s)) <= beat[b].at
    <3> SUFFICES ASSUME Ran(s) PROVE NextRun(s, LastRun(s)) <= beat[b].at
      OBVIOUS
    <3>1. row[s].last \in Times /\ LastRun(s) <= row[s].last
      BY <2>2, <2>3, <2>7 DEF Recorded
    <3>2. LastRun(s) \in Times
      BY LastRunType
    <3>3. NextRun(s, LastRun(s)) <= NextRun(s, row[s].last)
      BY <3>1, <3>2, NextRunLater
    <3>4. NextRun(s, row[s].last) <= beat[b].at
      BY <2>7 DEF IsDue
    <3>5. NextRun(s, LastRun(s)) \in Int /\ NextRun(s, row[s].last) \in Int
      BY <3>1, <3>2, NextRunLater
    <3>6. beat[b].at \in Int
      BY AtType, TimesInt
    <3> QED BY <3>3, <3>4, <3>5, <3>6
  <2>9. (Ran(s)' <=> Ran(s)) /\ LastRun(s)' = LastRun(s)
    BY <1>5 DEF Ran, LastRun
  <2>10. Alone(s)' /\ Submitted(s)'
    BY <2>4, <2>6 DEF Alone, Submitted
  <2>11. Ready(s)'
    BY <1>4, <2>4, <2>5, <2>8, <2>9 DEF Ready, NextRun
  <2>12. Recorded(s)'
    BY <1>5, <2>2, <2>3, <2>9 DEF Recorded, Rows
  <2>13. Spaced(s)'
    BY <1>5, <2>3 DEF Spaced, NextRun
  <2> QED BY <2>10, <2>11, <2>12, <2>13 DEF Good
<1>9. CASE overlap'[s]
  BY <1>9 DEF Good
<1> QED BY <1>7, <1>8, <1>9

LEMMA OneFirst == ASSUME NEW s \in Schedules PROVE First({s}) = s
BY FirstIn

\* The run is not early, and from then on the execution is saving.
LEMMA SubmitGood ==
  ASSUME TypeOK, NEW b \in Beats, NEW o \in {"run", "refused", "raised"}, Submit(b, o),
         NEW s \in Schedules, Good(s)
  PROVE  Good(s)'
<1>1. PICK p \in Schedules : p = Current(b) /\ p \in beat[b].todo
  BY CurrentIn DEF Submit
<1>2. PICK v : v = [beat[b] EXCEPT !.phase = "save", !.todo = IF o = "raised" THEN {p} ELSE @]
  OBVIOUS
<1>3. beat' = [beat EXCEPT ![b] = v] /\ beat[b].phase = "loop" /\ overlap' = overlap /\ row' = row
  BY <1>1, <1>2 DEF Submit, TypeOK
<1>4. /\ v.phase = "save" /\ v.at = beat[b].at
      /\ v.todo = IF o = "raised" THEN {p} ELSE beat[b].todo
  BY <1>2 DEF TypeOK, Beat
<1>5. beat'[b] = v /\ \A c \in Beats \ {b} : beat'[c] = beat[c]
  BY <1>3 DEF TypeOK
<1>6. Current(b)' = p
  BY <1>1, <1>4, <1>5, OneFirst DEF Current, First
<1>7. \A c \in Beats \ {b} : (Working(c, s)' <=> Working(c, s)) /\ (Saving(c, s)' <=> Saving(c, s))
  BY <1>5 DEF Working, Saving, Current, First
<1>8. CASE s # p
  <2>1. runs'[s] = runs[s]
    BY <1>1, <1>8 DEF Submit, TypeOK
  <2>2. Working(b, s)' => Working(b, s)
    BY <1>3, <1>4, <1>5, <1>8 DEF Working
  <2>3. ~Saving(b, s) /\ ~Saving(b, s)'
    BY <1>1, <1>3, <1>6, <1>8 DEF Saving
  <2>4. \A c \in Beats : beat'[c].at = beat[c].at
    BY <1>4, <1>5
  <2> QED BY <1>3, <1>7, <2>1, <2>2, <2>3, <2>4, Kept DEF Rows
<1>9. CASE s = p /\ ~overlap[s]
  <2>1. Working(b, s) /\ ~Saving(b, s)
    BY <1>1, <1>3, <1>9 DEF Working, Saving
  <2>2. Alone(s) /\ Ready(s) /\ Spaced(s)
    BY <1>9 DEF Good
  <2>3. \A c \in Beats : Working(c, s) => c = b
    BY <2>1, <2>2 DEF Alone
  <2>4. Ran(s) => NextRun(s, LastRun(s)) <= beat[b].at
    BY <2>1, <2>2 DEF Ready
  <2>5. Working(b, s)' /\ Saving(b, s)'
    BY <1>4, <1>5, <1>6, <1>9, <1>1 DEF Working, Saving
  <2>6. \A c \in Beats : Working(c, s)' => c = b
    BY <1>7, <2>3
  <2>7. beat[b].at \in Times /\ beat'[b].at = beat[b].at
    BY <1>4, <1>5, AtType
  <2>8. Alone(s)' /\ Ready(s)' /\ Recorded(s)'
    BY <2>5, <2>6 DEF Alone, Ready, Recorded
  <2>9. Submitted(s)' /\ Spaced(s)'
    <3>1. CASE o = "run"
      <4>1. runs'[s] = Append(runs[s], beat[b].at) /\ runs[s] \in Seq(Times)
        BY <1>1, <1>9, <3>1 DEF Submit, TypeOK
      <4>2. /\ Len(runs'[s]) = Len(runs[s]) + 1 /\ Len(runs[s]) \in Nat
            /\ runs'[s][Len(runs[s]) + 1] = beat[b].at
            /\ \A i \in 1..Len(runs[s]) : runs'[s][i] = runs[s][i]
        BY <2>7, <4>1
      <4>3. LastRun(s)' = beat[b].at
        BY <4>2 DEF LastRun
      <4>4. Submitted(s)'
        <5>1. beat[b].at \in Int
          BY <2>7, TimesInt
        <5>2. beat[b].at <= beat[b].at
          BY <5>1
        <5>3. \A c \in Beats : Saving(c, s)' => c = b
          BY <2>6 DEF Saving
        <5> QED BY <2>7, <4>3, <5>2, <5>3 DEF Submitted
      <4>5. ASSUME NEW i \in 1..Len(runs[s]) PROVE NextRun(s, runs'[s][i]) <= runs'[s][i + 1]
        <5>1. CASE i = Len(runs[s])
          <6>1. Ran(s) /\ LastRun(s) = runs'[s][i]
            BY <4>2, <5>1 DEF Ran, LastRun
          <6> QED BY <2>4, <4>2, <5>1, <6>1
        <5>2. CASE i # Len(runs[s])
          <6>1. i \in 1..(Len(runs[s]) - 1) /\ i + 1 \in 1..Len(runs[s])
            BY <4>2, <5>2
          <6> QED BY <2>2, <4>2, <6>1 DEF Spaced
        <5> QED BY <5>1, <5>2
      <4>6. Spaced(s)'
        BY <4>2, <4>5 DEF Spaced, NextRun
      <4> QED BY <4>4, <4>6
    <3>2. CASE o # "run"
      <4>1. runs' = runs
        BY <3>2 DEF Submit
      <4>2. Spaced(s)'
        BY <2>2, <4>1 DEF Spaced, NextRun
      <4>3. Ran(s) => LastRun(s) <= beat[b].at
        <5> SUFFICES ASSUME Ran(s) PROVE LastRun(s) <= beat[b].at
          OBVIOUS
        <5>1. LastRun(s) \in Times
          BY LastRunType
        <5>2. NextRun(s, LastRun(s)) \in Int /\ LastRun(s) < NextRun(s, LastRun(s))
          BY <5>1, NextRunLater
        <5>3. NextRun(s, LastRun(s)) <= beat[b].at
          BY <2>4
        <5>4. beat[b].at \in Int /\ LastRun(s) \in Int
          BY <5>1, <2>7, TimesInt
        <5> QED BY <5>2, <5>3, <5>4
      <4>4. Submitted(s)'
        BY <2>6, <2>7, <4>1, <4>3 DEF Submitted, Saving, Ran, LastRun
      <4> QED BY <4>2, <4>4
    <3> QED BY <3>1, <3>2
  <2> QED BY <2>8, <2>9 DEF Good
<1>10. CASE overlap[s]
  BY <1>3, <1>10 DEF Good
<1> QED BY <1>8, <1>9, <1>10

\* last_run_at is now what the run was submitted at, or later.
LEMMA SaveGood ==
  ASSUME TypeOK, NEW b \in Beats, Save(b), NEW s \in Schedules, Good(s)
  PROVE  Good(s)'
<1>1. PICK p \in Schedules : p = Current(b) /\ p \in beat[b].todo
  BY CurrentIn DEF Save, TypeOK
<1>2. PICK v : v = [beat[b] EXCEPT !.phase = "loop", !.todo = IF p \in Rows THEN @ \ {p} ELSE {}]
  OBVIOUS
<1>3. beat' = [beat EXCEPT ![b] = v] /\ beat[b].phase = "save" /\ overlap' = overlap /\ runs' = runs
  BY <1>1, <1>2 DEF Save, TypeOK
<1>4. /\ v.phase = "loop" /\ v.at = beat[b].at
      /\ v.todo = IF p \in Rows THEN beat[b].todo \ {p} ELSE {}
  BY <1>2 DEF TypeOK, Beat
<1>5. beat'[b] = v /\ \A c \in Beats \ {b} : beat'[c] = beat[c]
  BY <1>3 DEF TypeOK
<1>6. Rows' = Rows /\ (s # p /\ s \in Rows => row'[s] = row[s])
  BY <1>1 DEF Save, TypeOK, Rows
<1>7. \A c \in Beats \ {b} : (Working(c, s)' <=> Working(c, s)) /\ (Saving(c, s)' <=> Saving(c, s))
  BY <1>5 DEF Working, Saving, Current, First
<1>8. ~Saving(b, s)'
  BY <1>4, <1>5 DEF Saving
<1>9. CASE s # p
  <2>1. Working(b, s)' => Working(b, s)
    BY <1>3, <1>4, <1>5 DEF Working
  <2>2. ~Saving(b, s)
    BY <1>1, <1>9 DEF Saving
  <2>3. \A c \in Beats : beat'[c].at = beat[c].at
    BY <1>4, <1>5
  <2> QED BY <1>3, <1>6, <1>7, <1>8, <1>9, <2>1, <2>2, <2>3, Kept
<1>10. CASE s = p /\ ~overlap[s]
  <2>1. Saving(b, s) /\ Working(b, s)
    BY <1>1, <1>3, <1>10 DEF Saving, Working
  <2>2. Alone(s) /\ Submitted(s) /\ Spaced(s)
    BY <1>10 DEF Good
  <2>3. \A c \in Beats : ~Working(c, s)'
    BY <1>4, <1>5, <1>7, <1>10, <2>1, <2>2 DEF Alone, Working
  <2>4. Alone(s)' /\ Ready(s)' /\ Submitted(s)'
    BY <2>3 DEF Alone, Ready, Submitted, Saving
  <2>5. Spaced(s)'
    BY <1>3, <2>2 DEF Spaced, NextRun
  <2>6. (Ran(s)' <=> Ran(s)) /\ LastRun(s)' = LastRun(s)
    BY <1>3 DEF Ran, LastRun
  <2>7. s \in Rows => row'[s].last = beat[b].at
    BY <1>1, <1>10 DEF Save, TypeOK, Row
  <2>8. Recorded(s)'
    BY <1>6, <2>1, <2>2, <2>6, <2>7, AtType DEF Recorded, Submitted
  <2> QED BY <2>4, <2>5, <2>8 DEF Good
<1>11. CASE overlap[s]
  BY <1>3, <1>11 DEF Good
<1> QED BY <1>9, <1>10, <1>11

LEMMA DieGood ==
  ASSUME TypeOK, NEW b \in Beats, Die(b), NEW s \in Schedules, Good(s)
  PROVE  Good(s)'
<1>1. beat' = [beat EXCEPT ![b] = Idle] /\ UNCHANGED <<row, runs>>
  BY DEF Die
<1>2. CASE Saving(b, s)
  BY <1>2 DEF Die, Saving, TypeOK, Good
<1>3. CASE ~Saving(b, s)
  <2>1. CASE overlap'[s] = overlap[s]
    <3>1. ~(Idle.phase \in {"loop", "save"})
      BY DEF Idle
    <3> QED BY <1>1, <1>3, <2>1, <3>1, BeatKept, Kept DEF Rows
  <2>2. CASE overlap'[s] # overlap[s]
    BY <2>2 DEF Die, TypeOK, Good
  <2> QED BY <2>1, <2>2
<1> QED BY <1>2, <1>3

\* An edit leaves last_run_at as it is, or overlap says so.
LEMMA EditGood ==
  ASSUME TypeOK, NEW e \in Schedules, NEW d \in BOOLEAN, EditSave(e, d),
         NEW s \in Schedules, Good(s)
  PROVE  Good(s)'
<1>1. UNCHANGED <<beat, runs>> /\ e \in Rows
  BY DEF EditSave
<1>2. \A c \in Beats : /\ (Working(c, s)' <=> Working(c, s)) /\ (Saving(c, s)' <=> Saving(c, s))
                       /\ beat'[c].at = beat[c].at
  BY <1>1 DEF Working, Saving, Current, First
<1>3. CASE overlap'[s] # overlap[s]
  BY <1>3 DEF EditSave, TypeOK, Good
<1>4. CASE overlap'[s] = overlap[s]
  <2>1. CASE overlap[s]
    BY <1>4, <2>1 DEF Good
  <2>2. CASE ~overlap[s]
    <3>1. s = e => form[s].last = row[s].last
      BY <1>4, <2>2 DEF EditSave, TypeOK
    <3>2. s \in Rows' => s \in Rows /\ row'[s].last = row[s].last
      <4>1. CASE d
        BY <4>1 DEF EditSave, Rows
      <4>2. CASE ~d
        <5>1. row' = [row EXCEPT ![e] = [form[e] EXCEPT !.enabled = ~@]]
          BY <4>2 DEF EditSave
        <5>2. form[e] \in Row
          BY DEF EditSave, TypeOK
        <5>3. [form[e] EXCEPT !.enabled = ~@].last = form[e].last
          BY <5>2 DEF Row
        <5> QED BY <1>1, <3>1, <5>1, <5>3 DEF Rows, TypeOK
      <4> QED BY <4>1, <4>2
    <3> QED BY <1>1, <1>2, <1>4, <3>2, Kept
  <2> QED BY <2>1, <2>2
<1> QED BY <1>3, <1>4

LEMMA NextGood ==
  ASSUME TypeOK, [Next]_vars, NEW s \in Schedules, Good(s)
  PROVE  Good(s)'
<1>1. ASSUME UNCHANGED <<row, beat, runs, overlap>> PROVE Good(s)'
  <2>1. \A c \in Beats : (Working(c, s)' <=> Working(c, s)) /\ (Saving(c, s)' <=> Saving(c, s))
    BY <1>1 DEF Working, Saving, Current, First
  <2> QED BY <1>1, <2>1, Kept DEF Rows
<1>2. CASE Tick
  BY <1>1, <1>2 DEF Tick
<1>3. ASSUME NEW b \in Beats, Start(b) PROVE Good(s)'
  <2>1. [Idle EXCEPT !.phase = "fetch", !.at = now].phase = "fetch"
    BY DEF Idle
  <2>2. ~Saving(b, s)
    BY <1>3 DEF Start, Saving
  <2> QED BY <1>3, <2>1, <2>2, BeatKept, Kept DEF Start, Rows
<1>4. ASSUME NEW b \in Beats, Return(b) PROVE Good(s)'
  <2>1. Idle.phase = "idle"
    BY DEF Idle
  <2>2. ~Saving(b, s)
    BY <1>4 DEF Return, Saving
  <2> QED BY <1>4, <2>1, <2>2, BeatKept, Kept DEF Return, Rows
<1>5. ASSUME NEW e \in Schedules, EditLoad(e) PROVE Good(s)'
  BY <1>1, <1>5 DEF EditLoad
<1>6. CASE UNCHANGED vars
  BY <1>1, <1>6 DEF vars
<1> QED
  BY <1>2, <1>3, <1>4, <1>5, <1>6, FetchGood, SubmitGood, SaveGood, DieGood, EditGood
     DEF Next, Dispatch

\* Runs of a schedule are never closer than it says, whatever the number of executions,
\* schedules and edits, unless overlap says otherwise.
THEOREM RunsSpacedOut == Spec => []SpacedOut
<1>1. Init => IInv
  BY TypeInit, InitGood DEF IInv
<1>2. IInv /\ [Next]_vars => IInv'
  <2> SUFFICES ASSUME IInv, [Next]_vars PROVE IInv'
    OBVIOUS
  <2>1. TypeOK' /\ \A s \in Schedules : Good(s)'
    BY TypeNext, NextGood DEF IInv
  <2> QED BY <2>1 DEF IInv
<1>3. IInv => SpacedOut
  BY DEF IInv, Good, Spaced, SpacedOut
<1> QED BY <1>1, <1>2, <1>3, PTL DEF Spec
=============================================================================
