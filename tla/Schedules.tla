----------------------------- MODULE Schedules -----------------------------
(***************************************************************************)
(* The schedule dispatcher: dispatch_scheduled, which Celery beat sends    *)
(* every 60 s and any Celery process runs, over the RemoteJobSchedule      *)
(* rows, which people edit meanwhile.                                      *)
(*                                                                         *)
(* Limitations: a submitted run is only counted (Placement and Dispatch    *)
(* have what becomes of it); a deleted row does not come back.             *)
(***************************************************************************)
EXTENDS Integers, Sequences

CONSTANTS
  Schedules,
  Rank,       \* the order of the rows: by name
  Interval,   \* once, every (hourly, daily, weekly) or custom
  Every,      \* the length of an interval
  CronNext,   \* croniter's get_next: the next match strictly after a time
  Unreadable, \* five fields, and yet no crontab for croniter
  StartTime,
  Beats,      \* as many executions of the task as may go on at once
  MaxTime,    \* bound: the clock stops here, the beats do not
  MaxDeaths,  \* bound: executions that die with their process
  MaxEdits    \* bound: rows enabled, disabled or deleted

Times == 0..MaxTime
Never == MaxTime + 1
None == -1   \* last_run_at of a schedule that has not run

ASSUME SchedulesAssumption ==
  /\ MaxTime \in Nat /\ MaxDeaths \in Nat /\ MaxEdits \in Nat
  /\ Rank \in [Schedules -> Nat] /\ \A s, p \in Schedules : Rank[s] = Rank[p] => s = p
  /\ Interval \in [Schedules -> {"once", "every", "custom"}]
  /\ Every \in [Schedules -> Nat \ {0}] /\ StartTime \in [Schedules -> Times]
  /\ CronNext \in [Schedules -> [Times -> 1..Never]]
  /\ \A s \in Schedules, t \in Times : t < CronNext[s][t]
  /\ \A s \in Schedules, t, u \in Times : t <= u => CronNext[s][t] <= CronNext[s][u]
  /\ Unreadable \subseteq {s \in Schedules : Interval[s] = "custom"}

VARIABLES
  now,
  row,     \* the rows there are: enabled, last_run_at
  beat,    \* the executions: their now, the due rows they have yet to submit
  form,    \* a request to edit a row: the row as it loaded it
  runs,    \* the minutes a schedule submitted runs at
  overlap, \* two executions had the schedule at once, one died with it half done,
           \* or an edit put an old last_run_at back
  behind,  \* the due rows that were left when the submission of one before them raised, and
           \* that no execution has picked up since
  deaths, edits

vars == <<now, row, beat, form, runs, overlap, behind, deaths, edits>>

-----------------------------------------------------------------------------
(* When a schedule is due (models/schedules.py). *)

NextRun(s, last) ==
  IF last = None THEN IF Interval[s] = "custom" THEN CronNext[s][StartTime[s]] ELSE StartTime[s]
  ELSE CASE Interval[s] = "once" -> Never
         [] Interval[s] = "custom" -> CronNext[s][last]
         [] OTHER -> last + Every[s]

\* Anchored at start_time for good.
IsDue_FromStart(s, last, t) == StartTime[s] <= t /\ NextRun(s, None) <= t

IsDue(s, last, t) == StartTime[s] <= t /\ NextRun(s, last) <= t

\* croniter is asked only once start_time has come, and then it raises.
Raises(s, t) == s \in Unreadable /\ StartTime[s] <= t

-----------------------------------------------------------------------------
Row == [enabled: BOOLEAN, last: Times \cup {None}]
Idle == [phase |-> "idle", at |-> 0, todo |-> {}]
Beat == [phase: {"idle", "fetch", "loop", "save"}, at: Times, todo: SUBSET Schedules]

Rows == DOMAIN row
Editing == DOMAIN form

TypeOK ==
  /\ now \in Times
  /\ Rows \subseteq Schedules /\ row \in [Rows -> Row]
  /\ beat \in [Beats -> Beat]
  /\ \A b \in Beats : beat[b].phase = "save" => beat[b].todo # {}
  /\ Editing \subseteq Schedules /\ form \in [Editing -> Row]
  /\ runs \in [Schedules -> Seq(Times)]
  /\ overlap \in [Schedules -> BOOLEAN] /\ behind \subseteq Schedules
  /\ deaths \in 0..MaxDeaths /\ edits \in 0..MaxEdits

Init ==
  /\ now = 0
  /\ row = [s \in Schedules |-> [enabled |-> TRUE, last |-> None]]
  /\ beat = [b \in Beats |-> Idle]
  /\ form = <<>>
  /\ runs = [s \in Schedules |-> <<>>]
  /\ overlap = [s \in Schedules |-> FALSE] /\ behind = {}
  /\ deaths = 0 /\ edits = 0

Tick == now < MaxTime /\ now' = now + 1
        /\ UNCHANGED <<row, beat, form, runs, overlap, behind, deaths, edits>>

-----------------------------------------------------------------------------
(* An execution of dispatch_scheduled. *)

Working(b, s) == beat[b].phase \in {"loop", "save"} /\ s \in beat[b].todo
First(ss) == CHOOSE s \in ss : \A p \in ss : Rank[s] <= Rank[p]
Current(b) == First(beat[b].todo)

\* now is read before the rows are.
Start(b) ==
  /\ beat[b].phase = "idle"
  /\ beat' = [beat EXCEPT ![b] = [Idle EXCEPT !.phase = "fetch", !.at = now]]
  /\ UNCHANGED <<now, row, form, runs, overlap, behind, deaths, edits>>

\* One query, and every row is judged as it was read then: the due ones, as far as the
\* first whose crontab is unreadable, where the exception ends the execution.
DueRows_FromNow(t) ==   \* "next" taken from now on: a time that never comes
  {s \in Rows : /\ row[s].enabled /\ IsDue(s, row[s].last, t)
                /\ Interval[s] = "custom" => CronNext[s][t] <= t}

DueRows(t) ==
  {s \in Rows : /\ row[s].enabled /\ IsDue(s, row[s].last, t)
                /\ \A p \in Rows : row[p].enabled /\ Raises(p, t) => Rank[s] < Rank[p]}

Fetch(b) ==
  /\ beat[b].phase = "fetch"
  /\ LET due == DueRows(beat[b].at) IN
     /\ beat' = [beat EXCEPT ![b].phase = "loop", ![b].todo = due]
     /\ overlap' = [s \in Schedules |->
                      overlap[s] \/ (s \in due /\ \E c \in Beats \ {b} : Working(c, s))]
     /\ behind' = behind \ due
  /\ UNCHANGED <<now, row, form, runs, deaths, edits>>

Return(b) ==
  /\ beat[b].phase = "loop" /\ beat[b].todo = {}
  /\ beat' = [beat EXCEPT ![b] = Idle]
  /\ UNCHANGED <<now, row, form, runs, overlap, behind, deaths, edits>>

\* submit_run, a transaction of its own: a run, SubmissionError, or any other exception,
\* after which last_run_at is saved and the rest of the rows are left.
Submit(b, outcome) ==
  /\ beat[b].phase = "loop" /\ beat[b].todo # {}
  /\ runs' = IF outcome = "run" THEN [runs EXCEPT ![Current(b)] = Append(@, beat[b].at)]
             ELSE runs
  /\ beat' = [beat EXCEPT ![b].phase = "save",
                ![b].todo = IF outcome = "raised" THEN {Current(b)} ELSE @]
  /\ behind' = IF outcome = "raised" THEN behind \cup (beat[b].todo \ {Current(b)}) ELSE behind
  /\ UNCHANGED <<now, row, form, overlap, deaths, edits>>

\* A row deleted meanwhile cannot be saved: that too ends the execution.
Save(b) ==
  /\ beat[b].phase = "save"
  /\ LET s == Current(b) IN
     /\ row' = IF s \in Rows THEN [row EXCEPT ![s].last = beat[b].at] ELSE row
     /\ beat' = [beat EXCEPT ![b].phase = "loop",
                   ![b].todo = IF s \in Rows THEN @ \ {s} ELSE {}]
  /\ UNCHANGED <<now, form, runs, overlap, behind, deaths, edits>>

\* The process is killed; the task was acknowledged when it began and is not run again.
Die(b) ==
  /\ beat[b].phase # "idle" /\ deaths < MaxDeaths
  /\ deaths' = deaths + 1
  /\ overlap' = IF beat[b].phase = "save" THEN [overlap EXCEPT ![Current(b)] = TRUE] ELSE overlap
  /\ beat' = [beat EXCEPT ![b] = Idle]
  /\ UNCHANGED <<now, row, form, runs, behind, edits>>

-----------------------------------------------------------------------------
(* Requests of the UI and of the REST API. *)

EditLoad(s) ==
  /\ s \in Rows /\ s \notin Editing /\ edits < MaxEdits
  /\ edits' = edits + 1
  /\ form' = [p \in Editing \cup {s} |-> IF p = s THEN row[s] ELSE form[p]]
  /\ UNCHANGED <<now, row, beat, runs, overlap, behind, deaths>>

\* All fields are saved, last_run_at as it was loaded; or the row is deleted.
EditSave(s, delete) ==
  /\ s \in Editing /\ s \in Rows
  /\ form' = [p \in Editing \ {s} |-> form[p]]
  /\ row' = IF delete THEN [p \in Rows \ {s} |-> row[p]]
            ELSE [row EXCEPT ![s] = [form[s] EXCEPT !.enabled = ~@]]
  /\ overlap' = IF form[s].last # row[s].last THEN [overlap EXCEPT ![s] = TRUE] ELSE overlap
  /\ UNCHANGED <<now, beat, runs, behind, deaths, edits>>

-----------------------------------------------------------------------------
Dispatch(b) == \/ Start(b) \/ Fetch(b) \/ Return(b) \/ Save(b)
               \/ \E outcome \in {"run", "refused", "raised"} : Submit(b, outcome)

Next == \/ Tick \/ (\E b \in Beats : Dispatch(b) \/ Die(b))
        \/ \E s \in Schedules : EditLoad(s) \/ \E delete \in BOOLEAN : EditSave(s, delete)

Spec == Init /\ [][Next]_vars
\* Celery beat goes on sending the task, and an execution goes on.
FairSpec == Spec /\ \A b \in Beats : WF_vars(Dispatch(b))

-----------------------------------------------------------------------------
(* Properties. *)

\* A schedule's runs are as far apart as it says, and a schedule for once has one, unless
\* two executions had it at once, one died between the run and the save of last_run_at, or
\* an edit undid the save (dispatch_scheduled, is_due).
SpacedOut == \A s \in Schedules :
  overlap[s] \/ \A i \in 1..(Len(runs[s]) - 1) : NextRun(s, runs[s][i]) <= runs[s][i + 1]

\* A due schedule has its turn: it stops being due, for it was submitted or at least tried,
\* or someone took it out of the way.  There are two exceptions, schedules before it by name.
\* One has a crontab that ends every execution.  Or the submission of one raised something
\* other than SubmissionError (a device id that is no UUID, say), which ends the execution
\* after its last_run_at is saved.  The next execution that picks the schedule up owes it a
\* turn anew: it waits for ever only if such submissions end one execution after the other,
\* which a schedule for every minute does.  Executions that die are few here (MaxDeaths;
\* dispatch_scheduled, clean, submit_run).
Due(s) == s \in Rows /\ row[s].enabled /\ s \notin Unreadable /\ IsDue(s, row[s].last, now)
Blocked(s) == \E p \in Rows : row[p].enabled /\ Raises(p, now) /\ Rank[p] < Rank[s]
DueSubmitted == \A s \in Schedules : Due(s) ~> (~Due(s) \/ Blocked(s) \/ s \in behind)
=============================================================================
