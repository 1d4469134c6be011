------------------------------ MODULE RunStates ------------------------------
(***************************************************************************)
(* The state machine of a RemoteJobRun: choices.RunStateChoices, the       *)
(* LEGAL_TRANSITIONS table of models/runs.py and the table that mirrors a  *)
(* run's state into its core JobResult.  Constant-level: every module that *)
(* handles runs EXTENDS this one.                                          *)
(***************************************************************************)

\* choices.py RunStateChoices.CHOICES.  Nothing in the code ever writes OFFERED.
RunState == {"PENDING", "OFFERED", "CLAIMED", "RUNNING", "SUCCESS", "FAILURE",
             "TERMINATED", "ABANDONED", "CANCELLED", "FAILED_DISPATCH"}

\* RunStateChoices.TERMINAL_STATES
TerminalStates == {"SUCCESS", "FAILURE", "TERMINATED", "CANCELLED", "FAILED_DISPATCH"}

\* The states in which a worker holds the run: the filter
\* state__in=[CLAIMED, RUNNING] of claims.py, reaper.py and workers.py.
ActiveStates == {"CLAIMED", "RUNNING"}

\* RemoteJobRun.is_terminal, which also counts ABANDONED.
IsTerminal(s) == s \in TerminalStates \cup {"ABANDONED"}

\* What complete_run accepts as the reported state.
CompletionStates == {"SUCCESS", "FAILURE", "TERMINATED"}

\* models/runs.py LEGAL_TRANSITIONS
LegalTransitions ==
  [s \in RunState |->
     CASE s = "PENDING"   -> {"OFFERED", "CLAIMED", "CANCELLED", "FAILED_DISPATCH"}
       [] s = "OFFERED"   -> {"CLAIMED", "PENDING", "CANCELLED"}
       [] s = "CLAIMED"   -> {"RUNNING", "PENDING", "ABANDONED", "TERMINATED"}
       [] s = "RUNNING"   -> {"SUCCESS", "FAILURE", "TERMINATED", "ABANDONED"}
       [] s = "ABANDONED" -> {"PENDING"}
       [] OTHER           -> {}]

\* RemoteJobRun.can_transition_to
CanTransition(s, new) == new \in LegalTransitions[s]

\* core JobResultStatusChoices, the four values the mirror writes
JobResultStatus == {"PENDING", "STARTED", "SUCCESS", "FAILURE", "REVOKED"}

\* STATE_TO_JOB_RESULT_STATUS
StatusOf(s) ==
  CASE s \in {"PENDING", "OFFERED", "CLAIMED"}            -> "PENDING"
    [] s = "RUNNING"                                      -> "STARTED"
    [] s = "SUCCESS"                                      -> "SUCCESS"
    [] s \in {"FAILURE", "CANCELLED", "FAILED_DISPATCH"}  -> "FAILURE"
    [] s \in {"TERMINATED", "ABANDONED"}                  -> "REVOKED"
=============================================================================
