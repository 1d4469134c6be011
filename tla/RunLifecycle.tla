----------------------------- MODULE RunLifecycle -----------------------------
(***************************************************************************)
(* What the dispatch engine promises of one run (SPEC.md 6.1): the states  *)
(* it may pass through, and that only losing a claim starts a new attempt, *)
(* at most RetryMax times.  No workers, leases, tokens or transactions:    *)
(* Dispatch is shown to implement it.                                      *)
(***************************************************************************)
EXTENDS RunStates, Integers

CONSTANTS Runs, RetryMax

VARIABLES state, attempt

lvars == <<state, attempt>>

Init == /\ state = [r \in Runs |-> "PENDING"]
        /\ attempt = [r \in Runs |-> 1]

Move(r, from, to) ==
  /\ state[r] \in from
  /\ state' = [state EXCEPT ![r] = to]
  /\ UNCHANGED attempt

Claim(r) == Move(r, {"PENDING"}, "CLAIMED")
Start(r) == Move(r, {"CLAIMED"}, "RUNNING")
Finish(r) == \E s \in CompletionStates : Move(r, ActiveStates, s)
Withdraw(r) == \E s \in {"CANCELLED", "FAILED_DISPATCH"} : Move(r, {"PENDING"}, s)

\* A lost claim is retried while attempts are left and is final after that.
Lose(r) ==
  \/ attempt[r] > RetryMax[r] /\ Move(r, ActiveStates, "ABANDONED")
  \/ /\ attempt[r] <= RetryMax[r] /\ state[r] \in ActiveStates
     /\ state' = [state EXCEPT ![r] = "PENDING"]
     /\ attempt' = [attempt EXCEPT ![r] = @ + 1]

Next == \E r \in Runs : Claim(r) \/ Start(r) \/ Finish(r) \/ Withdraw(r) \/ Lose(r)

Spec == Init /\ [][Next]_lvars
=============================================================================
