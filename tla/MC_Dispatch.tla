----------------------------- MODULE MC_Dispatch -----------------------------
(* Instances of Dispatch for TLC.  Two runs of one singleton definition, or of *)
(* two definitions; the lower-numbered run was queued first.                   *)
EXTENDS Dispatch, TLC

CONSTANTS r1, r2, r3

OneDefinition == [r \in Runs |-> "d"]
OwnDefinition == [r \in Runs |-> r]
RetryOnce == [r \in Runs |-> 1]
RetryFirst == [r \in Runs |-> IF r = r1 THEN 1 ELSE 0]
Position == [r \in Runs |-> IF r = r1 THEN 1 ELSE 2]
AllRuns == [w \in Workers |-> Runs]
TwoSlots == [w \in Workers |-> 2]

Symmetry == Permutations(Workers) \cup Permutations(Threads)
ThreadSymmetry == Permutations(Threads)
=============================================================================
