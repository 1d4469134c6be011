----------------------------- MODULE MC_Sessions -----------------------------
(* Two agents that were given the same token, under names of their own. *)
EXTENDS Sessions, TLC

CONSTANTS a1, a2, t1, n1, n2

SharedToken == (a1 :> t1 @@ a2 :> t1)
OwnNames == (a1 :> n1 @@ a2 :> n2)
=============================================================================
