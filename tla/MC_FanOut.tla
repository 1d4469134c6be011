------------------------------ MODULE MC_FanOut ------------------------------
(* Instances of FanOut for TLC: two children, the first of which may retry.  *)
EXTENDS FanOut

CONSTANTS c1, c2

RetryFirst == [c \in Children |-> IF c = c1 THEN 1 ELSE 0]
=============================================================================
