------------------------------- MODULE MCLeader -------------------------------
(* Instances of Leader for TLC. *)
EXTENDS Leader, TLC

CONSTANTS c1, c2, l1, l2

Versions == [c \in Client |-> IF c = c2 THEN 2 ELSE 3]
\* Leaders differ in nothing until one starts.
Leaders == Permutations(Leader)
=============================================================================
