------------------------------ MODULE MCClient ------------------------------
(* Client for TLC: tabs, slots and sessions are interchangeable.           *)
EXTENDS Client, TLC

Symmetry == Permutations(Tab) \cup Permutations(Slot) \cup Permutations(Sid)

=============================================================================
