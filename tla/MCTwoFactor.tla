---------------------------- MODULE MCTwoFactor ----------------------------
(* TwoFactor for TLC: rows, tokens and workers are interchangeable.        *)
EXTENDS TwoFactor, TLC

Symmetry == Permutations(Worker) \cup Permutations(Pid) \cup Permutations(Rid)
               \cup Permutations(Did) \cup Permutations(Cid)

=============================================================================
