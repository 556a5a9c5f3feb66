------------------------------- MODULE MCOtp -------------------------------
(* Otp for TLC: challenges, workers and identifiers are interchangeable.   *)
EXTENDS Otp, TLC

Symmetry == Permutations(Cid) \cup Permutations(Worker) \cup Permutations(Identifier)

=============================================================================
