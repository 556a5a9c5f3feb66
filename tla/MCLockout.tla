----------------------------- MODULE MCLockout -----------------------------
(* Lockout for TLC: workers, addresses and identifiers are interchangeable. *)
EXTENDS Lockout, TLC

Symmetry == Permutations(Worker) \cup Permutations(Identifier)
               \cup Permutations(Ip)

=============================================================================
