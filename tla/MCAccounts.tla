----------------------------- MODULE MCAccounts -----------------------------
(* Accounts for TLC: pending tokens are interchangeable.                   *)
EXTENDS Accounts, TLC

Symmetry == Permutations(Pid)

=============================================================================
