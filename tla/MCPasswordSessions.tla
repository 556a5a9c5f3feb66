------------------------- MODULE MCPasswordSessions -------------------------
(* Small instances of PasswordSessions.                                    *)
EXTENDS PasswordSessions, TLC

Symmetry == Permutations(Sid) \cup Permutations(Worker)

=============================================================================
