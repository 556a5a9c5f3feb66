----------------------------- MODULE MCSessions -----------------------------
(* Small instances of Sessions.                                            *)
EXTENDS Sessions, TLC

(* Users, session ids and workers are interchangeable.                     *)
Symmetry == Permutations(Sid) \cup Permutations(Worker) \cup Permutations(User)

=============================================================================
