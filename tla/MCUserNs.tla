------------------------------ MODULE MCUserNs ------------------------------
(* Small instances of the user namespace model for TLC. *)
EXTENDS UserNs, TLC

\* Addresses of one cache are interchangeable, and so are tasks.
Symmetry == Permutations(Cred) \cup Permutations(Ns) \cup Permutations(Task)
=============================================================================
