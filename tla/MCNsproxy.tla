----------------------------- MODULE MCNsproxy -----------------------------
(* Small instances of the nsproxy model for TLC. *)
EXTENDS Nsproxy, TLC

CONSTANTS a, b, c, g1, g2, n1, n2, n3, f1

TwoProcesses == (a :> g1) @@ (b :> g2)
TwoThreads == (a :> g1) @@ (b :> g1)

\* Proxies of one cache are interchangeable.
NsSymmetry == Permutations(Ns)
=============================================================================
