----------------------------- MODULE MCChecker -----------------------------
(* The checker's tests for TLC. *)
EXTENDS Checker

\* Every test of main(), in its order.
AllTests == mainTests
=============================================================================
