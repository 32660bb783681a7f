---------------------------- MODULE MCHookEngine ----------------------------
(* A small instance of the hook engine for TLC.                            *)
EXTENDS HookEngine
=============================================================================
