--------------------------- MODULE ModuleLifetime ---------------------------
(***************************************************************************)
(* What the hook engine promises the kernel ("rmmod safety" in             *)
(* glue/shadow_hook.h), with nothing of how it keeps the promise: calls    *)
(* enter and leave the text of the module, and the text is freed only      *)
(* while no call is inside.  There is no reference count, probe, lock or   *)
(* flag here; HookEngine has them and implements this specification.       *)
(***************************************************************************)
CONSTANT Call      \* call contexts

VARIABLES
  text,            \* "loaded" or "freed"
  inside           \* the calls that execute module text

vars == <<text, inside>>

Init == text = "loaded" /\ inside = {}

Enter(c) ==
  /\ text = "loaded" /\ c \notin inside
  /\ inside' = inside \cup {c} /\ UNCHANGED text

Leave(c) ==
  /\ c \in inside
  /\ inside' = inside \ {c} /\ UNCHANGED text

Free ==
  /\ text = "loaded" /\ inside = {}
  /\ text' = "freed" /\ UNCHANGED inside

Load ==
  /\ text = "freed" /\ inside = {}
  /\ text' = "loaded" /\ UNCHANGED inside

Next == (\E c \in Call : Enter(c) \/ Leave(c)) \/ Free \/ Load

Spec == Init /\ [][Next]_vars
=============================================================================
