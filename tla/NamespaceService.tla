-------------------------- MODULE NamespaceService --------------------------
(***************************************************************************)
(* What the module promises the kernel about the namespace objects it      *)
(* allocates, with nothing of how it keeps the promise: a task is only ever*)
(* on an object that is allocated, an object goes only when no task is on  *)
(* it, a stop that has closed the service sees no object appear, and the   *)
(* service stops, or leaves memory, only with every object gone.           *)
(*                                                                         *)
(* There is no reference count, set, registry, queue, table or RCU here.   *)
(* Nsproxy implements this specification for struct nsproxy, UserNs for    *)
(* struct user_namespace.                                                  *)
(***************************************************************************)
CONSTANTS
  Task,
  Ns,      \* objects the service can allocate
  None     \* a task that is on no object of the service

VARIABLES
  phase,   \* "open", "closed" (a stop is deciding), "stopped", "removed"
  live,    \* the allocated objects
  user     \* the object a task is on

vars == <<phase, live, user>>

Init == phase = "open" /\ live = {} /\ user = [t \in Task |-> None]

Unused(n) == \A t \in Task : user[t] # n

Create(n) ==
  /\ phase = "open" /\ n \notin live
  /\ live' = live \cup {n} /\ UNCHANGED <<phase, user>>

\* A task changes to an object, or leaves the one it is on.
Use(t, n) ==
  /\ phase \in {"open", "closed"} /\ n \in live \cup {None}
  /\ user' = [user EXCEPT ![t] = n] /\ UNCHANGED <<phase, live>>

Release(n) ==
  /\ n \in live /\ Unused(n)
  /\ live' = live \ {n} /\ UNCHANGED <<phase, user>>

\* A clone fails: its child goes together with the object built for it.
Discard(c, n) ==
  /\ n \in live /\ Unused(n)
  /\ live' = live \ {n} /\ user' = [user EXCEPT ![c] = None] /\ UNCHANGED phase

Close  == phase = "open" /\ phase' = "closed" /\ UNCHANGED <<live, user>>
Reopen == phase = "closed" /\ phase' = "open" /\ UNCHANGED <<live, user>>

Stop ==
  /\ phase \in {"open", "closed"} /\ live = {}
  /\ phase' = "stopped" /\ UNCHANGED <<live, user>>

Start == phase = "stopped" /\ phase' = "open" /\ UNCHANGED <<live, user>>

Remove ==
  /\ phase \in {"open", "stopped"} /\ live = {}
  /\ phase' = "removed" /\ UNCHANGED <<live, user>>

Next ==
  \/ \E n \in Ns : Create(n) \/ Release(n)
  \/ \E t \in Task, n \in Ns \cup {None} : Use(t, n)
  \/ \E c \in Task, n \in Ns : Discard(c, n)
  \/ Close \/ Reopen \/ Stop \/ Start \/ Remove

Spec == Init /\ [][Next]_vars
=============================================================================
