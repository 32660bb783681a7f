------------------------------ MODULE Nsproxy ------------------------------
(***************************************************************************)
(* The life of vendored struct nsproxy objects: vendor/kernel/nsproxy.c,   *)
(* the TGID registry of glue/vendor_kernel_module.c and the unshare, setns,*)
(* clone/fork and task-exit hooks that call them.                          *)
(*                                                                         *)
(* A task that calls a hooked function walks through the steps of the      *)
(* handler; a step is what the code does between two points at which       *)
(* another CPU can observe it.  Reference counts, the tracking set, the    *)
(* stop gate, the registry, the deferred puts and the module reference of  *)
(* every object are state.  What is inside a namespace is not: copying the *)
(* namespaces into a new proxy either works or fails.                      *)
(*                                                                         *)
(* The kernel is external: its fork takes a reference to the parent's      *)
(* nsproxy for the child, its exit drops the task's reference.             *)
(***************************************************************************)
EXTENDS Integers, FiniteSets

CONSTANTS
  Task,       \* task_structs
  Tgid,       \* thread groups
  TgidOf,     \* the thread group a task belongs to
  First,      \* the tasks that run when the module is loaded
  Ns,         \* addresses of objects in vns_nsproxy_cachep
  Foreign,    \* nsproxies the real kernel allocated
  KInit,       \* the real init_nsproxy, never freed
  VInit,      \* &vns_init_nsproxy, a pinned object in module memory
  NULL,
  ExitVia,    \* "exit_task_namespaces", or "exit_fs" (Linux 5.10-5.15)
  AtomicFails, \* may a GFP_ATOMIC allocation fail?
  MaxLeaks,   \* bound: proxies with references the code gives up
  MaxDeferred \* bound: puts queued for one proxy

ASSUME NsproxyAssumption ==
  /\ IsFiniteSet(Task) /\ IsFiniteSet(Tgid) /\ IsFiniteSet(Ns) /\ First \subseteq Task
  /\ TgidOf \in [Task -> Tgid]
  /\ ExitVia \in {"exit_task_namespaces", "exit_fs"}
  /\ AtomicFails \in BOOLEAN /\ MaxLeaks \in Nat /\ MaxDeferred \in Nat \ {0}
  /\ Ns \cap Foreign = {} /\ KInit # VInit /\ KInit # NULL /\ VInit # NULL
  /\ {KInit, VInit, NULL} \cap (Ns \cup Foreign) = {}

VARIABLES
  mod,       \* "on": hooks active, "off": stopped, "gone": memory freed
  gate,      \* vns_namespace_stop_gate
  stop,      \* where a controlled stop is: "idle", "begun"
  modrefs,   \* module references held by proxies and deferred puts
  heap,      \* allocated vendored proxies
  tracked,   \* vns_nsproxy_set; vns_nsproxy_live is its cardinality
  count,     \* nsproxy->count
  nsp,       \* task->nsproxy
  reg,       \* vendor_kernel_registry: the proxy of a thread group
  deferred,  \* queued vns_nsproxy_deferred_put entries per proxy
  run,       \* tasks that exist
  dying,     \* those whose signal->live share is gone
  pc,        \* per task: the step of the handler it is in
  fn,        \* per task: the handler ("unshare", "setns", "fork")
  new,       \* per task: the proxy under construction
  held,      \* per task: a proxy it has a counted local pointer to
  child,     \* per task: the child a fork is building
  leaked,    \* history: references given up per proxy
  locked,    \* history: a proxy was destroyed under the registry lock
  wrong      \* history: a foreign proxy was freed into vns_nsproxy_cachep

objVars  == <<heap, tracked, count>>
histVars == <<leaked, locked, wrong>>
vars == <<mod, gate, stop, modrefs, objVars, nsp, reg, deferred, run, dying,
          pc, fn, new, held, child, histVars>>

Obj == Ns \cup Foreign
PC == {"idle", "created", "added", "copied", "validated", "switch", "put",
       "free", "registry", "forked", "exit", "swap", "real", "native"}

\* Inside a redirected call; the hook engine holds a module reference for it.
InHook == {t \in Task : pc[t] \notin {"idle", "native"}}

\* Room for one more reference to o that is given up.
MayLeak(o) == leaked[o] = 0 /\ Cardinality({p \in Obj : leaked[p] > 0}) < MaxLeaks

Goto(t, to) == pc' = [pc EXCEPT ![t] = to]
At(t, where) == t \in run /\ pc[t] = where

Init ==
  /\ mod = "on" /\ gate = FALSE /\ stop = "idle" /\ modrefs = 0
  /\ heap = {} /\ tracked = {}
  /\ nsp \in {f \in [Task -> Foreign \cup {KInit, NULL}] :
                \A t \in Task : t \in First <=> f[t] # NULL}
  /\ count = [o \in Obj |-> Cardinality({t \in Task : nsp[t] = o})]
  /\ reg = [g \in Tgid |-> NULL] /\ deferred = [n \in Ns |-> 0]
  /\ run = First /\ dying = {}
  /\ pc = [t \in Task |-> "idle"] /\ fn = [t \in Task |-> "none"]
  /\ new = [t \in Task |-> NULL] /\ held = [t \in Task |-> NULL]
  /\ child = [t \in Task |-> NULL]
  /\ leaked = [o \in Obj |-> 0] /\ locked = FALSE /\ wrong = FALSE

-----------------------------------------------------------------------------
(***************************************************************************)
(* Construction of a proxy.                                                *)
(***************************************************************************)
constructVars == <<mod, gate, stop, nsp, reg, deferred, run, dying, held, histVars>>

\* create_nsproxy() as the handler f of task t, up to the allocation: gate
\* check, module reference, object with one reference.
CreateNsproxy(t, f) ==
  /\ ~gate
  /\ \E n \in Ns \ heap :
       /\ heap' = heap \cup {n} /\ count' = [count EXCEPT ![n] = 1]
       /\ new' = [new EXCEPT ![t] = n]
  /\ modrefs' = modrefs + 1
  /\ fn' = [fn EXCEPT ![t] = f] /\ Goto(t, "created")
  /\ UNCHANGED <<constructVars, tracked, child>>

Unshare(t) == mod = "on" /\ At(t, "idle") /\ CreateNsproxy(t, "unshare")
Setns(t)   == mod = "on" /\ At(t, "idle") /\ CreateNsproxy(t, "setns")

\* The construction fails: the object is released and the handler returns an
\* error.  A failed copy_namespaces() leaves the reference real_copy_namespaces()
\* took for the child: the kernel's copy_process() does not drop it either.
Abandon(t) ==
  /\ Goto(t, "idle") /\ fn' = [fn EXCEPT ![t] = "none"]
  /\ child' = [child EXCEPT ![t] = NULL]
  /\ nsp' = IF fn[t] = "fork" THEN [nsp EXCEPT ![child[t]] = NULL] ELSE nsp
  /\ IF fn[t] = "fork" /\ nsp[child[t]] \in Obj
     THEN /\ MayLeak(nsp[child[t]])
          /\ leaked' = [leaked EXCEPT ![nsp[child[t]]] = @ + 1]
     ELSE UNCHANGED leaked

\* Mutant: the gate is not looked at again under the set lock.
SetAdd_NoRecheck(t) ==
  /\ At(t, "created")
  /\ tracked' = tracked \cup {new[t]} /\ Goto(t, "added")
  /\ UNCHANGED <<heap, count, modrefs, fn, new, child, constructVars>>

\* Mutant: the refused proxy drops its module reference twice.
SetAdd_PutsTwice(t) ==
  /\ At(t, "created") /\ gate
  /\ heap' = heap \ {new[t]} /\ modrefs' = modrefs - 2
  /\ new' = [new EXCEPT ![t] = NULL] /\ Abandon(t)
  /\ UNCHANGED <<tracked, count, mod, gate, stop, reg, deferred, run, dying, held, locked, wrong>>

\* vns_nsproxy_set_add(): the gate is looked at again under the set lock.
SetAdd(t) ==
  /\ At(t, "created")
  /\ \/ /\ ~gate
        /\ tracked' = tracked \cup {new[t]} /\ Goto(t, "added")
        /\ UNCHANGED <<heap, count, modrefs, fn, new, child, constructVars>>
     \/ /\ gate
        /\ heap' = heap \ {new[t]} /\ modrefs' = modrefs - 1
        /\ new' = [new EXCEPT ![t] = NULL] /\ Abandon(t)
        /\ UNCHANGED <<tracked, count, mod, gate, stop, reg, deferred, run, dying, held, locked, wrong>>

\* create_new_namespaces(): every namespace is copied ...
CopyNamespaces(t) ==
  /\ At(t, "added") /\ Goto(t, "copied")
  /\ UNCHANGED <<objVars, modrefs, fn, new, child, constructVars>>

\* ... or one of them fails: out_ns unwinds.
CopyFails(t) ==
  /\ At(t, "added")
  /\ tracked' = tracked \ {new[t]} /\ heap' = heap \ {new[t]}
  /\ modrefs' = modrefs - 1
  /\ new' = [new EXCEPT ![t] = NULL] /\ Abandon(t)
  /\ UNCHANGED <<count, mod, gate, stop, reg, deferred, run, dying, held, locked, wrong>>

-----------------------------------------------------------------------------
(***************************************************************************)
(* Installing a proxy on a task.                                           *)
(***************************************************************************)

\* The task whose nsproxy the handler of t replaces.
Target(t) == IF fn[t] = "fork" THEN child[t] ELSE t

\* vns_switch_task_namespaces(): swap the pointer under task_lock.
SwitchTaskNamespaces(t) ==
  /\ \/ At(t, "copied") /\ fn[t] # "setns"
     \/ At(t, "switch")
  /\ nsp' = [nsp EXCEPT ![Target(t)] = new[t]]
  /\ held' = [held EXCEPT ![t] = nsp[Target(t)]]
  /\ new' = [new EXCEPT ![t] = NULL] /\ Goto(t, "put")
  /\ UNCHANGED <<mod, gate, stop, modrefs, objVars, reg, deferred, run, dying, fn, child, histVars>>

\* Where the handler goes when the old proxy is released.
AfterPut(t) ==
  /\ \/ fn[t] = "setns" /\ Goto(t, "registry") /\ UNCHANGED <<fn, child, run>>
     \/ /\ fn[t] # "setns" /\ Goto(t, "idle")
        /\ fn' = [fn EXCEPT ![t] = "none"] /\ child' = [child EXCEPT ![t] = NULL]
        /\ run' = IF fn[t] = "fork" THEN run \cup {child[t]} ELSE run

\* ... and release the old one: vns_put_nsproxy() for a tracked proxy,
\* vns_put_foreign_nsproxy() for the kernel's own.
PutOld(t) ==
  /\ At(t, "put")
  /\ LET o == held[t] IN
     \/ /\ o \notin Obj
        /\ held' = [held EXCEPT ![t] = NULL] /\ AfterPut(t) /\ UNCHANGED count
     \/ /\ o \in Obj /\ (o \notin tracked \/ count[o] > 1)
        /\ count' = [count EXCEPT ![o] = @ - 1]
        /\ held' = [held EXCEPT ![t] = NULL] /\ AfterPut(t)
     \/ /\ o \in tracked /\ count[o] = 1
        /\ count' = [count EXCEPT ![o] = 0]
        /\ Goto(t, "free") /\ UNCHANGED <<held, fn, child, run>>
  /\ UNCHANGED <<mod, gate, stop, modrefs, heap, tracked, nsp, reg, deferred, dying, new, histVars>>

\* vns_free_nsproxy(): the namespaces are put (may sleep), then the object
\* leaves the set and its module reference is dropped.
FreeOld(t) ==
  /\ At(t, "free")
  /\ tracked' = tracked \ {held[t]} /\ heap' = heap \ {held[t]}
  /\ modrefs' = modrefs - 1
  /\ held' = [held EXCEPT ![t] = NULL] /\ AfterPut(t)
  /\ UNCHANGED <<mod, gate, stop, count, nsp, reg, deferred, dying, new, histVars>>

-----------------------------------------------------------------------------
(***************************************************************************)
(* setns(2).                                                               *)
(***************************************************************************)

\* validate_ns() for an nsfs descriptor: nothing is counted.
ValidateFd(t) ==
  /\ At(t, "copied") /\ fn[t] = "setns"
  /\ Goto(t, "switch")
  /\ UNCHANGED <<mod, gate, stop, modrefs, objVars, nsp, reg, deferred, run, dying, fn, new, held, child, histVars>>

\* validate_nsset() for a pidfd: a reference to the target's proxy is taken
\* under its task_lock.
ValidateGet(t, q) ==
  /\ At(t, "copied") /\ fn[t] = "setns"
  /\ q \in run /\ nsp[q] \in Obj
  /\ count' = [count EXCEPT ![nsp[q]] = @ + 1]
  /\ held' = [held EXCEPT ![t] = nsp[q]] /\ Goto(t, "validated")
  /\ UNCHANGED <<mod, gate, stop, modrefs, heap, tracked, nsp, reg, deferred, run, dying, fn, new, child, histVars>>

\* The reference is dropped by vns_put_nsproxy(), whoever allocated the object.
ValidatePut(t) ==
  /\ At(t, "validated")
  /\ LET o == held[t]
         last == count[o] = 1 IN
     /\ count' = [count EXCEPT ![o] = @ - 1]
     /\ tracked' = IF last THEN tracked \ {o} ELSE tracked
     /\ heap' = IF last THEN heap \ {o} ELSE heap
     /\ modrefs' = IF last /\ o \in tracked THEN modrefs - 1 ELSE modrefs
     /\ wrong' = (wrong \/ (last /\ o \in Foreign))
  /\ held' = [held EXCEPT ![t] = NULL] /\ Goto(t, "switch")
  /\ UNCHANGED <<mod, gate, stop, nsp, reg, deferred, run, dying, fn, new, child, leaked, locked>>

\* Validation fails: put_nsset() frees the unpublished proxy.
ValidateFails(t) ==
  /\ At(t, "switch")
  /\ tracked' = tracked \ {new[t]} /\ heap' = heap \ {new[t]}
  /\ modrefs' = modrefs - 1
  /\ new' = [new EXCEPT ![t] = NULL] /\ Goto(t, "idle")
  /\ fn' = [fn EXCEPT ![t] = "none"]
  /\ UNCHANGED <<mod, gate, stop, count, nsp, reg, deferred, run, dying, held, child, histVars>>

\* Mutant: the registry does not take a reference of its own.
RegistrySet_NoGet(t) ==
  /\ At(t, "registry")
  /\ LET g == TgidOf[t]  n == nsp[t]  o == reg[g] IN
     /\ o = NULL
     /\ reg' = [reg EXCEPT ![g] = n]
  /\ Goto(t, "idle") /\ fn' = [fn EXCEPT ![t] = "none"]
  /\ UNCHANGED <<mod, gate, stop, modrefs, objVars, nsp, deferred, run, dying, new, held, child, histVars>>

\* vns_registry_set_nsproxy(), all of it under the registry's spinlock: the
\* entry gets a reference to the new proxy and drops the one to the old.
RegistrySet(t) ==
  /\ At(t, "registry")
  /\ LET g == TgidOf[t]
         n == nsp[t]
         o == reg[g]
         last == o # NULL /\ o # n /\ count[o] = 1
         up == [count EXCEPT ![n] = @ + 1] IN
     \/ /\ reg' = [reg EXCEPT ![g] = n]
        /\ count' = IF o = NULL THEN up ELSE [up EXCEPT ![o] = @ - 1]
        /\ tracked' = IF last THEN tracked \ {o} ELSE tracked
        /\ heap' = IF last THEN heap \ {o} ELSE heap
        /\ modrefs' = IF last THEN modrefs - 1 ELSE modrefs
        /\ locked' = (locked \/ last)
     \/ /\ AtomicFails /\ o = NULL      \* no memory for the entry
        /\ UNCHANGED <<reg, objVars, modrefs, locked>>
  /\ Goto(t, "idle") /\ fn' = [fn EXCEPT ![t] = "none"]
  /\ UNCHANGED <<mod, gate, stop, nsp, deferred, run, dying, new, held, child, leaked, wrong>>

\* vns_diag_ns_delete(): deleting /v/ns/<type>/<tgid> detaches the entry under
\* the lock and puts its proxy after it.  (The SIGKILL it sends first only
\* makes the group's threads exit, which they may do at any time here.)
DiagNsDelete(g) ==
  /\ mod # "gone" /\ reg[g] # NULL
  /\ LET o == reg[g] IN
     /\ count' = [count EXCEPT ![o] = @ - 1]
     /\ tracked' = IF count[o] = 1 THEN tracked \ {o} ELSE tracked
     /\ heap' = IF count[o] = 1 THEN heap \ {o} ELSE heap
     /\ modrefs' = IF count[o] = 1 THEN modrefs - 1 ELSE modrefs
  /\ reg' = [reg EXCEPT ![g] = NULL]
  /\ UNCHANGED <<mod, gate, stop, nsp, deferred, run, dying, pc, fn, new, held, child, histVars>>

-----------------------------------------------------------------------------
(***************************************************************************)
(* fork(2), vfork(2), clone(2).                                            *)
(***************************************************************************)

\* A fresh task id: a thread of the caller's group, or of a group that is gone.
Unborn(t, c) ==
  /\ c \notin run /\ nsp[c] = NULL
  /\ TgidOf[c] = TgidOf[t] \/ \A d \in run : TgidOf[d] # TgidOf[c]

\* real_copy_namespaces(): the child shares the parent's proxy.  With no
\* namespace flags the child runs; the hooks refuse to fork with the gate shut.
Fork(t, c, flags) ==
  /\ At(t, "idle") /\ Unborn(t, c)
  /\ mod = "on" => ~gate
  /\ nsp' = [nsp EXCEPT ![c] = nsp[t]]
  /\ count' = IF nsp[t] \in Obj THEN [count EXCEPT ![nsp[t]] = @ + 1] ELSE count
  /\ \/ /\ ~flags /\ run' = run \cup {c} /\ UNCHANGED <<pc, fn, child>>
     \/ /\ flags /\ mod = "on" /\ Goto(t, "forked") /\ UNCHANGED run
        /\ fn' = [fn EXCEPT ![t] = "fork"] /\ child' = [child EXCEPT ![t] = c]
  /\ UNCHANGED <<mod, gate, stop, modrefs, heap, tracked, reg, deferred, dying, new, held, histVars>>

\* vendor_kernel_hook_copy_namespaces() goes on to build the child's proxy ...
ForkCreate(t) == At(t, "forked") /\ CreateNsproxy(t, "fork")

\* ... or fails: no permission, no memory, or the gate was shut meanwhile.
ForkFails(t) ==
  /\ At(t, "forked") /\ Abandon(t)
  /\ UNCHANGED <<mod, gate, stop, modrefs, objVars, reg, deferred, run, dying, new, held, locked, wrong>>

-----------------------------------------------------------------------------
(***************************************************************************)
(* Task exit.                                                              *)
(***************************************************************************)

\* vns_nsproxy_put_deferred(): queue the put with a module reference, or give
\* the reference up when there is no memory.
PutDeferred(n) ==
  \/ /\ deferred[n] < MaxDeferred
     /\ deferred' = [deferred EXCEPT ![n] = @ + 1] /\ modrefs' = modrefs + 1
     /\ UNCHANGED leaked
  \/ /\ AtomicFails /\ MayLeak(n)
     /\ leaked' = [leaked EXCEPT ![n] = @ + 1] /\ UNCHANGED <<deferred, modrefs>>

\* do_exit(): the share in signal->live is given up before any hook runs.
\* Without hooks the kernel drops the task's reference by itself.
ExitBegin(t) ==
  /\ At(t, "idle") /\ t \notin dying
  /\ dying' = dying \cup {t}
  /\ Goto(t, IF mod = "on" THEN "exit" ELSE "native")
  /\ UNCHANGED <<mod, gate, stop, modrefs, objVars, nsp, reg, deferred, run, fn, new, held, child, histVars>>

LastThread(t) == \A d \in run \ dying : TgidOf[d] # TgidOf[t]

\* The last thread takes the registry's reference.
ExitRegistry(t) ==
  /\ At(t, "exit") /\ Goto(t, "swap")
  /\ LET n == reg[TgidOf[t]] IN
     \/ /\ LastThread(t) /\ n # NULL
        /\ reg' = [reg EXCEPT ![TgidOf[t]] = NULL] /\ PutDeferred(n)
     \/ /\ ~(LastThread(t) /\ n # NULL)
        /\ UNCHANGED <<reg, deferred, modrefs, leaked>>
  /\ UNCHANGED <<mod, gate, stop, objVars, nsp, run, dying, fn, new, held, child, locked, wrong>>

\* Mutant: the hook returns before the native teardown has dropped
\* &vns_init_nsproxy.
ExitSwap_ReturnsEarly(t) ==
  /\ At(t, "swap") /\ Goto(t, "native")
  /\ \/ /\ nsp[t] \in tracked
        /\ nsp' = [nsp EXCEPT ![t] = VInit] /\ PutDeferred(nsp[t])
     \/ /\ nsp[t] \notin tracked
        /\ UNCHANGED <<nsp, deferred, modrefs, leaked>>
  /\ UNCHANGED <<mod, gate, stop, objVars, reg, run, dying, fn, new, held, child, locked, wrong>>

\* Mutant: the swapped-out proxy is not put.
ExitSwap_ForgetsPut(t) ==
  /\ At(t, "swap") /\ Goto(t, "real")
  /\ nsp' = IF nsp[t] \in tracked THEN [nsp EXCEPT ![t] = VInit] ELSE nsp
  /\ UNCHANGED <<mod, gate, stop, modrefs, objVars, reg, deferred, run, dying, fn, new, held, child, histVars>>

\* A vendored proxy is swapped for &vns_init_nsproxy, and its put deferred.
\* The exit_fs() hook returns here, the exit_task_namespaces() hook goes on.
ExitSwap(t) ==
  /\ At(t, "swap") /\ Goto(t, IF ExitVia = "exit_fs" THEN "native" ELSE "real")
  /\ \/ /\ nsp[t] \in tracked
        /\ nsp' = [nsp EXCEPT ![t] = VInit] /\ PutDeferred(nsp[t])
     \/ /\ nsp[t] \notin tracked
        /\ UNCHANGED <<nsp, deferred, modrefs, leaked>>
  /\ UNCHANGED <<mod, gate, stop, objVars, reg, run, dying, fn, new, held, child, locked, wrong>>

\* The real exit_task_namespaces() drops what is left.
ExitReal(t) ==
  /\ At(t, "real") \/ At(t, "native")
  /\ Goto(t, "idle")
  /\ nsp' = [nsp EXCEPT ![t] = NULL]
  /\ count' = IF nsp[t] \in Obj THEN [count EXCEPT ![nsp[t]] = @ - 1] ELSE count
  /\ run' = run \ {t} /\ dying' = dying \ {t}
  /\ UNCHANGED <<mod, gate, stop, modrefs, heap, tracked, reg, deferred, fn, new, held, child, histVars>>

\* vns_nsproxy_deferred_put_fn(), one entry.
DeferredPut(n) ==
  /\ mod # "gone" /\ deferred[n] > 0
  /\ deferred' = [deferred EXCEPT ![n] = @ - 1]
  /\ count' = [count EXCEPT ![n] = @ - 1]
  /\ tracked' = IF count[n] = 1 THEN tracked \ {n} ELSE tracked
  /\ heap' = IF count[n] = 1 THEN heap \ {n} ELSE heap
  /\ modrefs' = IF count[n] = 1 THEN modrefs - 2 ELSE modrefs - 1
  /\ UNCHANGED <<mod, gate, stop, nsp, reg, run, dying, pc, fn, new, held, child, histVars>>

-----------------------------------------------------------------------------
(***************************************************************************)
(* Stopping: the part of vendor_kernel_exit() that concerns proxies.       *)
(***************************************************************************)
stopRest == <<objVars, nsp, deferred, run, dying, pc, fn, new, held, child, histVars, modrefs>>

StopBegin ==
  /\ mod = "on" /\ stop = "idle"
  /\ gate' = TRUE /\ stop' = "begun"
  /\ UNCHANGED <<mod, reg, stopRest>>

\* After vns_nsproxy_deferred_flush(): refused while a proxy is live (or for
\* another guard's reason).
StopAbort ==
  /\ stop = "begun"
  /\ gate' = FALSE /\ stop' = "idle"
  /\ UNCHANGED <<mod, reg, stopRest>>

\* No proxy is live and no call in flight: the hooks are removed.  The
\* registry is empty by then; vns_registry_clear_all() finds nothing.
StopCommit ==
  /\ stop = "begun" /\ \A n \in Ns : deferred[n] = 0
  /\ InHook = {} /\ tracked = {}
  /\ mod' = "off" /\ stop' = "idle" /\ reg' = [g \in Tgid |-> NULL]
  /\ UNCHANGED <<gate, stopRest>>

\* vendor_kernel_init() of a reload: hooks on, then the gate is opened.
Start ==
  /\ mod = "off" /\ stop = "idle"
  /\ mod' = "on" /\ gate' = FALSE
  /\ UNCHANGED <<stop, reg, stopRest>>

\* delete_module(2) at reference count zero; module_exit() stops what runs.
Rmmod ==
  /\ mod \in {"on", "off"} /\ stop = "idle"
  /\ modrefs = 0 /\ InHook = {}
  /\ mod' = "gone"
  /\ UNCHANGED <<gate, stop, reg, stopRest>>

TaskStep(t) ==
  \/ Unshare(t) \/ Setns(t) \/ SetAdd(t) \/ CopyNamespaces(t) \/ CopyFails(t)
  \/ SwitchTaskNamespaces(t) \/ PutOld(t) \/ FreeOld(t)
  \/ ValidateFd(t) \/ ValidatePut(t) \/ ValidateFails(t) \/ RegistrySet(t)
  \/ ForkCreate(t) \/ ForkFails(t)
  \/ ExitBegin(t) \/ ExitRegistry(t) \/ ExitSwap(t) \/ ExitReal(t)
  \/ \E q \in Task : ValidateGet(t, q)
  \/ \E c \in Task, flags \in BOOLEAN : Fork(t, c, flags)

Next ==
  \/ \E t \in Task : TaskStep(t)
  \/ \E n \in Ns : DeferredPut(n)
  \/ \E g \in Tgid : DiagNsDelete(g)
  \/ StopBegin \/ StopAbort \/ StopCommit \/ Start \/ Rmmod

Spec == Init /\ [][Next]_vars

\* A task that has begun to exit runs to the end of do_exit(), and the
\* workqueue runs what is scheduled on it.
FairSpec ==
  /\ Spec
  /\ \A t \in Task : WF_vars(ExitRegistry(t) \/ ExitSwap(t) \/ ExitReal(t))
  /\ \A n \in Ns : WF_vars(DeferredPut(n))

-----------------------------------------------------------------------------
(***************************************************************************)
(* Properties.                                                             *)
(***************************************************************************)
\* Every variable has its type.
TypeOK ==
  /\ mod \in {"on", "off", "gone"} /\ gate \in BOOLEAN /\ stop \in {"idle", "begun"}
  /\ modrefs \in Nat
  /\ heap \subseteq Ns /\ tracked \subseteq Ns /\ count \in [Obj -> Nat]
  /\ nsp \in [Task -> Obj \cup {KInit, VInit, NULL}]
  /\ reg \in [Tgid -> Ns \cup {NULL}] /\ deferred \in [Ns -> Nat]
  /\ run \subseteq Task /\ dying \subseteq run
  /\ pc \in [Task -> PC] /\ fn \in [Task -> {"none", "unshare", "setns", "fork"}]
  /\ new \in [Task -> Ns \cup {NULL}] /\ held \in [Task -> Obj \cup {KInit, NULL}]
  /\ child \in [Task -> Task \cup {NULL}]
  /\ leaked \in [Obj -> Nat] /\ locked \in BOOLEAN /\ wrong \in BOOLEAN

\* Everything that points to proxy o: tasks, the registry, queued puts, the
\* handlers' local pointers, and the references that were given up.
Pointers(o) ==
  Cardinality({t \in Task : nsp[t] = o}) + Cardinality({t \in Task : new[t] = o})
  + Cardinality({t \in Task : held[t] = o /\ pc[t] # "free"})
  + Cardinality({g \in Tgid : reg[g] = o})
  + (IF o \in Ns THEN deferred[o] ELSE 0) + leaked[o]

\* The reference count of a vendored proxy is the number of pointers to it, in
\* every interleaving of unshare, setns, fork, exit and the deferred puts: a
\* proxy is destroyed exactly when the last pointer is gone.
CountBacked == \A n \in Ns : Pointers(n) = IF n \in heap THEN count[n] ELSE 0

\* Sum of the deferred puts.
DeferredPuts == Cardinality({q \in Ns \X (1..MaxDeferred) : q[2] <= deferred[q[1]]})

\* Every tracked proxy and every queued put holds one module reference ("Every
\* tracked object holds a module reference").
PinsBacked == modrefs = Cardinality(heap) + DeferredPuts

\* Both kinds of reference count agree with what refers: neither a proxy nor
\* the module is released early or kept for ever.
CountsBacked == CountBacked /\ PinsBacked

\* Once the module's memory is gone no task refers to a vendored proxy nor to
\* vns_init_nsproxy, which lives in module memory.
NoProxyInFreedModule ==
  mod = "gone" => /\ \A t \in Task : nsp[t] \notin Ns \cup {VInit}
                  /\ heap = {} /\ \A n \in Ns : deferred[n] = 0

\* A stopped vendor_kernel has no task on a vendored proxy: the hooks that
\* would keep the kernel from freeing it into the wrong cache are off.
StoppedMeansUnused == mod # "on" => \A t \in Task : nsp[t] \notin Ns

\* What a stop and an rmmod of the module may leave behind, together.
ModuleUnused == StoppedMeansUnused /\ NoProxyInFreedModule

\* While the stop gate is shut no proxy becomes live: the live count that
\* vendor_kernel_exit() tests can only fall (comment in vns_nsproxy_set_add()).
GateFreezesLive == [][gate /\ gate' => tracked' \subseteq tracked]_vars

\* Seen from outside: the registered proxies, and the one each task is on.
Service == INSTANCE NamespaceService WITH
  None  <- NULL,
  phase <- CASE mod = "off" -> "stopped"
             [] mod = "gone" -> "removed"
             [] OTHER -> IF gate THEN "closed" ELSE "open",
  live  <- tracked,
  user  <- [t \in Task |-> IF nsp[t] \in Ns THEN nsp[t] ELSE NULL]

\* All of the machinery - counts, registry, deferred puts, gate, unwinding -
\* implements NamespaceService: no task is ever on a proxy that was freed, none
\* becomes live behind the shut gate, and a stop or an rmmod ends with none.
ImplementsService == Service!Spec

\* A process group that is gone releases its proxies in the end: exit, the
\* registry's share and the deferred puts together lose no reference.
ExitedProxiesDrain == (run = {}) ~> (tracked = {})

\* The destructor, which may sleep, never runs under the registry's spinlock.
NoFreeUnderRegistryLock == ~locked

\* vns_free_nsproxy() is never applied to a proxy of the real kernel.
NoForeignFree == ~wrong
=============================================================================
