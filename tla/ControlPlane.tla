---------------------------- MODULE ControlPlane ----------------------------
(***************************************************************************)
(* The control plane of lkm4ctr.ko: the writable files of the diagfs       *)
(* (glue/lkm4ctr_diagfs.c), the kernel thread that unloads the module from *)
(* the inside, and the one that replaces it (glue/lkm4ctr_hotreload.c).    *)
(*                                                                         *)
(* All of them share a handful of globals: the lifecycle states guarded by *)
(* lkm4ctr_unload_lock, the hook engine's quiesce flag, which is a plain   *)
(* boolean that every party sets and clears on its own, and the module     *)
(* reference count, which is the sum of what the parties hold.  A critical *)
(* section of lkm4ctr_unload_lock is one step; everything between two      *)
(* critical sections interleaves.                                          *)
(*                                                                         *)
(* vendor_kernel_init() and vendor_kernel_exit() appear as what they do to *)
(* this state: whether the subsystem is enabled, what happens to the       *)
(* quiesce flag, and that they may fail.  rmmod, insmod, umount and the    *)
(* hand-off shell are user space.  The two unloading states of the code    *)
(* (graceful, force) differ only in what /status prints and are one here.  *)
(***************************************************************************)
EXTENDS Integers, FiniteSets

CONSTANTS
  Writer,        \* tasks that open and write control files
  Unloader,      \* bound: "lkm4ctr_unload" threads alive at a time
  Reloader,      \* bound: "lkm4ctr_hotreload" threads alive at a time
  MaxMounts,     \* bound: diagfs mounts
  MaxCalls,      \* bound: redirected calls in flight, of each kind
  HandoffTries,  \* rmmod attempts of the hand-off shell (100 in the code)
  ResDelete,     \* are entries of ./resources deleted?
  LateThreads    \* may a thread be delayed, while it holds no reference,
                 \* for as long as a whole rmmod takes?

ASSUME ControlAssumption ==
  /\ IsFiniteSet(Writer) /\ IsFiniteSet(Unloader) /\ IsFiniteSet(Reloader)
  /\ Writer \cap Unloader = {} /\ Writer \cap Reloader = {}
  /\ Unloader \cap Reloader = {}
  /\ MaxMounts \in Nat /\ MaxCalls \in Nat /\ HandoffTries \in Nat \ {0}
  /\ ResDelete \in BOOLEAN /\ LateThreads \in BOOLEAN

VARIABLES
  mod,          \* "live" or "freed"
  mounts,       \* attached diagfs mounts
  calls,        \* redirected calls in flight, per kind of hook
  quiescing,    \* shadow_hook_quiescing
  global_state, \* lkm4ctr_diagfs_global_state
  state,        \* lkm4ctr_diagfs_modules[0].state
  enabled,      \* vendor_kernel_enabled
  in_progress,  \* lkm4ctr_unload_in_progress
  level,        \* lkm4ctr_unload_force and lkm4ctr_unload_force2
  pc, op,       \* per actor: where it is, and the request it carries out
  was,          \* per actor: was_quiescing of __vendor_kernel_exit()
  ok,           \* per actor: did mod_exit() succeed?
  lvl, cont,    \* per unload thread: its copy of the force flags, and where
                \* it goes on after unload_all_now()
  rmmod,        \* an rmmod launched by an unload thread has yet to run
  handoff,      \* attempts the hand-off shell has left
  hot           \* lkm4ctr_hotreload_state

Actor == Writer \cup Unloader \cup Reloader
Thread == Unloader \cup Reloader

lifeVars  == <<global_state, state, enabled>>
flagVars  == <<in_progress, level>>
kernVars  == <<mod, mounts, calls>>
userVars  == <<rmmod, handoff>>
localVars == <<op, was, ok, lvl, cont>>
vars == <<kernVars, quiescing, lifeVars, flagVars, pc, localVars, userVars, hot>>

Level  == {"soft", "force", "force2"}
\* Which requests escalate which.
Above(l) == CASE l = "soft" -> {"force", "force2"}
              [] l = "force" -> {"force2"}
              [] l = "force2" -> {}

\* Inside mod_init() and inside mod_exit().
InInit == {"init"}
InExit == {"exit", "exitquiesce", "drain", "guards", "exitend"}
PC == InInit \cup InExit \cup
      {"out", "open", "loadall", "initend", "loadallend", "prequiesce",
       "exited", "settle", "spawn", "hotspawn", "resdrain",
       "none", "created", "quiesce", "unloadall", "umount", "wait", "launch",
       "resume", "abort", "clear", "putexit", "failmark", "put", "last"}

Goto(a, from, to) == pc[a] = from /\ pc' = [pc EXCEPT ![a] = to]

\* Hooks with quiesce_exempt go on redirecting while the others are quiesced.
CallKind == {"ordinary", "exempt"}

\* shadow_hook_inflight_count()
InFlight == calls["ordinary"] + calls["exempt"]

\* Module references: every open file, every mount, every call in flight and
\* every thread between its __module_get() and its module_put().
Holds(a) == pc[a] \notin {"out", "none", "created", "last"}
Refs == mounts + InFlight + Cardinality({a \in Actor : Holds(a)})

\* lkm4ctr_diagfs_state_busy() and lkm4ctr_diagfs_module_stable_state(): the
\* registry's hook groups are active exactly while the subsystem is enabled.
Busy(s) == s \in {"loading", "unloading"}
Stable == IF enabled THEN "active" ELSE "unloaded"

\* The guard every request makes under lkm4ctr_unload_lock, or -EBUSY.
ControlIdle ==
  mod = "live" /\ global_state = "active" /\ ~in_progress /\ ~Busy(state)

Init ==
  /\ mod = "live" /\ mounts = 0 /\ calls = [k \in CallKind |-> 0]
  /\ quiescing = FALSE
  /\ global_state = "active" /\ state = "active" /\ enabled = TRUE
  /\ in_progress = FALSE /\ level = "soft"
  /\ pc = [a \in Actor |-> IF a \in Writer THEN "out" ELSE "none"]
  /\ op = [a \in Actor |-> "none"]
  /\ was = [a \in Actor |-> FALSE] /\ ok = [a \in Actor |-> TRUE]
  /\ lvl = [u \in Unloader |-> "soft"] /\ cont = [u \in Unloader |-> "wait"]
  /\ rmmod = FALSE /\ handoff = 0 /\ hot = "idle"

-----------------------------------------------------------------------------
(***************************************************************************)
(* User space and hooked calls.                                            *)
(***************************************************************************)
Mount ==
  /\ mod = "live" /\ mounts < MaxMounts
  /\ mounts' = mounts + 1
  /\ UNCHANGED <<mod, calls, quiescing, lifeVars, flagVars, pc, localVars, userVars, hot>>

Umount ==
  /\ mounts > 0
  /\ mounts' = mounts - 1
  /\ UNCHANGED <<mod, calls, quiescing, lifeVars, flagVars, pc, localVars, userVars, hot>>

\* umount -l -a -t lkm4ctr: all mounts go, or no umount binary works.  Open
\* files keep their own references.
LazyUmount == mounts' \in {0, mounts}

Open(w) ==
  /\ mounts > 0
  /\ Goto(w, "out", "open")
  /\ UNCHANGED <<kernVars, quiescing, lifeVars, flagVars, localVars, userVars, hot>>

Close(w) ==
  /\ Goto(w, "open", "out")
  /\ UNCHANGED <<kernVars, quiescing, lifeVars, flagVars, localVars, userVars, hot>>

\* A hooked call is redirected; while the hooks are quiesced only the exempt
\* lifecycle hooks are.
CallEnter(k) ==
  /\ enabled /\ (quiescing => k = "exempt") /\ calls[k] < MaxCalls
  /\ calls' = [calls EXCEPT ![k] = @ + 1]
  /\ UNCHANGED <<mod, mounts, quiescing, lifeVars, flagVars, pc, localVars, userVars, hot>>

CallReturn(k) ==
  /\ calls[k] > 0
  /\ calls' = [calls EXCEPT ![k] = @ - 1]
  /\ UNCHANGED <<mod, mounts, quiescing, lifeVars, flagVars, pc, localVars, userVars, hot>>

-----------------------------------------------------------------------------
(***************************************************************************)
(* Loading: "load" on the global control file (lkm4ctr_diagfs_load_all)    *)
(* and on v/control or v/enabled (lkm4ctr_diagfs_module_load).             *)
(***************************************************************************)
ModuleLoad(w) ==
  /\ ControlIdle /\ ~enabled
  /\ Goto(w, "open", "init")
  /\ op' = [op EXCEPT ![w] = "load"]
  /\ state' = "loading"
  /\ UNCHANGED <<kernVars, quiescing, global_state, enabled, flagVars, was, ok, lvl, cont, userVars, hot>>

LoadAll(w) ==
  /\ ControlIdle
  /\ Goto(w, "open", "loadall")
  /\ op' = [op EXCEPT ![w] = "loadall"]
  /\ global_state' = "loading"
  /\ UNCHANGED <<kernVars, quiescing, state, enabled, flagVars, was, ok, lvl, cont, userVars, hot>>

LoadAllModule(w) ==
  /\ Goto(w, "loadall", IF enabled THEN "loadallend" ELSE "init")
  /\ state' = IF enabled THEN state ELSE "loading"
  /\ UNCHANGED <<kernVars, quiescing, global_state, enabled, flagVars, localVars, userVars, hot>>

\* vendor_kernel_init() succeeds, or unwinds and returns an error.
ModInit(w) ==
  /\ Goto(w, "init", "initend")
  /\ enabled' \in BOOLEAN
  /\ UNCHANGED <<kernVars, quiescing, global_state, state, flagVars, localVars, userVars, hot>>

InitEnd(w) ==
  /\ Goto(w, "initend", IF op[w] = "loadall" THEN "loadallend" ELSE "open")
  /\ op' = [op EXCEPT ![w] = "none"]
  /\ state' = Stable
  /\ UNCHANGED <<kernVars, quiescing, global_state, enabled, flagVars, was, ok, lvl, cont, userVars, hot>>

LoadAllEnd(w) ==
  /\ Goto(w, "loadallend", "open")
  /\ op' = [op EXCEPT ![w] = "none"]
  /\ global_state' = "active"
  /\ UNCHANGED <<kernVars, quiescing, state, enabled, flagVars, was, ok, lvl, cont, userVars, hot>>

-----------------------------------------------------------------------------
(***************************************************************************)
(* Unloading the subsystem: lkm4ctr_diagfs_module_unload(), called by a    *)
(* writer of v/control, or by an unload thread through                     *)
(* lkm4ctr_diagfs_unload_all_now().                                        *)
(***************************************************************************)
ModuleUnload(w, r) ==
  /\ r \in {"unload", "force"}
  /\ ControlIdle /\ (r = "force" \/ enabled)
  /\ Goto(w, "open", IF r = "force" THEN "prequiesce" ELSE "exit")
  /\ op' = [op EXCEPT ![w] = r]
  /\ state' = "unloading"
  /\ UNCHANGED <<kernVars, quiescing, global_state, enabled, flagVars, was, ok, lvl, cont, userVars, hot>>

ForceQuiesce(w) ==
  /\ Goto(w, "prequiesce", "exit")
  /\ quiescing' = TRUE
  /\ UNCHANGED <<kernVars, lifeVars, flagVars, localVars, userVars, hot>>

\* A request's locals die with the function that handled it.
Forget(a) == op' = [op EXCEPT ![a] = "none"] /\ ok' = [ok EXCEPT ![a] = TRUE]

\* unload_all_now(): a graceful unload of a disabled subsystem is a no-op.
UnloadAllNow(u) ==
  /\ IF op[u] = "unload" /\ ~enabled
       THEN Goto(u, "unloadall", cont[u]) /\ Forget(u) /\ state' = state
       ELSE Goto(u, "unloadall", "exit") /\ UNCHANGED <<op, ok>> /\ state' = "unloading"
  /\ UNCHANGED <<kernVars, quiescing, global_state, enabled, flagVars, was, lvl, cont, userVars, hot>>

\* __vendor_kernel_exit(false) up to the quiesce: nothing to do, a live object
\* or a call that does not drain refuses the stop, or was_quiescing is read.
ExitGates(a) ==
  /\ pc[a] = "exit"
  /\ \/ /\ ~enabled
        /\ Goto(a, "exit", "exited")
        /\ ok' = [ok EXCEPT ![a] = TRUE] /\ was' = was
     \/ /\ enabled
        /\ Goto(a, "exit", "exited")
        /\ ok' = [ok EXCEPT ![a] = FALSE] /\ was' = was
     \/ /\ enabled /\ InFlight = 0
        /\ Goto(a, "exit", "exitquiesce")
        /\ was' = [was EXCEPT ![a] = quiescing] /\ ok' = ok
  /\ UNCHANGED <<kernVars, quiescing, lifeVars, flagVars, op, lvl, cont, userVars, hot>>

ExitQuiesce(a) ==
  /\ Goto(a, "exitquiesce", "drain")
  /\ quiescing' = TRUE
  /\ UNCHANGED <<kernVars, lifeVars, flagVars, localVars, userVars, hot>>

\* Mutant: the hooks are always released, also under an outer unload.
RestoreQuiesce_Always(a) ==
  /\ quiescing' = FALSE
  /\ was' = [was EXCEPT ![a] = FALSE]

\* if (!was_quiescing) shadow_hook_quiesce(false)
RestoreQuiesce(a) ==
  /\ quiescing' = (was[a] /\ quiescing)
  /\ was' = [was EXCEPT ![a] = FALSE]

ExitDrained(a) ==
  /\ InFlight = 0
  /\ Goto(a, "drain", "guards")
  /\ UNCHANGED <<kernVars, quiescing, lifeVars, flagVars, localVars, userVars, hot>>

\* Mutant: a refused stop forgets to release the hooks.
ExitRefuse_StaysQuiesced(a) ==
  /\ \/ Goto(a, "drain", "exited") /\ InFlight > 0
     \/ Goto(a, "guards", "exited")
  /\ ok' = [ok EXCEPT ![a] = FALSE]
  /\ UNCHANGED <<kernVars, quiescing, lifeVars, flagVars, op, was, lvl, cont, userVars, hot>>

\* The calls do not drain in time, or a guard finds an object in use.
ExitRefuse(a) ==
  /\ \/ Goto(a, "drain", "exited") /\ InFlight > 0
     \/ Goto(a, "guards", "exited")
  /\ ok' = [ok EXCEPT ![a] = FALSE]
  /\ RestoreQuiesce(a)
  /\ UNCHANGED <<kernVars, lifeVars, flagVars, op, lvl, cont, userVars, hot>>

\* The point of no return: the hooks are removed, ...
ExitCommit(a) ==
  /\ Goto(a, "guards", "exitend")
  /\ enabled' = FALSE
  /\ UNCHANGED <<kernVars, quiescing, global_state, state, flagVars, localVars, userVars, hot>>

\* ... the calls still inside are waited for, without a time limit.
ExitEnd(a) ==
  /\ InFlight = 0
  /\ Goto(a, "exitend", "exited")
  /\ ok' = [ok EXCEPT ![a] = TRUE]
  /\ RestoreQuiesce(a)
  /\ UNCHANGED <<kernVars, lifeVars, flagVars, op, lvl, cont, userVars, hot>>

ForceResume(w) ==
  /\ op[w] = "force"
  /\ Goto(w, "exited", "settle")
  /\ quiescing' = FALSE
  /\ UNCHANGED <<kernVars, lifeVars, flagVars, localVars, userVars, hot>>

\* mod->state = lkm4ctr_diagfs_module_stable_state(mod)
WriterSettle(w) ==
  /\ \/ Goto(w, "settle", "open")
     \/ Goto(w, "exited", "open") /\ op[w] = "unload"
  /\ state' = Stable
  /\ Forget(w)
  /\ UNCHANGED <<kernVars, quiescing, global_state, enabled, flagVars, was, lvl, cont, userVars, hot>>

UnloaderSettle(u) ==
  /\ Goto(u, "exited", IF ok[u] THEN cont[u] ELSE "resume")
  /\ state' = Stable
  /\ Forget(u)
  /\ UNCHANGED <<kernVars, quiescing, global_state, enabled, flagVars, was, lvl, cont, userVars, hot>>

-----------------------------------------------------------------------------
(***************************************************************************)
(* Unloading the module: lkm4ctr_diagfs_control_write() on the global file *)
(* and lkm4ctr_safe_unload_fn().                                           *)
(***************************************************************************)
\* Mutant: the global request does not look for a submodule transition.
ControlUnload_IgnoresTransition(w, l) ==
  /\ mod = "live" /\ global_state = "active" /\ ~in_progress
  /\ Goto(w, "open", "spawn")
  /\ in_progress' = TRUE /\ level' = l
  /\ global_state' = "unloading"
  /\ UNCHANGED <<kernVars, quiescing, state, enabled, localVars, userVars, hot>>

ControlUnload(w, l) ==
  /\ ControlIdle
  /\ Goto(w, "open", "spawn")
  /\ in_progress' = TRUE /\ level' = l
  /\ global_state' = "unloading"
  /\ UNCHANGED <<kernVars, quiescing, state, enabled, localVars, userVars, hot>>

Escalate(w, l) ==
  /\ pc[w] = "open" /\ in_progress /\ l \in Above(level)
  /\ level' = l
  /\ UNCHANGED <<kernVars, quiescing, lifeVars, in_progress, pc, localVars, userVars, hot>>

KthreadRun(w, t, from) ==
  /\ pc[w] = from /\ pc[t] = "none"
  /\ pc' = [pc EXCEPT ![w] = "open", ![t] = "created"]
  /\ UNCHANGED <<kernVars, quiescing, lifeVars, flagVars, localVars, userVars, hot>>

SpawnFail(w) ==
  /\ Goto(w, "spawn", "open")
  /\ in_progress' = FALSE /\ global_state' = "active"
  /\ UNCHANGED <<kernVars, quiescing, state, enabled, level, localVars, userVars, hot>>

UnloadStart(u) ==
  /\ Goto(u, "created", "quiesce")
  /\ lvl' = [lvl EXCEPT ![u] = level]
  /\ UNCHANGED <<kernVars, quiescing, lifeVars, flagVars, op, was, ok, cont, userVars, hot>>

\* Enter unload_all_now(r), to go on at c.
BeginUnloadAll(u, from, r, c) ==
  /\ Goto(u, from, "unloadall")
  /\ op' = [op EXCEPT ![u] = r] /\ cont' = [cont EXCEPT ![u] = c]

UnloadQuiesce(u) ==
  /\ quiescing' = TRUE
  /\ IF lvl[u] = "soft"
       THEN Goto(u, "quiesce", "umount") /\ UNCHANGED <<op, cont>>
       ELSE BeginUnloadAll(u, "quiesce", "force", "umount")
  /\ UNCHANGED <<kernVars, lifeVars, flagVars, was, ok, lvl, userVars, hot>>

AutoUmount(u) ==
  /\ Goto(u, "umount", "wait")
  /\ LazyUmount
  /\ UNCHANGED <<mod, calls, quiescing, lifeVars, flagVars, localVars, userVars, hot>>

WaitEscalate(u) ==
  /\ Refs > 1 /\ level \in Above(lvl[u])
  /\ lvl' = [lvl EXCEPT ![u] = level]
  /\ BeginUnloadAll(u, "wait", "force", "wait")
  /\ UNCHANGED <<kernVars, quiescing, lifeVars, flagVars, was, ok, userVars, hot>>

\* Mutant: a forced unload has no time limit.
WaitTimeout_OnlySoft(u) ==
  /\ Refs > 1 /\ lvl[u] = "soft" /\ level \notin Above(lvl[u])
  /\ Goto(u, "wait", "resume")
  /\ UNCHANGED <<kernVars, quiescing, lifeVars, flagVars, localVars, userVars, hot>>

\* 30 s have passed; the polls before that change nothing.
WaitTimeout(u) ==
  /\ Refs > 1 /\ level \notin Above(lvl[u])
  /\ Goto(u, "wait", "resume")
  /\ UNCHANGED <<kernVars, quiescing, lifeVars, flagVars, localVars, userVars, hot>>

\* Mutant: decides on the shared force flag instead of the thread's own copy.
WaitDrained_SharedFlag(u) ==
  /\ Refs <= 1
  /\ IF level = "soft"
       THEN BeginUnloadAll(u, "wait", "unload", "launch")
       ELSE Goto(u, "wait", "launch") /\ UNCHANGED <<op, cont>>
  /\ UNCHANGED <<kernVars, quiescing, lifeVars, flagVars, was, ok, lvl, userVars, hot>>

WaitDrained(u) ==
  /\ Refs <= 1
  /\ IF lvl[u] = "soft"
       THEN BeginUnloadAll(u, "wait", "unload", "launch")
       ELSE Goto(u, "wait", "launch") /\ UNCHANGED <<op, cont>>
  /\ UNCHANGED <<kernVars, quiescing, lifeVars, flagVars, was, ok, lvl, userVars, hot>>

\* UMH_WAIT_EXEC: success only means that rmmod was started.
RunRmmod(u) ==
  /\ \/ Goto(u, "launch", "clear") /\ rmmod' = TRUE
     \/ Goto(u, "launch", "resume") /\ rmmod' = rmmod
  /\ UNCHANGED <<kernVars, quiescing, lifeVars, flagVars, localVars, handoff, hot>>

UnloadResume(u) ==
  /\ Goto(u, "resume", "abort")
  /\ quiescing' = FALSE
  /\ UNCHANGED <<kernVars, lifeVars, flagVars, localVars, userVars, hot>>

UnloadAbort(u) ==
  /\ Goto(u, "abort", "put")
  /\ in_progress' = FALSE /\ level' = "soft"
  /\ global_state' = "active"
  /\ lvl' = [lvl EXCEPT ![u] = "soft"] /\ cont' = [cont EXCEPT ![u] = "wait"]
  /\ UNCHANGED <<kernVars, quiescing, state, enabled, op, was, ok, userVars, hot>>

UnloadClear(u) ==
  /\ Goto(u, "clear", "putexit")
  /\ in_progress' = FALSE /\ level' = "soft"
  /\ lvl' = [lvl EXCEPT ![u] = "soft"] /\ cont' = [cont EXCEPT ![u] = "wait"]
  /\ UNCHANGED <<kernVars, quiescing, lifeVars, op, was, ok, userVars, hot>>

\* module_put_and_kthread_exit(): ends in the core kernel's text.
PutAndExit(t) ==
  /\ Goto(t, "putexit", "none")
  /\ UNCHANGED <<kernVars, quiescing, lifeVars, flagVars, localVars, userVars, hot>>

\* module_put(); return 0: the return is still module text.
Put(t) ==
  /\ Goto(t, "put", "last")
  /\ UNCHANGED <<kernVars, quiescing, lifeVars, flagVars, localVars, userVars, hot>>

ThreadReturn(t) ==
  /\ Goto(t, "last", "none")
  /\ UNCHANGED <<kernVars, quiescing, lifeVars, flagVars, localVars, userVars, hot>>

-----------------------------------------------------------------------------
(***************************************************************************)
(* Hot reload: lkm4ctr_hotreload_trigger() and lkm4ctr_hotreload_worker(). *)
(***************************************************************************)
HotTrigger(w) ==
  /\ Reloader # {} /\ hot # "running"
  /\ Goto(w, "open", "hotspawn")
  /\ hot' = "running"
  /\ UNCHANGED <<kernVars, quiescing, lifeVars, flagVars, localVars, userVars>>

HotSpawnFail(w) ==
  /\ Goto(w, "hotspawn", "open")
  /\ hot' = "failed"
  /\ UNCHANGED <<kernVars, quiescing, lifeVars, flagVars, localVars, userVars>>

HotStart(r) ==
  /\ Goto(r, "created", "quiesce")
  /\ UNCHANGED <<kernVars, quiescing, lifeVars, flagVars, localVars, userVars, hot>>

\* Quiesce; give up if the symbols the rest needs cannot be resolved.
HotQuiesce(r) ==
  /\ \E next \in {"wait", "resume"} : Goto(r, "quiesce", next)
  /\ quiescing' = TRUE
  /\ UNCHANGED <<kernVars, lifeVars, flagVars, localVars, userVars, hot>>

\* The drain ends at reference count 1 or after 30 s, with the same result.
HotDrain(r) ==
  /\ Goto(r, "wait", "umount")
  /\ UNCHANGED <<kernVars, quiescing, lifeVars, flagVars, localVars, userVars, hot>>

HotUmount(r) ==
  /\ Goto(r, "umount", "launch")
  /\ LazyUmount
  /\ UNCHANGED <<mod, calls, quiescing, lifeVars, flagVars, localVars, userVars, hot>>

HotLaunch(r) ==
  /\ \/ Goto(r, "launch", "putexit") /\ handoff' = HandoffTries
     \/ Goto(r, "launch", "resume") /\ handoff' = handoff
  /\ UNCHANGED <<kernVars, quiescing, lifeVars, flagVars, localVars, rmmod, hot>>

HotResume(r) ==
  /\ Goto(r, "resume", "failmark")
  /\ quiescing' = FALSE
  /\ UNCHANGED <<kernVars, lifeVars, flagVars, localVars, userVars, hot>>

HotFail(r) ==
  /\ Goto(r, "failmark", "put")
  /\ hot' = "failed"
  /\ UNCHANGED <<kernVars, quiescing, lifeVars, flagVars, localVars, userVars>>

-----------------------------------------------------------------------------
(***************************************************************************)
(* Deleting an entry of ./resources: lkm4ctr_diag_res_delete().            *)
(***************************************************************************)
ResDeleteMount(w) ==
  /\ ResDelete /\ pc[w] = "open"
  /\ LazyUmount
  /\ UNCHANGED <<mod, calls, quiescing, lifeVars, flagVars, pc, localVars, userVars, hot>>

ResDeleteHook(w) ==
  /\ ResDelete
  /\ Goto(w, "open", "resdrain")
  /\ quiescing' = TRUE
  /\ UNCHANGED <<kernVars, lifeVars, flagVars, localVars, userVars, hot>>

\* The calls drained, or 5 s passed.
ResDeleteDone(w) ==
  /\ Goto(w, "resdrain", "open")
  /\ quiescing' = FALSE
  /\ UNCHANGED <<kernVars, lifeVars, flagVars, localVars, userVars, hot>>

-----------------------------------------------------------------------------
(***************************************************************************)
(* rmmod and insmod.                                                       *)
(***************************************************************************)
\* Threads that execute module text without holding a module reference.
Unreferenced == {t \in Thread : pc[t] \in {"created", "last"}}

\* delete_module(2): refused with references left; otherwise module_exit runs
\* and the module is gone.
DeleteModule ==
  IF mod = "live" /\ Refs = 0
    THEN /\ LateThreads \/ Unreferenced = {}
         /\ mod' = "freed" /\ enabled' = FALSE
    ELSE UNCHANGED <<mod, enabled>>

LaunchedRmmod ==
  /\ rmmod /\ rmmod' = FALSE
  /\ DeleteModule
  /\ UNCHANGED <<mounts, calls, quiescing, global_state, state, flagVars, pc, localVars, handoff, hot>>

OperatorRmmod ==
  /\ mod = "live" /\ Refs = 0
  /\ DeleteModule
  /\ UNCHANGED <<mounts, calls, quiescing, global_state, state, flagVars, pc, localVars, userVars, hot>>

\* Mutant: the shell's limit is tested before it counts.
HandoffRmmod_OffByOne ==
  /\ handoff > -1
  /\ DeleteModule
  /\ handoff' = IF mod' # mod THEN 0 ELSE handoff - 1
  /\ UNCHANGED <<mounts, calls, quiescing, global_state, state, flagVars, pc, localVars, rmmod, hot>>

\* while ! rmmod; do i=i+1; [ $i -ge 100 ] && exit 1; done; exec insmod
HandoffRmmod ==
  /\ handoff > 0
  /\ DeleteModule
  /\ handoff' = IF mod' # mod THEN 0 ELSE handoff - 1
  /\ UNCHANGED <<mounts, calls, quiescing, global_state, state, flagVars, pc, localVars, rmmod, hot>>

\* A new instance, by the hand-off shell or by hand.
Insmod ==
  /\ mod = "freed" /\ \A t \in Thread : pc[t] = "none"
  /\ mod' = "live" /\ quiescing' = FALSE
  /\ global_state' = "active" /\ state' = "active" /\ enabled' = TRUE
  /\ in_progress' = FALSE /\ level' = "soft" /\ hot' = "idle"
  /\ UNCHANGED <<mounts, calls, pc, localVars, userVars>>

-----------------------------------------------------------------------------
\* Steps of the kernel once a request is accepted.
WriterStep(w) ==
  \/ LoadAllModule(w) \/ ModInit(w) \/ InitEnd(w) \/ LoadAllEnd(w)
  \/ ForceQuiesce(w) \/ ForceResume(w) \/ WriterSettle(w)
  \/ SpawnFail(w) \/ HotSpawnFail(w) \/ ResDeleteDone(w)
  \/ \E u \in Unloader : KthreadRun(w, u, "spawn")
  \/ \E r \in Reloader : KthreadRun(w, r, "hotspawn")

ExitStep(a) ==
  \/ ExitGates(a) \/ ExitQuiesce(a) \/ ExitDrained(a) \/ ExitRefuse(a)
  \/ ExitCommit(a) \/ ExitEnd(a)

ThreadEnd(t) == PutAndExit(t) \/ Put(t) \/ ThreadReturn(t)

UnloaderStep(u) ==
  \/ UnloadStart(u) \/ UnloadQuiesce(u) \/ UnloadAllNow(u) \/ UnloaderSettle(u)
  \/ AutoUmount(u) \/ WaitEscalate(u) \/ WaitTimeout(u) \/ WaitDrained(u)
  \/ RunRmmod(u) \/ UnloadResume(u) \/ UnloadAbort(u) \/ UnloadClear(u)

ReloaderStep(r) ==
  \/ HotStart(r) \/ HotQuiesce(r) \/ HotDrain(r) \/ HotUmount(r)
  \/ HotLaunch(r) \/ HotResume(r) \/ HotFail(r)

\* Requests that user space may or may not make.
Request(w) ==
  \/ Open(w) \/ Close(w) \/ ModuleLoad(w) \/ LoadAll(w)
  \/ \E r \in {"unload", "force"} : ModuleUnload(w, r)
  \/ \E l \in Level : ControlUnload(w, l) \/ Escalate(w, l)
  \/ HotTrigger(w) \/ ResDeleteMount(w) \/ ResDeleteHook(w)

Environment ==
  \/ Mount \/ Umount \/ \E k \in CallKind : CallEnter(k) \/ CallReturn(k)
  \/ LaunchedRmmod \/ OperatorRmmod \/ HandoffRmmod \/ Insmod

Next ==
  \/ Environment
  \/ \E w \in Writer : Request(w) \/ WriterStep(w)
  \/ \E a \in Writer \cup Unloader : ExitStep(a)
  \/ \E u \in Unloader : UnloaderStep(u)
  \/ \E r \in Reloader : ReloaderStep(r)
  \/ \E t \in Thread : ThreadEnd(t)

Spec == Init /\ [][Next]_vars

\* Kernel threads and accepted requests keep running; so do the processes
\* they launched, and the exempt lifecycle hooks, which wait for nobody.  Other
\* calls need not return and users need not do anything.
FairSpec ==
  /\ Spec
  /\ \A w \in Writer : WF_vars(WriterStep(w))
  /\ \A a \in Writer \cup Unloader : WF_vars(ExitStep(a))
  /\ \A u \in Unloader : WF_vars(UnloaderStep(u))
  /\ \A r \in Reloader : WF_vars(ReloaderStep(r))
  /\ \A t \in Thread : WF_vars(ThreadEnd(t))
  /\ WF_vars(LaunchedRmmod) /\ WF_vars(HandoffRmmod)
  /\ WF_vars(CallReturn("exempt"))

-----------------------------------------------------------------------------
(***************************************************************************)
(* Properties.                                                             *)
(***************************************************************************)
\* The type invariant; the counters of mounts, calls and attempts stay in
\* their ranges.
TypeOK ==
  /\ mod \in {"live", "freed"}
  /\ mounts \in 0..MaxMounts /\ calls \in [CallKind -> 0..MaxCalls]
  /\ quiescing \in BOOLEAN /\ enabled \in BOOLEAN /\ in_progress \in BOOLEAN
  /\ global_state \in {"active", "loading", "unloading"}
  /\ state \in {"active", "unloaded", "loading", "unloading"}
  /\ level \in Level
  /\ pc \in [Actor -> PC]
  /\ op \in [Actor -> {"none", "load", "loadall", "unload", "force"}]
  /\ was \in [Actor -> BOOLEAN] /\ ok \in [Actor -> BOOLEAN]
  /\ lvl \in [Unloader -> Level]
  /\ cont \in [Unloader -> {"umount", "wait", "launch"}]
  /\ rmmod \in BOOLEAN /\ handoff \in 0..HandoffTries
  /\ hot \in {"idle", "running", "failed"}

\* vendor_kernel_init() and vendor_kernel_exit() take no lock of their own:
\* the lifecycle states alone must keep two requests, or a request and an
\* unload thread, from running them at the same time.
LifecycleSerialized ==
  \A a, b \in Actor :
    pc[a] \in InInit \cup InExit /\ pc[b] \in InInit \cup InExit => a = b

\* While the lifecycle state of the subsystem is not a transition, it is what
\* the subsystem really is, and no one is changing it.
StateReported ==
  mod = "live" /\ ~Busy(state) =>
    /\ state = Stable
    /\ \A a \in Actor : pc[a] \notin InInit \cup InExit

\* The lifecycle states do their job: one transition at a time, truthfully told.
LifecycleExact == LifecycleSerialized /\ StateReported

\* An unload thread that launches rmmod has taken the subsystem down, on every
\* path through force, graceful and escalated unloads, and no request brings
\* it back up while the thread is there.
LaunchUnloaded ==
  \A u \in Unloader : pc[u] \in {"launch", "clear", "putexit"} => ~enabled

\* Where an unload thread counts on the hooks being quiesced, where it is in a
\* stop of its own, and what the parties do that use the flag without looking
\* at the lifecycle states.
Draining(u) == pc[u] \in InExit \cup {"unloadall", "exited", "umount", "wait", "launch"}
Nested == {"drain", "guards", "exitend"}
SideRelease ==
  \/ \E w \in Writer : Goto(w, "resdrain", "open")
  \/ \E r \in Reloader : Goto(r, "resume", "failmark")

\* While an unload thread waits for references to drain, no ordinary call may
\* start: no other request, and no stop nested in the unload, releases the
\* hooks under it.  Only the end of a ./resources deletion and a hot reload
\* that gives up do, and a nested stop that began after one of these and so
\* found the hooks running.
DrainQuiesced ==
  [][\A u \in Unloader :
       Draining(u) /\ quiescing /\ ~quiescing' =>
         SideRelease \/ (pc[u] \in Nested /\ pc'[u] = "exited" /\ ~was[u])]_vars

\* A hot reload or a deletion under ./resources is under way.
Side == hot = "running" \/ \E w \in Writer : pc[w] = "resdrain"

\* Hooks are quiesced only for a request that is still visible: every refused,
\* aborted or finished request gives them back.
QuiesceOwned ==
  mod = "live" /\ quiescing =>
    in_progress \/ global_state = "unloading" \/ Busy(state) \/ Side

\* The one condition QuiesceOwned needs, and the code does not ensure (README,
\* deviations): a graceful unload of the subsystem does not read was_quiescing
\* while one of the others has the flag.
Apart == \A w \in Writer : pc[w] = "exit" /\ op[w] = "unload" => ~Side

\* No thread executes module text once the module is freed.  The runs assume
\* it (LateThreads = FALSE); the code does not ensure it: README, deviations.
NoThreadAfterFree == mod = "freed" => Unreferenced = {}

\* An unload attempt ends, whatever calls and mounts there are.
UnloadEnds == in_progress ~> ~in_progress

\* A lifecycle transition of the module ends with the module active again or
\* gone.
TransitionEnds ==
  global_state # "active" ~> (global_state = "active" \/ mod = "freed")

\* An accepted hot reload ends: it fails, or the module is replaced.  Not so
\* when the hand-off shell gives up: README, deviations.
HotReloadEnds == hot = "running" ~> (hot # "running" \/ mod = "freed")
=============================================================================
