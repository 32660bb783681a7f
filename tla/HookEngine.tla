----------------------------- MODULE HookEngine -----------------------------
(***************************************************************************)
(* The hook engine of lkm4ctr.ko (glue/shadow_hijack.c, glue/shadow_hook.h)*)
(* and the part of the module's life that keeps it safe: installation and  *)
(* removal of hooks, the redirect of a call into a replacement function,   *)
(* the return probe that drops the call's module reference, the quiesce    *)
(* gate, delete_module(2) and the failure of module_init.                  *)
(*                                                                         *)
(* A call context (a task on a CPU) walks through                          *)
(*                                                                         *)
(*   out -> thunk -> locked -> got -> counted -> func -> dec -> tail -> out*)
(*                                                                         *)
(* "thunk", "locked", "got" and "counted" run inside the forward probe's   *)
(* handler, "func" inside the replacement, "dec" and "tail" inside the     *)
(* return probe's handler.  All of them but "out" execute module text.     *)
(* A call that the return probe cannot track sits in "missed" instead of   *)
(* "func".  The kernel's kprobe/ftrace core is external: unregistering a   *)
(* probe stops new handlers and waits for the running ones.                *)
(*                                                                         *)
(* The hooks of one install_all() batch are visited in any order; the code *)
(* uses array order, on which nothing here depends.  hook->inflight, the   *)
(* per-hook split of the counter, is only printed and is left out.         *)
(***************************************************************************)
EXTENDS Integers, FiniteSets

CONSTANTS
  Hook,        \* the struct shadow_hook objects of one batch
  Exempt,      \* those with quiesce_exempt set
  NoReturn,    \* those whose replacement may end in do_exit()
  Call,        \* call contexts
  NoOne,       \* "the lock is free"
  MaxActive,   \* kretprobe instances per return probe (maxactive)
  MaxOrphans,  \* bound: calls that end without their return probe firing
  MaxPins,     \* bound: module references held by other subsystems
  InitMayFail  \* may module_init fail after hooks were installed?

ASSUME HookAssumption ==
  /\ IsFiniteSet(Call)
  /\ Exempt \subseteq Hook
  /\ NoReturn \subseteq Hook
  /\ NoOne \notin Call
  /\ MaxActive \in Nat \ {0}
  /\ MaxOrphans \in Nat
  /\ MaxPins \in Nat
  /\ InitMayFail \in BOOLEAN

VARIABLES
  mod,        \* "coming" (module_init), "live", "going" (module_exit), "freed"
  refcnt,     \* module_refcount(THIS_MODULE)
  pins,       \* references held by namespaces, inodes, mounts, workers
  quiescing,  \* shadow_hook_quiescing
  qlock,      \* holder of shadow_hook_quiesce_lock
  fwd,        \* per hook: forward probe "off", "on" or being unregistered
  retprobe,   \* per hook: retprobe_installed
  active,     \* the batch's registry group is marked active
  op, todo,   \* what the init/exit sequencer does, hooks still to visit
  fresh,      \* the hook whose return probe this installation registered
  pc, at,     \* per call: where it is, and through which hook
  inflight,   \* shadow_hook_inflight
  orphans     \* history: calls that ended without shadow_hook_retprobe_ret

modVars  == <<mod, refcnt, pins>>
seqVars  == <<fwd, retprobe, active, op, todo, fresh>>
callVars == <<pc, at, inflight, orphans>>
vars == <<modVars, quiescing, qlock, seqVars, callVars>>

ModState == {"coming", "live", "going", "freed"}
Op       == {"idle", "install", "remove", "teardown"}
InThunk  == {"thunk", "locked", "got", "counted"}
InRet    == {"dec", "tail"}
PC       == {"out", "func", "missed"} \cup InThunk \cup InRet

\* States in which a call holds a module reference, and in which it is
\* accounted in shadow_hook_inflight.
Holding == {"got", "counted", "func", "missed", "dec"}
Counted == {"counted", "func", "missed"}

CallsIn(S) == {c \in Call : pc[c] \in S}
CallsAt(h, S) == {c \in Call : at[c] = h /\ pc[c] \in S}

\* try_module_get() succeeds until the module is going.
ModuleIsLive == mod \in {"coming", "live"}

Init ==
  /\ mod = "coming" /\ refcnt = 0 /\ pins = 0
  /\ quiescing = FALSE /\ qlock = NoOne
  /\ fwd = [h \in Hook |-> "off"] /\ retprobe = [h \in Hook |-> FALSE]
  /\ active = FALSE /\ op = "idle" /\ todo = {} /\ fresh = {}
  /\ pc = [c \in Call |-> "out"] /\ at \in [Call -> Hook]
  /\ inflight = 0 /\ orphans = 0

-----------------------------------------------------------------------------
(***************************************************************************)
(* A hooked kernel function is called.                                     *)
(***************************************************************************)
Step(c, from, to) == pc[c] = from /\ pc' = [pc EXCEPT ![c] = to]

\* The forward probe fires for an external caller: shadow_hook_thunk() or
\* shadow_hook_pre_handler().  A call from the module itself (the replacement
\* calling through hook->original) passes straight through and changes nothing.
HookFires(c, h) ==
  /\ fwd[h] = "on"
  /\ Step(c, "out", "thunk")
  /\ at' = [at EXCEPT ![c] = h]
  /\ UNCHANGED <<modVars, quiescing, qlock, seqVars, inflight, orphans>>

\* shadow_hook_redirect_enter(): take the quiesce lock.
RedirectLock(c) ==
  /\ qlock = NoOne
  /\ Step(c, "thunk", "locked")
  /\ qlock' = c
  /\ UNCHANGED <<modVars, quiescing, seqVars, at, inflight, orphans>>

Admitted(c) ==
  /\ ~quiescing \/ at[c] \in Exempt
  /\ retprobe[at[c]]
  /\ ModuleIsLive

\* The guards hold: the module reference is taken.
RedirectGet(c) ==
  /\ Admitted(c)
  /\ Step(c, "locked", "got")
  /\ refcnt' = refcnt + 1
  /\ UNCHANGED <<mod, pins, quiescing, qlock, seqVars, at, inflight, orphans>>

\* Mutant: the refused redirect keeps its module reference.
RedirectRefuse_KeepsRef(c) ==
  /\ ~Admitted(c)
  /\ Step(c, "locked", "out")
  /\ qlock' = NoOne /\ refcnt' = refcnt + 1
  /\ UNCHANGED <<mod, pins, quiescing, seqVars, at, inflight, orphans>>

\* A guard fails: unlock, and the call proceeds into the genuine function.
RedirectRefuse(c) ==
  /\ ~Admitted(c)
  /\ Step(c, "locked", "out")
  /\ qlock' = NoOne
  /\ UNCHANGED <<modVars, quiescing, seqVars, at, inflight, orphans>>

\* The redirect is accounted and the lock dropped.
RedirectCount(c) ==
  /\ Step(c, "got", "counted")
  /\ inflight' = inflight + 1
  /\ qlock' = NoOne
  /\ UNCHANGED <<modVars, quiescing, seqVars, at, orphans>>

\* Kretprobe instances of hook h in use.
Busy(h) == Cardinality(CallsAt(h, {"func"} \cup InRet))

\* The handler returns into hook->function, whose own entry probe takes a
\* kretprobe instance; with none free (or no probe) the return goes unseen.
EnterFunction(c) ==
  /\ \/ /\ retprobe[at[c]] /\ Busy(at[c]) < MaxActive
        /\ Step(c, "counted", "func")
     \/ /\ ~(retprobe[at[c]] /\ Busy(at[c]) < MaxActive)
        /\ Step(c, "counted", "missed")
  /\ UNCHANGED <<modVars, quiescing, qlock, seqVars, at, inflight, orphans>>

\* hook->function returns and shadow_hook_retprobe_ret() runs.
RetprobeRet(c) ==
  /\ retprobe[at[c]]
  /\ Step(c, "func", "dec")
  /\ inflight' = inflight - 1
  /\ UNCHANGED <<modVars, quiescing, qlock, seqVars, at, orphans>>

\* Mutant: the counter is decremented a second time with module_put().
RetprobePut_DecTwice(c) ==
  /\ Step(c, "dec", "tail")
  /\ refcnt' = refcnt - 1 /\ inflight' = inflight - 1
  /\ UNCHANGED <<mod, pins, quiescing, qlock, seqVars, at, orphans>>

RetprobePut(c) ==
  /\ Step(c, "dec", "tail")
  /\ refcnt' = refcnt - 1
  /\ UNCHANGED <<mod, pins, quiescing, qlock, seqVars, at, inflight, orphans>>

RetprobeLeave(c) ==
  /\ Step(c, "tail", "out")
  /\ UNCHANGED <<modVars, quiescing, qlock, seqVars, at, inflight, orphans>>

\* A call ends and no return handler accounts for it: the instance was never
\* taken, the probe was unregistered under it (rp is NULL), or the
\* replacement left through do_exit().
EndUnaccounted(c) ==
  /\ orphans < MaxOrphans
  /\ \/ Step(c, "missed", "out")
     \/ ~retprobe[at[c]] /\ Step(c, "func", "out")
     \/ at[c] \in NoReturn /\ Step(c, "func", "out")
  /\ orphans' = orphans + 1
  /\ UNCHANGED <<modVars, quiescing, qlock, seqVars, at, inflight>>

CallStep(c) ==
  \/ \E h \in Hook : HookFires(c, h)
  \/ RedirectLock(c) \/ RedirectGet(c) \/ RedirectRefuse(c)
  \/ RedirectCount(c) \/ EnterFunction(c)
  \/ RetprobeRet(c) \/ RetprobePut(c) \/ RetprobeLeave(c)
  \/ EndUnaccounted(c)

-----------------------------------------------------------------------------
(***************************************************************************)
(* The init/exit sequencer.  Installing and removing hooks is only ever    *)
(* done by one thread at a time (module init/exit, or the diagfs control   *)
(* plane under its mutex).                                                 *)
(***************************************************************************)

\* shadow_hook_install_all(): the group is marked active first.
InstallAll ==
  /\ op = "idle" /\ ~active /\ ModuleIsLive
  /\ active' = TRUE /\ op' = "install" /\ todo' = Hook
  /\ UNCHANGED <<modVars, quiescing, qlock, fwd, retprobe, fresh, callVars>>

\* shadow_hook_install() of one hook at a time.
Installing(h) == op = "install" /\ h \in todo /\ fresh \subseteq {h}

\* shadow_hook_retprobe_install(): idempotent, and before the forward probe.
RetprobeInstall(h) ==
  /\ Installing(h) /\ ~retprobe[h]
  /\ retprobe' = [retprobe EXCEPT ![h] = TRUE]
  /\ fresh' = {h}
  /\ UNCHANGED <<modVars, quiescing, qlock, fwd, active, op, todo, callVars>>

\* The forward probe is registered.
ForwardInstall(h) ==
  /\ Installing(h) /\ retprobe[h]
  /\ fwd' = [fwd EXCEPT ![h] = "on"]
  /\ todo' = todo \ {h} /\ fresh' = {}
  /\ UNCHANGED <<modVars, quiescing, qlock, retprobe, active, op, callVars>>

\* No candidate symbol resolves: -ENOENT, the hook is skipped.
SkipMissing(h) ==
  /\ Installing(h) /\ fresh = {}
  /\ todo' = todo \ {h}
  /\ UNCHANGED <<modVars, quiescing, qlock, fwd, retprobe, active, op, fresh, callVars>>

\* Mutant: new_retprobe is ignored and an older return probe is dropped too.
InstallFail_DropsProbe(h) ==
  /\ mod = "coming" => InitMayFail
  /\ Installing(h)
  /\ retprobe' = [retprobe EXCEPT ![h] = FALSE]
  /\ op' = "remove" /\ todo' = Hook /\ fresh' = {}
  /\ UNCHANGED <<modVars, quiescing, qlock, fwd, active, callVars>>

\* Registering a probe of hook h fails.  A return probe that this installation
\* registered is unregistered again, an older one stays.  The caller then
\* unwinds the whole batch with shadow_hook_remove_all().
InstallFail(h) ==
  /\ mod = "coming" => InitMayFail
  /\ Installing(h)
  /\ retprobe' = [retprobe EXCEPT ![h] = @ /\ h \notin fresh]
  /\ op' = "remove" /\ todo' = Hook /\ fresh' = {}
  /\ UNCHANGED <<modVars, quiescing, qlock, fwd, active, callVars>>

\* The batch is complete, and lkm4ctr_init() or the reload succeeds; or the
\* required hooks are not all there and it is unwound.
InstallDone ==
  /\ op = "install" /\ todo = {}
  /\ op' = "idle" /\ mod' = "live"
  /\ UNCHANGED <<refcnt, pins, quiescing, qlock, fwd, retprobe, active, todo, fresh, callVars>>

InstallReject ==
  /\ mod = "coming" => InitMayFail
  /\ op = "install" /\ todo = {}
  /\ op' = "remove" /\ todo' = Hook
  /\ UNCHANGED <<modVars, quiescing, qlock, fwd, retprobe, active, fresh, callVars>>

\* shadow_hook_remove_all() on a live module (vendor_kernel_exit()).
RemoveAll ==
  /\ op = "idle" /\ active /\ mod = "live"
  /\ op' = "remove" /\ todo' = Hook
  /\ UNCHANGED <<modVars, quiescing, qlock, fwd, retprobe, active, fresh, callVars>>

\* Mutant: wait for running handlers before disarming the probe.
Disarm_Late(h) ==
  /\ op = "remove" /\ h \in todo /\ fwd[h] = "on"
  /\ CallsAt(h, InThunk) = {}
  /\ fwd' = [fwd EXCEPT ![h] = "draining"]
  /\ UNCHANGED <<modVars, quiescing, qlock, retprobe, active, op, todo, fresh, callVars>>

\* shadow_hook_remove(): unregistering the forward probe disarms it ...
Disarm(h) ==
  /\ op = "remove" /\ h \in todo /\ fwd[h] = "on"
  /\ fwd' = [fwd EXCEPT ![h] = "draining"]
  /\ UNCHANGED <<modVars, quiescing, qlock, retprobe, active, op, todo, fresh, callVars>>

\* Mutant: the hook counts as removed while its handler still runs.
Removed_NoWait(h) ==
  /\ op = "remove" /\ h \in todo /\ fwd[h] # "on"
  /\ fwd' = [fwd EXCEPT ![h] = "off"]
  /\ todo' = todo \ {h}
  /\ UNCHANGED <<modVars, quiescing, qlock, retprobe, active, op, fresh, callVars>>

\* ... and waits for the handlers that still run.  The return probe stays.
Removed(h) ==
  /\ op = "remove" /\ h \in todo /\ fwd[h] # "on"
  /\ CallsAt(h, InThunk) = {}
  /\ fwd' = [fwd EXCEPT ![h] = "off"]
  /\ todo' = todo \ {h}
  /\ UNCHANGED <<modVars, quiescing, qlock, retprobe, active, op, fresh, callVars>>

\* The batch is gone.  Only a module on its way out continues with
\* shadow_hook_teardown_all_retprobes().
RemoveDone ==
  /\ op = "remove" /\ todo = {}
  /\ active' = FALSE
  /\ \/ mod = "live" /\ op' = "idle" /\ todo' = {}
     \/ mod # "live" /\ op' = "teardown" /\ todo' = Hook
  /\ UNCHANGED <<modVars, quiescing, qlock, fwd, retprobe, fresh, callVars>>

\* shadow_hook_retprobe_remove(): waits for running return handlers.
RetprobeRemove(h) ==
  /\ op = "teardown" /\ h \in todo
  /\ CallsAt(h, InRet) = {}
  /\ retprobe' = [retprobe EXCEPT ![h] = FALSE]
  /\ todo' = todo \ {h}
  /\ UNCHANGED <<modVars, quiescing, qlock, fwd, active, op, fresh, callVars>>

\* module_exit, or the failed module_init, has returned: memory is freed.
Free ==
  /\ op = "teardown" /\ todo = {}
  /\ mod' = "freed" /\ op' = "idle"
  /\ UNCHANGED <<refcnt, pins, quiescing, qlock, fwd, retprobe, active, todo, fresh, callVars>>

\* delete_module(2): refused while the reference count is not zero.
DeleteModule ==
  /\ op = "idle" /\ mod = "live" /\ refcnt = 0
  /\ mod' = "going" /\ op' = "remove" /\ todo' = Hook
  /\ UNCHANGED <<refcnt, pins, quiescing, qlock, fwd, retprobe, active, fresh, callVars>>

\* insmod of the next build into a machine that survived: fresh module memory.
Insmod ==
  /\ mod = "freed" /\ CallsIn(PC \ {"out"}) = {}
  /\ mod' = "coming" /\ quiescing' = FALSE
  /\ refcnt' = 0 /\ pins' = 0 /\ inflight' = 0 /\ orphans' = 0
  /\ UNCHANGED <<qlock, seqVars, pc, at>>

\* Mutant: the flag is flipped without the quiesce lock.
Quiesce_NoLock(b) ==
  /\ mod \in {"live", "going"}
  /\ quiescing' = b
  /\ UNCHANGED <<modVars, qlock, seqVars, callVars>>

\* shadow_hook_quiesce(): the flag is written under the quiesce lock.
Quiesce(b) ==
  /\ qlock = NoOne /\ mod \in {"live", "going"}
  /\ quiescing' = b
  /\ UNCHANGED <<modVars, qlock, seqVars, callVars>>

\* Other subsystems take and drop module references.
Pin ==
  /\ ModuleIsLive /\ pins < MaxPins
  /\ pins' = pins + 1 /\ refcnt' = refcnt + 1
  /\ UNCHANGED <<mod, quiescing, qlock, seqVars, callVars>>

Unpin ==
  /\ pins > 0 /\ mod # "freed"
  /\ pins' = pins - 1 /\ refcnt' = refcnt - 1
  /\ UNCHANGED <<mod, quiescing, qlock, seqVars, callVars>>

Sequencer ==
  \/ InstallAll \/ InstallDone \/ InstallReject
  \/ RemoveAll \/ RemoveDone \/ Free \/ DeleteModule \/ Insmod
  \/ \E h \in Hook :
       \/ RetprobeInstall(h) \/ ForwardInstall(h) \/ SkipMissing(h)
       \/ InstallFail(h) \/ Disarm(h) \/ Removed(h) \/ RetprobeRemove(h)

Next ==
  \/ \E c \in Call : CallStep(c)
  \/ Sequencer
  \/ \E b \in BOOLEAN : Quiesce(b)
  \/ Pin \/ Unpin

Spec == Init /\ [][Next]_vars

\* Probe handlers run with preemption off and the quiesce lock is a queued
\* spinlock; the sequencer is an ordinary kernel thread that keeps running.
\* Replacement functions get no fairness: a hooked msgrcv(2) may block forever.
HandlerFairness(c) ==
  /\ SF_vars(RedirectLock(c))
  /\ WF_vars(RedirectGet(c) \/ RedirectRefuse(c) \/ RedirectCount(c))
  /\ WF_vars(EnterFunction(c))
  /\ WF_vars(RetprobePut(c) \/ RetprobeLeave(c))

FairSpec ==
  /\ Spec
  /\ \A c \in Call : HandlerFairness(c)
  /\ WF_vars(RemoveDone \/ Free)
  /\ \A h \in Hook : WF_vars(Disarm(h) \/ Removed(h) \/ RetprobeRemove(h))

-----------------------------------------------------------------------------
(***************************************************************************)
(* Properties.                                                             *)
(***************************************************************************)

\* Every variable keeps its type: in particular neither the module reference
\* count nor the in-flight counter ever drops below zero.
TypeOK ==
  /\ mod \in ModState /\ refcnt \in Nat /\ pins \in Nat
  /\ quiescing \in BOOLEAN /\ qlock \in Call \cup {NoOne}
  /\ fwd \in [Hook -> {"off", "on", "draining"}]
  /\ retprobe \in [Hook -> BOOLEAN]
  /\ active \in BOOLEAN /\ op \in Op
  /\ todo \subseteq Hook /\ fresh \subseteq Hook
  /\ pc \in [Call -> PC] /\ at \in [Call -> Hook]
  /\ inflight \in Nat /\ orphans \in Nat

\* The counters the unload paths rely on are backed call by call: the
\* in-flight counter counts the calls between shadow_hook_redirect_enter() and
\* shadow_hook_retprobe_ret(), the reference count those plus the other pins.
\* A call whose return was missed stays in both for ever.
Accounting ==
  /\ inflight = Cardinality(CallsIn(Counted)) + orphans
  /\ refcnt = Cardinality(CallsIn(Holding)) + orphans + pins

\* No CPU executes module text - a probe handler or a replacement function -
\* once the module's memory is freed ("rmmod safety" in shadow_hook.h).
NoTextAfterFree == mod = "freed" => CallsIn(PC \ {"out"}) = {}

\* What vendor_kernel_exit() concludes from a zero in-flight counter after
\* shadow_hook_quiesce(true): no ordinary call is inside a replacement, and
\* none is on its way in without being counted.
QuiescedDrained ==
  quiescing /\ inflight = 0 =>
    \A c \in Call : pc[c] \in {"got", "counted", "func", "missed"} => at[c] \in Exempt

\* The return probe of a hook outlives every call that went through the hook,
\* across any sequence of unload and reload: no runtime removal or failed
\* reinstallation orphans a call (comment of shadow_hook_remove()).
RetprobeOutlivesCalls ==
  \A c \in Call : pc[c] \in {"got", "counted", "func", "dec"} => retprobe[at[c]]

\* Return probes are torn down only when nothing references the module
\* (comment of shadow_hook_teardown_all_retprobes()).
TeardownAtZeroRefs == op = "teardown" => refcnt = 0

\* Unregistering a batch of hooks always ends, however many calls keep
\* arriving at the hooked functions meanwhile.
RemoveTerminates == (op = "remove") ~> (op # "remove")

\* The engine keeps the promise of ModuleLifetime, whatever it does with probes,
\* counters, locks and flags: a call enters the text only while it is loaded, and
\* rmmod frees the text only with no call inside.
Lifetime == INSTANCE ModuleLifetime WITH
  Call   <- Call,
  text   <- IF mod = "freed" THEN "freed" ELSE "loaded",
  inside <- {c \in Call : pc[c] # "out"}

ImplementsLifetime == Lifetime!Spec
=============================================================================
