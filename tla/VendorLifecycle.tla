--------------------------- MODULE VendorLifecycle ---------------------------
(***************************************************************************)
(* vendor_kernel_init() and the controlled vendor_kernel_exit(false) of    *)
(* glue/vendor_kernel_module.c as a sequencer of steps, against the calls  *)
(* that keep module-owned objects reachable meanwhile: namespace proxies,  *)
(* NSFS inodes (glue/vendor_kernel_nsfs_lifecycle.c) and procfs namespace  *)
(* inodes (glue/vendor_kernel_procfs.c) whose operations are module text,  *)
(* the operations lent to the kernel's initial pid namespace, and mqueue   *)
(* and overlay mounts.                                                     *)
(*                                                                         *)
(* The control plane never runs two of these handlers at once (ControlPlane*)
(* !LifecycleSerialized), so one sequencer is enough.  Quiescing and the   *)
(* in-flight count are the ones of HookEngine; proxies are counted only    *)
(* (Nsproxy has their reference counts).  The module_exit = true mode of   *)
(* the exit handler is not here.                                           *)
(***************************************************************************)
EXTENDS Naturals, FiniteSets, Sequences

CONSTANTS
  Task,      \* kernel tasks, each in at most one hooked call
  Nsfs,      \* NSFS inodes of module-owned namespaces
  Proc,      \* /proc/<pid>/ns/{ipc,pid} inodes instantiated by the module
  InitPid,   \* those of them that belong to the initial pid namespace
  MaxLive,   \* bound: live namespace proxies
  MaxMounts, \* bound: mqueue and overlay mounts, each
  MaxKept,   \* bound: fail-safe pins of both kinds
  FirstInitMayFail \* vendor_kernel_init() may fail at insmod, not only later

NoInode == "no inode"
Inode == Nsfs \cup Proc

ASSUME InodeAssumption ==
  /\ Nsfs \cap Proc = {} /\ InitPid \subseteq Inode
  /\ NoInode \notin Inode
  /\ IsFiniteSet(Task) /\ IsFiniteSet(Nsfs) /\ IsFiniteSet(Proc)
ASSUME BoundAssumption ==
  /\ MaxLive \in Nat /\ MaxMounts \in Nat /\ MaxKept \in Nat
  /\ FirstInitMayFail \in BOOLEAN

VARIABLES
  seq,          \* where the sequencer is
  first,        \* the module has not been started once yet
  hooks,        \* hook groups installed
  quiescing,    \* shadow_hook_quiescing
  gate,         \* vns_namespace_stop_gate
  ugate,        \* vns_user_ns_stopping
  stopping,     \* vns_nsfs_stopping
  mq_stopping,  \* mqueue_lifecycle_stopping
  dev_stopping, \* vns_mqueue_dev_work_stopping
  work,         \* vns_mqueue_dev_mount_work
  mq,           \* mqueue contexts, public superblocks and open files
  ovl, cache,   \* overlay mounts; ovl_inode_cachep exists
  live,         \* vns_nsproxy_live
  ino,          \* what became of each inode
  pins,         \* inodes with a record in vns_{nsfs,procfs}_inode_pins
  kept,         \* fail-safe pins without a record, of each kind
  refs,         \* module references taken for inodes
  ops,          \* the initial pid namespace has vns_pidns_operations
  pc, arg       \* the hooked call each task is in, and its inode

seqVars  == <<seq, first>>
gateVars == <<quiescing, gate, ugate, stopping>>
mqVars   == <<mq_stopping, dev_stopping, work, mq>>
ovlVars  == <<ovl, cache>>
inoVars  == <<ino, pins, kept, refs, ops>>
callVars == <<pc, arg>>
vars == <<seqVars, hooks, gateVars, mqVars, ovlVars, live, inoVars, callVars>>

\* The groups vendor_kernel_init() cannot do without, in the order it brings
\* them up, the ones it installs at best effort, and the order of removal.
Required == <<"overlay", "nsfs", "exit", "core", "ipc">>
Optional == {"procevict", "procfs", "userns"}
RemoveOrder ==
  <<"overlay", "userns", "procfs", "procevict", "ipc", "core", "exit", "nsfs">>
Group == {RemoveOrder[k] : k \in DOMAIN RemoveOrder}
RequiredSet == {Required[k] : k \in DOMAIN Required}

\* The steps of the exit handler, in program order.
Guards == <<"drain", "procpins", "nsfspins", "sysv", "mqueue", "detach">>
GuardSet == {Guards[k] : k \in DOMAIN Guards}
Stop == {"live", "nsfs", "preflight", "quiesce", "cancel", "remove", "wait", "cleanup"}
          \cup GuardSet
Seq_ == {"off", "init", "open", "on"} \cup Stop

Kind(i) == IF i \in Nsfs THEN "nsfs" ELSE "proc"
PinCount(k) == Cardinality({i \in pins : Kind(i) = k}) + kept[k]
inflight == Cardinality({t \in Task : pc[t] # "idle"})

\* vns_nsfs_lifecycle_lock is held from the stopping check to the pin.
LockFree == \A t \in Task : pc[t] # "gotpath"

Init ==
  /\ seq = "off" /\ first = TRUE /\ hooks = {}
  /\ quiescing = FALSE /\ gate = FALSE /\ ugate = FALSE /\ stopping = FALSE
  /\ mq_stopping = FALSE /\ dev_stopping = FALSE /\ work = "idle" /\ mq = 0
  /\ ovl = 0 /\ cache = FALSE /\ live = 0
  /\ ino = [i \in Inode |-> "none"] /\ pins = {}
  /\ kept = [k \in {"nsfs", "proc"} |-> 0] /\ refs = 0 /\ ops = FALSE
  /\ pc = [t \in Task |-> "idle"] /\ arg = [t \in Task |-> NoInode]

-----------------------------------------------------------------------------
(***************************************************************************)
(* vendor_kernel_init().                                                   *)
(***************************************************************************)
\* User namespaces are closed first; then the default IPC namespace with its
\* mqueue filesystem, which may fail and undo itself.
InitBegin ==
  /\ seq = "off"
  /\ ugate' = TRUE
  /\ \/ seq' = "init" /\ mq_stopping' = FALSE
     \/ seq' = seq /\ mq_stopping' = TRUE /\ (first => FirstInitMayFail)
  /\ UNCHANGED <<first, hooks, quiescing, gate, stopping, dev_stopping, work, mq,
                 ovlVars, live, inoVars, callVars>>

\* vns_overlay_init() creates the inode cache, vns_overlay_exit() destroys it;
\* vns_nsfs_lifecycle_init() reopens path acquisition.
OverlayInit(g) == cache' = (cache \/ g = "overlay")
OverlayExit(g) == cache' = (cache /\ g # "overlay")
NsfsInit(g) == stopping' = (stopping /\ g # "nsfs")

\* The next required group: overlayfs, the NSFS lifetime hooks, the exit hooks,
\* core, IPC.
InitNext ==
  /\ seq = "init"
  /\ \E k \in DOMAIN Required :
       /\ Required[k] \notin hooks
       /\ \A j \in 1 .. k - 1 : Required[j] \in hooks
       /\ hooks' = hooks \cup {Required[k]}
       /\ OverlayInit(Required[k]) /\ NsfsInit(Required[k])
  /\ UNCHANGED <<seqVars, quiescing, gate, ugate, mqVars, ovl, live, inoVars, callVars>>

\* vns_nsfs_lifecycle_exit() leaves its hooks in place while pins remain.
NsfsExit(h) == IF PinCount("nsfs") = 0 THEN h \ {"nsfs"} ELSE h

\* vns_ipc_default_exit(): the worker is cancelled and mqueue closed.
IpcDefaultExit ==
  /\ dev_stopping' = TRUE /\ work' = "idle" /\ mq_stopping' = TRUE
  /\ UNCHANGED mq

\* Any of them may fail, and so may the check of the required hooks: what was
\* brought up is taken down.  Nothing waits for the calls in flight.
InitFail ==
  /\ seq = "init"
  /\ ~(RequiredSet \subseteq hooks)
  /\ first => FirstInitMayFail
  /\ work # "running"
  /\ seq' = "off"
  /\ hooks' = NsfsExit(hooks) \cap {"nsfs"}
  /\ cache' = FALSE
  /\ IpcDefaultExit
  /\ UNCHANGED <<first, gateVars, ovl, live, inoVars, callVars>>

\* The best-effort groups.
InitOptional ==
  /\ seq = "init" /\ RequiredSet \subseteq hooks
  /\ seq' = "open"
  /\ \E opt \in SUBSET Optional : hooks' = hooks \cup opt
  /\ UNCHANGED <<first, gateVars, mqVars, ovlVars, live, inoVars, callVars>>

DevEnsure ==
  /\ dev_stopping' = FALSE
  /\ work' = IF work = "idle" THEN "queued" ELSE work

OpenGates == gate' = FALSE /\ ugate' = FALSE

InitOpen ==
  /\ seq = "open"
  /\ seq' = "on" /\ first' = FALSE
  /\ OpenGates /\ DevEnsure
  /\ UNCHANGED <<hooks, quiescing, stopping, mq_stopping, mq, ovlVars, live, inoVars, callVars>>

-----------------------------------------------------------------------------
(***************************************************************************)
(* __vendor_kernel_exit(false).                                            *)
(***************************************************************************)
StopBegin ==
  /\ seq = "on"
  /\ seq' = "live"
  /\ gate' = TRUE /\ ugate' = TRUE
  /\ UNCHANGED <<first, hooks, quiescing, stopping, mqVars, ovlVars, live, inoVars, callVars>>

\* The first look at the live proxies.
StopLive ==
  /\ seq = "live"
  /\ IF live > 0 THEN seq' = "on" /\ OpenGates
                 ELSE seq' = "nsfs" /\ UNCHANGED <<gate, ugate>>
  /\ UNCHANGED <<first, hooks, quiescing, stopping, mqVars, ovlVars, live, inoVars, callVars>>

\* vns_nsfs_lifecycle_begin_exit().
StopNsfs ==
  /\ seq = "nsfs" /\ LockFree
  /\ seq' = "preflight"
  /\ stopping' = TRUE
  /\ UNCHANGED <<first, hooks, quiescing, gate, ugate, mqVars, ovlVars, live, inoVars, callVars>>

\* Up to 30 s for the calls in flight, then the refusal before the quiesce:
\* calls, proxies, or user and IPC namespaces that remain.
StopPreflight ==
  /\ seq = "preflight"
  /\ \/ seq' = "on" /\ stopping' = FALSE /\ OpenGates
     \/ /\ inflight = 0 /\ live = 0
        /\ seq' = "quiesce" /\ UNCHANGED <<stopping, gate, ugate>>
  /\ UNCHANGED <<first, hooks, quiescing, mqVars, ovlVars, live, inoVars, callVars>>

StopQuiesce ==
  /\ seq = "quiesce"
  /\ seq' = "cancel"
  /\ quiescing' = TRUE /\ dev_stopping' = TRUE
  /\ UNCHANGED <<first, hooks, gate, ugate, stopping, mq_stopping, work, mq, ovlVars,
                 live, inoVars, callVars>>

\* cancel_delayed_work_sync().
StopCancel ==
  /\ seq = "cancel" /\ work # "running"
  /\ seq' = "drain"
  /\ work' = "idle"
  /\ UNCHANGED <<first, hooks, gateVars, mq_stopping, dev_stopping, mq, ovlVars, live,
                 inoVars, callVars>>

\* What the guards ask: vns_procfs_compat_prepare_exit(),
\* vns_nsfs_lifecycle_prepare_exit(), vns_mqueue_fs_prepare_exit() and
\* vns_procfs_compat_detach_init_pidns_ops().  SysV semaphores and shared
\* memory are not modelled: their guard may go either way.
ProcfsIdle == PinCount("proc") = 0
NsfsIdle   == stopping /\ LockFree /\ PinCount("nsfs") = 0
MqueueIdle == ~mq_stopping /\ mq = 0
MayDetach  ==
  quiescing /\ inflight = 0 /\ PinCount("proc") = 0 /\ PinCount("nsfs") = 0

GuardPasses(g) ==
  CASE g = "drain"    -> inflight = 0
    [] g = "procpins" -> ProcfsIdle
    [] g = "nsfspins" -> NsfsIdle
    [] g = "sysv"     -> TRUE
    [] g = "mqueue"   -> MqueueIdle
    [] g = "detach"   -> MayDetach

\* A guard that passes: vns_mqueue_fs_prepare_exit() closes mqueue, and
\* vns_procfs_compat_detach_init_pidns_ops() takes the operations back.
StopGuard ==
  /\ \E k \in DOMAIN Guards :
       /\ seq = Guards[k] /\ GuardPasses(seq)
       /\ seq' = IF k < Len(Guards) THEN Guards[k + 1] ELSE "remove"
  /\ mq_stopping' = (mq_stopping \/ seq = "mqueue")
  /\ ops' = (ops /\ seq # "detach")
  /\ UNCHANGED <<first, hooks, gateVars, dev_stopping, work, mq, ovlVars, live,
                 ino, pins, kept, refs, callVars>>

\* Mutant: a refusal forgets vns_nsfs_lifecycle_abort_exit().
StopRefuse_NoAbort ==
  /\ seq \in GuardSet
  /\ ~GuardPasses(seq) \/ seq = "sysv"
  /\ seq' = "on"
  /\ DevEnsure
  /\ quiescing' = FALSE /\ OpenGates
  /\ UNCHANGED <<first, hooks, stopping, mq_stopping, mq, ovlVars, live, inoVars, callVars>>

\* Mutant: the stop waits for procfs inodes instead of refusing.
StopRefuse_NotProc ==
  /\ seq \in GuardSet \ {"procpins"}
  /\ ~GuardPasses(seq) \/ seq = "sysv"
  /\ seq' = "on"
  /\ DevEnsure
  /\ quiescing' = FALSE /\ stopping' = FALSE /\ OpenGates
  /\ UNCHANGED <<first, hooks, mq_stopping, mq, ovlVars, live, inoVars, callVars>>

\* A guard that refuses the stop, and what every refusal puts back.
StopRefuse ==
  /\ seq \in GuardSet
  /\ ~GuardPasses(seq) \/ seq = "sysv"
  /\ seq' = "on"
  /\ DevEnsure
  /\ quiescing' = FALSE /\ stopping' = FALSE /\ OpenGates
  /\ UNCHANGED <<first, hooks, mq_stopping, mq, ovlVars, live, inoVars, callVars>>

\* The point of no return: the groups go one by one.
StopRemove ==
  /\ seq = "remove"
  /\ \E k \in DOMAIN RemoveOrder :
       LET g == RemoveOrder[k] IN
       /\ g \in hooks
       /\ \A j \in 1 .. k - 1 : RemoveOrder[j] \notin hooks
       /\ hooks' = IF g = "nsfs" THEN NsfsExit(hooks) ELSE hooks \ {g}
       /\ OverlayExit(g)
       /\ seq' = IF g = "nsfs" THEN "wait" ELSE seq
  /\ UNCHANGED <<first, gateVars, mqVars, ovl, live, inoVars, callVars>>

\* The wait without a time limit for the exempt calls already redirected.
StopWait ==
  /\ seq = "wait" /\ inflight = 0
  /\ seq' = "cleanup"
  /\ UNCHANGED <<first, hooks, gateVars, mqVars, ovlVars, live, inoVars, callVars>>

StopCleanup ==
  /\ seq = "cleanup" /\ work # "running"
  /\ seq' = "off"
  /\ IpcDefaultExit
  /\ quiescing' = FALSE
  /\ UNCHANGED <<first, hooks, gate, ugate, stopping, ovlVars, live, inoVars, callVars>>

Sequencer ==
  \/ InitBegin \/ InitNext \/ InitFail \/ InitOptional \/ InitOpen
  \/ StopBegin \/ StopLive \/ StopNsfs \/ StopPreflight \/ StopQuiesce \/ StopCancel
  \/ StopGuard \/ StopRefuse \/ StopRemove \/ StopWait \/ StopCleanup

-----------------------------------------------------------------------------
(***************************************************************************)
(* Hooked calls.                                                           *)
(***************************************************************************)
\* A call is redirected while its group is installed and, unless its hook is
\* exempt, nothing quiesces.
Enter(t, g, exempt, where, i) ==
  /\ pc[t] = "idle" /\ g \in hooks /\ (exempt \/ ~quiescing)
  /\ pc' = [pc EXCEPT ![t] = where] /\ arg' = [arg EXCEPT ![t] = i]

Leave(t, where) ==
  /\ pc[t] = where
  /\ pc' = [pc EXCEPT ![t] = "idle"] /\ arg' = [arg EXCEPT ![t] = NoInode]

Move(t, from, to) == pc[t] = from /\ pc' = [pc EXCEPT ![t] = to] /\ arg' = arg

restOfCalls == <<seqVars, hooks, gateVars, mqVars, ovlVars>>

\* unshare(), setns() and clone() with namespace flags make a proxy unless
\* vns_nsproxy_set_add() finds the gate closed (or an allocation fails).
UnshareEnter(t) ==
  /\ Enter(t, "core", FALSE, "unshare", NoInode)
  /\ UNCHANGED <<restOfCalls, live, inoVars>>

Unshare(t) ==
  /\ Leave(t, "unshare")
  /\ \/ ~gate /\ live < MaxLive /\ live' = live + 1
     \/ live' = live
  /\ UNCHANGED <<restOfCalls, inoVars>>

\* The exempt exit hooks release a proxy.
ExitEnter(t) ==
  /\ live > Cardinality({u \in Task : pc[u] = "exit"})
  /\ Enter(t, "exit", TRUE, "exit", NoInode)
  /\ UNCHANGED <<restOfCalls, live, inoVars>>

Exit(t) ==
  /\ Leave(t, "exit")
  /\ live' = live - 1
  /\ UNCHANGED <<restOfCalls, inoVars>>

\* Exempt core hooks without an effect here: prepare_creds(), put_cred_rcu(),
\* wake_up_new_task() and the like.
CredsEnter(t) ==
  /\ Enter(t, "core", TRUE, "creds", NoInode)
  /\ UNCHANGED <<restOfCalls, live, inoVars>>

Creds(t) ==
  /\ Leave(t, "creds")
  /\ UNCHANGED <<restOfCalls, live, inoVars>>

\* A path to a module-owned namespace is asked for: through the namespaces of
\* a task with a vendored proxy, through a procfs link, or through another
\* NSFS file.  A path to the initial pid namespace needs the lent operations.
Reachable(i) ==
  IF i \in InitPid THEN ops ELSE live > 0 \/ \E j \in Inode : ino[j] = "live"

PathEnter(t) ==
  \E i \in Nsfs :
    /\ Reachable(i)
    /\ Enter(t, "nsfs", TRUE, "path", i)
    /\ UNCHANGED <<restOfCalls, live, inoVars>>

\* Mutant: the stopping flag is not looked at.
PathAcquire_Stopping(t) ==
  /\ Move(t, "path", "gotpath")
  /\ LockFree
  /\ ino[arg[t]] \in {"none", "live"}
  /\ ino' = [ino EXCEPT ![arg[t]] = "live"]
  /\ refs' = refs + 1
  /\ UNCHANGED <<restOfCalls, live, pins, kept, ops>>

\* Under the lock: refused while stopping; else a reference, the real path
\* helper and - the inode now alive and held by the path - the pin.
PathAcquire(t) ==
  /\ Move(t, "path", "gotpath")
  /\ LockFree /\ ~stopping
  /\ ino[arg[t]] \in {"none", "live"}
  /\ ino' = [ino EXCEPT ![arg[t]] = "live"]
  /\ refs' = refs + 1
  /\ UNCHANGED <<restOfCalls, live, pins, kept, ops>>

\* Mutant: -ESHUTDOWN gives back a reference that was never taken.
PathFail_Puts(t) ==
  /\ LockFree
  /\ Leave(t, "path")
  /\ refs' = refs - 1
  /\ UNCHANGED <<restOfCalls, live, ino, pins, kept, ops>>

\* -ESHUTDOWN, or the real helper fails and the reference goes back.
PathFail(t) ==
  /\ LockFree
  /\ Leave(t, "path")
  /\ UNCHANGED <<restOfCalls, live, inoVars>>

\* Mutant: a duplicate keeps its reference.
PinInode_Leaks(i) ==
  \/ i \notin pins /\ pins' = pins \cup {i} /\ UNCHANGED <<refs, kept>>
  \/ i \in pins /\ UNCHANGED <<refs, pins, kept>>
  \/ /\ kept["nsfs"] + kept["proc"] < MaxKept
     /\ kept' = [kept EXCEPT ![Kind(i)] = @ + 1]
     /\ UNCHANGED <<pins, refs>>

\* vns_{nsfs,procfs}_pin_inode(): a record, or the reference back if there is
\* one already, or - no inode or no memory - a fail-safe pin for ever.
PinInode(i) ==
  \/ i \notin pins /\ pins' = pins \cup {i} /\ UNCHANGED <<refs, kept>>
  \/ i \in pins /\ refs' = refs - 1 /\ UNCHANGED <<pins, kept>>
  \/ /\ kept["nsfs"] + kept["proc"] < MaxKept
     /\ kept' = [kept EXCEPT ![Kind(i)] = @ + 1]
     /\ UNCHANGED <<pins, refs>>

PathPin(t) ==
  /\ Leave(t, "gotpath")
  /\ PinInode(arg[t])
  /\ UNCHANGED <<restOfCalls, live, ino, ops>>

\* The ordinary proc_ns_dir_lookup() hook works only with the eviction hook.
LookupEnter(t) ==
  \E j \in Proc :
    /\ "procevict" \in hooks
    /\ ino[j] = "none" /\ \A u \in Task : arg[u] # j
    /\ Enter(t, "procfs", FALSE, "lookup", j)
    /\ UNCHANGED <<restOfCalls, live, inoVars>>

\* vns_procfs_compat_enable_init_pidns_ops().
EnableInitPidnsOps(i) == ops' = (ops \/ i \in InitPid)

\* A reference, the operations for the initial pid namespace, the new inode.
Instantiate(t) ==
  /\ Move(t, "lookup", "instantiated")
  /\ ino' = [ino EXCEPT ![arg[t]] = "live"]
  /\ refs' = refs + 1
  /\ EnableInitPidnsOps(arg[t])
  /\ UNCHANGED <<restOfCalls, live, pins, kept>>

\* A failed instantiation gives the reference back; the operations stay.
InstantiateFail(t) ==
  /\ Leave(t, "lookup")
  /\ \/ ops' = ops
     \/ EnableInitPidnsOps(arg[t])
  /\ UNCHANGED <<restOfCalls, live, ino, pins, kept, refs>>

LookupPin(t) ==
  /\ Leave(t, "instantiated")
  /\ PinInode(arg[t])
  /\ UNCHANGED <<restOfCalls, live, ino, ops>>

\* Mutant: the pin is given back before the real eviction.
EvictEnter_Unpins(t) ==
  \E i \in Inode :
    /\ ino[i] = "live"
    /\ \A u \in Task : arg[u] = i => pc[u] = "path"
    /\ Enter(t, IF i \in Nsfs THEN "nsfs" ELSE "procevict", TRUE, "evict", i)
    /\ ino' = [ino EXCEPT ![i] = "evicting"]
    /\ pins' = pins \ {i}
    /\ refs' = IF i \in pins THEN refs - 1 ELSE refs
    /\ UNCHANGED <<restOfCalls, live, kept, ops>>

\* The exempt eviction hooks, once no path holds the inode: the real eviction
\* uses the operations, the pin is given back after it.
EvictEnter(t) ==
  \E i \in Inode :
    /\ ino[i] = "live"
    /\ \A u \in Task : arg[u] = i => pc[u] = "path"
    /\ Enter(t, IF i \in Nsfs THEN "nsfs" ELSE "procevict", TRUE, "evict", i)
    /\ ino' = [ino EXCEPT ![i] = "evicting"]
    /\ UNCHANGED <<restOfCalls, live, pins, kept, refs, ops>>

RealEvict(t) ==
  /\ Move(t, "evict", "evicted")
  /\ ino' = [ino EXCEPT ![arg[t]] = "dead"]
  /\ UNCHANGED <<restOfCalls, live, pins, kept, refs, ops>>

Unpin(t) ==
  /\ Leave(t, "evicted")
  /\ ino' = [ino EXCEPT ![arg[t]] = "none"]
  /\ pins' = pins \ {arg[t]}
  /\ refs' = IF arg[t] \in pins THEN refs - 1 ELSE refs
  /\ UNCHANGED <<restOfCalls, live, kept, ops>>

\* The steps of a call already redirected.
Proceed(t) ==
  \/ Unshare(t) \/ Exit(t) \/ Creds(t)
  \/ PathAcquire(t) \/ PathFail(t) \/ PathPin(t)
  \/ Instantiate(t) \/ InstantiateFail(t) \/ LookupPin(t)
  \/ RealEvict(t) \/ Unpin(t)

Call(t) ==
  \/ UnshareEnter(t) \/ ExitEnter(t) \/ CredsEnter(t)
  \/ PathEnter(t) \/ LookupEnter(t) \/ EvictEnter(t)

-----------------------------------------------------------------------------
(***************************************************************************)
(* Mounts.  They are not hooked calls: an mqueue context asks the mqueue   *)
(* gate, an overlay mount needs the redirected get_fs_type().              *)
(***************************************************************************)
restOfMounts == <<seqVars, hooks, gateVars, live, inoVars, callVars>>

MqMount ==
  /\ ~mq_stopping /\ seq # "off" /\ mq < MaxMounts
  /\ mq' = mq + 1
  /\ UNCHANGED <<restOfMounts, mq_stopping, dev_stopping, work, ovlVars>>

MqUmount ==
  /\ mq > 0
  /\ mq' = mq - 1
  /\ UNCHANGED <<restOfMounts, mq_stopping, dev_stopping, work, ovlVars>>

\* The delayed work mounts /dev/mqueue.
WorkRun ==
  /\ work = "queued"
  /\ work' = "running"
  /\ UNCHANGED <<restOfMounts, mq_stopping, dev_stopping, mq, ovlVars>>

WorkDone ==
  /\ work = "running"
  /\ work' = "idle"
  /\ \/ mq' = mq
     \/ ~mq_stopping /\ mq < MaxMounts /\ mq' = mq + 1
  /\ UNCHANGED <<restOfMounts, mq_stopping, dev_stopping, ovlVars>>

OvlMount ==
  /\ "overlay" \in hooks /\ ~quiescing /\ ovl < MaxMounts
  /\ ovl' = ovl + 1
  /\ UNCHANGED <<restOfMounts, mqVars, cache>>

OvlUmount ==
  /\ ovl > 0
  /\ ovl' = ovl - 1
  /\ UNCHANGED <<restOfMounts, mqVars, cache>>

Mounts == MqMount \/ MqUmount \/ WorkRun \/ WorkDone \/ OvlMount \/ OvlUmount

Next == Sequencer \/ Mounts \/ \E t \in Task : Call(t) \/ Proceed(t)

Spec == Init /\ [][Next]_vars

\* A redirected call goes on, the workqueue runs its work, and a handler that
\* was entered goes on; taking the NSFS mutex is not postponed for ever (the
\* kernel's mutex hands over to a starved waiter).  Nobody has to call it.
FairSpec ==
  /\ Spec
  /\ WF_vars(InitNext \/ InitFail \/ InitOptional \/ InitOpen)
  /\ WF_vars(StopLive \/ StopPreflight \/ StopQuiesce \/ StopCancel \/ StopGuard
               \/ StopRefuse \/ StopRemove \/ StopWait \/ StopCleanup)
  /\ SF_vars(StopNsfs)
  /\ WF_vars(WorkRun \/ WorkDone)
  /\ \A t \in Task : WF_vars(Proceed(t))

-----------------------------------------------------------------------------
(***************************************************************************)
(* Properties.                                                             *)
(***************************************************************************)
PC == {"idle", "unshare", "exit", "creds", "path", "gotpath", "lookup", "instantiated",
       "evict", "evicted"}

\* Every variable has its type.
TypeOK ==
  /\ seq \in Seq_ /\ first \in BOOLEAN /\ hooks \subseteq Group
  /\ quiescing \in BOOLEAN /\ gate \in BOOLEAN /\ ugate \in BOOLEAN
  /\ stopping \in BOOLEAN /\ mq_stopping \in BOOLEAN /\ dev_stopping \in BOOLEAN
  /\ work \in {"idle", "queued", "running"}
  /\ mq \in 0 .. MaxMounts /\ ovl \in 0 .. MaxMounts /\ cache \in BOOLEAN
  /\ live \in 0 .. MaxLive
  /\ ino \in [Inode -> {"none", "live", "evicting", "dead"}] /\ pins \subseteq Inode
  /\ kept \in [{"nsfs", "proc"} -> 0 .. MaxKept] /\ refs \in Nat /\ ops \in BOOLEAN
  /\ pc \in [Task -> PC] /\ arg \in [Task -> Inode \cup {NoInode}]

\* Calls between their try_module_get() and their pin.
Pinning(t) == pc[t] \in {"gotpath", "instantiated"}

\* An inode whose operations are module text keeps the module through a pin
\* record, a fail-safe pin or the call that is about to pin it, until the
\* real eviction has used the operations for the last time
\* (vendor_kernel_hook_nsfs_evict(), vendor_kernel_hook_proc_evict_inode()).
PinnedWhileLive ==
  \A i \in Inode : ino[i] \in {"live", "evicting"} =>
    \/ i \in pins \/ kept[Kind(i)] > 0
    \/ \E t \in Task : Pinning(t) /\ arg[t] = i

\* The module references taken for inodes are exactly those of the records,
\* of the fail-safe pins and of the calls that are about to pin: none leaks
\* on a duplicate or on an error, none is given back twice.
RefsBacked ==
  refs = Cardinality(pins) + kept["nsfs"] + kept["proc"]
           + Cardinality({t \in Task : Pinning(t)})

\* An inode of the initial pid namespace finds the operations it will call:
\* they are taken back only when no such inode is left
\* (vns_procfs_compat_detach_init_pidns_ops()).
OpsOutliveInodes ==
  \A i \in InitPid : ino[i] \in {"live", "evicting"} => ops

\* What a guard of the stop found absent stays absent until the stop ends,
\* although exempt hooks go on running: proxies, procfs inodes, NSFS inodes
\* and mqueue users cannot come back behind a guard that passed.
Past(g) ==
  \/ seq \in {"remove", "wait", "cleanup"}
  \/ \E k, j \in DOMAIN Guards : Guards[k] = g /\ seq = Guards[j] /\ j > k
GuardsHold ==
  /\ Past("drain") => live = 0
  /\ Past("procpins") => PinCount("proc") = 0
  /\ Past("nsfspins") => PinCount("nsfs") = 0
  /\ Past("mqueue") => mq = 0
  /\ Past("detach") => ~ops

\* A stopped subsystem left nothing behind that points into the module: no
\* hook, inode, proxy or pending work, and no operations on the initial pid
\* namespace - also after a restart that failed half way.  (mqueue mounts are
\* GuardsHold's: a user's mount made during a restart survives its failure.)
StoppedDetached ==
  seq = "off" /\ ~first =>
    /\ hooks = {} /\ live = 0 /\ ~ops /\ work = "idle" /\ ~quiescing
    /\ \A i \in Inode : ino[i] \in {"none", "dead"}

\* A refused stop restores service: both namespace gates, NSFS paths, the
\* ordinary hooks and the mqueue worker are open, every required hook is in
\* place.
RefusalRestores ==
  seq = "on" =>
    /\ ~gate /\ ~ugate /\ ~stopping /\ ~quiescing /\ ~dev_stopping
    /\ RequiredSet \subseteq hooks

\* Objects that need a hook at the end of their life have it: proxies the exit
\* hooks, inodes their eviction hook.
ObjectsHooked ==
  /\ live > 0 => {"exit", "nsfs"} \subseteq hooks
  /\ \A i \in Inode : ino[i] = "live" =>
       (IF i \in Nsfs THEN "nsfs" ELSE "procevict") \in hooks

\* Everything alive that will call into the module has what it will call: the
\* text, the lent operations and the hook that ends its life.
ObjectsHeld == PinnedWhileLive /\ OpsOutliveInodes /\ ObjectsHooked

\* However a stop or a start ended, it ended cleanly: everything is off and
\* detached, or everything is back in service.
EndsClean == StoppedDetached /\ RefusalRestores

\* A stop ends, refused or done: none of its waits lasts for ever, the one
\* without a time limit included.
StopEnds == seq \in Stop ~> seq \in {"on", "off"}

\* A refused stop leaves mqueue usable, and so the next stop possible.
MqueueReopened == seq = "on" => ~mq_stopping

\* The overlay inode cache exists while an overlay mount has inodes in it.
OverlayCacheHeld == ovl > 0 => cache

==============================================================================
