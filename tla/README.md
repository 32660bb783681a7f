# lkm4ctr: TLA+ models, checks and proofs

`lkm4ctr.ko` is a loadable kernel module that brings container features (pid, ipc,
uts, user, cgroup, time namespaces, SysV IPC, POSIX mqueue, overlayfs) to kernels
built without them. It hooks kernel functions, redirects calls into vendored copies
of upstream code, and can be stopped, restarted, unloaded from the inside and hot
reloaded while containers run. Almost everything that can go wrong in it is about
*lifetime under concurrency*: module text or module-owned objects that are still
referenced when a stop, an unload or a failed start takes them away. This project
models that part of the system, the id translation of user namespaces, and the
userspace checker that probes what the kernel really does.

1. [Inventory](#1-inventory)
2. [Modules and the code they model](#2-modules-and-the-code-they-model)
3. [Runs: what is checked, bounds, fairness](#3-runs)
4. [Proofs](#4-proofs)
5. [Deviations: where the code and its docs disagree](#5-deviations)
6. [What is not modelled](#6-what-is-not-modelled)
7. [Plan](#7-plan)

Run a check with `tlc -config HookEngine_safety.cfg MCHookEngine`, the proofs with
`tlapm HookEngineProofs.tla`. `PROJECT.json` lists every run, property, mutant, the
source lines of every definition, and the hazards.

## 1. Inventory

| Component | State | Operations | What makes it correct |
|---|---|---|---|
| Hook engine (`glue/shadow_hijack.c`, `shadow_hook.h`) | quiesce flag and its spinlock, in-flight counter, per-hook forward probe and return probe, registry groups | `shadow_hook_redirect_enter`, return handler, install/remove (single and batch), `shadow_hook_quiesce`, teardown of all return probes | no CPU runs module text after the module is freed; counters are exact; a zero count after quiescing means drained; removal ends |
| nsproxy lifetime (`vendor/kernel/nsproxy.c`) | cache objects and their counts, tracking set and live counter, stop gate, deferred-put work, `task->nsproxy` | create, track, copy and unwind, switch, put/free, setns validation, task-exit cleanup | counts are backed by pointers; the gate freezes the live set; nothing is destroyed early, late, or by the wrong allocator |
| TGID registry (`glue/vendor_kernel_module.c`, `vendor_kernel_diag.c`) | hash of thread group -> proxy reference under a spinlock | set (setns, unshare), take at group exit, diagfs delete, clear at stop | its reference leaves with the last thread |
| Namespace syscall hooks (`glue/vendor_kernel_syscalls.c`) | clone contexts, credentials | unshare, setns, clone, clone3, fork, vfork, `copy_namespaces`, `prepare_creds`, ... | every partial failure unwinds |
| Subsystem lifecycle (`glue/vendor_kernel_module.c`) | enabled flag, gates | `vendor_kernel_init`, `vendor_kernel_exit` with its guards, refusals and point of no return | a refused stop restores service; a finished one leaves nothing behind; every stop ends |
| NSFS lifetime (`glue/vendor_kernel_nsfs_lifecycle.c`) | pin records, fail-safe pins, stopping flag, mutex | path acquisition, eviction, begin/abort/prepare/finish exit | an inode whose ops are module text keeps the module until after its real eviction |
| procfs entries (`glue/vendor_kernel_procfs.c`) | inode pins, operations lent to the initial pid namespace, inode-to-pid map | lookup fallback, eviction, enable/detach of the operations | the operations outlive the inodes that call them |
| mqueue (`vendor/ipc/mqueue.c`, `glue/vendor_kernel_ipc_mount.c`) | lifecycle gate, contexts, superblocks, open files, delayed mount work | context creation, kill_sb, prepare_exit, worker, cancel | no user is left behind a stop; a refused stop leaves it usable |
| overlay (`glue/vendor_kernel_overlay.c`, `vendor/fs/overlayfs`) | inode cache, mount counter | `get_fs_type` override, init/exit | the cache outlives the mounts |
| Control plane (`glue/lkm4ctr_diagfs.c`) | global and per-module lifecycle state under `lkm4ctr_unload_lock`, unload flags | writes to `control`, `enabled`, `do-hot-reload`, `rm` in `./resources`, self-unload thread | init and exit never overlap; requests end and give back what they took |
| Hot reload (`glue/lkm4ctr_hotreload.c`) | state, worker, hand-off shell | trigger, worker, `rmmod`/`insmod` loop | ends in a new module or in a usable old one |
| User namespaces (`vendor/kernel/user_namespace.c`, `glue/vendor_kernel_procfs_userns.c`, `glue/vendor_kernel_syscalls_userns.c`) | objects and counts, a table of creds that hold one, creation gate and its clone exemption, free work, id maps, `setgroups` flag | create, join, account for a cred, release, id-map files, `get*id`/`set*id` hooks, stop, flush at rmmod | no cred, child or file points to a freed namespace; counts are exact; a stop sees every creation; a lock-free reader finds the map that was asked for, whole or not at all |
| SysV IPC (`vendor/ipc/*.c`) | semaphore undo lists, shm task state, namespace free work | sem/shm/msg calls, clone and exit carry-over | not modelled (section 6) |
| `lkm4ctr_checker` | pipes, children and grandchildren, kernel objects, results | twenty-one tests | every test prints its verdict once, the verdict is right, nothing is left behind, every test ends |
| pid, uts, cgroup, time namespaces | reference-counted objects | create, install, free | counted with their proxy |
| Module main, logging, compatibility layer, packaging | - | - | glue without lifetime of its own |

**Interaction.** A hooked call enters through the hook engine, which takes a module
reference and counts the call; the replacement then works on proxies, inodes or IPC
objects, each of which takes module references of its own. The control plane starts
and stops the subsystem; the stop closes the gates (namespace creation, user
namespaces, NSFS paths, mqueue), quiesces the hook engine, asks one guard after the
other, and then removes the hooks. Some hooks are *exempt* from quiescing because
objects need them at the end of their life (task exit, eviction, credentials), so a
stop always races with them. The quiesce flag is one boolean shared by all parties.

**What is hard to test** is listed under `hazards` in `PROJECT.json`, each at its line:
the admission of a call against the setting of the flag; unregistering probes under
calls; a return probe without free instances; replacements that do not return;
reference counts across setns, fork and exit of several threads; guards read one after
the other while exempt hooks run; refusals and failed starts that must undo exactly what
was done; independent users of one quiesce flag; threads that unload the module
they run in; a count kept outside the struct that holds the pointer; maps read without a
lock; processes of the checker that inherit each other's pipe ends.

## 2. Modules and the code they model

| Module | Models | MC module / configurations |
|---|---|---|
| `HookEngine` | the hook engine, `delete_module`, failure of `module_init` | `MCHookEngine`; `HookEngine_safety.cfg` |
| `ModuleLifetime` | abstract: calls enter and leave text that is freed only when empty; implemented by `HookEngine` | through `HookEngine_safety.cfg` |
| `NamespaceService` | abstract: tasks use objects that go only when unused, and the service stops or goes only without any; implemented by `Nsproxy` and by `UserNs` | through `Nsproxy_processes.cfg` and `UserNs_life.cfg` |
| `HookEngineProofs`, `NsproxyProofs`, `UserNsProofs`, `UserIdsProofs`, `VendorLifecycleProofs`, `ControlPlaneProofs`, `CheckerProofs` | theorems about the module each is named after (section 4) | - |
| `IdMapProofs` | lemmas of `UserIdsProofs`: what parsing, sorting and searching an id map compute | - |
| `Nsproxy` | proxies, registry, namespace syscalls, exit, stop and restart as seen by proxies | `MCNsproxy`; `Nsproxy_{processes,threads}.cfg` |
| `UserNs` | life of user namespaces: creation, credentials, files, free work, stop, rmmod | `MCUserNs`; `UserNs_life.cfg` |
| `UserIds` | id maps, the files that write them, `get*id`/`set*id` hooks | `MCUserIds`; `UserIds_maps.cfg` |
| `VendorLifecycle` | `vendor_kernel_init` and `__vendor_kernel_exit(false)` as a sequencer, with NSFS, procfs, mqueue and overlay objects | `MCVendorLifecycle`; `VendorLifecycle_{stop,mqueue,overlay}.cfg` |
| `ControlPlane` | diagfs requests, unload thread, hot reload, hand-off shell | `MCControlPlane`; `ControlPlane_{all,requests,stuck}.cfg` |
| `Checker` | the tests of `lkm4ctr_checker` as programs of interleaving processes | `MCChecker`; `Checker_tests.cfg` |

The modules are layers that hand results to each other. `HookEngine` shows what a quiesced
zero counter means (`QuiescedDrained`); `VendorLifecycle` uses the counter as the number of
tasks inside a hook. `ControlPlane` shows that two lifecycle handlers never overlap
(`LifecycleSerialized`); `VendorLifecycle` therefore has one sequencer. `Nsproxy` and `UserNs`
implement `NamespaceService` (`ImplementsService`), which is all that others need to know of them:
behind the gate the live set only shrinks, so `VendorLifecycle` counts live proxies only, and
nobody is on a freed namespace, which `UserIds` takes for granted. What the stop's three
user-namespace counters mean is `CountersExact` of `UserNs`.
Each of these facts is a theorem of its module (section 4); that one layer's theorem is the
other's assumption is by argument, the layers are not composed into one specification.

**HookEngine.** One call context walks `out -> thunk -> locked -> got -> counted -> func ->
dec -> tail -> out`; each step is what one CPU does between two points another CPU can
observe (the spinlock, `try_module_get`, the counter, the return handler's decrement and
`module_put`). A sequencer installs and removes a batch hook by hook; a forward probe being
unregistered waits for handlers running in it (the kernel's guarantee, external). Return
probes stay registered at run-time removal and are torn down only when the module goes.
A call the return probe has no instance for is `missed`; a replacement ending in
`do_exit()` ends unaccounted (`EndUnaccounted`). `pins` stands for all other module references.

**ModuleLifetime.** What `shadow_hook.h` calls rmmod safety, without a word of how: the
variables are the text (loaded or freed) and the set of calls inside. The refinement mapping
takes a call to be inside from the moment its forward probe fires until its last instruction
of module text, i.e. `pc[c] # "out"`; installing, removing, quiescing, counting and pinning are
stutters.

**NamespaceService.** What the module promises the kernel about the objects it allocates for
namespaces: the allocated objects, the one each task is on, and a phase (open, closed while a stop
decides, stopped, removed). No count, table or queue occurs in it. For `Nsproxy` the mapping takes
the tracking set, `task->nsproxy` if it is vendored, and the gate; for `UserNs` the registered
namespaces and the one a task's cred names, and a stop closes the service once it saw the hooks in
flight end (a stop whose wait timed out never does, deviation 18).

**Nsproxy.** Tasks of thread groups carry out unshare, setns (by descriptor, and by pidfd
through `validate_nsset()`), fork with and without namespace flags, and exit, one step per
observable change: allocation, entry into the tracking set (where the gate is asked again
under its lock), copying or its unwinding, the switch, the put of the old proxy, its
destruction, the registry's share. Deferred puts, diagfs deletion, stop, restart and rmmod
run beside them. What a namespace contains is reduced to "copying works or fails".
Proxies of the real kernel are separate objects with counts of their own.

**UserNs.** A kernel without `CONFIG_USER_NS` copies and frees `struct cred` without
counting `user_ns`; the module keeps one table entry and one reference per cred that needs it.
Tasks unshare, setns, clone (as processes with or without a new namespace, and as threads),
prepare and commit creds and exit, each hook in the steps between which others can run; creds
die through RCU, whose hook detaches the entry in one step and puts the reference in another.
Addresses of creds and namespaces are reused. A failed table allocation takes a fail-safe
reference (`leaked`, bounded by `MaxLeaks`). Namespaces are freed by a worker that walks up the
chain of parents. The stop sets the gate, waits (the wait may time out), reads the counters and
commits or aborts; rmmod waits for a reference count of zero and flushes the workqueue. `mod =
"raced"` ends a behaviour in which a timed-out stop committed over a live namespace (section 5).

**UserIds.** A behaviour follows uids or gids, which share the code. `MapWrite` is
`map_write()`: parsing, checks of every line, the privilege rule, sorting beyond the static
array, translation to kernel ids; `InstallExtents` and `InstallCount` are the two stores a
reader without a lock can fall between. Lookups are the linear and the binary search
of the code; `sort()` is any order of the extents in which the keys ascend. The twelve hooks are six actions over `kind`; `getres*id()` is a loop over user
memory that may fault. Ids are `Width` bits and wrap. `rel` is what the accepted text asked
for, written down independently of the map's representation.

**Checker.** A test is a script: the system calls it makes, each with what replaces the
rest when it fails. Three processes run their scripts concurrently; pipes, `fork`, `wait`,
signals and death have their kernel semantics, and children may be killed at any time. What the
kernel does for a test (`effect`) is unknown to the scripts and known to the properties.

**VendorLifecycle.** `seq` is the program counter of the init or exit handler. Starting
brings up the required groups in order, any of which may fail, then any subset of the
optional ones, then opens the gates. Stopping is `live, nsfs, preflight, quiesce, cancel`,
then the guards `drain, procpins, nsfspins, sysv, mqueue, detach`, any of which may refuse,
then the removal group by group, the wait without a limit, and the cleanup. Tasks run
ordinary and exempt hooks in steps; NSFS path acquisition holds the NSFS mutex from the
stopping check to the pin. A pin is a record, a duplicate that gives its reference back, or
a fail-safe pin that is kept for ever. Mounts are not hooked calls and interleave freely.

**ControlPlane.** A critical section of `lkm4ctr_unload_lock` is one step, everything
between two sections interleaves. Writers carry out load, load-all, unload, force, control
unloads with escalation, hot-reload triggers and resource deletions; threads carry out the
unload and the hot reload. The reference count is the sum of what mounts, open files, calls
and threads hold. `__vendor_kernel_exit()` appears by its effect on the flag, including
`was_quiescing`.

## 3. Runs

Passing runs:

| Run | Shows |
|---|---|
| `hook_engine` | both counters are backed call by call (`Accounting`); a quiesced zero means drained (`QuiescedDrained`); the engine implements `ModuleLifetime`, so text is never freed under a call (`ImplementsLifetime`, which implies `NoTextAfterFree`); the return probe of a hook outlives every call through it, across any unload/reload sequence (`RetprobeOutlivesCalls`); removing a batch ends under a storm of calls (`RemoveTerminates`). Return probes may miss calls and replacements may never return. |
| `nsproxy_processes` | counts equal pointers and module references are backed (`CountsBacked`), nothing points into a freed module or uses a proxy of a stopped one (`ModuleUnused`), and all of it implements `NamespaceService` (`ImplementsService`): no task on a freed proxy, none becoming live behind the gate, no stop or rmmod over one - with failing copies, failing atomic allocations, stops, restarts and rmmod |
| `nsproxy_threads` | the registry's share goes with the last thread of a group; every proxy is destroyed in the end |
| `vendor_stop` | what a guard found absent stays absent (`GuardsHold`), pins cover inodes, lent operations outlive them and objects keep the hook that ends their life (`ObjectsHeld`), references are exactly backed (`RefsBacked`), a stopped subsystem left nothing behind, also after a failed restart, and a refused stop restores service (`EndsClean`), every stop ends (`StopEnds`) |
| `control_all` | init and exit of the subsystem never overlap and the reported state is the real one (`LifecycleExact`), rmmod is launched only on a stopped subsystem (`LaunchUnloaded`), and under a draining unload thread the hooks are released only by the end of a resource deletion, by a hot reload that gives up, and by a nested stop that found them released by one of these (`DrainQuiesced`) - all requests, two writers, both kinds of thread |
| `control_requests` | without resource deletion and hot reload: every request gives the hooks back (`QuiesceOwned`), and every unload attempt ends (`UnloadEnds`) |
| `userns_life` | no cred, child namespace or file points to a freed namespace, the module goes with every namespace freed and no worker inside, and a stop whose wait succeeded closes on nothing (`MemorySafe`, whose parts are `NoDangling`, `ExitFlushes`, `StopSeesAll`); every count is exact - a namespace is queued for freeing exactly at zero, a reused cred address finds no old entry, module references and the counters a stop reads are what they say (`BooksExact`); table, counts and worker implement `NamespaceService` (`ImplementsService`); what is left when all users are gone was given a fail-safe reference (`NamespacesDrain`) |
| `userids_maps` | lookups in both directions find exactly what the accepted text asked for, at every moment of the installation (`LookupRight`); a visible map never changes again, also when a later write is refused (`MapStable`); what `get*id()` shows and `set*id()` sets is the mapping (`GettersRight`, `SettersRight`); an unprivileged gid map keeps the flag `USERNS_SETGROUPS_ALLOWED` clear (`SetgroupsSafe`; the flag, not `setgroups(2)`: deviation 22) |
| `checker_tests` | every test prints its verdict exactly once and is counted as printed (`Reported`), PASS means isolation, but for the observations `Unobserved` names, and a healthy kernel gets PASS (`VerdictRight`), all objects, descriptors and children are gone (`NothingLeft`), no two answers meet in a pipe and nobody dies of SIGPIPE on an ordinary error path (`PipesInStep`), every test but `pid_signal` ends unless the kernel lost what a blocking call waits for (`TestEnds`) - with every call failing and children killed at any moment |

Runs that show a disagreement (section 5): `vendor_mqueue`, `vendor_overlay`, `control_stuck`.

**Bounds.** Every bound is a named constant. The theorems of section 4 hold for every value
of them: for the properties proved there the bounds only decide how soon TLC finds a mistake.

- *HookEngine*: two calls (one on its way in while the other is inside or on its way out is
  what every race here needs), one ordinary and one exempt hook, one kretprobe instance
  so that the second call is missed, up to two orphans, one foreign pin.
- *Nsproxy*: two tasks, in two groups or as two threads of one; three proxies so that a task
  can hold an old one, a new one and a registry share at once; one foreign proxy.
  `MaxLeaks` limits references the code gives up on (failed atomic allocation),
  `MaxDeferred` queued puts per proxy.
- *VendorLifecycle*: two tasks, one NSFS and one procfs inode, both of the initial pid
  namespace (the only one with withdrawn operations), one proxy, one mount of each kind, one
  fail-safe pin (it blocks every later stop, so a second adds nothing). With a second NSFS inode the safety properties also hold
  (about 1.2 million states).
- *UserNs*: two tasks (cloner and child, or two that share and leave namespaces), three creds
  so that an address is reused while another task holds and a third prepares one, two namespaces
  so that they can be parent and child, one file, one fail-safe reference, one RCU callback at a
  time per CPU.
- *UserIds*: one namespace, one caller and one privileged writer, one file at a time. Ids of two
  bits: 3 is -1, 2 is the overflow id; the lines include a range, a wrap, a count that truncates
  to 0 and junk, in every combination of up to two lines, three lines
  (sorted arrays: `BaseExtents = 1` for 5) and four (too many: `MaxExtents = 3` for 340).
- *Checker*: `Order` is the list of tests; the run takes all of `main()`, in its order, as root and not.
- *ControlPlane*: two writers, one or two threads of a kind, one or two mounts and calls,
  one or two hand-off attempts in place of 100.

**Assumptions that are constants.** `InitMayFail` (HookEngine): may `module_init` fail after
hooks went live. `FirstInitMayFail` (VendorLifecycle): may `vendor_kernel_init()` fail at
insmod. `AtomicFails`, `ExitVia` (Nsproxy): failing `GFP_ATOMIC` allocations; which kernel
function carries the exit hook. `ResDelete`, `LateThreads` (ControlPlane): are resources
deleted; may a thread stall, while it holds no reference, for as long as an rmmod takes.
Where a passing run sets one of them to the friendlier value, section 5 says what happens
otherwise.

**Fairness.** *HookEngine*: probe handlers run with preemption off, so their steps are
weakly fair; the quiesce lock is a queued spinlock, so taking it is strongly fair; the
sequencer is a kernel thread. Replacement functions get none: a hooked `msgrcv` may sleep for
ever, and `RemoveTerminates` holds without it. *Nsproxy*: a task that began to exit finishes,
and the workqueue runs. *VendorLifecycle*: an entered handler, a redirected call and the
workqueue go on (weakly); `StopNsfs` is strongly fair because the kernel's mutex hands over to
a starved waiter. `StopEnds` needs calls to end only for its unlimited wait, which by
`GuardsHold` can only be for exempt hooks; these do not sleep on user action. *ControlPlane*:
accepted requests, threads and launched processes go on, and calls of exempt hooks return (they
wait for nobody, and a stop waits for them without a limit); ordinary calls need not return, users need
not do anything. Requests, mounts and rmmod by hand are never fair. *Checker*: every process
that can run is scheduled, and a sleeping call is not one; nobody has to kill one. `UserNs` and `UserIds` state safety only.

`CHECK_DEADLOCK FALSE` is used where the system may stop: all tasks of `Nsproxy` have
exited, the module of `UserNs` is gone or its behaviour raced, the namespace of `UserIds` is
mapped and nobody has a call left to make.

## 4. Proofs

All theorems hold for every value of the constants that satisfies the module's named ASSUME
(sets finite, kinds of objects distinct, bounds natural numbers); TLC evaluates these on every
run. A theorem that needs a constant to have its friendlier value says so in its own ASSUME,
and section 5 shows what happens otherwise. Every inductive invariant was first checked
with TLC on the instance of the component's run, except that of `CheckerProofs`, which quantifies
over sets of situations.

| Module | Theorem | States | Needs |
|---|---|---|---|
| `HookEngineProofs` | `TypeCorrect`, `AccountingCorrect`, `QuiesceBarrier` | `TypeOK`, `Accounting`, `QuiescedDrained` | - |
| | `TextSafety`, `RetprobeSafety`, `TeardownSafety`, `LifetimeRefinement` | `NoTextAfterFree`, `RetprobeOutlivesCalls`, `TeardownAtZeroRefs`, `ImplementsLifetime` | `InitMayFail = FALSE` |
| `NsproxyProofs` | `TypeCorrect`, `CountsCorrect`, `StoppedCorrect`, `GateCorrect` | `TypeOK`, `CountsBacked`, `StoppedMeansUnused`, `GateFreezesLive` | - |
| | `ServiceRefinement` | `ImplementsService` | - |
| | `UnusedCorrect` | `ModuleUnused` | `ExitVia = "exit_task_namespaces"` |
| `UserNsProofs` | `TypeCorrect`, `BooksCorrect`, `MemoryCorrect`, `StopCorrect`, `DrainCorrect` | `TypeOK`, `BooksExact`, `MemorySafe`, `StopSeesAll`, `NamespacesDrain` | - |
| | `ServiceRefinement` | `ImplementsService` | - |
| `UserIdsProofs` | `TypeCorrect`, `LookupCorrect`, `GettersCorrect`, `SettersCorrect`, `SetgroupsCorrect`, `MapStableCorrect` | `TypeOK`, `LookupRight`, `GettersRight`, `SettersRight`, `SetgroupsSafe`, `MapStable` | - |
| `VendorLifecycleProofs` | `TypeCorrect`, `RefsCorrect`, `PinsCorrect` | `TypeOK`, `RefsBacked`, `PinnedWhileLive` | - |
| | `ObjectsCorrect`, `GuardsCorrect`, `EndsCorrect` | `ObjectsHeld`, `GuardsHold`, `EndsClean` | `FirstInitMayFail = FALSE` |
| `ControlPlaneProofs` | `TypeCorrect`, `LifecycleCorrect`, `LaunchCorrect` | `TypeOK`, `LifecycleExact`, `LaunchUnloaded` | - |
| | `DrainCorrect` | `DrainQuiesced` | - |
| | `QuiesceCorrect` | `QuiesceOwned` | `[]Apart` (deviation 12) |
| `CheckerProofs` | `TypeCorrect`, `ReportedCorrect`, `NothingLeftCorrect` | `TypeOK`, `Reported`, `NothingLeft` | - |

**HookEngineProofs**, for every set of hooks, finite set of calls and every value of the other
constants:

- `TypeCorrect` and `AccountingCorrect`: `Spec => []TypeOK`, `Spec => []Accounting`. The
  inductive invariant `IAcc` adds to both that the quiesce lock is held by exactly the call that is
  between taking and releasing it (`LockInv`): without it two calls could be in the
  critical section and the counting steps could not be told apart. The cardinality
  arithmetic rests on the lemma `InMove`: moving one call between two
  locations changes the cardinality of a location set by what it must.
- `QuiesceBarrier`: `Spec => []QuiescedDrained`. Follows the argument of the code: the flag is
  written under the lock, so a call that saw it clear has been counted before it is set.
- `TextSafety`, `RetprobeSafety`, `TeardownSafety`: if `InitMayFail` is false, `NoTextAfterFree`,
  `RetprobeOutlivesCalls` and `TeardownAtZeroRefs` hold always. The invariant `ISafe` relates the
  sequencer to the module state (`SeqInv`: a teardown runs only in a going module, and a going
  module has no references), forward probes to calls in their handlers (`ProbeInv`), and return
  probes to tracked calls (`RetInv`). It needs `IAcc`: that a reference count of zero means no
  call holds one is `Accounting` (`ZeroRefs`).
- `LifetimeRefinement`: under the same assumption `Spec => ImplementsLifetime`. A step of a call
  is an Enter, a Leave or a stutter (`MoveLifetime`, `CallStepLifetime`; a call enters only
  through a registered forward probe, and by `ProbeInv` none is registered in a freed module);
  of the sequencer's steps only `Free` and `Insmod` change the text (`SequencerLifetime`), and
  by `ISafe` after the step nobody is inside.

**NsproxyProofs**, for every finite set of tasks, groups and proxies. `Pointers(o)` is a sum of
cardinalities (tasks on the proxy, handlers that own or still have to put one, the registry,
deferred puts, references given up on), and a step of a task changes each set at one place.
`Balanced` says so of one step, `Balance` turns it into the change of the sum, `PinsMove` does the
same for the module references. Counts alone are not inductive: that a put finds its proxy
alive needs to know which step of which handler owns which pointer. `IInv` adds that (`Shape`),
that foreign proxies are counted as far as the module has to do with them (`ForeignBacked`), and the bound on deferred
puts. `StoppedCorrect` then follows by counting: a stop commits with an empty live set, a task on
a vendored proxy is a pointer to it, so that proxy would be live. `GateCorrect` is a step property
and needs no invariant. `UnusedCorrect` adds to `IInv` that the hook of
`exit_task_namespaces()` puts `&vns_init_nsproxy` back before it returns (`InitHeld`).
`ServiceRefinement` maps every step to one of `NamespaceService` or a stutter (`TaskService`,
`ModService`). Entering the tracking set is a Create, because the gate is asked again under its lock;
changing `task->nsproxy` is a Use of something live by `IInv`; leaving the set is a Release, and that
no task is on what leaves follows from the invariant of the *next* state, where a task on it would be
a task on a proxy that is not live. A failed clone takes the child and its proxy in one step
(Discard). `GateInv` ties the gate to the state of the module.

**UserNsProofs**, for every finite set of tasks, creds, namespaces and files, and without
an assumption about allocations, which may fail at every table entry. `IInv` says

- what every task's variables mean at each step of its handler (`Tasks`): a clone
  owns its child, a prepared cred belongs to one task, a cred is used by whom it says;
- what the table holds (`Books`): a cred about to be copied has its entry or is accounted
  for, an entry goes with the cred and a fresh cred has none (`TableFresh`);
- that the references of a namespace are exactly the entries, children, files, handlers
  and fail-safe references that exist (`Counts`), that a cred without an entry has had a
  fail-safe reference (`LeaksBound`), and that a queued namespace has none (`QueueOK`);
- that the counters of the stop and the module references are exact (`CountersExact`, `PinsExact`)
  and what they imply at each state of the module (`ModOK`).

The centre is the lemma `AllLive`: by `Counts` and `LeaksBound` whatever anybody points to is
allocated and has a positive count. So a put that reaches zero is the last user, and
the worker frees what nobody can see. Each conjunct has one lemma that says which change
of the state keeps it (`KeepTasks`, `KeepBooks`, `KeepQueue`, `KeepCounts`, `KeepLeaks`,
`KeepCounters`, `KeepTypes`, `KeepMod`), and each action is a use of them.
`StopCorrect` rests on `ModOK`: once the gate is shut and no hook was in flight,
nobody is left who could create a namespace. `DrainCorrect` is about nesting of any depth: when
all users are gone, every set of allocated namespaces that is closed under children holds one
with a fail-safe reference. By `Counts` a namespace that is left has such a reference or a
child that is left too; that the second cannot go on for ever is `NoCycle`, which holds
because a new namespace is nobody's parent. `ServiceRefinement` follows the same plan as for
proxies (`TaskService`, `PutService`, `StopService`): committing a cred, waking a clone and
exiting are Uses, the worker's free and a failed creation are Releases, an RCU callback is a stutter
because no task is on its cred any more; that Create cannot happen in a closed service is `ModOK`.

**UserIdsProofs**, for every width of an id, limit on extents, text and interleaving. `IInv` says
that the write holding the mutex is for a namespace without a map (`WriteOK`; so
the clean-up after a refused write cannot touch a visible map, `MapStableCorrect`), that under the
unprivileged rule `setgroups` is denied from the moment the write was permitted, not only from
its installation (`LoneOK`), and that a map is empty or complete (`MapsOK`, `Whole`): its
extents do not wrap, share no id and no kernel id, stand for exactly the pairs asked for, and
beyond the static array are sorted once each way; the extents are in place before the count.
`LookupCorrect` follows from `MapsOK` and the lemmas of `IdMapProofs`:

- `BuiltWhole`: the lines that `map_write()` accepts are such extents, at most `MaxExtents`;
  `TranslatedSame`, `AskedPairs`: below `init_user_ns` translation to kernel ids changes nothing;
- `SortedIs`: `sort()` by either key keeps the extents and their pairs. That an order exists
  at all is `OrderExists`;
- `SearchBaseFinds`, `BsearchFinds`: the linear and the binary search return the one extent
  about an id, or nothing. `SearchExists` first shows that the recursive definition of the
  binary search defines a function.

The induction theorems of the library take an operator and are out of the provers' reach, but
`WFMin` is first-order: `Least` (a set of naturals that is not empty has a least element) and
`Induct` are derived from it and carry the inductions over the size of a search and the length
of a map.

`CallsOK`, on top of `IInv`, says what the memory of a `getres*id()` under way holds: translated
ids before the current address and kernel ids from it on (`CallOK`; only for distinct addresses),
and that a lookup made before the map existed is marked as early. `GettersCorrect` needs the
mark because a map may appear between two of the three translations. `SettersCorrect` follows
from the lookups (`Kernel`).

**VendorLifecycleProofs**, for every finite set of tasks and inodes. Part 1 (`PinInv`): what a
call in flight knows about its inode, that only calls waiting for the lock share one
with another call, and that `vns_nsfs_lifecycle_lock` excludes; with that a pin record and the call
about to make it are never counted twice. Part 2 (`StopInv`) goes by
where the sequencer is: which flags are up, which hooks are installed, which calls
and objects there can be. `GuardsHold` is not inductive by itself: what a guard saw absent stays absent
only because the gates before it shut every way in and the calls admitted earlier have drained.
A first start that fails is left out, because then the namespace gate has never been shut (deviation 7).

**ControlPlaneProofs**, for every number of writers, unload and reload threads. Part 1 (`IInv`):
the lock is dropped around `vendor_kernel_init()` and `vendor_kernel_exit()`, so exclusion is
not a matter of the lock but of the states. `OneOwner` says that at most one writer or
unload thread carries out a request, `OwnerMarked` that its request can be read off the states
(why the next writer is refused), `StateTrue` that a state that is not busy is the
real one, `AllDown` that an unload thread past its stop has a stopped subsystem, and `Gone`
that a freed module has no users. Part 2 is about the quiesce flag, which hot reload and `./resources` share without looking
at the states. `DrainCorrect` takes `IInv` and every action: by `OneOwner` the unload thread is the
only owner, so a release is its own or one that the property names. `QuiesceCorrect` needs `QInv`:
hot reloads exclude each other and `hot` shows one (`OneReload`, `ReloadMarked`), a launched rmmod
leaves the module unloading with nobody in a request (`LingeringAlone`), a graceful unload found
the hooks running (`Asked`), and whoever set the flag is still there to clear it or keeps it for a
module that is to go (`Claimed`). `Asked` is what `Apart` is for: without it a graceful unload
takes the flag of another party for an outer owner's (deviation 12).

**CheckerProofs**, for every list of tests. A test is a program, and what has to be shown is
something about every path through it. The proof is a small logic of programs with two judgements.

- `Good(t, c, F, O, k, L, W)`: if the process that reports on test `t` has code `c`, descriptors `F`,
  objects `O`, a child in state `k`, printed lines `L` and failed waits `W`, then every way through
  `c`, with every call failing or not, ends with nothing left and the right number of lines. It is the
  greatest fixed point: there is a set of situations that holds this one and is closed under the
  effect of a call (`Closed`, `Local`). So `Good` needs no induction over scripts, and a rule for each call
  (`CallRule`, `SayLast`, ...) follows by adding one situation to a closed set (`GoodIntro`).
- `SubOk(k, c)`: the code of a child or grandchild prints nothing, makes no object but the overlay
  test's directories, and exits with a status that is one. It may loop (`pid_signal`).

`ScriptGood` applies the rules to the tests of `main()`, `HelperGood` to the throwaway process of
`run_as_uid1()`; the skeletons they share (`PipeTestGood`, `RoundTrip1` to `RoundTrip3`) are lemmas. Then the
steps of the processes: `ReporterStep` (a step of the reporting process stays in its closed set and
counts what it prints), `SubStep` and `KilledStep` (a child's steps and death leave the
situation of its parent alone). `IInv` has two modes: `main()` reports (`MainReports`), or the helper does and
`main()` waits for its counts (`HelperReports`, by the stages of the fork: `Unforked`, `NoFork`, `Running`, `Died`,
`Over`). `ReportedCorrect` excepts a helper that was killed, as `Reported` does (deviation 24).

**Only model-checked.**

- Liveness (`RemoveTerminates`, `ExitedProxiesDrain`, `StopEnds`, `UnloadEnds`, `TestEnds`): fairness
  and ENABLED are out of the prover's reach.
- `PipesInStep` and `VerdictRight` of `Checker`: they relate the contents of messages and the positions
  of three processes in their scripts to each other, location by location, where the judgements above look at one
  process at a time. The programs are finite, tests share no state, and the run covers all of them
  completely, so that TLC's answer does not depend on a bound.

## 5. Deviations

Shown by a run (details and quotations in `findings`):

1. `vendor_mqueue`: a stop refused by the guard after mqueue's leaves mqueue closed, and
   every later stop refused.
2. `vendor_overlay`: a controlled stop destroys the overlay inode cache under a live overlay
   mount.
3. `control_stuck`: the rmmod launched by the unload thread meets that thread's own
   reference; the module stays loaded, quiesced and deaf to requests.

Found with the same modules and other constants, not kept as runs. Where a property is
named, it and the constants given reproduce it.

4. *Replacement that does not return.* `reboot(2)` inside a vendored pid namespace
   (`vendor_kernel_syscalls.c:462`) ends in `do_exit()`; the call's in-flight count and module
   reference stay for ever, and every later stop and rmmod is refused, against
   `shadow_hijack.c:527` ("exactly as long as a redirected call is in flight"). In `HookEngine`
   this is `EndUnaccounted`; `Accounting` counts such calls as `orphans`.
5. *Destructor under a spinlock.* A second `setns()` of a process drops the last reference to its
   previous proxy in `vns_registry_set_nsproxy()` (`vendor_kernel_module.c:110`), under the
   registry's spinlock, although `nsproxy.c:952` says that the destructor may sleep.
   `NoFreeUnderRegistryLock`, constants of `nsproxy_processes`.
6. *Return probe instances.* `shadow_hook_retprobe_install()` (`shadow_hijack.c:588`)
   leaves `maxactive` at the kernel default; surplus sleepers in one hooked call are counted
   for ever, as in 4 (`orphans`, `MaxActive = 1`).
7. *Failed insmod.* If `vendor_kernel_init()` fails after the core hooks went live,
   `lkm4ctr_init()` (`lkm4ctr_main.c:43`) tears down return probes and the loader frees the
   module without waiting for calls, against `shadow_hijack.c:1129` ("Only safe ... after ...
   module_refcount() is zero"). `TeardownAtZeroRefs` or `NoTextAfterFree`,
   `InitMayFail = TRUE`. On the first load the namespace gate is open as well
   (comment at `vendor_kernel_module.c:324`): in `VendorLifecycle` with
   `FirstInitMayFail = TRUE` a proxy can be live when such a start is undone (`ObjectsHooked`).
8. *Foreign proxy.* `validate_nsset()` (`nsproxy.c:804`) drops its reference to the target's
   proxy without asking whether it is vendored; if the target exits meanwhile, a proxy of the
   real kernel goes to `vns_free_nsproxy()`, against `nsproxy.c:491` ("MUST NOT").
   `NoForeignFree`, constants of `nsproxy_processes`.
9. *Fork error.* `vendor_kernel_hook_copy_namespaces()` (`vendor_kernel_syscalls.c:388`)
   returns an error after `real_copy_namespaces()` took the child's reference; nobody drops it,
   the proxy stays live and every stop is refused, against `USER_GUIDE.md:181`.
   `ExitedProxiesDrain`, `MaxLeaks = 1`.
10. *exit_fs.* On Linux 5.10-5.15 the exit hook returns while `task->nsproxy` points to
    `&vns_init_nsproxy` in module memory (`nsproxy.c:1144`); an unload before the
    native exit leaves it dangling. `NoProxyInFreedModule`, `ExitVia = "exit_fs"`.
11. *Resource deletion under an unload.* `lkm4ctr_diag_res_delete()`
    (`lkm4ctr_diagfs.c:2006`) ends with `shadow_hook_quiesce(false)` whatever the flag was
    before, and so does a hot reload that gives up (`lkm4ctr_hotreload.c:431`): calls enter
    while an unload thread counts on an empty module, and a nested stop that begins then
    releases the hooks once more. `DrainQuiesced` names these releases and excludes all others.
12. *Flag left set.* `__vendor_kernel_exit()` (`vendor_kernel_module.c:535`) reads
    `was_quiescing` and sets the flag in two steps; a resource deletion or hot reload that gives
    it back in between makes the stop believe in an outer owner, and the flag stays set.
    `QuiesceOwned`, `ResDelete = TRUE` or `Reloader = {r1}`; it is proved for all constants and
    behaviours in which no graceful unload is at that point while one of the two is under way
    (`Apart`).
13. *Unlimited wait.* With 11, a call admitted before the hooks are removed is waited for
    without a limit (`vendor_kernel_module.c:660`). `UnloadEnds`, `ResDelete = TRUE` or
    `Reloader = {r1}`.
14. *Hand-off.* The hand-off shell (`lkm4ctr_hotreload.c:338`) gives up after 100 attempts;
    nothing resets the state or the flag, against `GLUE.md:160` ("until it succeeds").
    `HotReloadEnds`, `Reloader = {r1}`.
15. *Late threads.* The unload thread takes its module reference itself after `kthread_run()`
    returned, and returns through module text after `module_put()`
    (`lkm4ctr_diagfs.c:1588`). `NoThreadAfterFree`, `LateThreads = TRUE`.
16. *mqueue mount during a restart.* A user's mqueue mount made while a restart is under way
    survives the restart's failure, whose `vns_mqueue_fs_exit()` destroys the inode cache; this
    is why `StoppedDetached` does not speak of mqueue.
17. The overlay mount counter is decremented for every killed superblock
    (`overlayfs/super.c:1660`) and incremented only for a successful one: it can become
    negative. It is only printed.
18. *Timed-out stop and user namespaces.* A stop whose 30 s wait gave up reads the counters
    one after the other and the in-flight count after them: a clone that the gate exempts can create
    its namespace after the first and end before the second, and the stop commits over a live
    namespace. `UserNs` ends such a behaviour in `mod = "raced"`, and `StopSeesAll` is stated
    for stops that did not time out. The fail-safe reference after `-ENOMEM` pins its namespace
    and the module for ever.
19. *Id hooks and the gate.* The id hooks are not exempt from quiescing: while the gate is shut a
    task in a vendored namespace sees and sets the kernel's ids.
20. *getresuid().* With two equal pointers the value is translated twice (`GettersRight` speaks of
    distinct ones). The real call writes kernel ids to user memory, which are visible until they
    are translated in place and stay there when a later access faults.
21. *Nested maps.* Without `CONFIG_USER_NS` `seq_user_ns()` is always `init_user_ns`, so the map of
    a nested namespace can never be written (`-EPERM`).
22. *setgroups.* Nothing calls `vns_userns_may_setgroups()` (`user_namespace.c:1651`) and
    `setgroups(2)` is not hooked: "deny" is kept and shown, and has no effect. `SetgroupsSafe` and
    `SetgroupsCorrect` are about the flag `USERNS_SETGROUPS_ALLOWED` alone.
23. *Checker, kill test.* The grandchild waits with `while (!g_checker_got_signal) pause();`
    (`lkm4ctr_checker.c:1528`) and a signal between the two is lost: grandchild, child and checker
    wait for each other for ever, against `lkm4ctr_checker.c:24` ("prints one PASS/FAIL/STUB line per
    feature"). `SignalReported`, `Order = <<"pid_signal">>`. A failing `kill()` ends the same way.
    `mq_receive()` (`:1049`), `msgrcv()` (`:1103`), `semop()` (`:2115`) and the wait for the traced
    child (`:2011`) have no timeout either: on a kernel that accepted the message, the semaphore value
    or `PTRACE_TRACEME` and lost it (`effect = "lost"`) the checker hangs. `TestEnds` excepts
    these (`Hangs`).
24. *Checker, other.* A child killed after "ready" ends the checker with SIGPIPE (its `EPIPE`
    handling is never reached); a killed throwaway process of `run_as_uid1()` is neither reported nor
    counted; a `/proc` that cannot be listed counts as filtered; when the namespace id
    before could not be read any id counts as new (`:851`), and two hostnames that cannot be read
    as equal (`:287`, `:341`); overlay and `/proc/*/ns` access print PASS on success alone, against
    `:26` ("genuine isolation"); the ptrace test sends SIGKILL
    to a pid it has reaped (`:2012`); the directories of the overlay test stay in `/tmp`; a failed
    `wait4()`/`waitid()` leaves a zombie. `PassSound`, `OneVerdict` and `NothingLeft`
    name these exceptions.

## 6. What is not modelled

- The inside of the vendored file systems and of System V IPC (overlayfs, semaphores, messages,
  shared memory), and pid, UTS, cgroup and time namespaces: upstream code with renames. Only
  where they meet the module's lifecycle do they appear. Semaphore undo state carried across
  clone (`vendor/ipc/sem.c:2030`) is the one hazard in the list that lies there.
- User namespaces: only the path of a kernel without `CONFIG_USER_NS` (the one that needs the
  table); project-id maps; `prepare_kernel_cred()` of anything but `init_cred`; the position
  and read side of the map files (a write at a position other than 0 is a refused write).
- `module_exit = true` of the exit handler: rmmod appears in `HookEngine`, `Nsproxy`, `UserNs`
  and `ControlPlane` by the rule that it needs reference count zero.
- Symbol resolution, version shims, text rendering of diagfs and of the checker, logging
  and the packaging: they change no shared state.
- Steps that are merged or left out because nothing can be seen between or of them: the two
  halves of a diagfs registry deletion, the removal of the hooks and the registry sweep of a
  stop (`StopCommit`), and `kmalloc` failures of a registry entry in `Nsproxy`; in
  `VendorLifecycle` the refusals and the cleanup clear the flag as a stop does that found the
  hooks running (the other case is in `ControlPlane`), the mount worker's requeue when it gets no
  module reference, and the `-EBUSY` for operations that are not the module's; the
  re-check of installed hooks at the start of a hot reload; check and replacement of a cred entry,
  and the call in flight between prepare and commit, in `UserNs`; in `UserIds` the reset
  after a failed extent allocation (there is nothing to reset), the two capabilities over the parent
  (one `power`), and the id check of the `set*id` hooks (the real call refuses the same). In
  `Checker` `read()` of a pipe, `write()` and the removal of an object do not fail.
- Timing: a timeout is a step that may happen at any moment.
- Memory ordering below the level of locks and atomics: the gates are written and tested under
  their spinlock or mutex. The one plain flag, `vns_mqueue_dev_work_stopping`, only decides
  whether the worker queues itself again, which `cancel_delayed_work_sync()` also prevents.

## 7. Plan

Done: hook engine with proofs and its refinement of `ModuleLifetime`; proxies and user
namespaces, both as implementations of `NamespaceService`; id maps; subsystem lifecycle; control
plane; checker; proofs of the safety invariants of all of these but `PipesInStep` and
`VerdictRight` of the checker.

1. `VendorLifecycle` with `module_exit = true`: rmmod of a running subsystem, and the
   withdrawal of the lent operations when an exempt call is in flight then.
2. `VendorLifecycle` over `NamespaceService`, so that the hand-over of section 2 becomes a
   composition.
3. `SysvIpc`: undo lists carried across clone and exit, shm task state, free work of IPC
   namespaces; the `sysv` guard becomes real.
4. The inode-to-pid map of procfs; zap and reboot of pid namespaces.
5. `PipesInStep` of `Checker`, by a judgement over pairs of scripts that share a pipe.
