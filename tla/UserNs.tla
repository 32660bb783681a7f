------------------------------- MODULE UserNs -------------------------------
(***************************************************************************)
(* The life of vendored user namespaces on a kernel without CONFIG_USER_NS:*)
(* vendor/kernel/user_namespace.c, the credential hooks of                 *)
(* glue/vendor_kernel_syscalls.c that account for every struct cred that   *)
(* points to one, the files of glue/vendor_kernel_procfs_userns.c that hold*)
(* one, the ordered workqueue that frees them, and the part of             *)
(* __vendor_kernel_exit() and module exit that waits for all of it.        *)
(*                                                                         *)
(* Such a kernel copies cred->user_ns without counting it.  The module     *)
(* keeps the count in a table of its own: one entry, one reference, for    *)
(* every accounted cred.  The danger is an entry that is missing, stale or *)
(* released twice - a cred then points to freed memory.                    *)
(*                                                                         *)
(* External: fork, commit_creds() and exit_creds() with their counting of  *)
(* struct cred, RCU, delete_module(2).  prepare_kernel_cred() is used with *)
(* init_cred only and has nothing to account.                              *)
(***************************************************************************)
EXTENDS Integers, Sequences, FiniteSets, FiniteSetsExt

CONSTANTS
  Task,      \* task_structs
  Cred,      \* addresses of struct cred
  Ns,        \* addresses in vns_user_ns_cachep
  File,      \* struct files that hold a user namespace
  InitNs,    \* init_user_ns, not counted
  NULL,
  MaxLeaks,  \* bound: fail-safe references taken because of -ENOMEM
  MaxRcu     \* bound: put_cred_rcu() callbacks in progress, one per CPU

ASSUME UserNsAssumption ==
  /\ IsFiniteSet(Task)
  /\ IsFiniteSet(Cred) /\ IsFiniteSet(Ns) /\ IsFiniteSet(File)
  /\ NULL \notin Task \cup Cred \cup Ns /\ InitNs \notin Ns \cup {NULL}
  /\ MaxLeaks \in Nat /\ MaxRcu \in Nat \ {0}

VARIABLES
  mod,       \* "on", "off", "going" (module_exit), "gone", "raced"
  modrefs,   \* module references of namespaces, works and files
  stopping,  \* vns_user_ns_stopping, and the gate of the clone hooks
  stop,      \* where a controlled stop is
  timedOut,  \* its wait for hooks in flight gave up
  heap,      \* allocated namespaces
  tracked,   \* vns_user_ns_set
  ref,       \* reference counts
  parent,    \* ns->parent
  live, creating, pending,   \* vns_user_ns_live, _creating, _pending_work
  credNs,    \* cred->user_ns; NULL for memory that is no cred
  table,     \* vns_user_cred_refs
  cred,      \* task->cred; NULL for a task that does not exist
  rcu,       \* creds whose last user is gone, put_cred_rcu() to come
  puts,      \* put_cred_rcu() hooks in progress: the ns they detached
  pc, fn,    \* per task: the step and the handler it is in
  new,       \* per task: the cred it prepares
  obj,       \* per task: the namespace it creates or joins
  child,     \* per task: the task it clones
  file,      \* the namespace an open file holds
  queue,     \* works on vns_user_ns_wq
  wpc, cur, freed,  \* the worker: step, namespace, number freed
  leaked     \* history: fail-safe references given up per namespace

nsVars   == <<heap, tracked, ref, parent, live>>
workVars == <<queue, wpc, cur, freed>>
stopVars == <<mod, stopping, stop, timedOut>>
taskVars == <<cred, pc, fn, new, obj, child>>
vars == <<stopVars, modrefs, nsVars, creating, pending, credNs, table, rcu,
          puts, taskVars, file, workVars, leaked>>

Step(t, from, to) == pc[t] = from /\ pc' = [pc EXCEPT ![t] = to]

\* A redirected call: the hook engine counts it and holds a module reference.
InHook == {t \in Task : pc[t] # "idle"}
NoHookInFlight == InHook = {} /\ \A n \in Ns : puts[n] = 0

Init ==
  /\ mod = "on" /\ modrefs = 0 /\ stopping = FALSE /\ stop = "idle" /\ timedOut = FALSE
  /\ heap = {} /\ tracked = {} /\ ref = [n \in Ns |-> 0]
  /\ parent = [n \in Ns |-> NULL]
  /\ live = 0 /\ creating = 0 /\ pending = 0
  /\ \E c \in Cred, first \in Task :
       /\ credNs = [d \in Cred |-> IF d = c THEN InitNs ELSE NULL]
       /\ cred = [t \in Task |-> IF t = first THEN c ELSE NULL]
  /\ table = [c \in Cred |-> NULL] /\ rcu = {} /\ puts = [n \in Ns |-> 0]
  /\ pc = [t \in Task |-> "idle"] /\ fn = [t \in Task |-> "none"]
  /\ new = [t \in Task |-> NULL] /\ obj = [t \in Task |-> NULL]
  /\ child = [t \in Task |-> NULL]
  /\ file = [f \in File |-> NULL]
  /\ queue = <<>> /\ wpc = "idle" /\ cur = NULL /\ freed = 0
  /\ leaked = [n \in Ns |-> 0]

-----------------------------------------------------------------------------
(***************************************************************************)
(* References.                                                             *)
(***************************************************************************)

\* vns_put_user_ns() of n, whose other changes so far are r: the last put
\* pins the module and queues the work.  A namespace that is not vendored is
\* not counted.
PutUserNs(r, n) ==
  IF n \notin tracked
  THEN ref' = r /\ UNCHANGED <<pending, modrefs, queue>>
  ELSE /\ ref' = [r EXCEPT ![n] = @ - 1]
       /\ IF r[n] = 1
          THEN /\ pending' = pending + 1 /\ modrefs' = modrefs + 1
               /\ queue' = Append(queue, n)
          ELSE UNCHANGED <<pending, modrefs, queue>>

\* Memory for a table entry may be missing; bounded by MaxLeaks.
MayLeak == MapThenSumSet(LAMBDA n : leaked[n], Ns) < MaxLeaks

\* What vns_user_ns_cred_get(c) does to table, ref and leaked, and whether it
\* succeeds: an entry for c that names another namespace is -EUCLEAN; without
\* memory for a new entry a reference is taken all the same and given up.
CredGetOk(c) ==
  /\ UNCHANGED leaked
  /\ \/ /\ credNs[c] \notin tracked \/ table[c] = credNs[c]
        /\ UNCHANGED <<table, ref>>
     \/ /\ credNs[c] \in tracked /\ table[c] = NULL
        /\ table' = [table EXCEPT ![c] = credNs[c]]
        /\ ref' = [ref EXCEPT ![credNs[c]] = @ + 1]

\* Mutant: the failed accounting takes no fail-safe reference.
CredGetFails_NoRef(c) ==
  /\ credNs[c] \in tracked /\ table[c] # credNs[c]
  /\ \/ table[c] # NULL /\ UNCHANGED <<ref, leaked>>
     \/ table[c] = NULL /\ MayLeak /\ UNCHANGED <<ref, leaked>>
  /\ UNCHANGED table

CredGetFails(c) ==
  /\ credNs[c] \in tracked /\ table[c] # credNs[c]
  /\ \/ table[c] # NULL /\ UNCHANGED <<ref, leaked>>
     \/ /\ table[c] = NULL /\ MayLeak
        /\ ref' = [ref EXCEPT ![credNs[c]] = @ + 1]
        /\ leaked' = [leaked EXCEPT ![credNs[c]] = @ + 1]
  /\ UNCHANGED table

\* Users of cred c other than task t's own pointer p to it.
UsedElsewhere(c, t, p) ==
  \/ \E u \in Task : cred[u] = c /\ <<u, "cred">> # <<t, p>>
  \/ \E u \in Task : new[u] = c /\ <<u, "new">> # <<t, p>>

\* put_cred(): the last user hands c to RCU.
PutCred(c, t, p) ==
  rcu' = IF UsedElsewhere(c, t, p) THEN rcu ELSE rcu \cup {c}

-----------------------------------------------------------------------------
(***************************************************************************)
(* Credentials are prepared, by unshare, setns, clone and everything else  *)
(* that changes them (exec, setuid, ...: fn = "cred").                     *)
(***************************************************************************)
Prepare(t, f, ch) ==
  /\ mod = "on" /\ pc[t] = "idle" /\ cred[t] # NULL
  /\ \E c \in Cred :
       /\ credNs[c] = NULL
       /\ credNs' = [credNs EXCEPT ![c] = credNs[cred[t]]]
       /\ new' = [new EXCEPT ![t] = c]
  /\ pc' = [pc EXCEPT ![t] = "prepared"] /\ fn' = [fn EXCEPT ![t] = f]
  /\ child' = [child EXCEPT ![t] = ch]
  /\ UNCHANGED <<stopVars, modrefs, nsVars, creating, pending, table, rcu,
                 puts, cred, obj, file, workVars, leaked>>

Unshare(t)     == Prepare(t, "unshare", NULL)
Setns(t)       == Prepare(t, "setns", NULL)
PrepareCred(t) == Prepare(t, "cred", NULL)

\* The clone family is refused while a stop is under way; admitted, it carries
\* its flags (newuser) in the clone context to the end.
Clone(t, ch, newuser) ==
  /\ ~stopping /\ cred[ch] = NULL /\ ch # t
  /\ \A u \in Task : child[u] # ch
  /\ Prepare(t, IF newuser THEN "clone_newuser" ELSE "clone", ch)

\* CLONE_THREAD: copy_creds() shares the parent's cred.
CloneThread(t, ch) ==
  /\ mod = "on" /\ ~stopping /\ pc[t] = "idle" /\ cred[t] # NULL
  /\ cred[ch] = NULL /\ ch # t /\ \A u \in Task : child[u] # ch
  /\ new' = [new EXCEPT ![t] = cred[t]]
  /\ pc' = [pc EXCEPT ![t] = "copied"] /\ fn' = [fn EXCEPT ![t] = "clone"]
  /\ child' = [child EXCEPT ![t] = ch]
  /\ UNCHANGED <<stopVars, modrefs, nsVars, creating, pending, credNs, table, rcu,
                 puts, cred, obj, file, workVars, leaked>>

\* The handler gives up: put_cred() of the prepared cred.
Drop(t) ==
  /\ PutCred(new[t], t, "new")
  /\ pc' = [pc EXCEPT ![t] = "idle"] /\ fn' = [fn EXCEPT ![t] = "none"]
  /\ new' = [new EXCEPT ![t] = NULL] /\ obj' = [obj EXCEPT ![t] = NULL]
  /\ child' = [child EXCEPT ![t] = NULL]
  /\ UNCHANGED cred

credGetRest == <<stopVars, modrefs, heap, tracked, parent, live, creating, pending,
                 credNs, puts, file, workVars>>

\* Where a handler goes with its accounted cred.
AfterPrepare(t) ==
  CASE fn[t] = "unshare" -> "create"
    [] fn[t] = "setns" -> "join"
    [] fn[t] = "cred" -> "ready"
    [] OTHER -> "copied"

\* vendor_kernel_hook_prepare_creds(), vns_prepare_creds(): the copy is
\* accounted; a failure is logged and ignored.
HookPrepareCreds(t) ==
  /\ Step(t, "prepared", AfterPrepare(t))
  /\ CredGetOk(new[t]) \/ CredGetFails(new[t])
  /\ UNCHANGED <<credGetRest, rcu, cred, fn, new, obj, child>>

\* vendor_kernel_hook_copy_creds(): a failure ends the clone.
HookCopyCreds(t) ==
  /\ pc[t] = "copied"
  /\ \/ /\ CredGetOk(new[t]) /\ Step(t, "copied", "copyns")
        /\ UNCHANGED <<rcu, cred, fn, new, obj, child>>
     \/ CredGetFails(new[t]) /\ Drop(t)
  /\ UNCHANGED credGetRest

\* vendor_kernel_hook_copy_namespaces() up to vns_create_user_ns().
HookCopyNamespaces(t) ==
  /\ pc[t] = "copyns"
  /\ \/ /\ CredGetOk(new[t])
        /\ Step(t, "copyns", IF fn[t] = "clone_newuser" THEN "create" ELSE "ready")
        /\ UNCHANGED <<rcu, cred, fn, new, obj, child>>
     \/ CredGetFails(new[t]) /\ Drop(t)
  /\ UNCHANGED credGetRest

-----------------------------------------------------------------------------
(***************************************************************************)
(* vns_create_user_ns(), step by step.                                     *)
(***************************************************************************)

\* vns_user_ns_creation_begin(): a clone that was admitted passes the gate.
CreateBegin(t) ==
  /\ pc[t] = "create"
  /\ \/ /\ ~stopping \/ fn[t] = "clone_newuser"
        /\ creating' = creating + 1 /\ Step(t, "create", "alloc")
        /\ UNCHANGED <<rcu, cred, fn, new, obj, child>>
     \/ /\ stopping /\ fn[t] # "clone_newuser"
        /\ Drop(t) /\ UNCHANGED creating
  /\ UNCHANGED <<stopVars, modrefs, nsVars, pending, credNs, table, puts, file,
                 workVars, leaked>>

\* The object is allocated, pins the module and enters vns_user_ns_set.
CreateAlloc(t) ==
  /\ Step(t, "alloc", "adopt")
  /\ \E n \in Ns \ heap :
       /\ heap' = heap \cup {n} /\ tracked' = tracked \cup {n}
       /\ obj' = [obj EXCEPT ![t] = n] /\ ref' = [ref EXCEPT ![n] = 1]
       /\ parent' = [parent EXCEPT ![n] = credNs[new[t]]]
  /\ modrefs' = modrefs + 1
  /\ UNCHANGED <<stopVars, live, creating, pending, credNs, table, rcu,
                 puts, cred, fn, new, child, file, workVars, leaked>>

\* vns_user_ns_cred_adopt(new, ns, false): the entry of the cred names the new
\* namespace; the reference the old entry (or the fail-safe) held stays behind
\* as the new namespace's reference to its parent.
CreateAdopt(t) ==
  LET c == new[t] IN
  /\ Step(t, "adopt", "done")
  /\ table' = [table EXCEPT ![c] = obj[t]]
  /\ leaked' = IF table[c] = NULL /\ credNs[c] \in Ns
               THEN [leaked EXCEPT ![credNs[c]] = @ - 1] ELSE leaked
  /\ UNCHANGED <<stopVars, modrefs, nsVars, creating, pending, credNs, rcu, puts,
                 cred, fn, new, obj, child, file, workVars>>

\* The namespace counts as live and is set on the cred.
CreateDone(t) ==
  /\ Step(t, "done", "ready")
  /\ live' = live + 1 /\ creating' = creating - 1
  /\ credNs' = [credNs EXCEPT ![new[t]] = obj[t]]
  /\ obj' = [obj EXCEPT ![t] = NULL]
  /\ UNCHANGED <<stopVars, modrefs, heap, tracked, ref, parent, pending, table, rcu,
                 puts, cred, fn, new, child, file, workVars, leaked>>

\* Mutant: the unwinding leaves the object in vns_user_ns_set.
CreateFails_Tracked(t) ==
  /\ pc[t] \in {"alloc", "adopt"}
  /\ heap' = heap \ {obj[t]}
  /\ ref' = IF obj[t] \in Ns THEN [ref EXCEPT ![obj[t]] = 0] ELSE ref
  /\ parent' = IF obj[t] \in Ns THEN [parent EXCEPT ![obj[t]] = NULL] ELSE parent
  /\ modrefs' = IF obj[t] \in Ns THEN modrefs - 1 ELSE modrefs
  /\ creating' = creating - 1 /\ Drop(t)
  /\ UNCHANGED <<stopVars, live, tracked, pending, credNs, table, puts, file, workVars, leaked>>

\* Level, count, chroot, mapping and security checks fail, or memory, module
\* reference, number, sysctl table, set entry or table entry cannot be had:
\* everything done so far is undone.
CreateFails(t) ==
  /\ pc[t] \in {"alloc", "adopt"}
  /\ heap' = heap \ {obj[t]} /\ tracked' = tracked \ {obj[t]}
  /\ ref' = IF obj[t] \in Ns THEN [ref EXCEPT ![obj[t]] = 0] ELSE ref
  /\ parent' = IF obj[t] \in Ns THEN [parent EXCEPT ![obj[t]] = NULL] ELSE parent
  /\ modrefs' = IF obj[t] \in Ns THEN modrefs - 1 ELSE modrefs
  /\ creating' = creating - 1 /\ Drop(t)
  /\ UNCHANGED <<stopVars, live, pending, credNs, table, puts, file, workVars, leaked>>

-----------------------------------------------------------------------------
(***************************************************************************)
(* userns_install() of setns(2), through an open file.                     *)
(***************************************************************************)

\* The checks pass and vns_get_user_ns() takes a reference ...
JoinGet(t, f) ==
  /\ Step(t, "join", "joining")
  /\ file[f] # NULL /\ file[f] # credNs[cred[t]]
  /\ obj' = [obj EXCEPT ![t] = file[f]]
  /\ ref' = IF file[f] \in tracked THEN [ref EXCEPT ![file[f]] = @ + 1] ELSE ref
  /\ UNCHANGED <<stopVars, modrefs, heap, tracked, parent, live, creating, pending,
                 credNs, table, rcu, puts, cred, fn, new, child, file, workVars, leaked>>

\* Mutant: the reference of the namespace that is left is not dropped.
JoinAdopt_KeepsOld(t) ==
  LET c == new[t] IN
  /\ Step(t, "joining", "ready")
  /\ table' = [table EXCEPT ![c] = IF obj[t] \in tracked THEN obj[t] ELSE NULL]
  /\ credNs' = [credNs EXCEPT ![c] = obj[t]] /\ obj' = [obj EXCEPT ![t] = NULL]
  /\ UNCHANGED <<stopVars, modrefs, nsVars, creating, pending, rcu, puts, cred, fn, new,
                 child, file, workVars, leaked>>

\* ... vns_user_ns_cred_adopt(cred, ns, true) makes it the entry's and puts
\* the namespace the entry named before; init_user_ns gets no entry.
JoinAdopt(t) ==
  LET c == new[t] IN
  /\ Step(t, "joining", "ready")
  /\ table' = [table EXCEPT ![c] = IF obj[t] \in tracked THEN obj[t] ELSE NULL]
  /\ PutUserNs(ref, table[c])
  /\ credNs' = [credNs EXCEPT ![c] = obj[t]] /\ obj' = [obj EXCEPT ![t] = NULL]
  /\ UNCHANGED <<stopVars, heap, tracked, parent, live, creating, rcu, puts, cred, fn,
                 new, child, file, wpc, cur, freed, leaked>>

\* ... or there is no memory for the entry: the reference is put again.
JoinFails(t) ==
  /\ pc[t] \in {"join", "joining"}
  /\ PutUserNs(ref, obj[t]) /\ Drop(t)
  /\ UNCHANGED <<stopVars, heap, tracked, parent, live, creating, credNs, table, puts,
                 file, wpc, cur, freed, leaked>>

-----------------------------------------------------------------------------
(***************************************************************************)
(* The handler ends: the cred is committed, or given to the child.         *)
(***************************************************************************)
Finish(t) ==
  /\ pc' = [pc EXCEPT ![t] = "idle"] /\ fn' = [fn EXCEPT ![t] = "none"]
  /\ new' = [new EXCEPT ![t] = NULL] /\ child' = [child EXCEPT ![t] = NULL]
  /\ UNCHANGED <<stopVars, modrefs, heap, tracked, parent, live, creating, pending,
                 credNs, puts, obj, file, workVars>>

Commit(t) ==
  /\ pc[t] = "ready" /\ child[t] = NULL
  /\ cred' = [cred EXCEPT ![t] = new[t]]
  /\ PutCred(cred[t], t, "cred") /\ Finish(t)
  /\ UNCHANGED <<table, ref, leaked>>

\* vendor_kernel_hook_wake_up_new_task(): accounted once more, then it runs.
WakeUpNewTask(t) ==
  /\ pc[t] = "ready" /\ child[t] # NULL
  /\ CredGetOk(new[t]) \/ CredGetFails(new[t])
  /\ cred' = [cred EXCEPT ![child[t]] = new[t]] /\ Finish(t)
  /\ UNCHANGED rcu

\* A later step of unshare, setns or clone fails, or a cred is not used.
Abandon(t) ==
  /\ pc[t] = "ready" /\ Drop(t)
  /\ UNCHANGED <<stopVars, modrefs, nsVars, creating, pending, credNs, table, puts, file,
                 workVars, leaked>>

\* do_exit(): exit_creds().
Exit(t) ==
  /\ pc[t] = "idle" /\ cred[t] # NULL
  /\ cred' = [cred EXCEPT ![t] = NULL] /\ PutCred(cred[t], t, "cred")
  /\ UNCHANGED <<stopVars, modrefs, nsVars, creating, pending, credNs, table, puts,
                 pc, fn, new, obj, child, file, workVars, leaked>>

putRest == <<stopVars, heap, tracked, parent, live, creating, taskVars, file,
             wpc, cur, freed, leaked>>

\* vendor_kernel_hook_put_cred_rcu(): the entry is detached, then the real
\* function frees the cred, whose address may be used again at once ...
PutCredRcu(c) ==
  /\ MapThenSumSet(LAMBDA n : puts[n], Ns) < MaxRcu
  /\ c \in rcu /\ rcu' = rcu \ {c} /\ credNs' = [credNs EXCEPT ![c] = NULL]
  /\ \/ /\ mod = "on" /\ table[c] # NULL
        /\ table' = [table EXCEPT ![c] = NULL]
        /\ puts' = [puts EXCEPT ![table[c]] = @ + 1]
     \/ /\ ~(mod = "on" /\ table[c] # NULL)
        /\ UNCHANGED <<table, puts>>
  /\ UNCHANGED <<putRest, ref, pending, modrefs, queue>>

\* ... and the detached reference is put.
PutDetached(n) ==
  /\ puts[n] > 0 /\ puts' = [puts EXCEPT ![n] = @ - 1]
  /\ PutUserNs(ref, n)
  /\ UNCHANGED <<putRest, credNs, table, rcu>>

-----------------------------------------------------------------------------
(***************************************************************************)
(* Files: /proc/<pid>/{uid,gid,projid}_map and setgroups, whose struct file*)
(* keeps the namespace of the task with that pid in seq->private.  Every   *)
(* (re)open looks the pid up again.  File operations pin the module.       *)
(***************************************************************************)

\* vns_idmap_get_task_userns() under rcu_read_lock(), then vns_idmap_do_open().
\* A failure puts the reference again and leaves a file that holds nothing.
IdmapOpen(f, t) ==
  /\ mod = "on" /\ file[f] = NULL /\ cred[t] # NULL
  /\ file' = [file EXCEPT ![f] = credNs[cred[t]]]
  /\ ref' = IF credNs[cred[t]] \in tracked
            THEN [ref EXCEPT ![credNs[cred[t]]] = @ + 1] ELSE ref
  /\ modrefs' = modrefs + 1
  /\ UNCHANGED <<stopVars, heap, tracked, parent, live, creating, pending, credNs, table,
                 rcu, puts, taskVars, workVars, leaked>>

\* vns_idmap_release(): the namespace is put, the VFS drops the module pin.
IdmapRelease(f) ==
  LET n == file[f]
      last == n \in tracked /\ ref[n] = 1 IN
  /\ n # NULL /\ file' = [file EXCEPT ![f] = NULL]
  /\ ref' = IF n \in tracked THEN [ref EXCEPT ![n] = @ - 1] ELSE ref
  /\ modrefs' = IF last THEN modrefs ELSE modrefs - 1
  /\ pending' = IF last THEN pending + 1 ELSE pending
  /\ queue' = IF last THEN Append(queue, n) ELSE queue
  /\ UNCHANGED <<stopVars, heap, tracked, parent, live, creating, credNs, table, rcu, puts,
                 taskVars, wpc, cur, freed, leaked>>

-----------------------------------------------------------------------------
(***************************************************************************)
(* The worker of vns_user_ns_wq.                                           *)
(***************************************************************************)
workRest == <<stopVars, creating, credNs, table, rcu, puts, taskVars, file, leaked>>

WorkStart ==
  /\ wpc = "idle" /\ queue # <<>>
  /\ cur' = Head(queue) /\ queue' = Tail(queue) /\ wpc' = "free"
  /\ UNCHANGED <<workRest, modrefs, nsVars, pending, freed>>

\* Mutant: free_user_ns() does not put the parent.
FreeUserNs_KeepsParent ==
  /\ wpc = "free" /\ freed' = freed + 1 /\ live' = live - 1
  /\ heap' = heap \ {cur} /\ tracked' = tracked \ {cur}
  /\ parent' = [parent EXCEPT ![cur] = NULL] /\ wpc' = "pins" /\ cur' = NULL
  /\ UNCHANGED <<workRest, modrefs, pending, queue, ref>>

\* One round of free_user_ns(): the namespace goes, then the reference to its
\* parent; if that was the last one the parent is freed in the next round.
FreeUserNs ==
  /\ wpc = "free" /\ freed' = freed + 1 /\ live' = live - 1
  /\ heap' = heap \ {cur} /\ tracked' = tracked \ {cur}
  /\ parent' = [parent EXCEPT ![cur] = NULL]
  /\ LET p == parent[cur] IN
     \/ /\ p \notin tracked /\ wpc' = "pins" /\ cur' = NULL /\ UNCHANGED ref
     \/ /\ p \in tracked /\ ref' = [ref EXCEPT ![p] = @ - 1]
        /\ \/ ref[p] = 1 /\ cur' = p /\ wpc' = "free"
           \/ ref[p] # 1 /\ cur' = NULL /\ wpc' = "pins"
  /\ UNCHANGED <<workRest, modrefs, pending, queue>>

\* vns_free_user_ns_work(): the objects' pins, pending, and at last its own.
WorkPins ==
  /\ wpc = "pins" /\ wpc' = "own"
  /\ modrefs' = modrefs - freed /\ freed' = 0 /\ pending' = pending - 1
  /\ UNCHANGED <<workRest, nsVars, queue, cur>>

WorkOwnPin ==
  /\ wpc = "own" /\ wpc' = "tail" /\ modrefs' = modrefs - 1
  /\ UNCHANGED <<workRest, nsVars, pending, queue, cur, freed>>

\* The last instructions after module_put().
WorkReturn ==
  /\ wpc = "tail" /\ wpc' = "idle"
  /\ UNCHANGED <<workRest, modrefs, nsVars, pending, queue, cur, freed>>

-----------------------------------------------------------------------------
(***************************************************************************)
(* __vendor_kernel_exit(), vendor_kernel_init(), module exit.              *)
(***************************************************************************)
stopRest == <<modrefs, nsVars, creating, pending, credNs, table, rcu, puts, taskVars,
              file, workVars, leaked>>

StopBegin ==
  /\ mod = "on" /\ stop = "idle"
  /\ stopping' = TRUE /\ stop' = "begun" /\ timedOut' = FALSE
  /\ UNCHANGED <<stopRest, mod>>

\* Mutant: the stop does not wait for hooks in flight.
StopWait_Skips ==
  /\ stop = "begun" /\ stop' = "waited"
  /\ UNCHANGED <<stopRest, mod, stopping, timedOut>>

\* Up to 30 s for the hooks in flight.
StopWait ==
  /\ stop = "begun" /\ stop' = "waited"
  /\ timedOut' = ~NoHookInFlight
  /\ UNCHANGED <<stopRest, mod, stopping>>

\* vns_user_ns_prepare_exit() finds nothing.
StopPrepare ==
  /\ stop = "waited" /\ creating = 0 /\ live = 0 /\ pending = 0
  /\ stop' = "prepared"
  /\ UNCHANGED <<stopRest, mod, stopping, timedOut>>

\* No hook is in flight and the other guards pass: the hooks are removed and
\* the work flushed.  When the wait had timed out a namespace may have come to
\* life since the counters were read; the model ends there (README,
\* deviations).
StopCommit ==
  /\ stop = "prepared" /\ NoHookInFlight
  /\ mod' = IF live = 0 THEN "off" ELSE "raced"
  /\ stop' = "idle"
  /\ UNCHANGED <<stopRest, stopping, timedOut>>

\* Any guard refuses: the gate is opened again.
StopAbort ==
  /\ stop \in {"begun", "waited", "prepared"}
  /\ stopping' = FALSE /\ stop' = "idle" /\ timedOut' = FALSE
  /\ UNCHANGED <<stopRest, mod>>

\* vendor_kernel_init() of a restart.
Start ==
  /\ mod = "off" /\ mod' = "on" /\ stopping' = FALSE
  /\ UNCHANGED <<stopRest, stop, timedOut>>

\* delete_module(2) at reference count zero: module_exit begins.
Rmmod ==
  /\ mod \in {"on", "off"} /\ stop = "idle" /\ modrefs = 0 /\ NoHookInFlight
  /\ mod' = "going"
  /\ UNCHANGED <<stopRest, stopping, stop, timedOut>>

\* vns_user_ns_exit(): flush and destroy the workqueue and the cache; then
\* the module's memory is freed.
UserNsExit ==
  /\ mod = "going" /\ queue = <<>> /\ wpc = "idle" /\ pending = 0
  /\ mod' = "gone"
  /\ UNCHANGED <<stopRest, stopping, stop, timedOut>>

-----------------------------------------------------------------------------
TaskStep(t) ==
  \/ Unshare(t) \/ Setns(t) \/ PrepareCred(t)
  \/ \E ch \in Task, b \in BOOLEAN : Clone(t, ch, b)
  \/ \E ch \in Task : CloneThread(t, ch)
  \/ HookPrepareCreds(t) \/ HookCopyCreds(t) \/ HookCopyNamespaces(t)
  \/ CreateBegin(t) \/ CreateAlloc(t) \/ CreateAdopt(t) \/ CreateDone(t) \/ CreateFails(t)
  \/ \E f \in File : JoinGet(t, f)
  \/ JoinAdopt(t) \/ JoinFails(t)
  \/ Commit(t) \/ WakeUpNewTask(t) \/ Abandon(t) \/ Exit(t)

Worker == WorkStart \/ FreeUserNs \/ WorkPins \/ WorkOwnPin \/ WorkReturn

Next ==
  \/ mod # "raced" /\
     \/ \E t \in Task : TaskStep(t)
     \/ \E c \in Cred : PutCredRcu(c)
     \/ \E n \in Ns : PutDetached(n)
     \/ \E f \in File, t \in Task : IdmapOpen(f, t)
     \/ \E f \in File : IdmapRelease(f)
     \/ Worker
     \/ StopBegin \/ StopWait \/ StopPrepare \/ StopCommit \/ StopAbort \/ Start
     \/ Rmmod \/ UserNsExit

Spec == Init /\ [][Next]_vars

-----------------------------------------------------------------------------
(***************************************************************************)
(* Properties.                                                             *)
(***************************************************************************)
\* Every variable has its type.
TypeOK ==
  /\ mod \in {"on", "off", "going", "gone", "raced"} /\ modrefs \in Nat
  /\ stopping \in BOOLEAN /\ timedOut \in BOOLEAN
  /\ stop \in {"idle", "begun", "waited", "prepared"}
  /\ tracked \subseteq heap /\ heap \subseteq Ns /\ ref \in [Ns -> Nat]
  /\ parent \in [Ns -> Ns \cup {InitNs, NULL}]
  /\ live \in Nat /\ creating \in Nat /\ pending \in Nat
  /\ credNs \in [Cred -> Ns \cup {InitNs, NULL}] /\ table \in [Cred -> Ns \cup {NULL}]
  /\ cred \in [Task -> Cred \cup {NULL}] /\ rcu \subseteq Cred /\ puts \in [Ns -> Nat]
  /\ new \in [Task -> Cred \cup {NULL}] /\ obj \in [Task -> Ns \cup {InitNs, NULL}]
  /\ child \in [Task -> Task \cup {NULL}] /\ file \in [File -> Ns \cup {InitNs, NULL}]
  /\ queue \in Seq(Ns) /\ wpc \in {"idle", "free", "pins", "own", "tail"}
  /\ cur \in Ns \cup {NULL} /\ freed \in Nat /\ leaked \in [Ns -> Nat]

\* A namespace is never freed under anything that points to it: a cred a task
\* uses, prepares or has left to RCU, a child namespace or an open file.
NoDangling ==
  /\ \A c \in Cred : credNs[c] \in Ns => credNs[c] \in tracked
  /\ \A n \in heap : parent[n] \in Ns => parent[n] \in tracked
  /\ \A f \in File : file[f] \in Ns => file[f] \in tracked

\* Who refers to namespace n: entries of the table, children, files, hooks
\* between get and put, a creator before its cred is adopted, the fail-safes.
Referrers(n) ==
  Cardinality({c \in Cred : table[c] = n})
  + Cardinality({m \in heap : parent[m] = n /\
                   ~\E t \in Task : obj[t] = m /\ pc[t] = "adopt"})
  + Cardinality({f \in File : file[f] = n})
  + Cardinality({t \in Task : obj[t] = n /\ pc[t] \in {"adopt", "joining"}})
  + puts[n] + leaked[n]

\* The count of a namespace is exact, so that the last put frees it and no
\* earlier one does, although the kernel copies and frees creds without it
\* and allocations fail half way; nothing is queued for freeing twice.
RefsExact ==
  \A n \in tracked :
    /\ ref[n] = Referrers(n)
    /\ ref[n] = 0 <=> n = cur \/ \E i \in 1..Len(queue) : queue[i] = n

\* An entry of the table belongs to a live cred and names its namespace: an
\* address used again for another cred finds no entry of the old one.
TableFresh ==
  \A c \in Cred : table[c] # NULL =>
    \/ credNs[c] = table[c]
    \/ \E t \in Task : new[t] = c /\ pc[t] = "done" /\ obj[t] = table[c]

\* The module reference count is the number of namespaces, works and files
\* ("The worker's own pin is released only after every object pin").
PinsExact ==
  modrefs = Cardinality(heap) + freed + Len(queue)
            + (IF wpc \in {"free", "pins", "own"} THEN 1 ELSE 0)
            + Cardinality({f \in File : file[f] # NULL})

\* The three counters a stop reads: live and pending are what they say, and a
\* namespace not yet in live is in creating.
CountersExact ==
  /\ creating = Cardinality({t \in Task : pc[t] \in {"alloc", "adopt", "done"}})
  /\ live + Cardinality({t \in Task : pc[t] \in {"adopt", "done"}}) = Cardinality(tracked)
  /\ pending = Len(queue) + (IF wpc \in {"free", "pins"} THEN 1 ELSE 0)

\* Every count is what it stands for: those of the namespaces, the table that
\* backs them, the module's, and the three that a stop reads.
BooksExact == RefsExact /\ TableFresh /\ PinsExact /\ CountersExact

\* A stop that saw the hooks in flight end closes on nothing: no clone that
\* the gate exempts creates a namespace behind the counters it has read.
StopSeesAll ==
  /\ stop = "prepared" /\ ~timedOut => tracked = {} /\ creating = 0 /\ queue = <<>>
  /\ mod = "raced" => timedOut

\* The module's memory goes with every namespace freed and no worker in it.
ExitFlushes == mod = "gone" => heap = {} /\ wpc = "idle" /\ queue = <<>>

\* No freed memory is reachable, not that of a namespace nor the module's, and
\* neither a stop nor module exit leaves a namespace behind.
MemorySafe == NoDangling /\ ExitFlushes /\ StopSeesAll

\* Seen from outside: the registered namespaces and the one each task's cred
\* names.  Module exit has begun counts as removed; a stop closes the service
\* only when it saw the hooks in flight end, and one that timed out and was
\* overtaken ("raced") leaves it open.
Service == INSTANCE NamespaceService WITH
  None  <- NULL,
  phase <- CASE mod = "off" \/ (mod = "raced" /\ ~timedOut) -> "stopped"
             [] mod \in {"going", "gone"} -> "removed"
             [] OTHER -> IF stop = "prepared" /\ ~timedOut THEN "closed" ELSE "open",
  live  <- tracked,
  user  <- [t \in Task |->
              IF cred[t] # NULL /\ credNs[cred[t]] \in Ns THEN credNs[cred[t]] ELSE NULL]

\* The table of creds, the counts, the workqueue and the exempted clones
\* together implement NamespaceService: no task is ever on a freed namespace,
\* none is created after a stop has read its counters, and a stop or an rmmod
\* ends with none.
ImplementsService == Service!Spec

\* Namespaces that include, with each of them, its children.
Family(S) == \A m \in heap : parent[m] \in S => m \in S

\* No namespace outlives its last user: with every task gone, every file
\* closed and all callbacks and works done, what is left was given a fail-safe
\* reference or is an ancestor of such a namespace.
NamespacesDrain ==
  /\ \A t \in Task : cred[t] = NULL
  /\ \A f \in File : file[f] = NULL
  /\ rcu = {} /\ NoHookInFlight /\ queue = <<>> /\ wpc = "idle"
  => \A S \in SUBSET heap : S # {} /\ Family(S) => \E m \in S : leaked[m] > 0
=============================================================================
