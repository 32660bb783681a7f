---------------------------- MODULE UserNsProofs ----------------------------
(***************************************************************************)
(* Proofs about the life of vendored user namespaces (UserNs), for any     *)
(* numbers of tasks, creds, namespaces and files: types, the exactness of  *)
(* every count (BooksExact), that nothing points to freed memory           *)
(* (MemorySafe) and that a stop which saw the hooks in flight end closes on*)
(* nothing (StopSeesAll).                                                  *)
(*                                                                         *)
(* The inductive invariant says what every handler knows at each of its    *)
(* steps.  Its core is Counts - the references of a namespace are the      *)
(* entries, children, files, handlers and fail-safes that exist - and      *)
(* LeaksBound: a cred without an entry has had a fail-safe reference.      *)
(* Together they say that what anybody points to is counted (LiveOK), and  *)
(* then that the last put is the last user.  The last part maps every step *)
(* to one of NamespaceService.                                             *)
(***************************************************************************)
EXTENDS UserNs, FiniteSetTheorems, TLAPS

\* The steps and handlers of a task.
PC == {"idle", "prepared", "copied", "copyns", "create", "alloc", "adopt", "done",
       "join", "joining", "ready"}
Fn == {"none", "unshare", "setns", "cred", "clone", "clone_newuser"}

\* Types, those of pc and fn included.
Typed == TypeOK /\ pc \in [Task -> PC] /\ fn \in [Task -> Fn]

\* The task shares its own cred with the thread it clones.
Shares(t) == new[t] = cred[t] /\ fn[t] = "clone" /\ pc[t] \in {"copied", "copyns", "ready"}

\* What a task's variables say at each step of its handler.
LocalOK ==
  \A t \in Task :
    /\ pc[t] = "idle" <=> new[t] = NULL
    /\ pc[t] = "idle" <=> fn[t] = "none"
    /\ pc[t] # "idle" => cred[t] # NULL
    /\ pc[t] \in {"create", "alloc", "adopt", "done"} => fn[t] \in {"unshare", "clone_newuser"}
    /\ pc[t] \in {"join", "joining"} => fn[t] = "setns"
    /\ pc[t] \in {"copied", "copyns"} => fn[t] \in {"clone", "clone_newuser"}
    /\ child[t] # NULL <=> fn[t] \in {"clone", "clone_newuser"}
    /\ pc[t] \in {"adopt", "done"} => obj[t] \in Ns
    /\ pc[t] = "joining" => obj[t] \in Ns \cup {InitNs}
    /\ pc[t] \notin {"adopt", "done", "joining"} => obj[t] = NULL

\* A clone owns its child, which does not run yet.
ChildOK ==
  \A t \in Task : child[t] # NULL =>
    /\ cred[child[t]] = NULL
    /\ \A u \in Task : child[u] = child[t] => u = t

\* A prepared cred belongs to its handler alone, but for a shared one.
OwnOK ==
  \A t \in Task : pc[t] # "idle" =>
    \/ Shares(t)
    \/ \A u \in Task : cred[u] # new[t] /\ (new[u] = new[t] => u = t)

\* Creds in use exist and are not with RCU; those with RCU exist.
CredOK ==
  /\ \A t \in Task : cred[t] # NULL => credNs[cred[t]] # NULL /\ cred[t] \notin rcu
  /\ \A t \in Task : new[t] # NULL => credNs[new[t]] # NULL /\ new[t] \notin rcu
  /\ \A c \in rcu : credNs[c] # NULL
  /\ \A c \in Cred : credNs[c] # NULL =>
       c \in rcu \/ \E t \in Task : cred[t] = c \/ new[t] = c

\* A copied cred is in the namespace of the cred it is a copy of.
CopyOK ==
  \A t \in Task : pc[t] = "prepared" =>
    credNs[new[t]] = credNs[cred[t]] /\ table[new[t]] = NULL

\* Nobody but its creator knows a new namespace.
BirthOK ==
  \A t \in Task : pc[t] \in {"adopt", "done"} =>
    /\ ref[obj[t]] = 1 /\ parent[obj[t]] = credNs[new[t]]
    /\ puts[obj[t]] = 0 /\ leaked[obj[t]] = 0
    /\ \A u \in Task : obj[u] = obj[t] => u = t
    /\ \A c \in Cred : credNs[c] # obj[t]
    /\ \A n \in heap : parent[n] # obj[t]
    /\ \A f \in File : file[f] # obj[t]
    /\ pc[t] = "adopt" => table[new[t]] # obj[t]
    /\ pc[t] = "done" => table[new[t]] = obj[t]

\* vns_user_ns_set is the heap; the queue and the worker have what nobody
\* refers to, each of it once.
Waiting(n) == n = cur \/ \E i \in 1 .. Len(queue) : queue[i] = n
QueueOK ==
  /\ heap = tracked
  /\ \A i \in 1 .. Len(queue) : queue[i] \in tracked /\ queue[i] # cur
  /\ \A i, j \in 1 .. Len(queue) : queue[i] = queue[j] => i = j
  /\ cur # NULL => cur \in tracked
  /\ wpc = "free" <=> cur # NULL
  /\ wpc \in {"idle", "own", "tail"} => freed = 0
  /\ \A n \in tracked : ref[n] = 0 <=> Waiting(n)

\* The references of a namespace, none once it is freed.
Counted(n) == IF n \in tracked THEN ref[n] ELSE 0
Counts == \A n \in Ns : Referrers(n) = Counted(n)

\* Creds in namespace n that no entry of the table accounts for: each has had
\* a fail-safe reference.
Bare(c, n) ==
  /\ credNs[c] = n /\ table[c] = NULL
  /\ \A t \in Task : new[t] = c => pc[t] # "prepared"
LeaksBound == \A n \in Ns : Cardinality({c \in Cred : Bare(c, n)}) <= leaked[n]

\* vns_user_ns_live counts the namespaces that are not being created.
Grown(n) == n \in tracked /\ \A t \in Task : obj[t] = n => pc[t] \notin {"adopt", "done"}
LiveExact == live = Cardinality({n \in Ns : Grown(n)})

\* What the state of the module says.
ModOK ==
  /\ stop # "idle" => mod = "on" /\ stopping
  /\ mod # "on" => \A t \in Task : pc[t] = "idle"
  /\ mod # "on" => \A n \in Ns : puts[n] = 0
  /\ mod \in {"off", "going", "gone"} => tracked = {}
  /\ mod \in {"going", "gone"} => wpc \in {"idle", "tail"}
  /\ mod = "gone" => wpc = "idle"
  /\ stop \in {"waited", "prepared"} /\ ~timedOut =>
       \A t \in Task : fn[t] # "clone_newuser" /\ pc[t] \notin {"alloc", "adopt", "done"}
  /\ stop = "prepared" /\ ~timedOut => tracked = {}
  /\ mod = "raced" => timedOut

\* What tasks and creds are, and what the namespaces' books say of them.
Tasks == LocalOK /\ ChildOK /\ OwnOK /\ CredOK
Books == CopyOK /\ BirthOK /\ TableFresh

\* The inductive invariant.
IInv ==
  /\ Typed /\ Tasks /\ Books /\ QueueOK /\ Counts /\ LeaksBound
  /\ LiveExact /\ CountersExact /\ PinsExact /\ ModOK

-----------------------------------------------------------------------------
(***************************************************************************)
(* Counting.                                                               *)
(***************************************************************************)
USE UserNsAssumption

\* 1 for a fact, 0 for its absence.
One(b) == IF b THEN 1 ELSE 0

\* A set that changes at most at x.
LEMMA CountChange ==
  ASSUME NEW S, IsFiniteSet(S), NEW A \in SUBSET S, NEW B \in SUBSET S, NEW x,
         \A y \in S : y # x => (y \in A <=> y \in B)
  PROVE  /\ Cardinality(A) \in Nat /\ Cardinality(B) \in Nat
         /\ Cardinality(B) = Cardinality(A) + One(x \in B) - One(x \in A)
<1>1. IsFiniteSet(A) /\ IsFiniteSet(B)
  BY FS_Subset
<1>2. Cardinality(A) \in Nat /\ Cardinality(B) \in Nat
  BY <1>1, FS_CardinalityType
<1>3. CASE x \in A <=> x \in B
  <2>1. A = B
    BY <1>3
  <2> QED BY <1>2, <2>1 DEF One
<1>4. CASE x \in A /\ x \notin B
  <2>1. B = A \ {x}
    BY <1>4
  <2>2. Cardinality(B) = Cardinality(A) - 1
    BY <1>1, <1>4, <2>1, FS_RemoveElement
  <2> QED BY <1>2, <1>4, <2>2 DEF One
<1>5. CASE x \notin A /\ x \in B
  <2>1. B = A \cup {x}
    BY <1>5
  <2>2. Cardinality(B) = Cardinality(A) + 1
    BY <1>1, <1>5, <2>1, FS_AddElement
  <2> QED BY <1>2, <1>5, <2>2 DEF One
<1> QED BY <1>3, <1>4, <1>5

\* The cardinality of a subset of a finite set is a natural number, positive
\* when the subset has an element.
LEMMA CountNat ==
  ASSUME NEW S, IsFiniteSet(S), NEW A \in SUBSET S
  PROVE  /\ IsFiniteSet(A) /\ Cardinality(A) \in Nat
         /\ Cardinality(A) = 0 <=> A = {}
         /\ \A x : x \in A => Cardinality(A) >= 1
<1>1. IsFiniteSet(A)
  BY FS_Subset
<1>2. Cardinality(A) \in Nat /\ (Cardinality(A) = 0 <=> A = {})
  BY <1>1, FS_CardinalityType, FS_EmptySet
<1>3. \A k \in Nat : k # 0 => k >= 1
  OBVIOUS
<1> QED BY <1>1, <1>2, <1>3

\* Who refers to namespace n: a table entry, a child, a file, a handler.
Entry(c, n) == table[c] = n
Kid(m, n) == m \in heap /\ parent[m] = n /\ ~\E t \in Task : obj[t] = m /\ pc[t] = "adopt"
Opened(f, n) == file[f] = n
Holds(t, n) == obj[t] = n /\ pc[t] \in {"adopt", "joining"}

\* How many.
Entries(n) == Cardinality({c \in Cred : Entry(c, n)})
Kids(n) == Cardinality({m \in Ns : Kid(m, n)})
Openings(n) == Cardinality({f \in File : Opened(f, n)})
Holders(n) == Cardinality({t \in Task : Holds(t, n)})

\* Referrers(n) is their sum.
LEMMA ReferrersAre ==
  ASSUME heap \subseteq Ns, NEW n
  PROVE  Referrers(n) = Entries(n) + Kids(n) + Openings(n) + Holders(n) + puts[n] + leaked[n]
<1>1. {m \in heap : parent[m] = n /\ ~\E t \in Task : obj[t] = m /\ pc[t] = "adopt"}
        = {m \in Ns : Kid(m, n)}
  BY DEF Kid
<1> QED BY <1>1 DEF Referrers, Entries, Kids, Openings, Holders, Entry, Opened, Holds

\* The same in the next state.
LEMMA ReferrersNext ==
  ASSUME heap' \subseteq Ns, NEW n
  PROVE  Referrers(n)' = Entries(n)' + Kids(n)' + Openings(n)' + Holders(n)'
                           + puts'[n] + leaked'[n]
<1>1. {m \in heap' : parent'[m] = n /\ ~\E t \in Task : obj'[t] = m /\ pc'[t] = "adopt"}
        = {m \in Ns : Kid(m, n)'}
  BY DEF Kid
<1> QED BY <1>1 DEF Referrers, Entries, Kids, Openings, Holders, Entry, Opened, Holds

\* The parts are natural numbers.
LEMMA PartsNat ==
  ASSUME NEW n
  PROVE  /\ Entries(n) \in Nat /\ Kids(n) \in Nat /\ Openings(n) \in Nat /\ Holders(n) \in Nat
         /\ \A c \in Cred : Entry(c, n) => Entries(n) >= 1
         /\ \A m \in Ns : Kid(m, n) => Kids(n) >= 1
         /\ \A f \in File : Opened(f, n) => Openings(n) >= 1
         /\ \A t \in Task : Holds(t, n) => Holders(n) >= 1
<1>1. Entries(n) \in Nat /\ \A c \in Cred : Entry(c, n) => Entries(n) >= 1
  BY CountNat DEF Entries
<1>2. Kids(n) \in Nat /\ \A m \in Ns : Kid(m, n) => Kids(n) >= 1
  BY CountNat DEF Kids
<1>3. Openings(n) \in Nat /\ \A f \in File : Opened(f, n) => Openings(n) >= 1
  BY CountNat DEF Openings
<1>4. Holders(n) \in Nat /\ \A t \in Task : Holds(t, n) => Holders(n) >= 1
  BY CountNat DEF Holders
<1> QED BY <1>1, <1>2, <1>3, <1>4

\* A namespace that is referred to is allocated and counted.
Solid(n) == n \in tracked /\ ref[n] >= 1
\* A namespace that a cred's entry, a child, a file, a handler, a detached or a
\* fail-safe reference refers to is solid.
LEMMA Referred ==
  ASSUME Typed, Counts, NEW n \in Ns,
         \/ \E c \in Cred : Entry(c, n)
         \/ \E m \in Ns : Kid(m, n)
         \/ \E f \in File : Opened(f, n)
         \/ \E t \in Task : Holds(t, n)
         \/ puts[n] > 0 \/ leaked[n] > 0
  PROVE  Solid(n)
<1>1. Entries(n) \in Nat /\ Kids(n) \in Nat /\ Openings(n) \in Nat /\ Holders(n) \in Nat
  BY PartsNat
<1>2. puts[n] \in Nat /\ leaked[n] \in Nat /\ ref[n] \in Nat /\ heap \subseteq Ns
  BY DEF Typed, TypeOK
<1>3. \/ Entries(n) >= 1 \/ Kids(n) >= 1 \/ Openings(n) >= 1 \/ Holders(n) >= 1
      \/ puts[n] >= 1 \/ leaked[n] >= 1
  BY <1>2, PartsNat
<1>4. Referrers(n) >= 1
  BY <1>1, <1>2, <1>3, ReferrersAre
<1>5. Counted(n) >= 1
  BY <1>4 DEF Counts
<1> QED BY <1>2, <1>5 DEF Counted, Solid

-----------------------------------------------------------------------------
(***************************************************************************)
(* What anybody points to is allocated and counted.                        *)
(***************************************************************************)
\* A cred that the table does not account for has had a fail-safe reference.
LEMMA BareLeaked ==
  ASSUME Typed, LeaksBound, NEW n \in Ns, NEW c \in Cred, Bare(c, n)
  PROVE  leaked[n] >= 1
<1>1. {d \in Cred : Bare(d, n)} \in SUBSET Cred /\ c \in {d \in Cred : Bare(d, n)}
  OBVIOUS
<1>2. /\ Cardinality({d \in Cred : Bare(d, n)}) \in Nat
      /\ Cardinality({d \in Cred : Bare(d, n)}) >= 1
  BY <1>1, CountNat
<1>3. Cardinality({d \in Cred : Bare(d, n)}) <= leaked[n] /\ leaked[n] \in Nat
  BY DEF LeaksBound, Typed, TypeOK
<1> QED BY <1>2, <1>3

\* Whatever anybody points to is allocated and counted; nothing of it waits to
\* be freed.
LiveOK ==
  /\ \A c \in Cred : table[c] # NULL => Solid(table[c])
  /\ \A c \in Cred : credNs[c] \in Ns => Solid(credNs[c])
  /\ \A n \in heap : parent[n] \in Ns => Solid(parent[n])
  /\ \A f \in File : file[f] \in Ns => Solid(file[f])
  /\ \A t \in Task : obj[t] \in Ns => Solid(obj[t])
  /\ \A n \in Ns : puts[n] > 0 => Solid(n)
  /\ \A n \in Ns : leaked[n] > 0 => Solid(n)
  /\ \A c \in Cred, n \in Ns : Bare(c, n) => leaked[n] >= 1

\* The invariant implies it.
LEMMA AllLive ==
  ASSUME Typed, Tasks, Books, QueueOK, Counts, LeaksBound
  PROVE  LiveOK
<1>1. ASSUME NEW c \in Cred, table[c] # NULL PROVE Solid(table[c])
  <2>1. table[c] \in Ns /\ Entry(c, table[c])
    BY <1>1 DEF Typed, TypeOK, Entry
  <2> QED BY <2>1, Referred
<1>2. ASSUME NEW f \in File, file[f] \in Ns PROVE Solid(file[f])
  BY <1>2, Referred DEF Opened
<1>3. ASSUME NEW t \in Task, obj[t] \in Ns PROVE Solid(obj[t])
  <2>1. CASE pc[t] = "done"
    <3>1. new[t] \in Cred /\ Entry(new[t], obj[t])
      BY <2>1 DEF Tasks, LocalOK, Books, BirthOK, Entry, Typed, TypeOK
    <3> QED BY <1>3, <3>1, Referred
  <2>2. CASE pc[t] # "done"
    <3>1. Holds(t, obj[t])
      BY <1>3, <2>2 DEF Holds, Tasks, LocalOK
    <3> QED BY <1>3, <3>1, Referred
  <2> QED BY <2>1, <2>2
<1>4. ASSUME NEW n \in Ns, puts[n] > 0 \/ leaked[n] > 0 PROVE Solid(n)
  BY <1>4, Referred
<1>5. ASSUME NEW c \in Cred, NEW n \in Ns, Bare(c, n) PROVE leaked[n] >= 1
  BY <1>5, BareLeaked
<1>6. ASSUME NEW c \in Cred, credNs[c] \in Ns, \A t \in Task : new[t] = c => pc[t] # "prepared"
      PROVE  Solid(credNs[c])
  <2>1. CASE table[c] = NULL
    <3>1. leaked[credNs[c]] >= 1
      BY <1>5, <1>6, <2>1 DEF Bare
    <3>2. leaked[credNs[c]] > 0
      BY <1>6, <3>1 DEF Typed, TypeOK
    <3> QED BY <1>4, <1>6, <3>2
  <2>2. CASE table[c] # NULL /\ credNs[c] = table[c]
    BY <1>1, <2>2
  <2>3. ASSUME NEW t \in Task, new[t] = c, pc[t] = "done", table[c] = obj[t]
        PROVE  Solid(credNs[c])
    <3>1. obj[t] \in Ns /\ obj[t] \in heap /\ parent[obj[t]] = credNs[c]
      BY <1>3, <2>3 DEF Tasks, LocalOK, Books, BirthOK, QueueOK, Solid
    <3>2. ~\E u \in Task : obj[u] = obj[t] /\ pc[u] = "adopt"
      BY <2>3 DEF Books, BirthOK
    <3>3. Kid(obj[t], credNs[c])
      BY <3>1, <3>2 DEF Kid
    <3> QED BY <1>6, <3>1, <3>3, Referred
  <2> QED BY <2>1, <2>2, <2>3 DEF Books, TableFresh
<1>7. ASSUME NEW c \in Cred, credNs[c] \in Ns PROVE Solid(credNs[c])
  <2>1. CASE \A t \in Task : new[t] = c => pc[t] # "prepared"
    BY <1>6, <1>7, <2>1
  <2>2. ASSUME NEW t \in Task, new[t] = c, pc[t] = "prepared" PROVE Solid(credNs[c])
    <3>1. cred[t] \in Cred /\ credNs[cred[t]] = credNs[c]
      BY <2>2 DEF Tasks, LocalOK, Books, CopyOK, Typed, TypeOK
    <3>2. \A u \in Task : new[u] # cred[t] \/ pc[u] # "prepared"
      BY <2>2, <3>1 DEF Tasks, LocalOK, OwnOK, Shares, Typed, TypeOK
    <3> QED BY <1>6, <1>7, <3>1, <3>2
  <2> QED BY <2>1, <2>2
<1>8. ASSUME NEW n \in heap, parent[n] \in Ns PROVE Solid(parent[n])
  <2>1. CASE \E t \in Task : obj[t] = n /\ pc[t] = "adopt"
    <3>1. PICK t \in Task : obj[t] = n /\ pc[t] = "adopt"
      BY <2>1
    <3>2. new[t] \in Cred /\ parent[n] = credNs[new[t]]
      BY <3>1 DEF Tasks, LocalOK, Books, BirthOK, Typed, TypeOK
    <3> QED BY <1>7, <1>8, <3>2
  <2>2. CASE ~\E t \in Task : obj[t] = n /\ pc[t] = "adopt"
    <3>1. n \in Ns /\ Kid(n, parent[n])
      BY <2>2 DEF Kid, Typed, TypeOK
    <3> QED BY <1>8, <3>1, Referred
  <2> QED BY <2>1, <2>2
<1> QED BY <1>1, <1>2, <1>3, <1>4, <1>5, <1>7, <1>8 DEF LiveOK

\* The actions of __vendor_kernel_exit(), vendor_kernel_init() and module exit.
Stops ==
  \/ StopBegin \/ StopWait \/ StopPrepare \/ StopCommit \/ StopAbort \/ Start
  \/ Rmmod \/ UserNsExit
\* A stop, a start and module exit change no namespace, cred or work.
LEMMA StopFrame == ASSUME Stops PROVE UNCHANGED stopRest
BY DEF Stops, StopBegin, StopWait, StopPrepare, StopCommit, StopAbort, Start, Rmmod, UserNsExit
\* The worker changes no cred, task or file.
LEMMA WorkFrame == ASSUME Worker PROVE UNCHANGED workRest
BY DEF Worker, WorkStart, FreeUserNs, WorkPins, WorkOwnPin, WorkReturn

-----------------------------------------------------------------------------
(***************************************************************************)
(* Tasks and their creds.                                                  *)
(***************************************************************************)
\* A handler that gives up leaves its cred to RCU, unless it is shared.
LEMMA DropTasks ==
  ASSUME Typed, Tasks, NEW t \in Task, pc[t] # "idle", Drop(t), UNCHANGED credNs
  PROVE  Tasks'
BY DEF Drop, PutCred, UsedElsewhere, Typed, TypeOK, Shares, Tasks, LocalOK, ChildOK, OwnOK,
  CredOK

\* A handler that goes on with the same cred and no namespace in its hands.
LEMMA MoveTasks ==
  ASSUME Typed, Tasks, NEW t \in Task, NEW to \in PC \ {"idle", "adopt", "done", "joining"},
         pc[t] \notin {"idle", "adopt", "done", "joining"},
         pc' = [pc EXCEPT ![t] = to],
         UNCHANGED <<cred, credNs, rcu, fn, new, obj, child>>,
         to \in {"create", "alloc"} => fn[t] \in {"unshare", "clone_newuser"},
         to = "join" => fn[t] = "setns",
         to \in {"copied", "copyns"} => fn[t] \in {"clone", "clone_newuser"},
         to \in {"prepared", "create", "alloc", "join"} => ~Shares(t)
  PROVE  Tasks'
BY DEF Typed, TypeOK, PC, Shares, Tasks, LocalOK, ChildOK, OwnOK, CredOK

\* The copy is accounted: the handler goes on to its own next step.
LEMMA TasksPrepare ==
  ASSUME Typed, Tasks, NEW t \in Task, HookPrepareCreds(t)
  PROVE  Tasks'
<1>1. /\ AfterPrepare(t) \in {"create", "join", "ready", "copied"} /\ ~Shares(t)
      /\ AfterPrepare(t) = "create" => fn[t] = "unshare"
      /\ AfterPrepare(t) = "join" => fn[t] = "setns"
      /\ AfterPrepare(t) = "copied" => fn[t] \in {"clone", "clone_newuser"}
  BY DEF AfterPrepare, Typed, Fn, Tasks, LocalOK, HookPrepareCreds, Step, Shares
<1>2. pc[t] = "prepared" /\ pc' = [pc EXCEPT ![t] = AfterPrepare(t)]
  BY DEF HookPrepareCreds, Step
<1>3. UNCHANGED <<cred, credNs, rcu, fn, new, obj, child>>
  BY DEF HookPrepareCreds, credGetRest
<1> QED BY <1>1, <1>2, <1>3, MoveTasks DEF PC

\* The clone hook goes on with its cred, or gives it up.
LEMMA TasksCopyCreds ==
  ASSUME Typed, Tasks, NEW t \in Task, HookCopyCreds(t)
  PROVE  Tasks'
<1>1. CASE Drop(t)
  BY <1>1, DropTasks DEF HookCopyCreds, credGetRest
<1>2. CASE Step(t, "copied", "copyns") /\ UNCHANGED <<rcu, cred, fn, new, obj, child>>
  <2>1. UNCHANGED credNs /\ fn[t] \in {"clone", "clone_newuser"}
    BY <1>2 DEF HookCopyCreds, credGetRest, Step, Tasks, LocalOK
  <2> QED BY <1>2, <2>1, MoveTasks DEF Step, PC
<1> QED BY <1>1, <1>2 DEF HookCopyCreds

\* The same for the namespaces hook.
LEMMA TasksCopyNamespaces ==
  ASSUME Typed, Tasks, NEW t \in Task, HookCopyNamespaces(t)
  PROVE  Tasks'
<1>1. CASE Drop(t)
  BY <1>1, DropTasks DEF HookCopyNamespaces, credGetRest
<1>2. CASE /\ Step(t, "copyns", IF fn[t] = "clone_newuser" THEN "create" ELSE "ready")
           /\ UNCHANGED <<rcu, cred, fn, new, obj, child>>
  <2>1. UNCHANGED credNs
    BY DEF HookCopyNamespaces, credGetRest
  <2> QED BY <1>2, <2>1, MoveTasks DEF Step, PC, Shares
<1> QED BY <1>1, <1>2 DEF HookCopyNamespaces

\* The gate admits the creation, or the handler gives up.
LEMMA TasksCreateBegin ==
  ASSUME Typed, Tasks, NEW t \in Task, CreateBegin(t)
  PROVE  Tasks'
<1>1. CASE Drop(t)
  BY <1>1, DropTasks DEF CreateBegin
<1>2. CASE Step(t, "create", "alloc") /\ UNCHANGED <<rcu, cred, fn, new, obj, child>>
  <2>1. UNCHANGED credNs /\ fn[t] \in {"unshare", "clone_newuser"}
    BY <1>2 DEF CreateBegin, Step, Tasks, LocalOK
  <2> QED BY <1>2, <2>1, MoveTasks DEF Step, PC, Shares
<1> QED BY <1>1, <1>2 DEF CreateBegin

\* The task takes its new cred; the old one goes to RCU with its last user.
LEMMA TasksCommit ==
  ASSUME Typed, Tasks, NEW t \in Task, Commit(t)
  PROVE  Tasks'
<1> USE DEF Commit, PutCred, UsedElsewhere, Finish, Typed, TypeOK, Shares, Tasks, LocalOK
<1>1. LocalOK' /\ ChildOK'
  BY DEF ChildOK
<1>2. OwnOK'
  BY DEF OwnOK
<1>3. CredOK'
  BY DEF OwnOK, CredOK
<1> QED BY <1>1, <1>2, <1>3

\* The child runs with the cred that was prepared for it.
LEMMA TasksWake ==
  ASSUME Typed, Tasks, NEW t \in Task, WakeUpNewTask(t)
  PROVE  Tasks'
<1>1. /\ pc[t] = "ready" /\ child[t] \in Task /\ new[t] \in Cred /\ cred[child[t]] = NULL
      /\ child[t] # t
      /\ \A u \in Task : child[u] = child[t] => u = t
      /\ UNCHANGED <<credNs, obj, rcu>>
  BY DEF WakeUpNewTask, Finish, Typed, TypeOK, Tasks, LocalOK, ChildOK
<1>2. /\ cred'[child[t]] = new[t] /\ \A u \in Task : u # child[t] => cred'[u] = cred[u]
      /\ pc'[t] = "idle" /\ fn'[t] = "none" /\ new'[t] = NULL /\ child'[t] = NULL
      /\ \A u \in Task : u # t => pc'[u] = pc[u] /\ fn'[u] = fn[u] /\ new'[u] = new[u] /\ child'[u] = child[u]
  BY <1>1 DEF WakeUpNewTask, Finish, Typed, TypeOK
<1>3. pc[child[t]] = "idle" /\ new[child[t]] = NULL
  BY <1>1 DEF Typed, TypeOK, Tasks, LocalOK
<1>7. \A u \in Task : child[u] \in Task \cup {NULL}
  BY DEF Typed, TypeOK
<1>4. LocalOK'
  BY <1>1, <1>2, <1>3 DEF Tasks, LocalOK
<1>8. ChildOK'
  BY <1>1, <1>2, <1>7 DEF Tasks, ChildOK
<1>5. OwnOK'
  BY <1>1, <1>2, <1>3 DEF Tasks, LocalOK, OwnOK, Shares
<1>6. CredOK'
  BY <1>1, <1>2, <1>3 DEF Tasks, CredOK
<1> QED BY <1>4, <1>5, <1>6, <1>8 DEF Tasks

\* Nothing about tasks and creds changes.
LEMMA SameTasks == ASSUME Tasks, UNCHANGED <<credNs, rcu, taskVars>> PROVE Tasks'
BY DEF Shares, Tasks, LocalOK, ChildOK, OwnOK, CredOK, taskVars

\* Every step keeps what is known of tasks and creds.
LEMMA KeepTasks ==
  ASSUME Typed, Tasks, Next
  PROVE  Tasks'
<1>1. ASSUME NEW t \in Task, NEW h \in {"unshare", "setns", "cred"}, Prepare(t, h, NULL)
      PROVE  Tasks'
  BY <1>1 DEF Prepare, Typed, TypeOK, PC, Fn, Shares, Tasks, LocalOK, ChildOK, OwnOK, CredOK
<1>2. ASSUME NEW t \in Task, NEW ch \in Task, NEW b \in BOOLEAN, Clone(t, ch, b) PROVE Tasks'
  BY <1>2 DEF Clone, Prepare, Typed, TypeOK, PC, Fn, Shares, Tasks, LocalOK, ChildOK, OwnOK,
    CredOK
<1>3. ASSUME NEW t \in Task, NEW ch \in Task, CloneThread(t, ch) PROVE Tasks'
  BY <1>3 DEF CloneThread, Typed, TypeOK, PC, Fn, Shares, Tasks, LocalOK, ChildOK, OwnOK, CredOK
<1>4. ASSUME NEW t \in Task, HookPrepareCreds(t) PROVE Tasks'
  BY <1>4, TasksPrepare
<1>5. ASSUME NEW t \in Task, HookCopyCreds(t) PROVE Tasks'
  BY <1>5, TasksCopyCreds
<1>6. ASSUME NEW t \in Task, HookCopyNamespaces(t) PROVE Tasks'
  BY <1>6, TasksCopyNamespaces
<1>7. ASSUME NEW t \in Task, CreateBegin(t) PROVE Tasks'
  BY <1>7, TasksCreateBegin
<1>8. ASSUME NEW t \in Task, CreateAlloc(t) PROVE Tasks'
  BY <1>8 DEF CreateAlloc, Step, Typed, TypeOK, PC, Fn, Shares, Tasks, LocalOK, ChildOK, OwnOK,
    CredOK
<1>9. ASSUME NEW t \in Task, CreateAdopt(t) PROVE Tasks'
  BY <1>9 DEF CreateAdopt, Step, Typed, TypeOK, PC, Fn, Shares, Tasks, LocalOK, ChildOK, OwnOK,
    CredOK
<1>10. ASSUME NEW t \in Task, CreateDone(t) PROVE Tasks'
  BY <1>10 DEF CreateDone, Step, Typed, TypeOK, PC, Fn, Shares, Tasks, LocalOK, ChildOK, OwnOK,
    CredOK
<1>11. ASSUME NEW t \in Task, CreateFails(t) \/ JoinFails(t) \/ Abandon(t) PROVE Tasks'
  BY <1>11, DropTasks DEF CreateFails, JoinFails, Abandon
<1>12. ASSUME NEW t \in Task, NEW f \in File, JoinGet(t, f) PROVE Tasks'
  BY <1>12 DEF JoinGet, Step, Typed, TypeOK, PC, Fn, Shares, Tasks, LocalOK, ChildOK, OwnOK,
    CredOK
<1>13. ASSUME NEW t \in Task, JoinAdopt(t) PROVE Tasks'
  BY <1>13 DEF JoinAdopt, Step, Typed, TypeOK, PC, Fn, Shares, Tasks, LocalOK, ChildOK, OwnOK,
    CredOK
<1>14. ASSUME NEW t \in Task, Commit(t) PROVE Tasks'
  BY <1>14, TasksCommit
<1>15. ASSUME NEW t \in Task, WakeUpNewTask(t) PROVE Tasks'
  BY <1>15, TasksWake
<1>16. ASSUME NEW t \in Task, Exit(t) PROVE Tasks'
  BY <1>16 DEF Exit, PutCred, UsedElsewhere, Typed, TypeOK, PC, Fn, Shares, Tasks, LocalOK,
    ChildOK, OwnOK, CredOK
<1>17. ASSUME NEW c \in Cred, PutCredRcu(c) PROVE Tasks'
  BY <1>17 DEF PutCredRcu, putRest, taskVars, Typed, TypeOK, PC, Fn, Shares, Tasks, LocalOK,
    ChildOK, OwnOK, CredOK
<1>18. ASSUME NEW n \in Ns, PutDetached(n) PROVE Tasks'
  BY <1>18, SameTasks DEF PutDetached, putRest
<1>19. ASSUME NEW f \in File, NEW t \in Task, IdmapOpen(f, t) PROVE Tasks'
  BY <1>19, SameTasks DEF IdmapOpen
<1>20. ASSUME NEW f \in File, IdmapRelease(f) PROVE Tasks'
  BY <1>20, SameTasks DEF IdmapRelease
<1>21. ASSUME Worker PROVE Tasks'
  BY <1>21, SameTasks, WorkFrame DEF workRest
<1>22. ASSUME Stops PROVE Tasks'
  BY <1>22, SameTasks, StopFrame DEF stopRest
<1> QED BY <1>1, <1>2, <1>3, <1>4, <1>5, <1>6, <1>7, <1>8, <1>9, <1>10, <1>11, <1>12, <1>13,
           <1>14, <1>15, <1>16, <1>17, <1>18, <1>19, <1>20, <1>21, <1>22 DEF Next, TaskStep,
           Unshare, Setns, PrepareCred, Worker, Stops

-----------------------------------------------------------------------------
(***************************************************************************)
(* Copies, births and the table.                                           *)
(***************************************************************************)
\* The cred a handler works on, when it does not share it with its task.
LEMMA OwnCred ==
  ASSUME Typed, Tasks, NEW t \in Task, pc[t] # "idle", ~Shares(t)
  PROVE  /\ new[t] \in Cred /\ credNs[new[t]] # NULL /\ new[t] \notin rcu
         /\ \A u \in Task : u # t => new[u] # new[t]
         /\ \A u \in Task : cred[u] # new[t]
BY DEF Typed, TypeOK, Tasks, LocalOK, OwnOK, CredOK

\* Handlers that account for a copy or create a namespace have a cred of their own.
LEMMA Lone ==
  ASSUME Typed, Tasks, NEW u \in Task, pc[u] \in {"prepared", "create", "alloc", "adopt", "done",
                                                   "join", "joining"}
  PROVE  /\ new[u] \in Cred /\ cred[u] \in Cred /\ new[u] \notin rcu /\ credNs[new[u]] # NULL
         /\ \A v \in Task : v # u => new[v] # new[u]
         /\ \A v \in Task : cred[v] # new[u]
<1>1. ~Shares(u) /\ pc[u] # "idle"
  BY DEF Shares
<1>2. cred[u] \in Cred
  BY <1>1 DEF Typed, TypeOK, Tasks, LocalOK
<1> QED BY <1>1, <1>2, OwnCred

\* What vns_user_ns_cred_get(c) does, whether it succeeds or not: nothing, an
\* entry with its reference, or a fail-safe reference.
GetEffect(c) ==
  \/ UNCHANGED <<table, ref, leaked>> /\ (credNs[c] \notin tracked \/ table[c] # NULL)
  \/ /\ credNs[c] \in tracked /\ table[c] = NULL
     /\ ref' = [ref EXCEPT ![credNs[c]] = @ + 1]
     /\ \/ table' = [table EXCEPT ![c] = credNs[c]] /\ UNCHANGED leaked
        \/ leaked' = [leaked EXCEPT ![credNs[c]] = @ + 1] /\ UNCHANGED table
\* The success and the failure of vns_user_ns_cred_get() have such an effect.
LEMMA GetDoes ==
  ASSUME NEW c, NULL \notin tracked, CredGetOk(c) \/ CredGetFails(c)
  PROVE  GetEffect(c)
<1>1. CASE CredGetOk(c)
  BY <1>1 DEF CredGetOk, GetEffect
<1>2. CASE CredGetFails(c)
  BY <1>2 DEF CredGetFails, GetEffect
<1> QED BY <1>1, <1>2

\* What vns_put_user_ns(n) does to the reference count.
LEMMA PutDoes ==
  ASSUME NEW n, PutUserNs(ref, n)
  PROVE  ref' = IF n \in tracked THEN [ref EXCEPT ![n] = @ - 1] ELSE ref
BY DEF PutUserNs

\* The part of BirthOK about one creator.
Born(u) ==
  /\ ref[obj[u]] = 1 /\ parent[obj[u]] = credNs[new[u]]
  /\ puts[obj[u]] = 0 /\ leaked[obj[u]] = 0
  /\ \A v \in Task : obj[v] = obj[u] => v = u
  /\ \A c \in Cred : credNs[c] # obj[u]
  /\ \A n \in heap : parent[n] # obj[u]
  /\ \A f \in File : file[f] # obj[u]
  /\ pc[u] = "adopt" => table[new[u]] # obj[u]
  /\ pc[u] = "done" => table[new[u]] = obj[u]
\* BirthOK, creator by creator ...
LEMMA BirthIs == BirthOK <=> \A u \in Task : pc[u] \in {"adopt", "done"} => Born(u)
BY DEF BirthOK, Born
\* ... and in the next state.
LEMMA BirthIsNext == BirthOK' <=> \A u \in Task : pc'[u] \in {"adopt", "done"} => Born(u)'
BY DEF BirthOK, Born

\* A step of task t that accounts for its cred, or gives it up, and has no
\* namespace in its hands keeps the books.
LEMMA GetBooks ==
  ASSUME Typed, Tasks, Books, LiveOK, NEW t \in Task,
         pc[t] \notin {"idle", "adopt", "done", "joining"},
         GetEffect(new[t]) \/ UNCHANGED <<table, ref, leaked>>,
         UNCHANGED <<credNs, parent, heap, tracked, puts, file>>,
         \A u \in Task : u # t => pc'[u] = pc[u] /\ new'[u] = new[u] /\ obj'[u] = obj[u],
         \A u \in Task : pc[u] # "idle" => cred'[u] = cred[u],
         pc'[t] \notin {"prepared", "adopt", "done"}, obj'[t] = NULL
  PROVE  Books'
<1>1. new[t] \in Cred
  BY DEF Typed, TypeOK, Tasks, LocalOK
<1>2. \A d \in Cred : d # new[t] => table'[d] = table[d]
  BY <1>1 DEF GetEffect, Typed, TypeOK
<1>3. CopyOK'
  <2> SUFFICES ASSUME NEW u \in Task, pc'[u] = "prepared"
               PROVE  credNs'[new'[u]] = credNs'[cred'[u]] /\ table'[new'[u]] = NULL
    BY DEF CopyOK
  <2>1. u # t /\ pc[u] = "prepared" /\ new'[u] = new[u] /\ cred'[u] = cred[u]
    OBVIOUS
  <2>2. new[u] # new[t] /\ new[u] \in Cred
    BY <2>1, Lone
  <2> QED BY <1>2, <2>1, <2>2 DEF Books, CopyOK
<1>4. BirthOK'
  <2> SUFFICES ASSUME NEW u \in Task, pc'[u] \in {"adopt", "done"} PROVE Born(u)'
    BY BirthIsNext
  <2>1. u # t /\ pc[u] \in {"adopt", "done"} /\ obj'[u] = obj[u] /\ new'[u] = new[u]
             /\ pc'[u] = pc[u]
    OBVIOUS
  <2>2. new[u] \in Cred /\ new[u] # new[t] /\ obj[u] \in Ns
    BY <2>1, Lone DEF Tasks, LocalOK
  <2>3. Born(u)
    BY <2>1, BirthIs DEF Books
  <2>4. credNs[new[t]] # obj[u]
    BY <1>1, <2>3 DEF Born
  <2>5. ref'[obj[u]] = ref[obj[u]] /\ leaked'[obj[u]] = leaked[obj[u]]
    BY <2>2, <2>4 DEF GetEffect, Typed, TypeOK
  <2>6. \A v \in Task : obj'[v] = obj[u] => v = u
    BY <2>2, <2>3 DEF Born
  <2> QED BY <1>2, <2>1, <2>2, <2>3, <2>5, <2>6 DEF Born
<1>5. TableFresh'
  <2> SUFFICES ASSUME NEW c \in Cred, table'[c] # NULL
               PROVE  \/ credNs'[c] = table'[c]
                      \/ \E u \in Task : new'[u] = c /\ pc'[u] = "done" /\ obj'[u] = table'[c]
    BY DEF TableFresh
  <2>1. CASE table'[c] = table[c]
    BY <2>1 DEF Books, TableFresh
  <2>2. CASE table'[c] # table[c]
    BY <1>1, <2>2 DEF GetEffect, Typed, TypeOK
  <2> QED BY <2>1, <2>2
<1> QED BY <1>3, <1>4, <1>5 DEF Books

\* The types of what accounting for a cred changes.
LEMMA GetTypes ==
  ASSUME Typed, NEW c \in Cred, GetEffect(c)
  PROVE  /\ table' \in [Cred -> Ns \cup {NULL}] /\ ref' \in [Ns -> Nat]
         /\ leaked' \in [Ns -> Nat]
         /\ \A n \in Ns : leaked'[n] >= leaked[n]
         /\ \A d \in Cred : d # c => table'[d] = table[d]
<1>1. table \in [Cred -> Ns \cup {NULL}] /\ ref \in [Ns -> Nat] /\ leaked \in [Ns -> Nat]
        /\ tracked \subseteq Ns
  BY DEF Typed, TypeOK
<1>2. CASE UNCHANGED <<table, ref, leaked>>
  BY <1>1, <1>2
<1>3. CASE ~UNCHANGED <<table, ref, leaked>>
  <2>1. credNs[c] \in Ns /\ ref' = [ref EXCEPT ![credNs[c]] = @ + 1]
    BY <1>1, <1>3 DEF GetEffect
  <2>2. ref' \in [Ns -> Nat]
    BY <1>1, <2>1
  <2>3. CASE table' = [table EXCEPT ![c] = credNs[c]] /\ UNCHANGED leaked
    BY <1>1, <2>1, <2>2, <2>3
  <2>4. CASE leaked' = [leaked EXCEPT ![credNs[c]] = @ + 1] /\ UNCHANGED table
    BY <1>1, <2>1, <2>2, <2>4
  <2> QED BY <1>3, <2>3, <2>4 DEF GetEffect
<1> QED BY <1>2, <1>3

\* The entry of the cred comes to name the new namespace.
LEMMA BooksCreateAdopt ==
  ASSUME Typed, Tasks, Books, LiveOK, QueueOK, NEW t \in Task, CreateAdopt(t)
  PROVE  Books'
<1>1. /\ pc[t] = "adopt" /\ pc'[t] = "done" /\ \A u \in Task : u # t => pc'[u] = pc[u]
      /\ UNCHANGED <<heap, ref, parent, credNs, puts, cred, new, obj, file>>
  BY DEF CreateAdopt, Step, nsVars, Typed
<1>2. /\ new[t] \in Cred /\ cred[t] \in Cred /\ \A v \in Task : v # t => new[v] # new[t]
      /\ obj[t] \in Ns
  BY <1>1, Lone DEF Tasks, LocalOK
<1>3. table'[new[t]] = obj[t] /\ \A d \in Cred : d # new[t] => table'[d] = table[d]
  BY <1>2 DEF CreateAdopt, Typed, TypeOK
<1>4. \A n \in Ns : n # credNs[new[t]] => leaked'[n] = leaked[n]
  BY DEF CreateAdopt, Typed, TypeOK
<1>5. CopyOK'
  <2> SUFFICES ASSUME NEW u \in Task, pc'[u] = "prepared"
               PROVE  credNs'[new'[u]] = credNs'[cred'[u]] /\ table'[new'[u]] = NULL
    BY DEF CopyOK
  <2>1. u # t /\ pc[u] = "prepared"
    BY <1>1
  <2>2. new[u] # new[t] /\ new[u] \in Cred
    BY <2>1, Lone
  <2> QED BY <1>1, <1>3, <2>1, <2>2 DEF Books, CopyOK
<1>6. BirthOK'
  <2> SUFFICES ASSUME NEW u \in Task, pc'[u] \in {"adopt", "done"} PROVE Born(u)'
    BY BirthIsNext
  <2>1. pc[u] \in {"adopt", "done"}
    BY <1>1
  <2>2. Born(u) /\ new[u] \in Cred /\ obj[u] \in Ns
    BY <2>1, BirthIs, Lone DEF Books, Tasks, LocalOK
  <2>3. leaked'[obj[u]] = 0
    BY <1>2, <1>4, <2>2 DEF Born
  <2>4. CASE u = t
    BY <1>1, <1>3, <2>2, <2>3, <2>4 DEF Born
  <2>5. CASE u # t
    BY <1>1, <1>2, <1>3, <2>2, <2>3, <2>5 DEF Born
  <2> QED BY <2>4, <2>5
<1>7. TableFresh'
  BY <1>1, <1>2, <1>3 DEF Books, TableFresh
<1> QED BY <1>5, <1>6, <1>7 DEF Books

\* The cred enters the new namespace.
LEMMA BooksCreateDone ==
  ASSUME Typed, Tasks, Books, LiveOK, QueueOK, NEW t \in Task, CreateDone(t)
  PROVE  Books'
<1>1. /\ pc[t] = "done" /\ pc'[t] = "ready"
      /\ \A u \in Task : u # t => pc'[u] = pc[u] /\ obj'[u] = obj[u]
      /\ obj'[t] = NULL
      /\ UNCHANGED <<heap, ref, parent, table, leaked, puts, cred, new, file>>
  BY DEF CreateDone, Step, Typed, TypeOK
<1>2. /\ new[t] \in Cred /\ \A v \in Task : v # t => new[v] # new[t]
      /\ obj[t] \in Ns /\ Born(t) /\ \A v \in Task : cred[v] # new[t]
  BY <1>1, Lone, BirthIs DEF Tasks, LocalOK, Books
<1>3. credNs'[new[t]] = obj[t] /\ \A d \in Cred : d # new[t] => credNs'[d] = credNs[d]
  BY <1>2 DEF CreateDone, Typed, TypeOK
<1>5. CopyOK'
  <2> SUFFICES ASSUME NEW u \in Task, pc'[u] = "prepared"
               PROVE  credNs'[new'[u]] = credNs'[cred'[u]] /\ table'[new'[u]] = NULL
    BY DEF CopyOK
  <2>1. u # t /\ pc[u] = "prepared"
    BY <1>1
  <2>2. new[u] # new[t] /\ new[u] \in Cred /\ cred[u] \in Cred /\ cred[u] # new[t]
    BY <1>2, <2>1, Lone
  <2> QED BY <1>1, <1>3, <2>1, <2>2 DEF Books, CopyOK
<1>6. BirthOK'
  <2> SUFFICES ASSUME NEW u \in Task, pc'[u] \in {"adopt", "done"} PROVE Born(u)'
    BY BirthIsNext
  <2>1. u # t /\ pc[u] \in {"adopt", "done"} /\ pc'[u] = pc[u] /\ obj'[u] = obj[u]
    BY <1>1
  <2>2. Born(u) /\ new[u] \in Cred /\ obj[u] \in Ns /\ obj[u] # obj[t] /\ new[u] # new[t]
    BY <1>2, <2>1, BirthIs, Lone DEF Books, Tasks, LocalOK, Born
  <2>3. credNs'[new[u]] = credNs[new[u]]
    BY <1>3, <2>2
  <2>4. \A c \in Cred : credNs'[c] # obj[u]
    BY <1>3, <2>2 DEF Born
  <2>5. \A v \in Task : obj'[v] = obj[u] => v = u
    BY <1>1, <2>2 DEF Born
  <2> QED BY <1>1, <2>1, <2>2, <2>3, <2>4, <2>5 DEF Born
<1>7. TableFresh'
  <2> SUFFICES ASSUME NEW c \in Cred, table'[c] # NULL
               PROVE  \/ credNs'[c] = table'[c]
                      \/ \E u \in Task : new'[u] = c /\ pc'[u] = "done" /\ obj'[u] = table'[c]
    BY DEF TableFresh
  <2>1. CASE c = new[t]
    BY <1>1, <1>2, <1>3, <2>1 DEF Born
  <2>2. CASE c # new[t]
    BY <1>1, <1>3, <2>2 DEF Books, TableFresh
  <2> QED BY <2>1, <2>2
<1> QED BY <1>5, <1>6, <1>7 DEF Books

\* The cred enters the namespace of the file and its entry follows.
LEMMA BooksJoinAdopt ==
  ASSUME Typed, Tasks, Books, LiveOK, QueueOK, NEW t \in Task, JoinAdopt(t)
  PROVE  Books'
<1>1. /\ pc[t] = "joining" /\ pc'[t] = "ready"
      /\ \A u \in Task : u # t => pc'[u] = pc[u] /\ obj'[u] = obj[u]
      /\ obj'[t] = NULL
      /\ UNCHANGED <<heap, tracked, parent, leaked, puts, cred, new, file>>
  BY DEF JoinAdopt, Step, Typed, TypeOK
<1>2. /\ new[t] \in Cred /\ \A v \in Task : v # t => new[v] # new[t]
      /\ obj[t] \in Ns \cup {InitNs} /\ \A v \in Task : cred[v] # new[t]
  BY <1>1, Lone DEF Tasks, LocalOK
<1>3. credNs'[new[t]] = obj[t] /\ \A d \in Cred : d # new[t] => credNs'[d] = credNs[d]
  BY <1>2 DEF JoinAdopt, Typed, TypeOK
<1>4. /\ table'[new[t]] = IF obj[t] \in tracked THEN obj[t] ELSE NULL
      /\ \A d \in Cred : d # new[t] => table'[d] = table[d]
  BY <1>2 DEF JoinAdopt, Typed, TypeOK
<1>8. ref' = IF table[new[t]] \in tracked THEN [ref EXCEPT ![table[new[t]]] = @ - 1] ELSE ref
  BY PutDoes DEF JoinAdopt
<1>9. table[new[t]] # NULL => table[new[t]] = credNs[new[t]]
  BY <1>1, <1>2 DEF Books, TableFresh
<1>5. CopyOK'
  <2> SUFFICES ASSUME NEW u \in Task, pc'[u] = "prepared"
               PROVE  credNs'[new'[u]] = credNs'[cred'[u]] /\ table'[new'[u]] = NULL
    BY DEF CopyOK
  <2>1. u # t /\ pc[u] = "prepared"
    BY <1>1
  <2>2. new[u] # new[t] /\ new[u] \in Cred /\ cred[u] \in Cred /\ cred[u] # new[t]
    BY <1>2, <2>1, Lone
  <2> QED BY <1>1, <1>3, <1>4, <2>1, <2>2 DEF Books, CopyOK
<1>6. BirthOK'
  <2> SUFFICES ASSUME NEW u \in Task, pc'[u] \in {"adopt", "done"} PROVE Born(u)'
    BY BirthIsNext
  <2>1. u # t /\ pc[u] \in {"adopt", "done"} /\ pc'[u] = pc[u] /\ obj'[u] = obj[u]
    BY <1>1
  <2>2. Born(u) /\ new[u] \in Cred /\ obj[u] \in Ns /\ obj[u] # obj[t] /\ new[u] # new[t]
    BY <1>2, <2>1, BirthIs, Lone DEF Books, Tasks, LocalOK, Born
  <2>3. credNs'[new[u]] = credNs[new[u]] /\ table'[new[u]] = table[new[u]]
    BY <1>3, <1>4, <2>2
  <2>4. \A c \in Cred : credNs'[c] # obj[u]
    BY <1>3, <2>2 DEF Born
  <2>5. \A v \in Task : obj'[v] = obj[u] => v = u
    BY <1>1, <2>2 DEF Born
  <2>6. table[new[t]] # obj[u]
    BY <1>2, <1>9, <2>2 DEF Born
  <2>7. ref'[obj[u]] = ref[obj[u]]
    BY <1>8, <2>2, <2>6 DEF Typed, TypeOK
  <2> QED BY <1>1, <2>1, <2>2, <2>3, <2>4, <2>5, <2>7 DEF Born
<1>7. TableFresh'
  <2> SUFFICES ASSUME NEW c \in Cred, table'[c] # NULL
               PROVE  \/ credNs'[c] = table'[c]
                      \/ \E u \in Task : new'[u] = c /\ pc'[u] = "done" /\ obj'[u] = table'[c]
    BY DEF TableFresh
  <2>1. CASE c = new[t]
    BY <1>3, <1>4, <2>1
  <2>2. CASE c # new[t]
    BY <1>1, <1>3, <1>4, <2>2 DEF Books, TableFresh
  <2> QED BY <2>1, <2>2
<1> QED BY <1>5, <1>6, <1>7 DEF Books

\* A cred is freed, and its entry with it: without the hooks there is no
\* entry.
LEMMA BooksPutCredRcu ==
  ASSUME Typed, Tasks, Books, LiveOK, QueueOK, ModOK, mod # "raced", NEW c \in Cred,
         PutCredRcu(c)
  PROVE  Books'
<1>0. UNCHANGED <<heap, tracked, ref, parent, leaked, taskVars, file>> /\ c \in rcu
  BY DEF PutCredRcu, putRest
<1> USE <1>0 DEF taskVars
<1>1. CopyOK'
  BY DEF PutCredRcu, Typed, TypeOK, Tasks, LocalOK, CredOK, Books, CopyOK
<1>2. BirthOK'
  BY DEF PutCredRcu, Typed, TypeOK, Tasks, LocalOK, CredOK, Books, BirthOK, TableFresh
<1>3. \A d \in Cred : d # c => table'[d] = table[d] /\ credNs'[d] = credNs[d]
  BY DEF PutCredRcu, Typed, TypeOK
<1>4. table'[c] = NULL
  <2>1. CASE mod = "on"
    BY <2>1 DEF PutCredRcu, Typed, TypeOK
  <2>2. CASE mod # "on"
    <3>1. tracked = {}
      BY <2>2 DEF ModOK, Typed, TypeOK
    <3>2. table[c] = NULL
      BY <3>1 DEF LiveOK, Solid
    <3> QED BY <2>2, <3>2 DEF PutCredRcu
  <2> QED BY <2>1, <2>2
<1>5. TableFresh'
  BY <1>3, <1>4 DEF Books, TableFresh
<1> QED BY <1>1, <1>2, <1>5 DEF Books

\* The namespace of a detached reference is not being created.
LEMMA BooksPutDetached ==
  ASSUME Typed, Tasks, Books, LiveOK, QueueOK, NEW n \in Ns, PutDetached(n)
  PROVE  Books'
<1>0. UNCHANGED <<heap, tracked, credNs, table, parent, leaked, taskVars, file>> /\ puts[n] > 0
  BY DEF PutDetached, putRest
<1> USE <1>0 DEF taskVars
<1>1. CopyOK' /\ TableFresh'
  BY DEF Books, CopyOK, TableFresh
<1>2. \A m \in Ns : m # n => puts'[m] = puts[m] /\ ref'[m] = ref[m]
  BY PutDoes DEF PutDetached, Typed, TypeOK
<1>3. BirthOK'
  <2> SUFFICES ASSUME NEW u \in Task, pc[u] \in {"adopt", "done"} PROVE Born(u)'
    BY BirthIsNext
  <2>1. Born(u) /\ obj[u] \in Ns
    BY BirthIs DEF Books, Tasks, LocalOK
  <2>2. obj[u] # n
    BY <2>1 DEF Born
  <2> QED BY <1>2, <2>1, <2>2 DEF Born
<1> QED BY <1>1, <1>3 DEF Books

\* The child's cred is accounted once more.
LEMMA BooksWake ==
  ASSUME Typed, Tasks, Books, LiveOK, NEW t \in Task, WakeUpNewTask(t)
  PROVE  Books'
<1>1. GetEffect(new[t])
  BY GetDoes DEF WakeUpNewTask, Typed, TypeOK
<1>2. pc[t] = "ready" /\ pc'[t] = "idle" /\ child[t] \in Task /\ pc[child[t]] = "idle"
  BY DEF WakeUpNewTask, Finish, Typed, TypeOK, Tasks, LocalOK, ChildOK
<1>3. /\ UNCHANGED <<credNs, parent, heap, tracked, puts, file, obj>> /\ obj[t] = NULL
      /\ \A u \in Task : u # t => pc'[u] = pc[u] /\ new'[u] = new[u]
      /\ \A u \in Task : pc[u] # "idle" => cred'[u] = cred[u]
  BY <1>2 DEF WakeUpNewTask, Finish, Typed, TypeOK, Tasks, LocalOK
<1> QED BY <1>1, <1>2, <1>3, GetBooks

\* The copy is accounted.
LEMMA BooksPrepare ==
  ASSUME Typed, Tasks, Books, LiveOK, NEW t \in Task, HookPrepareCreds(t)
  PROVE  Books'
<1>1. GetEffect(new[t])
  BY GetDoes DEF HookPrepareCreds, Typed, TypeOK
<1>2. pc[t] = "prepared" /\ pc'[t] \in {"create", "join", "ready", "copied"} /\ obj[t] = NULL
  BY DEF HookPrepareCreds, Step, AfterPrepare, Typed, Tasks, LocalOK
<1>3. /\ UNCHANGED <<credNs, parent, heap, tracked, puts, file, obj, cred, new>>
      /\ \A u \in Task : u # t => pc'[u] = pc[u]
  BY DEF HookPrepareCreds, Step, credGetRest, Typed
<1> QED BY <1>1, <1>2, <1>3, GetBooks

\* The hooks of clone account for the cred, or give it up.
LEMMA BooksCopy ==
  ASSUME Typed, Tasks, Books, LiveOK, NEW t \in Task, HookCopyCreds(t) \/
         HookCopyNamespaces(t)
  PROVE  Books'
<1>1. GetEffect(new[t])
  BY GetDoes DEF HookCopyCreds, HookCopyNamespaces, Typed, TypeOK
<1>2. /\ pc[t] \in {"copied", "copyns"} /\ pc'[t] \in {"create", "idle", "ready", "copyns"}
      /\ obj'[t] = NULL
  BY DEF HookCopyCreds, HookCopyNamespaces, Step, Drop, Typed, TypeOK, Tasks, LocalOK
<1>3. /\ UNCHANGED <<credNs, parent, heap, tracked, puts, file, cred>>
      /\ \A u \in Task : u # t => pc'[u] = pc[u] /\ new'[u] = new[u] /\ obj'[u] = obj[u]
  BY DEF HookCopyCreds, HookCopyNamespaces, Step, Drop, credGetRest, Typed, TypeOK
<1> QED BY <1>1, <1>2, <1>3, GetBooks

\* The namespace that is freed has no creator.
LEMMA BooksFreeUserNs ==
  ASSUME Typed, Tasks, Books, LiveOK, QueueOK, FreeUserNs
  PROVE  Books'
<1> USE DEF FreeUserNs, workRest, taskVars, Typed, TypeOK, Tasks, LocalOK, CredOK, Books, QueueOK, LiveOK, Solid
<1>1. CopyOK' /\ TableFresh'
  BY DEF CopyOK, TableFresh
<1>2. BirthOK'
  BY DEF BirthOK, Waiting
<1> QED BY <1>1, <1>2

\* The gate of creation.
LEMMA BooksCreateBegin ==
  ASSUME Typed, Tasks, Books, LiveOK, NEW t \in Task, CreateBegin(t)
  PROVE  Books'
<1>1. UNCHANGED <<table, ref, leaked>>
  BY DEF CreateBegin, nsVars
<1>2. pc[t] = "create" /\ pc'[t] \in {"alloc", "idle"} /\ obj'[t] = NULL
  BY DEF CreateBegin, Step, Drop, Typed, TypeOK, Tasks, LocalOK
<1>3. /\ UNCHANGED <<credNs, parent, heap, tracked, puts, file, cred>>
      /\ \A u \in Task : u # t => pc'[u] = pc[u] /\ new'[u] = new[u] /\ obj'[u] = obj[u]
  BY DEF CreateBegin, Step, Drop, nsVars, Typed, TypeOK
<1> QED BY <1>1, <1>2, <1>3, GetBooks

\* Nothing in the books changes.
BooksSame ==
  UNCHANGED <<heap, tracked, ref, parent, credNs, table, puts, leaked, file, new, obj, pc, cred>>
\* They are kept then.
LEMMA SameBook == ASSUME Books, BooksSame PROVE Books'
BY DEF BooksSame, Books, CopyOK, BirthOK, TableFresh

\* Every step keeps the books.
LEMMA KeepBooks ==
  ASSUME Typed, Tasks, Books, QueueOK, ModOK, LiveOK, Next
  PROVE  Books'
<1>0. heap = tracked /\ mod # "raced"
  BY DEF QueueOK, Next
<1>1. ASSUME NEW t \in Task, NEW h \in {"unshare", "setns", "cred"}, Prepare(t, h, NULL)
      PROVE  Books'
  BY <1>0, <1>1 DEF Prepare, nsVars, Typed, TypeOK, PC, Fn, Shares, Tasks, LocalOK, OwnOK,
    CredOK, Books, CopyOK, BirthOK, TableFresh, LiveOK, Solid
<1>2. ASSUME NEW t \in Task, NEW ch \in Task, NEW b \in BOOLEAN, Clone(t, ch, b) PROVE Books'
  BY <1>0, <1>2 DEF Clone, Prepare, nsVars, Typed, TypeOK, PC, Fn, Shares, Tasks, LocalOK,
    OwnOK, CredOK, Books, CopyOK, BirthOK, TableFresh, LiveOK, Solid
<1>3. ASSUME NEW t \in Task, NEW ch \in Task, CloneThread(t, ch) PROVE Books'
  BY <1>0, <1>3 DEF CloneThread, nsVars, Typed, TypeOK, PC, Fn, Shares, Tasks, LocalOK, OwnOK,
    CredOK, Books, CopyOK, BirthOK, TableFresh, LiveOK, Solid
<1>4. ASSUME NEW t \in Task, HookPrepareCreds(t) PROVE Books'
  BY <1>4, BooksPrepare
<1>5. ASSUME NEW t \in Task, HookCopyCreds(t) \/ HookCopyNamespaces(t) PROVE Books'
  BY <1>5, BooksCopy
<1>6. ASSUME NEW t \in Task, CreateBegin(t) PROVE Books'
  BY <1>6, BooksCreateBegin
<1>7. ASSUME NEW t \in Task, CreateAlloc(t) PROVE Books'
  BY <1>0, <1>7 DEF CreateAlloc, Step, Typed, TypeOK, PC, Fn, Shares, Tasks, LocalOK, OwnOK,
    CredOK, Books, CopyOK, BirthOK, TableFresh, LiveOK, Solid
<1>8. ASSUME NEW t \in Task, CreateAdopt(t) PROVE Books'
  BY <1>8, BooksCreateAdopt
<1>9. ASSUME NEW t \in Task, CreateDone(t) PROVE Books'
  BY <1>9, BooksCreateDone
<1>10. ASSUME NEW t \in Task, CreateFails(t) PROVE Books'
  BY <1>0, <1>10 DEF CreateFails, Drop, Typed, TypeOK, PC, Fn, Shares, Tasks, LocalOK, OwnOK,
    CredOK, Books, CopyOK, BirthOK, TableFresh, LiveOK, Solid
<1>11. ASSUME NEW t \in Task, NEW f \in File, JoinGet(t, f) PROVE Books'
  BY <1>0, <1>11 DEF JoinGet, Step, Typed, TypeOK, PC, Fn, Shares, Tasks, LocalOK, OwnOK,
    CredOK, Books, CopyOK, BirthOK, TableFresh, LiveOK, Solid
<1>12. ASSUME NEW t \in Task, JoinAdopt(t) PROVE Books'
  BY <1>12, BooksJoinAdopt
<1>13. ASSUME NEW t \in Task, JoinFails(t) PROVE Books'
  BY <1>0, <1>13 DEF JoinFails, PutUserNs, Drop, Typed, TypeOK, PC, Fn, Shares, Tasks, LocalOK,
    OwnOK, CredOK, Books, CopyOK, BirthOK, TableFresh, LiveOK, Solid
<1>14. ASSUME NEW t \in Task, Commit(t) PROVE Books'
  BY <1>0, <1>14 DEF Commit, Finish, Typed, TypeOK, PC, Fn, Shares, Tasks, LocalOK, OwnOK,
    CredOK, Books, CopyOK, BirthOK, TableFresh, LiveOK, Solid
<1>15. ASSUME NEW t \in Task, WakeUpNewTask(t) PROVE Books'
  BY <1>15, BooksWake
<1>16. ASSUME NEW t \in Task, Abandon(t) PROVE Books'
  BY <1>0, <1>16 DEF Abandon, Drop, nsVars, Typed, TypeOK, PC, Fn, Shares, Tasks, LocalOK,
    OwnOK, CredOK, Books, CopyOK, BirthOK, TableFresh, LiveOK, Solid
<1>17. ASSUME NEW t \in Task, Exit(t) PROVE Books'
  BY <1>0, <1>17 DEF Exit, nsVars, Typed, TypeOK, PC, Fn, Shares, Tasks, LocalOK, OwnOK, CredOK,
    Books, CopyOK, BirthOK, TableFresh, LiveOK, Solid
<1>18. ASSUME NEW c \in Cred, PutCredRcu(c) PROVE Books'
  BY <1>0, <1>18, BooksPutCredRcu
<1>19. ASSUME NEW n \in Ns, PutDetached(n) PROVE Books'
  BY <1>19, BooksPutDetached
<1>20. ASSUME NEW f \in File, NEW t \in Task, IdmapOpen(f, t) PROVE Books'
  BY <1>0, <1>20 DEF IdmapOpen, taskVars, Typed, TypeOK, PC, Fn, Shares, Tasks, LocalOK, OwnOK,
    CredOK, Books, CopyOK, BirthOK, TableFresh, LiveOK, Solid
<1>21. ASSUME NEW f \in File, IdmapRelease(f) PROVE Books'
  BY <1>0, <1>21 DEF IdmapRelease, taskVars, Typed, TypeOK, PC, Fn, Shares, Tasks, LocalOK,
    OwnOK, CredOK, Books, CopyOK, BirthOK, TableFresh, LiveOK, Solid
<1>22. ASSUME FreeUserNs PROVE Books'
  BY <1>22, BooksFreeUserNs
<1>23. ASSUME WorkStart \/ WorkPins \/ WorkOwnPin \/ WorkReturn PROVE Books'
  BY <1>23, SameBook DEF BooksSame, WorkStart, WorkPins, WorkOwnPin, WorkReturn, workRest,
    nsVars, taskVars
<1>24. ASSUME Stops PROVE Books'
  BY <1>24, SameBook, StopFrame DEF BooksSame, stopRest, nsVars, taskVars
<1> QED BY <1>1, <1>2, <1>3, <1>4, <1>5, <1>6, <1>7, <1>8, <1>9, <1>10, <1>11, <1>12, <1>13,
           <1>14, <1>15, <1>16, <1>17, <1>18, <1>19, <1>20, <1>21, <1>22, <1>23, <1>24 DEF Next,
           TaskStep, Unshare, Setns, PrepareCred, Worker, Stops

-----------------------------------------------------------------------------
(***************************************************************************)
(* The queue of the worker.                                                *)
(***************************************************************************)
\* Steps that leave the queue and the worker alone and neither bring a count
\* to zero nor away from it.
QueueSame ==
  /\ UNCHANGED <<heap, tracked, queue, cur, wpc, freed>>
  /\ \A n \in tracked : ref'[n] = 0 <=> ref[n] = 0
\* They keep the queue in order.
LEMMA SameQueue == ASSUME QueueOK, QueueSame PROVE QueueOK'
BY DEF QueueOK, QueueSame, Waiting

\* A reference more of a namespace that is counted already.
LEMMA GetQueue ==
  ASSUME Typed, QueueOK, NEW n, n \in tracked => ref[n] >= 1,
         UNCHANGED <<heap, tracked, queue, cur, wpc, freed>>,
         ref' = IF n \in tracked THEN [ref EXCEPT ![n] = @ + 1] ELSE ref
  PROVE  QueueOK'
<1>1. \A k \in tracked : ref[k] \in Nat /\ k \in Ns
  BY DEF Typed, TypeOK
<1>2. \A k \in tracked : ref'[k] = 0 <=> ref[k] = 0
  BY <1>1 DEF Typed, TypeOK
<1> QED BY <1>2, SameQueue DEF QueueSame

\* A put: the last one queues the namespace.
PutQueue(n) ==
  IF n \in tracked
  THEN /\ ref' = [ref EXCEPT ![n] = @ - 1]
       /\ queue' = IF ref[n] = 1 THEN Append(queue, n) ELSE queue
  ELSE UNCHANGED <<ref, queue>>
\* This is what vns_put_user_ns() does to count and queue.
LEMMA PutIs == ASSUME NEW n, PutUserNs(ref, n) PROVE PutQueue(n)
BY DEF PutUserNs, PutQueue
\* It keeps the queue in order: a namespace is queued once, at its last put.
LEMMA QueuePut ==
  ASSUME Typed, QueueOK, NEW n, n \in tracked => ref[n] >= 1,
         UNCHANGED <<heap, tracked, cur, wpc, freed>>, PutQueue(n)
  PROVE  QueueOK'
<1>1. CASE n \notin tracked
  BY <1>1, SameQueue DEF QueueSame, PutQueue
<1>2. CASE n \in tracked /\ ref[n] # 1
  <2>1. \A k \in tracked : ref'[k] = IF k = n THEN ref[k] - 1 ELSE ref[k]
    BY <1>2 DEF PutQueue, Typed, TypeOK
  <2>2. \A k \in tracked : ref[k] \in Nat
    BY DEF Typed, TypeOK
  <2>3. \A k \in tracked : ref'[k] = 0 <=> ref[k] = 0
    BY <1>2, <2>1, <2>2
  <2> QED BY <1>2, <2>3, SameQueue DEF QueueSame, PutQueue
<1>3. CASE n \in tracked /\ ref[n] = 1
  <2>1. /\ queue \in Seq(Ns) /\ n \in Ns
        /\ \A k \in tracked : ref'[k] = IF k = n THEN 0 ELSE ref[k]
    BY <1>3 DEF PutQueue, Typed, TypeOK
  <2>2. queue' = Append(queue, n)
    BY <1>3 DEF PutQueue
  <2>3. /\ Len(queue) \in Nat /\ Len(queue') = Len(queue) + 1 /\ queue'[Len(queue) + 1] = n
        /\ \A i \in 1 .. Len(queue) : queue'[i] = queue[i]
    BY <2>1, <2>2
  <2>4. ~Waiting(n)
    BY <1>3 DEF QueueOK
  <2>5. \A i \in 1 .. Len(queue') : i \in 1 .. Len(queue) \/ i = Len(queue) + 1
    BY <2>3
  <2>6. \A k : Waiting(k)' <=> Waiting(k) \/ k = n
    BY <2>3, <2>5 DEF Waiting
  <2>7. /\ \A i \in 1 .. Len(queue') : queue'[i] \in tracked' /\ queue'[i] # cur'
        /\ \A i, j \in 1 .. Len(queue') : queue'[i] = queue'[j] => i = j
    BY <1>3, <2>3, <2>4, <2>5 DEF QueueOK, Waiting
  <2>8. \A k \in tracked' : ref'[k] = 0 <=> Waiting(k)'
    BY <2>1, <2>6 DEF QueueOK
  <2> QED BY <2>7, <2>8 DEF QueueOK
<1> QED BY <1>1, <1>2, <1>3

\* A new namespace, or one that its creator gives up.
LEMMA QueueNew ==
  ASSUME Typed, QueueOK, NEW n \in Ns \ heap, UNCHANGED <<queue, cur, wpc, freed>>,
         heap' = heap \cup {n}, tracked' = tracked \cup {n}, ref' = [ref EXCEPT ![n] = 1]
  PROVE  QueueOK'
<1>1. ref'[n] = 1 /\ \A k \in tracked : ref'[k] = ref[k] /\ k # n
  BY DEF Typed, TypeOK
<1>2. ~Waiting(n) /\ (n # cur)
  BY DEF QueueOK, Waiting, Typed, TypeOK
<1>3. \A k : Waiting(k)' <=> Waiting(k)
  BY DEF Waiting
<1> QED BY <1>1, <1>2, <1>3 DEF QueueOK
\* The namespace that its creator gives up is not waited for.
LEMMA QueueGone ==
  ASSUME Typed, QueueOK, NEW n \in tracked, ref[n] # 0, UNCHANGED <<queue, cur, wpc, freed>>,
         heap' = heap \ {n}, tracked' = tracked \ {n}, ref' = [ref EXCEPT ![n] = 0]
  PROVE  QueueOK'
<1>1. \A k \in tracked : k # n => ref'[k] = ref[k]
  BY DEF Typed, TypeOK
<1>2. ~Waiting(n)
  BY DEF QueueOK
<1>3. \A k : Waiting(k)' <=> Waiting(k)
  BY DEF Waiting
<1> QED BY <1>1, <1>2, <1>3 DEF QueueOK, Waiting

\* The worker takes the head of the queue.
LEMMA QueueWorkStart ==
  ASSUME Typed, QueueOK, WorkStart
  PROVE  QueueOK'
<1>1. /\ queue \in Seq(Ns) /\ queue # <<>> /\ cur' = Head(queue) /\ queue' = Tail(queue)
      /\ cur = NULL
      /\ UNCHANGED <<heap, tracked, ref, freed>> /\ wpc' = "free" /\ wpc = "idle"
  BY DEF WorkStart, nsVars, Typed, TypeOK, QueueOK
<1>2. /\ Len(queue) \in Nat /\ Len(queue) >= 1 /\ Len(queue') = Len(queue) - 1
      /\ cur' = queue[1]
      /\ \A i \in 1 .. Len(queue') : queue'[i] = queue[i + 1]
  BY <1>1
<1>3. /\ \A i \in 1 .. Len(queue') : i + 1 \in 1 .. Len(queue) /\ i + 1 # 1
      /\ \A i \in 1 .. Len(queue) : i = 1 \/ (i - 1 \in 1 .. Len(queue') /\ (i - 1) + 1 = i)
      /\ 1 \in 1 .. Len(queue)
  BY <1>2
<1>4. /\ \A i \in 1 .. Len(queue') : queue'[i] \in tracked' /\ queue'[i] # cur'
      /\ \A i, j \in 1 .. Len(queue') : queue'[i] = queue'[j] => i = j
  <2>1. \A i \in 1 .. Len(queue') : queue'[i] \in tracked' /\ queue'[i] # cur'
    BY <1>1, <1>2, <1>3 DEF QueueOK
  <2>2. ASSUME NEW i \in 1 .. Len(queue'), NEW j \in 1 .. Len(queue'), queue'[i] = queue'[j] PROVE i = j
    <3>1. i + 1 = j + 1
      BY <1>2, <1>3, <2>2 DEF QueueOK
    <3> QED BY <3>1
  <2> QED BY <2>1, <2>2
<1>5. ASSUME NEW k \in Ns PROVE Waiting(k)' <=> Waiting(k)
  <2>1. Waiting(k) <=> \E i \in 1 .. Len(queue) : queue[i] = k
    BY <1>1 DEF Waiting
  <2>2. Waiting(k)' <=> queue[1] = k \/ \E i \in 1 .. Len(queue') : queue'[i] = k
    BY <1>2 DEF Waiting
  <2>3. (\E i \in 1 .. Len(queue') : queue'[i] = k) => \E i \in 1 .. Len(queue) : queue[i] = k
    BY <1>2, <1>3
  <2>4. ASSUME NEW i \in 1 .. Len(queue), queue[i] = k
        PROVE  queue[1] = k \/ \E j \in 1 .. Len(queue') : queue'[j] = k
    <3>1. CASE i = 1
      BY <3>1, <2>4
    <3>2. CASE i # 1
      <4>1. i - 1 \in 1 .. Len(queue') /\ queue'[i - 1] = queue[(i - 1) + 1] /\ (i - 1) + 1 = i
        BY <1>2, <1>3, <3>2
      <4> QED BY <2>4, <4>1
    <3> QED BY <3>1, <3>2
  <2> QED BY <1>3, <2>1, <2>2, <2>3, <2>4
<1>6. cur' \in tracked'
  BY <1>1, <1>2, <1>3 DEF QueueOK
<1>7. \A k \in tracked' : k \in Ns
  BY <1>1 DEF Typed, TypeOK
<1> QED BY <1>1, <1>4, <1>5, <1>6, <1>7 DEF QueueOK

\* The worker frees a namespace; with the last reference its parent is next.
LEMMA QueueFreeUserNs ==
  ASSUME Typed, QueueOK, LiveOK, FreeUserNs
  PROVE  QueueOK'
<1>1. cur \in tracked /\ ref[cur] = 0 /\ cur \in Ns
  BY DEF FreeUserNs, QueueOK, Waiting, Typed, TypeOK
<1>2. /\ heap' = heap \ {cur} /\ tracked' = tracked \ {cur} /\ queue' = queue /\ wpc = "free"
      /\ wpc' \in {"free", "pins"} /\ (wpc' = "free" <=> cur' # NULL)
  BY <1>1 DEF FreeUserNs, Typed, TypeOK
<1>5. ASSUME cur' # NULL => cur' \in tracked /\ cur' # cur /\ \A i \in 1 .. Len(queue) : queue[i] # cur',
             \A k \in tracked : k # cur =>
               (ref'[k] = 0 <=> k = cur' \/ \E i \in 1 .. Len(queue) : queue[i] = k)
      PROVE  QueueOK'
  <2>1. \A i \in 1 .. Len(queue') : queue'[i] \in tracked' /\ queue'[i] # cur'
    BY <1>1, <1>2, <1>5 DEF QueueOK, Typed, TypeOK
  <2>2. \A i, j \in 1 .. Len(queue') : queue'[i] = queue'[j] => i = j
    BY <1>2 DEF QueueOK
  <2>3. \A n \in tracked' : ref'[n] = 0 <=> Waiting(n)'
    BY <1>2, <1>5 DEF Waiting
  <2>4. heap' = tracked' /\ (cur' # NULL => cur' \in tracked')
    BY <1>2, <1>5 DEF QueueOK
  <2> QED BY <1>2, <2>1, <2>2, <2>3, <2>4 DEF QueueOK
<1>6. \A k \in tracked : k # cur => (ref[k] = 0 <=> \E i \in 1 .. Len(queue) : queue[i] = k)
  BY DEF QueueOK, Waiting
<1>3. CASE parent[cur] \notin tracked
  <2>1. cur' = NULL /\ ref' = ref /\ NULL \notin tracked
    BY <1>3 DEF FreeUserNs, Typed, TypeOK
  <2> QED BY <1>5, <1>6, <2>1
<1>4. CASE parent[cur] \in tracked
  <2>1. parent[cur] \in Ns /\ ref[parent[cur]] >= 1 /\ ref[parent[cur]] \in Nat
    BY <1>1, <1>4 DEF LiveOK, Solid, QueueOK, Typed, TypeOK
  <2>2. /\ parent[cur] # cur /\ ref[parent[cur]] # 0
        /\ \A i \in 1 .. Len(queue) : queue[i] # parent[cur]
    BY <1>1, <1>4, <2>1 DEF QueueOK, Waiting
  <2>3. /\ ref'[parent[cur]] = ref[parent[cur]] - 1
        /\ \A k \in tracked : k # parent[cur] => ref'[k] = ref[k]
        /\ cur' = IF ref[parent[cur]] = 1 THEN parent[cur] ELSE NULL
    BY <1>4, <2>1 DEF FreeUserNs, Typed, TypeOK
  <2>4. ref'[parent[cur]] = 0 <=> ref[parent[cur]] = 1
    BY <2>1, <2>3
  <2>5. NULL \notin tracked
    BY DEF Typed, TypeOK
  <2>6. \A k \in tracked : k # cur =>
               (ref'[k] = 0 <=> k = cur' \/ \E i \in 1 .. Len(queue) : queue[i] = k)
    BY <1>4, <1>6, <2>2, <2>3, <2>4, <2>5
  <2> QED BY <1>4, <1>5, <2>2, <2>3, <2>6
<1> QED BY <1>3, <1>4

\* A creator gives up a namespace nobody waits for.
LEMMA QueueCreateFails ==
  ASSUME Typed, Tasks, Books, QueueOK, LiveOK, NEW t \in Task, CreateFails(t)
  PROVE  QueueOK'
<1>1. CASE pc[t] = "alloc"
  <2>1. obj[t] = NULL /\ NULL \notin heap /\ NULL \notin tracked /\ NULL \notin Ns
    BY <1>1 DEF Tasks, LocalOK, Typed, TypeOK
  <2>2. heap' = heap /\ tracked' = tracked /\ ref' = ref /\ UNCHANGED workVars
    BY <2>1 DEF CreateFails
  <2> QED BY <2>2, SameQueue DEF QueueSame, workVars
<1>2. CASE pc[t] = "adopt"
  <2>1. obj[t] \in Ns /\ obj[t] \in tracked /\ ref[obj[t]] # 0
    BY <1>2 DEF Tasks, LocalOK, Books, BirthOK, LiveOK, Solid
  <2> QED BY <2>1, QueueGone DEF CreateFails, workVars
<1> QED BY <1>1, <1>2 DEF CreateFails

\* The join that fails puts its reference.
LEMMA QueueJoinFails ==
  ASSUME Typed, QueueOK, LiveOK, NEW t \in Task, JoinFails(t)
  PROVE  QueueOK'
<1>1. obj[t] \in tracked => ref[obj[t]] >= 1
  BY DEF LiveOK, Solid, Typed, TypeOK
<1> QED BY <1>1, PutIs, QueuePut DEF JoinFails

\* The namespace that is left loses a reference.
LEMMA QueueJoinAdopt ==
  ASSUME Typed, Tasks, QueueOK, LiveOK, NEW t \in Task, JoinAdopt(t)
  PROVE  QueueOK'
<1>1. table[new[t]] \in tracked => ref[table[new[t]]] >= 1
  <2>1. new[t] \in Cred
    BY DEF JoinAdopt, Step, Tasks, LocalOK, Typed, TypeOK
  <2> QED BY <2>1 DEF LiveOK, Solid, Typed, TypeOK
<1> QED BY <1>1, PutIs, QueuePut DEF JoinAdopt

\* A detached reference is put.
LEMMA QueuePutDetached ==
  ASSUME Typed, QueueOK, LiveOK, NEW n \in Ns, PutDetached(n)
  PROVE  QueueOK'
<1>1. ref[n] >= 1
  BY DEF LiveOK, Solid, PutDetached
<1> QED BY <1>1, PutIs, QueuePut DEF PutDetached, putRest

\* A file is closed.
LEMMA QueueRelease ==
  ASSUME Typed, QueueOK, LiveOK, NEW f \in File, IdmapRelease(f)
  PROVE  QueueOK'
<1>1. file[f] \in tracked => ref[file[f]] >= 1
  BY DEF LiveOK, Solid, Typed, TypeOK
<1>2. PutQueue(file[f])
  BY DEF IdmapRelease, PutQueue
<1> QED BY <1>1, <1>2, QueuePut DEF IdmapRelease

\* A file is opened.
LEMMA QueueOpen ==
  ASSUME Typed, QueueOK, LiveOK, NEW f \in File, NEW t \in Task, IdmapOpen(f, t)
  PROVE  QueueOK'
<1>1. cred[t] \in Cred /\ (credNs[cred[t]] \in tracked => ref[credNs[cred[t]]] >= 1)
  BY DEF IdmapOpen, LiveOK, Solid, Typed, TypeOK
<1> QED BY <1>1, GetQueue DEF IdmapOpen, workVars

\* A join takes a reference.
LEMMA QueueJoinGet ==
  ASSUME Typed, QueueOK, LiveOK, NEW t \in Task, NEW f \in File, JoinGet(t, f)
  PROVE  QueueOK'
<1>1. file[f] \in tracked => ref[file[f]] >= 1
  BY DEF LiveOK, Solid, Typed, TypeOK
<1> QED BY <1>1, GetQueue DEF JoinGet, workVars

\* A cred is accounted for.
LEMMA QueueCredGet ==
  ASSUME Typed, QueueOK, LiveOK, NEW c \in Cred, GetEffect(c),
         UNCHANGED <<heap, tracked, queue, cur, wpc, freed>>
  PROVE  QueueOK'
<1>1. credNs[c] \in tracked => ref[credNs[c]] >= 1
  BY DEF LiveOK, Solid, Typed, TypeOK
<1>2. CASE ref' = ref
  BY <1>2, SameQueue DEF QueueSame
<1>3. CASE ref' # ref
  BY <1>1, <1>3, GetQueue DEF GetEffect
<1> QED BY <1>2, <1>3

\* Every step keeps the queue and the worker in order.
LEMMA KeepQueue ==
  ASSUME Typed, Tasks, Books, QueueOK, LiveOK, Next
  PROVE  QueueOK'
<1>1. ASSUME NEW t \in Task, NEW h \in {"unshare", "setns", "cred"}, Prepare(t, h, NULL)
      PROVE  QueueOK'
  BY <1>1, SameQueue DEF QueueSame, Prepare, nsVars, workVars
<1>2. ASSUME NEW t \in Task, NEW ch \in Task, NEW b \in BOOLEAN, Clone(t, ch, b) PROVE QueueOK'
  BY <1>2, SameQueue DEF QueueSame, Clone, Prepare, nsVars, workVars
<1>3. ASSUME NEW t \in Task, NEW ch \in Task, CloneThread(t, ch) PROVE QueueOK'
  BY <1>3, SameQueue DEF QueueSame, CloneThread, nsVars, workVars
<1>4. ASSUME NEW t \in Task, HookPrepareCreds(t) \/ HookCopyCreds(t) \/ HookCopyNamespaces(t)
             \/ WakeUpNewTask(t)
      PROVE  QueueOK'
  <2>1. GetEffect(new[t]) /\ new[t] \in Cred
    BY <1>4, GetDoes DEF HookPrepareCreds, HookCopyCreds, HookCopyNamespaces, WakeUpNewTask,
      Step, Typed, TypeOK, Tasks, LocalOK
  <2> QED BY <1>4, <2>1, QueueCredGet DEF HookPrepareCreds, HookCopyCreds, HookCopyNamespaces,
    WakeUpNewTask, Finish, credGetRest, workVars
<1>5. ASSUME NEW t \in Task, CreateBegin(t) \/ CreateAdopt(t) \/ CreateDone(t) PROVE QueueOK'
  BY <1>5, SameQueue DEF QueueSame, CreateBegin, CreateAdopt, CreateDone, nsVars, workVars
<1>6. ASSUME NEW t \in Task, CreateAlloc(t) PROVE QueueOK'
  BY <1>6, QueueNew DEF CreateAlloc, workVars
<1>7. ASSUME NEW t \in Task, CreateFails(t) PROVE QueueOK'
  BY <1>7, QueueCreateFails
<1>8. ASSUME NEW t \in Task, NEW f \in File, JoinGet(t, f) PROVE QueueOK'
  BY <1>8, QueueJoinGet
<1>9. ASSUME NEW t \in Task, JoinAdopt(t) PROVE QueueOK'
  BY <1>9, QueueJoinAdopt
<1>10. ASSUME NEW t \in Task, JoinFails(t) PROVE QueueOK'
  BY <1>10, QueueJoinFails
<1>11. ASSUME NEW t \in Task, Commit(t) \/ Abandon(t) \/ Exit(t) PROVE QueueOK'
  BY <1>11, SameQueue DEF QueueSame, Commit, Finish, Abandon, Exit, nsVars, workVars
<1>12. ASSUME NEW c \in Cred, PutCredRcu(c) PROVE QueueOK'
  BY <1>12, SameQueue DEF QueueSame, PutCredRcu, putRest
<1>13. ASSUME NEW n \in Ns, PutDetached(n) PROVE QueueOK'
  BY <1>13, QueuePutDetached
<1>14. ASSUME NEW f \in File, NEW t \in Task, IdmapOpen(f, t) PROVE QueueOK'
  BY <1>14, QueueOpen
<1>15. ASSUME NEW f \in File, IdmapRelease(f) PROVE QueueOK'
  BY <1>15, QueueRelease
<1>16. ASSUME WorkStart PROVE QueueOK'
  BY <1>16, QueueWorkStart
<1>17. ASSUME FreeUserNs PROVE QueueOK'
  BY <1>17, QueueFreeUserNs
<1>18. ASSUME WorkPins \/ WorkOwnPin \/ WorkReturn PROVE QueueOK'
  BY <1>18 DEF WorkPins, WorkOwnPin, WorkReturn, nsVars, QueueOK, Waiting
<1>19. ASSUME Stops PROVE QueueOK'
  BY <1>19, StopFrame, SameQueue DEF QueueSame, stopRest, nsVars, workVars
<1> QED BY <1>1, <1>2, <1>3, <1>4, <1>5, <1>6, <1>7, <1>8, <1>9, <1>10, <1>11, <1>12, <1>13,
           <1>14, <1>15, <1>16, <1>17, <1>18, <1>19 DEF Next, TaskStep, Unshare, Setns,
           PrepareCred, Worker, Stops

-----------------------------------------------------------------------------
(***************************************************************************)
(* The reference counts.                                                   *)
(***************************************************************************)
\* How much the references of n change at cred c, child m, file f and handler t,
\* by detached and by fail-safe references.
Is(a, b) == IF a = b THEN 1 ELSE 0
AtEntry(c, n) == One(c \in Cred /\ Entry(c, n)') - One(c \in Cred /\ Entry(c, n))
AtKid(m, n) == One(m \in Ns /\ Kid(m, n)') - One(m \in Ns /\ Kid(m, n))
AtFile(f, n) == One(f \in File /\ Opened(f, n)') - One(f \in File /\ Opened(f, n))
AtTask(t, n) == One(t \in Task /\ Holds(t, n)') - One(t \in Task /\ Holds(t, n))
Shift(c, m, f, t, n) ==
  AtEntry(c, n) + AtKid(m, n) + AtFile(f, n) + AtTask(t, n)
    + (puts'[n] - puts[n]) + (leaked'[n] - leaked[n])
\* These are integers, and zero where nothing is.
LEMMA AtInt ==
  ASSUME NEW c, NEW m, NEW f, NEW t, NEW n
  PROVE  /\ AtEntry(c, n) \in Int /\ AtKid(m, n) \in Int /\ AtFile(f, n) \in Int
         /\ AtTask(t, n) \in Int
         /\ c \notin Cred => AtEntry(c, n) = 0
         /\ m \notin Ns => AtKid(m, n) = 0
         /\ t \notin Task => AtTask(t, n) = 0
         /\ (file' = file) => AtFile(f, n) = 0
         /\ c \in Cred => AtEntry(c, n) = Is(table'[c], n) - Is(table[c], n)
         /\ f \in File => AtFile(f, n) = Is(file'[f], n) - Is(file[f], n)
BY DEF AtEntry, AtKid, AtFile, AtTask, One, Is, Entry, Opened

\* What changes at one cred, one child, one file and one handler changes the
\* number of references by as much.
LEMMA Balance ==
  ASSUME heap \subseteq Ns, heap' \subseteq Ns, NEW n \in Ns,
         puts[n] \in Nat, leaked[n] \in Nat, puts'[n] \in Nat, leaked'[n] \in Nat,
         NEW c, NEW m, NEW f, NEW t,
         \A d \in Cred : d # c => (Entry(d, n)' <=> Entry(d, n)),
         \A k \in Ns : k # m => (Kid(k, n)' <=> Kid(k, n)),
         \A g \in File : g # f => (Opened(g, n)' <=> Opened(g, n)),
         \A u \in Task : u # t => (Holds(u, n)' <=> Holds(u, n))
  PROVE  /\ Referrers(n) \in Nat /\ Referrers(n)' \in Nat
         /\ Referrers(n)' = Referrers(n) + Shift(c, m, f, t, n)
<1>1. /\ Entries(n) \in Nat /\ Entries(n)' \in Nat
      /\ Entries(n)' = Entries(n) + One(c \in Cred /\ Entry(c, n)') - One(c \in Cred /\ Entry(c, n))
  <2> DEFINE A == {d \in Cred : Entry(d, n)}
             B == {d \in Cred : Entry(d, n)'}
  <2>1. A \in SUBSET Cred /\ B \in SUBSET Cred /\ \A d \in Cred : d # c => (d \in A <=> d \in B)
    OBVIOUS
  <2>2. (c \in A <=> c \in Cred /\ Entry(c, n)) /\ (c \in B <=> c \in Cred /\ Entry(c, n)')
    OBVIOUS
  <2>3. Entries(n) = Cardinality(A) /\ Entries(n)' = Cardinality(B)
    BY DEF Entries
  <2> HIDE DEF A, B
  <2> QED BY <2>1, <2>2, <2>3, CountChange DEF One
<1>2. /\ Kids(n) \in Nat /\ Kids(n)' \in Nat
      /\ Kids(n)' = Kids(n) + One(m \in Ns /\ Kid(m, n)') - One(m \in Ns /\ Kid(m, n))
  <2> DEFINE A == {k \in Ns : Kid(k, n)}
             B == {k \in Ns : Kid(k, n)'}
  <2>1. A \in SUBSET Ns /\ B \in SUBSET Ns /\ \A k \in Ns : k # m => (k \in A <=> k \in B)
    OBVIOUS
  <2>2. (m \in A <=> m \in Ns /\ Kid(m, n)) /\ (m \in B <=> m \in Ns /\ Kid(m, n)')
    OBVIOUS
  <2>3. Kids(n) = Cardinality(A) /\ Kids(n)' = Cardinality(B)
    BY DEF Kids
  <2> HIDE DEF A, B
  <2> QED BY <2>1, <2>2, <2>3, CountChange DEF One
<1>3. /\ Openings(n) \in Nat /\ Openings(n)' \in Nat
      /\ Openings(n)' = Openings(n) + One(f \in File /\ Opened(f, n)') - One(f \in File /\ Opened(f, n))
  <2> DEFINE A == {k \in File : Opened(k, n)}
             B == {k \in File : Opened(k, n)'}
  <2>1. A \in SUBSET File /\ B \in SUBSET File /\ \A k \in File : k # f => (k \in A <=> k \in B)
    OBVIOUS
  <2>2. (f \in A <=> f \in File /\ Opened(f, n)) /\ (f \in B <=> f \in File /\ Opened(f, n)')
    OBVIOUS
  <2>3. Openings(n) = Cardinality(A) /\ Openings(n)' = Cardinality(B)
    BY DEF Openings
  <2> HIDE DEF A, B
  <2> QED BY <2>1, <2>2, <2>3, CountChange DEF One
<1>4. /\ Holders(n) \in Nat /\ Holders(n)' \in Nat
      /\ Holders(n)' = Holders(n) + One(t \in Task /\ Holds(t, n)') - One(t \in Task /\ Holds(t, n))
  <2> DEFINE A == {k \in Task : Holds(k, n)}
             B == {k \in Task : Holds(k, n)'}
  <2>1. A \in SUBSET Task /\ B \in SUBSET Task /\ \A k \in Task : k # t => (k \in A <=> k \in B)
    OBVIOUS
  <2>2. (t \in A <=> t \in Task /\ Holds(t, n)) /\ (t \in B <=> t \in Task /\ Holds(t, n)')
    OBVIOUS
  <2>3. Holders(n) = Cardinality(A) /\ Holders(n)' = Cardinality(B)
    BY DEF Holders
  <2> HIDE DEF A, B
  <2> QED BY <2>1, <2>2, <2>3, CountChange DEF One
<1>5. Referrers(n) = Entries(n) + Kids(n) + Openings(n) + Holders(n) + puts[n] + leaked[n]
  BY ReferrersAre
<1>6. Referrers(n)' = Entries(n)' + Kids(n)' + Openings(n)' + Holders(n)' + puts'[n] + leaked'[n]
  BY ReferrersNext
<1> DEFINE e1 == One(c \in Cred /\ Entry(c, n)')
           e0 == One(c \in Cred /\ Entry(c, n))
           k1 == One(m \in Ns /\ Kid(m, n)')
           k0 == One(m \in Ns /\ Kid(m, n))
           f1 == One(f \in File /\ Opened(f, n)')
           f0 == One(f \in File /\ Opened(f, n))
           t1 == One(t \in Task /\ Holds(t, n)')
           t0 == One(t \in Task /\ Holds(t, n))
<1>7. /\ e1 \in Int /\ e0 \in Int /\ k1 \in Int /\ k0 \in Int
      /\ f1 \in Int /\ f0 \in Int /\ t1 \in Int /\ t0 \in Int
  BY DEF One
<1> HIDE DEF e1, e0, k1, k0, f1, f0, t1, t0
<1>8. /\ Entries(n)' = Entries(n) + e1 - e0 /\ Kids(n)' = Kids(n) + k1 - k0
      /\ Openings(n)' = Openings(n) + f1 - f0 /\ Holders(n)' = Holders(n) + t1 - t0
  BY <1>1, <1>2, <1>3, <1>4 DEF e1, e0, k1, k0, f1, f0, t1, t0
<1>9. /\ Referrers(n) \in Nat /\ Referrers(n)' \in Nat
      /\ Referrers(n)' = Referrers(n) + (e1 - e0) + (k1 - k0) + (f1 - f0) + (t1 - t0)
                        + (puts'[n] - puts[n]) + (leaked'[n] - leaked[n])
  BY <1>1, <1>2, <1>3, <1>4, <1>5, <1>6, <1>7, <1>8
<1>10. /\ AtEntry(c, n) = e1 - e0 /\ AtKid(m, n) = k1 - k0
       /\ AtFile(f, n) = f1 - f0 /\ AtTask(t, n) = t1 - t0
  BY DEF e1, e0, k1, k0, f1, f0, t1, t0, AtEntry, AtKid, AtFile, AtTask
<1> QED BY <1>1, <1>2, <1>3, <1>4, <1>7, <1>9, <1>10 DEF Shift

\* The handler holds the same namespace as before, or none before and after.
HoldSame(u) ==
  \/ pc'[u] = pc[u] /\ obj'[u] = obj[u]
  \/ pc[u] \notin {"adopt", "joining"} /\ pc'[u] \notin {"adopt", "joining"}
\* Then nothing changes in who holds a namespace and who is its child.
LEMMA HoldsSame ==
  ASSUME \A u \in Task : HoldSame(u), NEW n
  PROVE  /\ \A u \in Task : Holds(u, n)' <=> Holds(u, n)
         /\ UNCHANGED <<heap, parent>> => \A k : Kid(k, n)' <=> Kid(k, n)
BY DEF HoldSame, Holds, Kid

\* The invariant is kept when every count changes by as much as its references.
LEMMA CountsStep ==
  ASSUME Typed, Counts, heap' \subseteq Ns, puts' \in [Ns -> Nat], leaked' \in [Ns -> Nat],
         NEW c, NEW m, NEW f, NEW t,
         \A d \in Cred : d # c => table'[d] = table[d],
         \A k \in Ns, n \in Ns : k # m => (Kid(k, n)' <=> Kid(k, n)),
         \A g \in File : g # f => file'[g] = file[g],
         \A u \in Task, n \in Ns : u # t => (Holds(u, n)' <=> Holds(u, n)),
         \A n \in Ns : Counted(n)' = Counted(n) + Shift(c, m, f, t, n)
  PROVE  Counts'
<1> SUFFICES ASSUME NEW n \in Ns PROVE Referrers(n)' = Counted(n)'
  BY DEF Counts
<1>1. /\ puts[n] \in Nat /\ leaked[n] \in Nat /\ puts'[n] \in Nat /\ leaked'[n] \in Nat
      /\ heap \subseteq Ns
  BY DEF Typed, TypeOK
<1>2. /\ \A d \in Cred : d # c => (Entry(d, n)' <=> Entry(d, n))
      /\ \A g \in File : g # f => (Opened(g, n)' <=> Opened(g, n))
  BY DEF Entry, Opened
<1>3. Referrers(n)' = Referrers(n) + Shift(c, m, f, t, n)
  BY <1>1, <1>2, Balance
<1> QED BY <1>3 DEF Counts

\* No handler starts or stops holding a namespace.
LEMMA CountsHeld ==
  ASSUME Typed, Counts, \A u \in Task : HoldSame(u), UNCHANGED <<heap, parent>>,
         puts' \in [Ns -> Nat], leaked' \in [Ns -> Nat],
         NEW c, \A d \in Cred : d # c => table'[d] = table[d],
         NEW f, \A g \in File : g # f => file'[g] = file[g],
         \A n \in Ns : Counted(n)' = Counted(n) + Shift(c, NULL, f, NULL, n)
  PROVE  Counts'
<1>1. /\ \A k \in Ns, n \in Ns : Kid(k, n)' <=> Kid(k, n)
      /\ \A u \in Task, n \in Ns : Holds(u, n)' <=> Holds(u, n)
  BY HoldsSame
<1>2. heap' \subseteq Ns
  BY DEF Typed, TypeOK
<1> QED BY <1>1, <1>2, CountsStep

\* Nothing that counts changes.
LEMMA CountsQuiet ==
  ASSUME Typed, Counts, \A u \in Task : HoldSame(u),
         UNCHANGED <<heap, tracked, ref, parent, table, file, puts, leaked>>
  PROVE  Counts'
<1>1. \A n \in Ns : Counted(n) \in Int /\ Counted(n)' = Counted(n)
  BY DEF Counted, Typed, TypeOK
<1>2. /\ puts' \in [Ns -> Nat] /\ leaked' \in [Ns -> Nat]
      /\ \A n \in Ns : puts[n] \in Int /\ leaked[n] \in Int
  BY DEF Typed, TypeOK
<1>3. ASSUME NEW n \in Ns PROVE Shift(NULL, NULL, NULL, NULL, n) = 0
  BY <1>2, AtInt DEF Shift
<1> QED BY <1>1, <1>2, <1>3, CountsHeld

\* A cred is accounted for.
LEMMA CountsGet ==
  ASSUME Typed, Counts, LiveOK, \A u \in Task : HoldSame(u), NEW c \in Cred, GetEffect(c),
         UNCHANGED <<heap, tracked, parent, file, puts>>
  PROVE  Counts'
<1>1. CASE UNCHANGED <<table, ref, leaked>>
  BY <1>1, CountsQuiet
<1>2. CASE ~UNCHANGED <<table, ref, leaked>>
  <2>1. credNs[c] \in tracked /\ credNs[c] \in Ns /\ table[c] = NULL
    BY <1>2 DEF GetEffect, Typed, TypeOK
  <2>2. /\ puts' \in [Ns -> Nat] /\ leaked' \in [Ns -> Nat]
        /\ \A d \in Cred : d # c => table'[d] = table[d]
        /\ \A n \in Ns : puts[n] \in Int /\ leaked[n] \in Int /\ leaked'[n] \in Int
    BY <1>2, <2>1 DEF GetEffect, Typed, TypeOK
  <2>3. \A n \in Ns : /\ Counted(n) \in Int /\ Counted(n)' \in Int
                      /\ Counted(n)' = Counted(n) + Is(credNs[c], n)
    BY <1>2, <2>1 DEF GetEffect, Counted, Is, Typed, TypeOK
  <2>4. ASSUME NEW n \in Ns
        PROVE  Shift(c, NULL, NULL, NULL, n) = Is(credNs[c], n)
    <3>1. Is(table[c], n) = 0 /\ Is(credNs[c], n) \in Int
      BY <2>1 DEF Is
    <3>2. Is(table'[c], n) + (leaked'[n] - leaked[n]) = Is(credNs[c], n)
      BY <1>2, <2>1 DEF GetEffect, Is, Typed, TypeOK
    <3>3. Is(table'[c], n) \in Int
      BY DEF Is
    <3> QED BY <2>2, <3>1, <3>2, <3>3, AtInt DEF Shift
  <2> QED BY <2>2, <2>3, <2>4, CountsHeld
<1> QED BY <1>1, <1>2

\* The entry becomes a detached reference.
LEMMA CountsPutCredRcu ==
  ASSUME Typed, Counts, LiveOK, ModOK, NEW c \in Cred, PutCredRcu(c)
  PROVE  Counts'
<1>1. /\ UNCHANGED <<heap, tracked, ref, parent, file, leaked>> /\ \A u \in Task : HoldSame(u)
  BY DEF PutCredRcu, putRest, taskVars, HoldSame
<1>2. CASE UNCHANGED <<table, puts>>
  BY <1>1, <1>2, CountsQuiet
<1>3. CASE ~UNCHANGED <<table, puts>>
  <2>1. /\ table' = [table EXCEPT ![c] = NULL] /\ puts' = [puts EXCEPT ![table[c]] = @ + 1]
        /\ table[c] \in Ns
    BY <1>3 DEF PutCredRcu, Typed, TypeOK
  <2>2. \A n \in Ns : Counted(n) \in Int /\ Counted(n)' = Counted(n)
    BY <1>1 DEF Counted, Typed, TypeOK
  <2>3. /\ \A d \in Cred : d # c => table'[d] = table[d]
        /\ puts' \in [Ns -> Nat] /\ leaked' \in [Ns -> Nat]
        /\ \A n \in Ns : puts[n] \in Int /\ leaked[n] \in Int /\ leaked'[n] = leaked[n]
    BY <1>1, <2>1 DEF Typed, TypeOK
  <2>4. ASSUME NEW n \in Ns PROVE Shift(c, NULL, NULL, NULL, n) = 0
    <3>1. /\ Is(table'[c], n) = 0 /\ Is(table[c], n) \in Int
          /\ puts'[n] = puts[n] + Is(table[c], n)
      BY <2>1 DEF Is, Typed, TypeOK
    <3> QED BY <1>1, <2>3, <3>1, AtInt DEF Shift
  <2>5. \A n \in Ns : Counted(n)' = Counted(n) + Shift(c, NULL, NULL, NULL, n)
    BY <2>2, <2>4
  <2> QED BY <1>1, <2>3, <2>5, CountsHeld
<1> QED BY <1>2, <1>3

\* The detached reference is put.
LEMMA CountsPutDetached ==
  ASSUME Typed, Counts, LiveOK, NEW k \in Ns, PutDetached(k)
  PROVE  Counts'
<1>1. /\ UNCHANGED <<heap, tracked, table, parent, file, leaked>> /\ \A u \in Task : HoldSame(u)
  BY DEF PutDetached, putRest, taskVars, HoldSame
<1>2. puts[k] \in Nat /\ puts[k] > 0 /\ k \in tracked /\ ref[k] >= 1 /\ ref[k] \in Nat
  BY DEF PutDetached, LiveOK, Solid, Typed, TypeOK
<1>3. puts' = [puts EXCEPT ![k] = @ - 1] /\ ref' = [ref EXCEPT ![k] = @ - 1]
  BY <1>2, PutDoes DEF PutDetached
<1>4. \A n \in Ns : Counted(n) \in Int /\ Counted(n)' = Counted(n) - Is(k, n)
  BY <1>1, <1>2, <1>3 DEF Counted, Is, Typed, TypeOK
<1>5. /\ puts' \in [Ns -> Nat] /\ leaked' \in [Ns -> Nat]
      /\ \A n \in Ns : puts[n] \in Int /\ leaked[n] \in Int /\ leaked'[n] = leaked[n]
  BY <1>1, <1>2, <1>3 DEF Typed, TypeOK
<1>6. ASSUME NEW n \in Ns PROVE Shift(NULL, NULL, NULL, NULL, n) = 0 - Is(k, n)
  <2>1. Is(k, n) \in Int /\ puts'[n] = puts[n] - Is(k, n)
    BY <1>3 DEF Is, Typed, TypeOK
  <2> QED BY <1>1, <1>5, <2>1, AtInt DEF Shift
<1>7. \A n \in Ns : Counted(n)' = Counted(n) + Shift(NULL, NULL, NULL, NULL, n)
  BY <1>4, <1>6 DEF Is
<1> QED BY <1>1, <1>5, <1>7, CountsHeld

\* A file is opened or closed: its reference comes and goes with it.
LEMMA CountsFile ==
  ASSUME Typed, Counts, LiveOK, NEW f \in File, (\E t \in Task : IdmapOpen(f, t)) \/ IdmapRelease(f)
  PROVE  Counts'
<1>1. /\ UNCHANGED <<heap, tracked, table, parent, puts, leaked>> /\ \A u \in Task : HoldSame(u)
  BY DEF IdmapOpen, IdmapRelease, taskVars, HoldSame
<1>2. \A g \in File : g # f => file'[g] = file[g]
  BY DEF IdmapOpen, IdmapRelease, Typed, TypeOK
<1>3. \A n \in Ns : Counted(n)' = Counted(n) + (Is(file'[f], n) - Is(file[f], n))
  <2>1. CASE IdmapRelease(f)
    <3>1. /\ file'[f] = NULL /\ (file[f] \in Ns => file[f] \in tracked /\ ref[file[f]] >= 1)
          /\ ref' = IF file[f] \in tracked THEN [ref EXCEPT ![file[f]] = @ - 1] ELSE ref
      BY <2>1 DEF IdmapRelease, LiveOK, Solid, Typed, TypeOK
    <3> QED BY <1>1, <3>1 DEF Counted, Is, Typed, TypeOK
  <2>2. CASE \E t \in Task : IdmapOpen(f, t)
    <3>1. /\ file[f] = NULL /\ (file'[f] \in Ns => file'[f] \in tracked)
          /\ ref' = IF file'[f] \in tracked THEN [ref EXCEPT ![file'[f]] = @ + 1] ELSE ref
      BY <2>2 DEF IdmapOpen, LiveOK, Solid, Typed, TypeOK
    <3> QED BY <1>1, <3>1 DEF Counted, Is, Typed, TypeOK
  <2> QED BY <2>1, <2>2
<1>5. /\ puts' \in [Ns -> Nat] /\ leaked' \in [Ns -> Nat]
      /\ \A n \in Ns : puts[n] \in Int /\ puts'[n] = puts[n] /\ leaked[n] \in Int /\ leaked'[n] = leaked[n]
  BY <1>1 DEF Typed, TypeOK
<1>6. ASSUME NEW n \in Ns PROVE Shift(NULL, NULL, f, NULL, n) = Is(file'[f], n) - Is(file[f], n)
  BY <1>5, AtInt DEF Shift
<1>7. \A n \in Ns : Counted(n)' = Counted(n) + Shift(NULL, NULL, f, NULL, n)
  BY <1>3, <1>6
<1> QED BY <1>1, <1>2, <1>5, <1>7, CountsHeld

\* A new namespace is held by its creator alone.
LEMMA CountsCreateAlloc ==
  ASSUME Typed, Tasks, Counts, QueueOK, NEW t \in Task, CreateAlloc(t)
  PROVE  Counts'
<1>1. PICK k \in Ns \ heap :
       /\ heap' = heap \cup {k} /\ tracked' = tracked \cup {k}
       /\ obj' = [obj EXCEPT ![t] = k] /\ ref' = [ref EXCEPT ![k] = 1]
       /\ parent' = [parent EXCEPT ![k] = credNs[new[t]]]
  BY DEF CreateAlloc
<1>2. /\ UNCHANGED <<table, puts, leaked, file>> /\ pc[t] = "alloc" /\ pc'[t] = "adopt"
      /\ \A u \in Task : u # t => pc'[u] = pc[u] /\ obj'[u] = obj[u]
      /\ obj'[t] = k /\ obj[t] = NULL /\ k # NULL /\ k \notin tracked
      /\ \A m \in heap : m # k /\ parent'[m] = parent[m]
  <2>1. /\ UNCHANGED <<table, puts, leaked, file>> /\ pc[t] = "alloc"
        /\ pc' = [pc EXCEPT ![t] = "adopt"]
    BY DEF CreateAlloc, Step
  <2>2. obj[t] = NULL /\ k # NULL /\ k \notin tracked
    BY <2>1 DEF Typed, TypeOK, Tasks, LocalOK
  <2>3. \A m \in heap : m # k /\ m \in Ns /\ parent'[m] = parent[m]
    BY <1>1 DEF Typed, TypeOK
  <2>4. /\ pc'[t] = "adopt" /\ \A u \in Task : u # t => pc'[u] = pc[u] /\ obj'[u] = obj[u]
        /\ obj'[t] = k
    BY <1>1, <2>1 DEF Typed, TypeOK
  <2> QED BY <2>1, <2>2, <2>3, <2>4
<1>3. ASSUME NEW n \in Ns
      PROVE  /\ \A m \in Ns : Kid(m, n)' <=> Kid(m, n)
             /\ \A u \in Task : u # t => (Holds(u, n)' <=> Holds(u, n))
             /\ ~Holds(t, n) /\ (Holds(t, n)' <=> n = k)
  BY <1>1, <1>2 DEF Kid, Holds
<1>4. \A n \in Ns : Counted(n)' = Counted(n) + Is(k, n)
  BY <1>1, <1>2 DEF Counted, Is, Typed, TypeOK
<1>5. /\ puts' \in [Ns -> Nat] /\ leaked' \in [Ns -> Nat] /\ heap' \subseteq Ns
      /\ \A n \in Ns : puts[n] \in Int /\ puts'[n] = puts[n] /\ leaked[n] \in Int /\ leaked'[n] = leaked[n]
  BY <1>1, <1>2 DEF Typed, TypeOK
<1>6. ASSUME NEW n \in Ns PROVE Shift(NULL, NULL, NULL, t, n) = Is(k, n)
  <2>1. AtTask(t, n) = Is(k, n) /\ Is(k, n) \in Int
    BY <1>3 DEF AtTask, One, Is
  <2> QED BY <1>2, <1>5, <2>1, AtInt DEF Shift
<1>7. \A n \in Ns : Counted(n)' = Counted(n) + Shift(NULL, NULL, NULL, t, n)
  BY <1>4, <1>6
<1> QED BY <1>2, <1>3, <1>5, <1>7, CountsStep

\* The creator's reference becomes the entry's; the reference the old entry
\* or the fail-safe held becomes that of the child.
LEMMA CountsCreateAdopt ==
  ASSUME Typed, Tasks, Books, Counts, LiveOK, QueueOK, NEW t \in Task, CreateAdopt(t)
  PROVE  Counts'
<1>1. /\ pc[t] = "adopt" /\ pc'[t] = "done" /\ \A u \in Task : u # t => pc'[u] = pc[u]
      /\ UNCHANGED <<heap, tracked, ref, parent, credNs, puts, cred, new, obj, file>>
  BY DEF CreateAdopt, Step, nsVars, Typed
<1>2. /\ new[t] \in Cred /\ obj[t] \in Ns /\ Born(t) /\ table[new[t]] # obj[t]
      /\ obj[t] \in heap /\ parent[obj[t]] = credNs[new[t]] /\ credNs[new[t]] # obj[t]
      /\ \A u \in Task : u # t => obj[u] # obj[t]
  <2>1. Born(t) /\ new[t] \in Cred /\ obj[t] \in Ns
    BY <1>1, Lone, BirthIs DEF Books, Tasks, LocalOK
  <2>2. obj[t] \in heap
    BY <2>1 DEF LiveOK, Solid, QueueOK
  <2> QED BY <1>1, <2>1, <2>2 DEF Born
<1>3. table'[new[t]] = obj[t] /\ \A d \in Cred : d # new[t] => table'[d] = table[d]
  BY <1>2 DEF CreateAdopt, Typed, TypeOK
<1>4. ASSUME NEW n \in Ns
      PROVE  /\ \A m \in Ns : m # obj[t] => (Kid(m, n)' <=> Kid(m, n))
             /\ \A u \in Task : u # t => (Holds(u, n)' <=> Holds(u, n))
             /\ ~Holds(t, n)' /\ (Holds(t, n) <=> n = obj[t])
             /\ ~Kid(obj[t], n) /\ (Kid(obj[t], n)' <=> n = credNs[new[t]])
  BY <1>1, <1>2 DEF Kid, Holds
<1>5. \A n \in Ns : Counted(n) \in Int /\ Counted(n)' = Counted(n)
  BY <1>1 DEF Counted, Typed, TypeOK
<1>6. table[new[t]] = NULL /\ credNs[new[t]] \in Ns => leaked[credNs[new[t]]] >= 1
  <2>1. ASSUME table[new[t]] = NULL, credNs[new[t]] \in Ns PROVE Bare(new[t], credNs[new[t]])
    <3>1. \A u \in Task : new[u] = new[t] => u = t
      BY <1>1, Lone
    <3> QED BY <1>1, <2>1, <3>1 DEF Bare
  <2> QED BY <1>2, <2>1 DEF LiveOK
<1>7. table[new[t]] # NULL => table[new[t]] = credNs[new[t]]
  <2>1. \A u \in Task : new[u] = new[t] => u = t
    BY <1>1, Lone
  <2> QED BY <1>1, <1>2, <2>1 DEF Books, TableFresh
<1>8. /\ leaked' \in [Ns -> Nat] /\ puts' \in [Ns -> Nat] /\ heap' \subseteq Ns
      /\ \A n \in Ns : /\ puts[n] \in Int /\ puts'[n] = puts[n] /\ leaked[n] \in Int /\ leaked'[n] \in Int
                       /\ leaked'[n] = leaked[n] - (IF table[new[t]] = NULL THEN Is(credNs[new[t]], n) ELSE 0)
  BY <1>1, <1>6 DEF CreateAdopt, Is, Typed, TypeOK
<1>9. ASSUME NEW n \in Ns PROVE Shift(new[t], obj[t], NULL, t, n) = 0
  <2>1. AtTask(t, n) = 0 - Is(obj[t], n) /\ AtKid(obj[t], n) = Is(credNs[new[t]], n)
    BY <1>2, <1>4 DEF AtTask, AtKid, One, Is
  <2>2. AtEntry(new[t], n) = Is(obj[t], n) - Is(table[new[t]], n) /\ AtFile(NULL, n) = 0
    BY <1>1, <1>2, <1>3, AtInt
  <2>3. Is(table[new[t]], n) + (IF table[new[t]] = NULL THEN Is(credNs[new[t]], n) ELSE 0) = Is(credNs[new[t]], n)
    BY <1>7 DEF Is
  <2>4. Is(table[new[t]], n) \in Int /\ Is(credNs[new[t]], n) \in Int /\ Is(obj[t], n) \in Int
    BY DEF Is
  <2> QED BY <1>8, <2>1, <2>2, <2>3, <2>4 DEF Shift
<1>10. \A n \in Ns : Counted(n)' = Counted(n) + Shift(new[t], obj[t], NULL, t, n)
  BY <1>5, <1>9
<1> QED BY <1>1, <1>2, <1>3, <1>4, <1>8, <1>10, CountsStep

\* The namespace goes with its creator's reference.
LEMMA CountsCreateFails ==
  ASSUME Typed, Tasks, Books, Counts, LiveOK, QueueOK, NEW t \in Task, CreateFails(t)
  PROVE  Counts'
<1>1. /\ pc[t] \in {"alloc", "adopt"} /\ pc'[t] = "idle"
      /\ \A u \in Task : u # t => pc'[u] = pc[u] /\ obj'[u] = obj[u]
      /\ UNCHANGED <<puts, leaked, table, file>>
  BY DEF CreateFails, Drop, Typed, TypeOK
<1>2. CASE pc[t] = "alloc"
  <2>1. obj[t] = NULL /\ NULL \notin heap /\ NULL \notin tracked /\ NULL \notin Ns
    BY <1>2 DEF Tasks, LocalOK, Typed, TypeOK
  <2>2. UNCHANGED <<heap, tracked, ref, parent>>
    BY <2>1 DEF CreateFails
  <2>3. \A u \in Task : HoldSame(u)
    BY <1>1, <1>2 DEF HoldSame
  <2> QED BY <1>1, <2>2, <2>3, CountsQuiet
<1>3. CASE pc[t] = "adopt"
  <2>1. Born(t) /\ obj[t] \in Ns /\ obj[t] \in tracked /\ obj[t] \in heap
    BY <1>3, BirthIs DEF Books, Tasks, LocalOK, LiveOK, Solid, QueueOK
  <2>2. /\ heap' = heap \ {obj[t]} /\ tracked' = tracked \ {obj[t]} /\ heap' \subseteq Ns
        /\ ref' = [ref EXCEPT ![obj[t]] = 0] /\ parent' = [parent EXCEPT ![obj[t]] = NULL]
    BY <2>1 DEF CreateFails, Typed, TypeOK
  <2>3. \A u \in Task : u # t => obj[u] # obj[t]
    BY <2>1 DEF Born
  <2>4. ASSUME NEW n \in Ns
        PROVE  /\ \A m \in Ns : Kid(m, n)' <=> Kid(m, n)
               /\ \A u \in Task : u # t => (Holds(u, n)' <=> Holds(u, n))
               /\ ~Holds(t, n)' /\ (Holds(t, n) <=> n = obj[t])
    <3>1. \A m \in heap' : parent'[m] = parent[m]
      BY <2>1, <2>2 DEF Typed, TypeOK
    <3> QED BY <1>1, <1>3, <2>1, <2>2, <2>3, <3>1 DEF Kid, Holds
  <2>5. \A n \in Ns : Counted(n) \in Int /\ Counted(n)' = Counted(n) - Is(obj[t], n)
    BY <2>1, <2>2 DEF Counted, Is, Born, Typed, TypeOK
  <2>6. /\ puts' \in [Ns -> Nat] /\ leaked' \in [Ns -> Nat]
        /\ \A n \in Ns : puts[n] \in Int /\ puts'[n] = puts[n] /\ leaked[n] \in Int /\ leaked'[n] = leaked[n]
    BY <1>1 DEF Typed, TypeOK
  <2>7. ASSUME NEW n \in Ns PROVE Shift(NULL, NULL, NULL, t, n) = 0 - Is(obj[t], n) /\ Is(obj[t], n) \in Int
    <3>1. AtTask(t, n) = 0 - Is(obj[t], n) /\ Is(obj[t], n) \in Int
      BY <2>4 DEF AtTask, One, Is
    <3> QED BY <1>1, <2>6, <3>1, AtInt DEF Shift
  <2>8. \A n \in Ns : Counted(n)' = Counted(n) + Shift(NULL, NULL, NULL, t, n)
    BY <2>5, <2>7
  <2> QED BY <1>1, <2>2, <2>4, <2>6, <2>8, CountsStep
<1> QED BY <1>1, <1>2, <1>3

\* A join holds a reference.
LEMMA CountsJoinGet ==
  ASSUME Typed, Tasks, Counts, LiveOK, NEW t \in Task, NEW f \in File, JoinGet(t, f)
  PROVE  Counts'
<1>1. /\ pc[t] = "join" /\ pc'[t] = "joining"
      /\ \A u \in Task : u # t => pc'[u] = pc[u] /\ obj'[u] = obj[u]
      /\ obj'[t] = file[f] /\ UNCHANGED <<heap, tracked, parent, puts, leaked, table, file>>
      /\ ref' = IF file[f] \in tracked THEN [ref EXCEPT ![file[f]] = @ + 1] ELSE ref
  BY DEF JoinGet, Step, Typed, TypeOK
<1>2. file[f] \in Ns => file[f] \in tracked
  BY DEF LiveOK, Solid
<1>3. ASSUME NEW n \in Ns
      PROVE  /\ \A m \in Ns : Kid(m, n)' <=> Kid(m, n)
             /\ \A u \in Task : u # t => (Holds(u, n)' <=> Holds(u, n))
             /\ ~Holds(t, n) /\ (Holds(t, n)' <=> n = file[f])
  BY <1>1 DEF Kid, Holds
<1>4. \A n \in Ns : Counted(n)' = Counted(n) + Is(file[f], n)
  BY <1>1, <1>2 DEF Counted, Is, Typed, TypeOK
<1>5. /\ puts' \in [Ns -> Nat] /\ leaked' \in [Ns -> Nat] /\ heap' \subseteq Ns
      /\ \A n \in Ns : puts[n] \in Int /\ puts'[n] = puts[n] /\ leaked[n] \in Int /\ leaked'[n] = leaked[n]
  BY <1>1 DEF Typed, TypeOK
<1>6. ASSUME NEW n \in Ns PROVE Shift(NULL, NULL, NULL, t, n) = Is(file[f], n)
  <2>1. AtTask(t, n) = Is(file[f], n) /\ Is(file[f], n) \in Int
    BY <1>3 DEF AtTask, One, Is
  <2> QED BY <1>1, <1>5, <2>1, AtInt DEF Shift
<1>7. \A n \in Ns : Counted(n)' = Counted(n) + Shift(NULL, NULL, NULL, t, n)
  BY <1>4, <1>6
<1> QED BY <1>1, <1>3, <1>5, <1>7, CountsStep

\* The join's reference becomes the entry's, the old entry's is put.
LEMMA CountsJoinAdopt ==
  ASSUME Typed, Tasks, Counts, LiveOK, NEW t \in Task, JoinAdopt(t)
  PROVE  Counts'
<1>1. /\ pc[t] = "joining" /\ pc'[t] = "ready"
      /\ \A u \in Task : u # t => pc'[u] = pc[u] /\ obj'[u] = obj[u]
      /\ UNCHANGED <<heap, tracked, parent, puts, leaked, file>>
  BY DEF JoinAdopt, Step, Typed, TypeOK
<1>2. /\ new[t] \in Cred /\ obj[t] \in Ns \cup {InitNs} /\ (obj[t] \in Ns => obj[t] \in tracked)
      /\ (obj[t] \in tracked => obj[t] \in Ns)
      /\ table[new[t]] \in Ns \cup {NULL}
      /\ table[new[t]] \in Ns => table[new[t]] \in tracked /\ ref[table[new[t]]] >= 1
  BY <1>1, Lone DEF Tasks, LocalOK, LiveOK, Solid, Typed, TypeOK
<1>3. /\ table'[new[t]] = (IF obj[t] \in tracked THEN obj[t] ELSE NULL)
      /\ \A d \in Cred : d # new[t] => table'[d] = table[d]
  BY <1>2 DEF JoinAdopt, Typed, TypeOK
<1>4. ref' = IF table[new[t]] \in tracked THEN [ref EXCEPT ![table[new[t]]] = @ - 1] ELSE ref
  BY PutDoes DEF JoinAdopt
<1>5. ASSUME NEW n \in Ns
      PROVE  /\ \A m \in Ns : Kid(m, n)' <=> Kid(m, n)
             /\ \A u \in Task : u # t => (Holds(u, n)' <=> Holds(u, n))
             /\ ~Holds(t, n)' /\ (Holds(t, n) <=> n = obj[t])
  BY <1>1 DEF Kid, Holds
<1>6. \A n \in Ns : Counted(n) \in Int /\ Counted(n)' = Counted(n) - Is(table[new[t]], n)
  BY <1>1, <1>2, <1>4 DEF Counted, Is, Typed, TypeOK
<1>7. /\ puts' \in [Ns -> Nat] /\ leaked' \in [Ns -> Nat] /\ heap' \subseteq Ns
      /\ \A n \in Ns : puts[n] \in Int /\ puts'[n] = puts[n] /\ leaked[n] \in Int /\ leaked'[n] = leaked[n]
  BY <1>1 DEF Typed, TypeOK
<1>8. ASSUME NEW n \in Ns
      PROVE Shift(new[t], NULL, NULL, t, n) = 0 - Is(table[new[t]], n) /\ Is(table[new[t]], n) \in Int
  <2>1. /\ AtTask(t, n) = 0 - Is(obj[t], n) /\ Is(obj[t], n) \in Int
        /\ Is(table[new[t]], n) \in Int
    BY <1>5 DEF AtTask, One, Is
  <2>2. Is(table'[new[t]], n) = Is(obj[t], n)
    BY <1>2, <1>3 DEF Is
  <2>3. /\ AtEntry(new[t], n) = Is(obj[t], n) - Is(table[new[t]], n) /\ AtFile(NULL, n) = 0
        /\ AtKid(NULL, n) = 0
    BY <1>1, <1>2, <2>2, AtInt
  <2> QED BY <1>7, <2>1, <2>3 DEF Shift
<1>9. \A n \in Ns : Counted(n)' = Counted(n) + Shift(new[t], NULL, NULL, t, n)
  BY <1>6, <1>8
<1> QED BY <1>1, <1>3, <1>5, <1>7, <1>9, CountsStep

\* The join's reference is put.
LEMMA CountsJoinFails ==
  ASSUME Typed, Tasks, Counts, LiveOK, NEW t \in Task, JoinFails(t)
  PROVE  Counts'
<1>1. /\ pc[t] \in {"join", "joining"} /\ pc'[t] = "idle"
      /\ \A u \in Task : u # t => pc'[u] = pc[u] /\ obj'[u] = obj[u]
      /\ UNCHANGED <<heap, tracked, parent, puts, leaked, table, file>>
      /\ obj[t] \in Ns \cup {InitNs, NULL} /\ obj'[t] = NULL
      /\ pc[t] = "join" => obj[t] = NULL
      /\ obj[t] \in Ns => obj[t] \in tracked /\ ref[obj[t]] >= 1
      /\ obj[t] \in tracked => obj[t] \in Ns
  BY DEF JoinFails, Drop, Tasks, LocalOK, LiveOK, Solid, Typed, TypeOK
<1>4. ref' = IF obj[t] \in tracked THEN [ref EXCEPT ![obj[t]] = @ - 1] ELSE ref
  BY PutDoes DEF JoinFails
<1>5. ASSUME NEW n \in Ns
      PROVE  /\ \A m \in Ns : Kid(m, n)' <=> Kid(m, n)
             /\ \A u \in Task : u # t => (Holds(u, n)' <=> Holds(u, n))
             /\ ~Holds(t, n)' /\ (Holds(t, n) <=> n = obj[t])
  BY <1>1 DEF Kid, Holds
<1>6. \A n \in Ns : Counted(n) \in Int /\ Counted(n)' = Counted(n) - Is(obj[t], n)
  BY <1>1, <1>4 DEF Counted, Is, Typed, TypeOK
<1>7. /\ puts' \in [Ns -> Nat] /\ leaked' \in [Ns -> Nat] /\ heap' \subseteq Ns
      /\ \A n \in Ns : puts[n] \in Int /\ puts'[n] = puts[n] /\ leaked[n] \in Int /\ leaked'[n] = leaked[n]
  BY <1>1 DEF Typed, TypeOK
<1>8. ASSUME NEW n \in Ns
      PROVE Shift(NULL, NULL, NULL, t, n) = 0 - Is(obj[t], n) /\ Is(obj[t], n) \in Int
  <2>1. AtTask(t, n) = 0 - Is(obj[t], n) /\ Is(obj[t], n) \in Int
    BY <1>5 DEF AtTask, One, Is
  <2> QED BY <1>1, <1>7, <2>1, AtInt DEF Shift
<1>9. \A n \in Ns : Counted(n)' = Counted(n) + Shift(NULL, NULL, NULL, t, n)
  BY <1>6, <1>8
<1> QED BY <1>1, <1>5, <1>7, <1>9, CountsStep

\* With the namespace goes its reference to its parent.
LEMMA CountsFreeUserNs ==
  ASSUME Typed, Books, Counts, LiveOK, QueueOK, FreeUserNs
  PROVE  Counts'
<1>0. PICK k : k = cur
  OBVIOUS
<1>1. /\ k \in tracked /\ k \in heap /\ k \in Ns /\ ref[k] = 0
      /\ heap' = heap \ {k} /\ tracked' = tracked \ {k} /\ parent' = [parent EXCEPT ![k] = NULL]
      /\ UNCHANGED <<puts, leaked, table, file, pc, obj>>
  BY <1>0 DEF FreeUserNs, workRest, taskVars, QueueOK, Waiting, Typed, TypeOK
<1>2. /\ parent[k] \in Ns => parent[k] \in tracked /\ ref[parent[k]] >= 1 /\ parent[k] # k
      /\ parent[k] \in tracked => parent[k] \in Ns
  BY <1>1 DEF LiveOK, Solid, Typed, TypeOK
<1>3. ref' = IF parent[k] \in tracked THEN [ref EXCEPT ![parent[k]] = @ - 1] ELSE ref
  BY <1>0 DEF FreeUserNs
<1>4. ~\E u \in Task : obj[u] = k /\ pc[u] = "adopt"
  BY <1>1 DEF Books, BirthOK
<1>5. ASSUME NEW n \in Ns
      PROVE  /\ \A m \in Ns : m # k => (Kid(m, n)' <=> Kid(m, n))
             /\ \A u \in Task : Holds(u, n)' <=> Holds(u, n)
             /\ ~Kid(k, n)' /\ (Kid(k, n) <=> n = parent[k])
  <2>1. \A m \in heap' : m # k /\ m \in heap /\ parent'[m] = parent[m]
    BY <1>1 DEF Typed, TypeOK
  <2>2. ~Kid(k, n)' /\ (Kid(k, n) <=> n = parent[k])
    BY <1>1, <1>4 DEF Kid
  <2>3. \A u \in Task : Holds(u, n)' <=> Holds(u, n)
    BY <1>1 DEF Holds
  <2>4. ASSUME NEW m \in Ns, m # k PROVE Kid(m, n)' <=> Kid(m, n)
    <3>1. m \in heap' <=> m \in heap
      BY <1>1, <2>4
    <3> QED BY <1>1, <2>1, <3>1 DEF Kid
  <2> QED BY <2>2, <2>3, <2>4
<1>6. \A n \in Ns : Counted(n) \in Int /\ Counted(n)' = Counted(n) - Is(parent[k], n)
  BY <1>1, <1>2, <1>3 DEF Counted, Is, Typed, TypeOK
<1>7. /\ puts' \in [Ns -> Nat] /\ leaked' \in [Ns -> Nat] /\ heap' \subseteq Ns
      /\ \A n \in Ns : puts[n] \in Int /\ puts'[n] = puts[n] /\ leaked[n] \in Int /\ leaked'[n] = leaked[n]
  BY <1>1 DEF Typed, TypeOK
<1>8. ASSUME NEW n \in Ns
      PROVE Shift(NULL, k, NULL, NULL, n) = 0 - Is(parent[k], n) /\ Is(parent[k], n) \in Int
  <2>1. AtKid(k, n) = 0 - Is(parent[k], n) /\ Is(parent[k], n) \in Int
    BY <1>1, <1>5 DEF AtKid, One, Is
  <2> QED BY <1>1, <1>7, <2>1, AtInt DEF Shift
<1>9. \A n \in Ns : Counted(n)' = Counted(n) + Shift(NULL, k, NULL, NULL, n)
  BY <1>6, <1>8
<1> QED BY <1>1, <1>5, <1>7, <1>9, CountsStep

\* Every step changes a count by as much as the references it makes or drops.
LEMMA KeepCounts ==
  ASSUME Typed, Tasks, Books, QueueOK, Counts, ModOK, LiveOK, Next
  PROVE  Counts'
<1>1. ASSUME NEW t \in Task, NEW h \in {"unshare", "setns", "cred"}, Prepare(t, h, NULL)
      PROVE  Counts'
  <2>1. \A u \in Task : HoldSame(u)
    BY <1>1 DEF HoldSame, Prepare, Typed, TypeOK, Tasks, LocalOK
  <2> QED BY <1>1, <2>1, CountsQuiet DEF Prepare, nsVars
<1>2. ASSUME NEW t \in Task, NEW ch \in Task, NEW b \in BOOLEAN, Clone(t, ch, b) PROVE Counts'
  <2>1. \A u \in Task : HoldSame(u)
    BY <1>2 DEF HoldSame, Clone, Prepare, Typed, TypeOK, Tasks, LocalOK
  <2> QED BY <1>2, <2>1, CountsQuiet DEF Clone, Prepare, nsVars
<1>3. ASSUME NEW t \in Task, NEW ch \in Task, CloneThread(t, ch) PROVE Counts'
  <2>1. \A u \in Task : HoldSame(u)
    BY <1>3 DEF HoldSame, CloneThread, Typed, TypeOK, Tasks, LocalOK
  <2> QED BY <1>3, <2>1, CountsQuiet DEF CloneThread, nsVars
<1>4. ASSUME NEW t \in Task, HookPrepareCreds(t) \/ HookCopyCreds(t) \/ HookCopyNamespaces(t)
             \/ WakeUpNewTask(t)
      PROVE  Counts'
  <2>1. GetEffect(new[t]) /\ new[t] \in Cred
    BY <1>4, GetDoes DEF HookPrepareCreds, HookCopyCreds, HookCopyNamespaces, WakeUpNewTask,
      Step, Typed, TypeOK, Tasks, LocalOK
  <2>2. \A u \in Task : HoldSame(u)
    BY <1>4 DEF HoldSame, HookPrepareCreds, HookCopyCreds, HookCopyNamespaces, WakeUpNewTask,
      Finish, Drop, Step, AfterPrepare, Typed, TypeOK, Tasks, LocalOK
  <2> QED BY <1>4, <2>1, <2>2, CountsGet DEF HookPrepareCreds, HookCopyCreds,
    HookCopyNamespaces, WakeUpNewTask, Finish, credGetRest
<1>5. ASSUME NEW t \in Task, CreateBegin(t) \/ CreateDone(t) PROVE Counts'
  <2>1. \A u \in Task : HoldSame(u)
    BY <1>5 DEF HoldSame, CreateBegin, CreateDone, Drop, Step, Typed, TypeOK, Tasks, LocalOK
  <2> QED BY <1>5, <2>1, CountsQuiet DEF CreateBegin, CreateDone, nsVars
<1>6. ASSUME NEW t \in Task, CreateAlloc(t) PROVE Counts'
  BY <1>6, CountsCreateAlloc
<1>7. ASSUME NEW t \in Task, CreateAdopt(t) PROVE Counts'
  BY <1>7, CountsCreateAdopt
<1>8. ASSUME NEW t \in Task, CreateFails(t) PROVE Counts'
  BY <1>8, CountsCreateFails
<1>9. ASSUME NEW t \in Task, NEW f \in File, JoinGet(t, f) PROVE Counts'
  BY <1>9, CountsJoinGet
<1>10. ASSUME NEW t \in Task, JoinAdopt(t) PROVE Counts'
  BY <1>10, CountsJoinAdopt
<1>11. ASSUME NEW t \in Task, JoinFails(t) PROVE Counts'
  BY <1>11, CountsJoinFails
<1>12. ASSUME NEW t \in Task, Commit(t) \/ Abandon(t) \/ Exit(t) PROVE Counts'
  <2>1. \A u \in Task : HoldSame(u)
    BY <1>12 DEF HoldSame, Commit, Finish, Abandon, Drop, Exit, Typed, TypeOK, Tasks, LocalOK
  <2> QED BY <1>12, <2>1, CountsQuiet DEF Commit, Finish, Abandon, Exit, nsVars
<1>13. ASSUME NEW c \in Cred, PutCredRcu(c) PROVE Counts'
  BY <1>13, CountsPutCredRcu
<1>14. ASSUME NEW n \in Ns, PutDetached(n) PROVE Counts'
  BY <1>14, CountsPutDetached
<1>15. ASSUME NEW f \in File, NEW t \in Task, IdmapOpen(f, t) PROVE Counts'
  BY <1>15, CountsFile
<1>16. ASSUME NEW f \in File, IdmapRelease(f) PROVE Counts'
  BY <1>16, CountsFile
<1>17. ASSUME FreeUserNs PROVE Counts'
  BY <1>17, CountsFreeUserNs
<1>18. ASSUME WorkStart \/ WorkPins \/ WorkOwnPin \/ WorkReturn PROVE Counts'
  BY <1>18, CountsQuiet DEF HoldSame, WorkStart, WorkPins, WorkOwnPin, WorkReturn, workRest,
    nsVars, taskVars
<1>19. ASSUME Stops PROVE Counts'
  BY <1>19, StopFrame, CountsQuiet DEF HoldSame, stopRest, nsVars, taskVars
<1> QED BY <1>1, <1>2, <1>3, <1>4, <1>5, <1>6, <1>7, <1>8, <1>9, <1>10, <1>11, <1>12, <1>13,
           <1>14, <1>15, <1>16, <1>17, <1>18, <1>19 DEF Next, TaskStep, Unshare, Setns,
           PrepareCred, Worker, Stops

-----------------------------------------------------------------------------
(***************************************************************************)
(* The fail-safe references.                                               *)
(***************************************************************************)
\* No more bare creds and no fewer fail-safe references.
LEMMA LeaksLess ==
  ASSUME Typed, LeaksBound, leaked' \in [Ns -> Nat], \A n \in Ns : leaked'[n] >= leaked[n],
         \A d \in Cred, n \in Ns : Bare(d, n)' => Bare(d, n)
  PROVE  LeaksBound'
<1> SUFFICES ASSUME NEW n \in Ns
             PROVE  Cardinality({c \in Cred : Bare(c, n)'}) <= leaked'[n]
  BY DEF LeaksBound
<1> DEFINE A == {c \in Cred : Bare(c, n)}
           B == {c \in Cred : Bare(c, n)'}
<1>1. IsFiniteSet(A) /\ Cardinality(A) \in Nat
  BY CountNat
<1>2. IsFiniteSet(B) /\ Cardinality(B) \in Nat
  BY CountNat
<1>3. Cardinality(A) <= leaked[n] /\ leaked[n] \in Nat /\ leaked'[n] \in Nat
  BY DEF LeaksBound, Typed, TypeOK
<1>4. B \in SUBSET A
  OBVIOUS
<1> HIDE DEF A, B
<1>5. Cardinality(B) <= Cardinality(A)
  BY <1>1, <1>4, FS_Subset
<1>6. Cardinality(B) <= leaked'[n]
  BY <1>1, <1>2, <1>3, <1>5
<1> QED BY <1>6 DEF B

\* What changes at cred c.
AtBare(c, n) == One(c \in Cred /\ Bare(c, n)') - One(c \in Cred /\ Bare(c, n))
\* The bound is kept when the fail-safe references grow by as much.
LEMMA LeaksStep ==
  ASSUME Typed, LeaksBound, leaked' \in [Ns -> Nat], NEW c,
         \A d \in Cred, n \in Ns : d # c => (Bare(d, n)' <=> Bare(d, n)),
         \A n \in Ns : AtBare(c, n) \in Int /\ leaked'[n] >= leaked[n] + AtBare(c, n)
  PROVE  LeaksBound'
<1> SUFFICES ASSUME NEW n \in Ns
             PROVE  Cardinality({d \in Cred : Bare(d, n)'}) <= leaked'[n]
  BY DEF LeaksBound
<1> DEFINE A == {d \in Cred : Bare(d, n)}
           B == {d \in Cred : Bare(d, n)'}
<1>1. A \in SUBSET Cred /\ B \in SUBSET Cred /\ \A d \in Cred : d # c => (d \in A <=> d \in B)
  OBVIOUS
<1>2. (c \in A <=> c \in Cred /\ Bare(c, n)) /\ (c \in B <=> c \in Cred /\ Bare(c, n)')
  OBVIOUS
<1>3. Cardinality(A) <= leaked[n] /\ leaked[n] \in Nat /\ leaked'[n] \in Nat
  BY DEF LeaksBound, Typed, TypeOK
<1> HIDE DEF A, B
<1>4. /\ Cardinality(A) \in Nat /\ Cardinality(B) \in Nat
      /\ Cardinality(B) = Cardinality(A) + One(c \in B) - One(c \in A)
  BY <1>1, CountChange
<1>5. AtBare(c, n) = One(c \in B) - One(c \in A) /\ One(c \in B) \in Int /\ One(c \in A) \in Int
  BY <1>2 DEF AtBare, One
<1>6. leaked'[n] >= leaked[n] + AtBare(c, n)
  OBVIOUS
<1>7. Cardinality(B) <= leaked'[n]
  BY <1>3, <1>4, <1>5, <1>6
<1> QED BY <1>7 DEF B

\* Nobody leaves the step at which a copy is not yet accounted for.
LEMMA LeaksKeep ==
  ASSUME Typed, LeaksBound, leaked' \in [Ns -> Nat], \A n \in Ns : leaked'[n] >= leaked[n],
         \A u \in Task : pc[u] = "prepared" => pc'[u] = "prepared" /\ new'[u] = new[u],
         \A d \in Cred : \/ credNs'[d] = credNs[d] /\ (table'[d] = NULL => table[d] = NULL)
                         \/ credNs'[d] \notin Ns \/ table'[d] # NULL
                         \/ \E u \in Task : new'[u] = d /\ pc'[u] = "prepared"
  PROVE  LeaksBound'
<1>1. \A d \in Cred, n \in Ns : Bare(d, n)' => Bare(d, n)
  BY DEF Bare
<1> QED BY <1>1, LeaksLess

\* A copy that gets no entry gets a fail-safe reference.
LEMMA LeaksPrepare ==
  ASSUME Typed, Tasks, Books, LiveOK, LeaksBound, NEW t \in Task, HookPrepareCreds(t)
  PROVE  LeaksBound'
<1>0. PICK c : c = new[t]
  OBVIOUS
<1>1. /\ pc[t] = "prepared" /\ pc'[t] # "prepared" /\ \A u \in Task : u # t => pc'[u] = pc[u]
      /\ UNCHANGED <<credNs, tracked, new>> /\ GetEffect(c)
  BY <1>0, GetDoes DEF HookPrepareCreds, Step, AfterPrepare, credGetRest, Typed, TypeOK
<1>2. /\ c \in Cred /\ table[c] = NULL /\ \A u \in Task : u # t => new[u] # c
      /\ (credNs[c] \in Ns => credNs[c] \in tracked)
  BY <1>0, <1>1, Lone DEF Books, CopyOK, LiveOK, Solid
<1>3. /\ leaked' \in [Ns -> Nat] /\ \A d \in Cred : d # c => table'[d] = table[d]
      /\ \A n \in Ns : leaked'[n] >= leaked[n]
  BY <1>1, <1>2, GetTypes
<1>4. \A d \in Cred, n \in Ns : d # c => (Bare(d, n)' <=> Bare(d, n))
  BY <1>0, <1>1, <1>3 DEF Bare
<1>5. ASSUME NEW n \in Ns PROVE AtBare(c, n) \in Int /\ leaked'[n] >= leaked[n] + AtBare(c, n)
  <2>1. ~Bare(c, n)
    BY <1>0, <1>1 DEF Bare
  <2>2. Bare(c, n)' <=> credNs[c] = n /\ table'[c] = NULL
    BY <1>0, <1>1, <1>2 DEF Bare
  <2>3. leaked[n] \in Nat /\ leaked'[n] \in Nat /\ leaked'[n] >= leaked[n]
    BY <1>3 DEF Typed, TypeOK
  <2>4. ASSUME credNs[c] = n, table'[c] = NULL PROVE leaked'[n] = leaked[n] + 1
    <3>1. credNs[c] \in tracked /\ table[c] = NULL /\ n # NULL
      BY <1>2, <2>4
    <3> QED BY <1>1, <1>2, <2>4, <3>1 DEF GetEffect, Typed, TypeOK
  <2>5. AtBare(c, n) = IF credNs[c] = n /\ table'[c] = NULL THEN 1 ELSE 0
    BY <1>2, <2>1, <2>2 DEF AtBare, One
  <2> QED BY <2>3, <2>4, <2>5
<1> QED BY <1>3, <1>4, <1>5, LeaksStep

\* The fail-safe reference of the cred becomes that of the child namespace.
LEMMA LeaksCreateAdopt ==
  ASSUME Typed, Tasks, Books, LiveOK, LeaksBound, NEW t \in Task, CreateAdopt(t)
  PROVE  LeaksBound'
<1>0. PICK c : c = new[t]
  OBVIOUS
<1>1. /\ pc[t] = "adopt" /\ pc'[t] = "done" /\ \A u \in Task : u # t => pc'[u] = pc[u]
      /\ UNCHANGED <<credNs, tracked, new, obj>>
  BY DEF CreateAdopt, Step, nsVars, Typed
<1>2. c \in Cred /\ obj[t] \in Ns /\ \A u \in Task : u # t => new[u] # c
  BY <1>0, <1>1, Lone DEF Tasks, LocalOK
<1>3. table'[c] = obj[t] /\ \A d \in Cred : d # c => table'[d] = table[d]
  BY <1>0, <1>2 DEF CreateAdopt, Typed, TypeOK
<1>4. \A d \in Cred, n \in Ns : d # c => (Bare(d, n)' <=> Bare(d, n))
  BY <1>1, <1>3 DEF Bare
<1>5. \A n \in Ns : Bare(c, n) <=> credNs[c] = n /\ table[c] = NULL
  BY <1>0, <1>1, <1>2 DEF Bare
<1>6. \A n \in Ns : Bare(c, n) => leaked[n] >= 1
  BY <1>2 DEF LiveOK
<1>7. /\ leaked' \in [Ns -> Nat]
      /\ \A n \in Ns : leaked'[n] = IF credNs[c] = n /\ table[c] = NULL THEN leaked[n] - 1 ELSE leaked[n]
  BY <1>0, <1>5, <1>6 DEF CreateAdopt, Typed, TypeOK
<1>8. ASSUME NEW n \in Ns PROVE AtBare(c, n) \in Int /\ leaked'[n] >= leaked[n] + AtBare(c, n)
  <2>1. ~Bare(c, n)'
    BY <1>2, <1>3 DEF Bare
  <2>2. AtBare(c, n) = IF credNs[c] = n /\ table[c] = NULL THEN 0 - 1 ELSE 0
    BY <1>2, <1>5, <2>1 DEF AtBare, One
  <2>3. leaked[n] \in Nat
    BY DEF Typed, TypeOK
  <2> QED BY <1>7, <2>2, <2>3
<1> QED BY <1>4, <1>7, <1>8, LeaksStep

\* Accounting for a cred that has been accounted for once.
LEMMA LeaksCredGet ==
  ASSUME Typed, LeaksBound, NEW c \in Cred, GetEffect(c), UNCHANGED credNs,
         \A u \in Task : pc[u] = "prepared" => pc'[u] = "prepared" /\ new'[u] = new[u]
  PROVE  LeaksBound'
<1>1. leaked' \in [Ns -> Nat] /\ \A n \in Ns : leaked'[n] >= leaked[n]
  BY GetTypes
<1>2. \A d \in Cred : table'[d] = NULL => table[d] = NULL
  BY DEF GetEffect, Typed, TypeOK
<1> QED BY <1>1, <1>2, LeaksKeep

\* The cred that enters the new namespace has its entry.
LEMMA LeaksCreateDone ==
  ASSUME Typed, Tasks, Books, LeaksBound, NEW t \in Task, CreateDone(t)
  PROVE  LeaksBound'
<1>1. /\ pc[t] = "done" /\ pc'[t] = "ready" /\ \A u \in Task : u # t => pc'[u] = pc[u]
      /\ UNCHANGED <<table, leaked, new>> /\ new[t] \in Cred /\ table[new[t]] = obj[t]
      /\ obj[t] \in Ns
      /\ \A d \in Cred : d # new[t] => credNs'[d] = credNs[d]
  BY DEF CreateDone, Step, Typed, TypeOK, Tasks, LocalOK, Books, BirthOK
<1>2. leaked \in [Ns -> Nat] /\ \A n \in Ns : leaked[n] >= leaked[n]
  BY DEF Typed, TypeOK
<1> QED BY <1>1, <1>2, LeaksKeep

\* The cred that joins a namespace has its entry.
LEMMA LeaksJoinAdopt ==
  ASSUME Typed, Tasks, Books, LeaksBound, LiveOK, NEW t \in Task, JoinAdopt(t)
  PROVE  LeaksBound'
<1>1. /\ pc[t] = "joining" /\ pc'[t] = "ready" /\ \A u \in Task : u # t => pc'[u] = pc[u]
      /\ UNCHANGED <<leaked, new, tracked>> /\ new[t] \in Cred
  BY DEF JoinAdopt, Step, Typed, TypeOK, Tasks, LocalOK
<1>2. leaked \in [Ns -> Nat] /\ \A n \in Ns : leaked[n] >= leaked[n]
  BY DEF Typed, TypeOK
<1>3. /\ \A d \in Cred : d # new[t] => credNs'[d] = credNs[d] /\ table'[d] = table[d]
      /\ credNs'[new[t]] = obj[t]
      /\ table'[new[t]] = IF obj[t] \in tracked THEN obj[t] ELSE NULL
  BY <1>1 DEF JoinAdopt, Typed, TypeOK
<1>4. obj[t] \in Ns => obj[t] \in tracked
  BY DEF LiveOK, Solid
<1>5. credNs'[new[t]] \notin Ns \/ table'[new[t]] # NULL
  BY <1>3, <1>4
<1> QED BY <1>1, <1>2, <1>3, <1>5, LeaksKeep

\* A freed cred is in no namespace.
LEMMA LeaksPutCredRcu ==
  ASSUME Typed, LeaksBound, NEW c \in Cred, PutCredRcu(c)
  PROVE  LeaksBound'
<1>1. UNCHANGED <<leaked, new, pc>>
  BY DEF PutCredRcu, putRest, taskVars
<1>2. leaked \in [Ns -> Nat] /\ \A n \in Ns : leaked[n] >= leaked[n]
  BY DEF Typed, TypeOK
<1>3. /\ credNs'[c] = NULL
      /\ \A d \in Cred : d # c => credNs'[d] = credNs[d] /\ table'[d] = table[d]
  BY DEF PutCredRcu, Typed, TypeOK
<1> QED BY <1>1, <1>2, <1>3, LeaksKeep

\* A copy is to be accounted for.
LEMMA LeaksCopy ==
  ASSUME Typed, LeaksBound, Tasks, NEW t \in Task, NEW f, NEW ch, Prepare(t, f, ch)
  PROVE  LeaksBound'
<1>1. PICK c \in Cred : /\ credNs[c] = NULL /\ credNs' = [credNs EXCEPT ![c] = credNs[cred[t]]]
                        /\ new' = [new EXCEPT ![t] = c]
  BY DEF Prepare
<1>2. /\ UNCHANGED <<leaked, table>> /\ pc[t] = "idle" /\ pc'[t] = "prepared" /\ new'[t] = c
      /\ \A u \in Task : u # t => pc'[u] = pc[u] /\ new'[u] = new[u]
      /\ \A d \in Cred : d # c => credNs'[d] = credNs[d]
  BY <1>1 DEF Prepare, Typed, TypeOK
<1>3. leaked \in [Ns -> Nat] /\ \A n \in Ns : leaked[n] >= leaked[n]
  BY DEF Typed, TypeOK
<1> QED BY <1>2, <1>3, LeaksKeep

\* Steps that change neither creds nor their accounts.
LEMMA LeaksSame ==
  ASSUME Typed, LeaksBound, UNCHANGED <<leaked, table, credNs>>,
         \A u \in Task : pc[u] = "prepared" => pc'[u] = "prepared" /\ new'[u] = new[u]
  PROVE  LeaksBound'
<1>3. leaked \in [Ns -> Nat] /\ \A n \in Ns : leaked[n] >= leaked[n]
  BY DEF Typed, TypeOK
<1> QED BY <1>3, LeaksKeep

\* Every step keeps the fail-safe references ahead of the creds without an
\* entry.
LEMMA KeepLeaks ==
  ASSUME Typed, Tasks, Books, LeaksBound, LiveOK, Next
  PROVE  LeaksBound'
<1>1. ASSUME NEW t \in Task, NEW h \in {"unshare", "setns", "cred"}, Prepare(t, h, NULL)
      PROVE  LeaksBound'
  BY <1>1, LeaksCopy
<1>2. ASSUME NEW t \in Task, NEW ch \in Task, NEW b \in BOOLEAN, Clone(t, ch, b)
      PROVE  LeaksBound'
  BY <1>2, LeaksCopy DEF Clone
<1>3. ASSUME NEW t \in Task, NEW ch \in Task, CloneThread(t, ch) PROVE LeaksBound'
  BY <1>3, LeaksSame DEF CloneThread, Typed, TypeOK
<1>4. ASSUME NEW t \in Task, HookPrepareCreds(t) PROVE LeaksBound'
  BY <1>4, LeaksPrepare
<1>5. ASSUME NEW t \in Task, HookCopyCreds(t) \/ HookCopyNamespaces(t) \/ WakeUpNewTask(t)
      PROVE  LeaksBound'
  <2>1. GetEffect(new[t]) /\ new[t] \in Cred
    BY <1>5, GetDoes DEF HookCopyCreds, HookCopyNamespaces, WakeUpNewTask, Step, Typed, TypeOK,
      Tasks, LocalOK
  <2>2. \A u \in Task : pc[u] = "prepared" => pc'[u] = "prepared" /\ new'[u] = new[u]
    BY <1>5 DEF HookCopyCreds, HookCopyNamespaces, WakeUpNewTask, Finish, Drop, Step, Typed,
      TypeOK
  <2> QED BY <1>5, <2>1, <2>2, LeaksCredGet DEF HookCopyCreds, HookCopyNamespaces,
    WakeUpNewTask, Finish, credGetRest
<1>6. ASSUME NEW t \in Task, CreateBegin(t) \/ CreateAlloc(t) \/ CreateFails(t)
      PROVE  LeaksBound'
  BY <1>6, LeaksSame DEF CreateBegin, CreateAlloc, CreateFails, Drop, Step, Typed, TypeOK
<1>7. ASSUME NEW t \in Task, CreateAdopt(t) PROVE LeaksBound'
  BY <1>7, LeaksCreateAdopt
<1>8. ASSUME NEW t \in Task, CreateDone(t) PROVE LeaksBound'
  BY <1>8, LeaksCreateDone
<1>9. ASSUME NEW t \in Task, NEW f \in File, JoinGet(t, f) PROVE LeaksBound'
  BY <1>9, LeaksSame DEF JoinGet, Step, Typed, TypeOK
<1>10. ASSUME NEW t \in Task, JoinAdopt(t) PROVE LeaksBound'
  BY <1>10, LeaksJoinAdopt
<1>11. ASSUME NEW t \in Task, JoinFails(t) PROVE LeaksBound'
  BY <1>11, LeaksSame DEF JoinFails, Drop, Typed, TypeOK
<1>12. ASSUME NEW t \in Task, Commit(t) \/ Abandon(t) \/ Exit(t) PROVE LeaksBound'
  BY <1>12, LeaksSame DEF Commit, Finish, Abandon, Drop, Exit, Typed, TypeOK
<1>13. ASSUME NEW c \in Cred, PutCredRcu(c) PROVE LeaksBound'
  BY <1>13, LeaksPutCredRcu
<1>14. ASSUME NEW n \in Ns, PutDetached(n) PROVE LeaksBound'
  BY <1>14, LeaksSame DEF PutDetached, putRest, taskVars, Typed, TypeOK
<1>15. ASSUME NEW f \in File, NEW t \in Task, IdmapOpen(f, t) PROVE LeaksBound'
  BY <1>15, LeaksSame DEF IdmapOpen, taskVars, Typed, TypeOK
<1>16. ASSUME NEW f \in File, IdmapRelease(f) PROVE LeaksBound'
  BY <1>16, LeaksSame DEF IdmapRelease, taskVars, Typed, TypeOK
<1>17. ASSUME Worker PROVE LeaksBound'
  BY <1>17, WorkFrame, LeaksSame DEF workRest, taskVars
<1>18. ASSUME Stops PROVE LeaksBound'
  BY <1>18, StopFrame, LeaksSame DEF stopRest, taskVars
<1> QED BY <1>1, <1>2, <1>3, <1>4, <1>5, <1>6, <1>7, <1>8, <1>9, <1>10, <1>11, <1>12, <1>13,
           <1>14, <1>15, <1>16, <1>17, <1>18 DEF Next, TaskStep, Unshare, Setns, PrepareCred,
           Worker, Stops

-----------------------------------------------------------------------------
(***************************************************************************)
(* The counters of a stop and the module reference count.                  *)
(***************************************************************************)
\* The creators, and those of them that have allocated.
Making(u) == pc[u] \in {"alloc", "adopt", "done"}
Naming(u) == pc[u] \in {"adopt", "done"}
Makers == Cardinality({t \in Task : Making(t)})
Namers == Cardinality({t \in Task : Naming(t)})
Growns == Cardinality({n \in Ns : Grown(n)})
Files == Cardinality({f \in File : file[f] # NULL})
Work == Len(queue) + (IF wpc \in {"free", "pins"} THEN 1 ELSE 0)
Own == IF wpc \in {"free", "pins", "own"} THEN 1 ELSE 0
Objects == Cardinality(heap)
\* The counters in these terms ...
LEMMA CountersAre ==
  CountersExact <=>
    /\ creating = Makers
    /\ live + Namers = Cardinality(tracked)
    /\ pending = Work
BY DEF CountersExact, Making, Naming, Makers, Namers, Work
\* ... in the next state ...
LEMMA CountersNext ==
  CountersExact' <=>
    /\ creating' = Makers'
    /\ live' + Namers' = Cardinality(tracked')
    /\ pending' = Work'
BY DEF CountersExact, Making, Naming, Makers, Namers, Work
\* ... the module's references ...
LEMMA PinsAre ==
  /\ PinsExact <=> modrefs = Objects + freed + Len(queue) + Own + Files
  /\ PinsExact' <=> modrefs' = Objects' + freed' + Len(queue') + Own' + Files'
BY DEF PinsExact, Objects, Own, Files
\* ... and the live namespaces.
LEMMA LiveIs == (LiveExact <=> live = Growns) /\ (LiveExact' <=> live' = Growns')
BY DEF LiveExact, Growns

\* All of these are natural numbers.
LEMMA SizesNat ==
  ASSUME Typed
  PROVE  /\ Makers \in Nat /\ Namers \in Nat
         /\ Cardinality(tracked) \in Nat /\ Objects \in Nat
         /\ Files \in Nat
         /\ Growns \in Nat
         /\ Len(queue) \in Nat /\ Work \in Nat /\ Own \in Nat
<1>1. Makers \in Nat /\ Namers \in Nat
  BY CountNat DEF Makers, Namers
<1>2. tracked \in SUBSET Ns /\ heap \in SUBSET Ns
  BY DEF Typed, TypeOK
<1>3. Cardinality(tracked) \in Nat /\ Objects \in Nat
  BY <1>2, CountNat DEF Objects
<1>4. Files \in Nat /\ Growns \in Nat
  BY CountNat DEF Files, Growns
<1>5. Len(queue) \in Nat /\ freed \in Nat
  BY DEF Typed, TypeOK
<1> QED BY <1>1, <1>3, <1>4, <1>5 DEF Work, Own

\* Steps that neither create nor free: the counters of a stop follow from the
\* length of the queue.
BirthSame(u) ==
  \/ obj'[u] = obj[u] /\ (Naming(u)' <=> Naming(u))
  \/ ~Naming(u) /\ ~Naming(u)'
\* The creators stay, so do the counters.
LEMMA CountersKeep ==
  ASSUME CountersExact, UNCHANGED <<tracked, live, creating>>,
         \A u \in Task : (Making(u)' <=> Making(u)) /\ (Naming(u)' <=> Naming(u)),
         pending' = Work'
  PROVE  CountersExact'
<1>1. /\ {u \in Task : Making(u)'} = {u \in Task : Making(u)}
      /\ {u \in Task : Naming(u)'} = {u \in Task : Naming(u)}
  OBVIOUS
<1>2. Makers' = Makers /\ Namers' = Namers
  BY <1>1 DEF Makers, Namers
<1> QED BY <1>2, CountersAre, CountersNext
\* The same namespaces are being created, so the same ones are live.
LEMMA LiveKeep ==
  ASSUME LiveExact, UNCHANGED <<tracked, live>>, \A u \in Task : BirthSame(u)
  PROVE  LiveExact'
<1>1. \A n : Grown(n)' <=> Grown(n)
  BY DEF Grown, BirthSame, Naming
<1>2. {n \in Ns : Grown(n)'} = {n \in Ns : Grown(n)}
  BY <1>1
<1> QED BY <1>2 DEF LiveExact

\* Steps that are not about creation at all.
CreateSame == UNCHANGED <<heap, tracked, live, creating>> /\ \A u \in Task :
  \/ pc'[u] = pc[u] /\ obj'[u] = obj[u]
  \/ pc[u] \notin {"alloc", "adopt", "done"} /\ pc'[u] \notin {"alloc", "adopt", "done"}
\* They keep the live namespaces, and the counters with the works.
LEMMA SameCounts ==
  ASSUME CountersExact, LiveExact, CreateSame
  PROVE  (pending' = Work' => CountersExact') /\ LiveExact'
<1>1. \A u \in Task : (Making(u)' <=> Making(u)) /\ (Naming(u)' <=> Naming(u)) /\ BirthSame(u)
  BY DEF CreateSame, Making, Naming, BirthSame
<1> QED BY <1>1, CountersKeep, LiveKeep DEF CreateSame
\* ... nor about files or works.
LEMMA SameBooks ==
  ASSUME CountersExact, LiveExact, PinsExact, CreateSame,
         UNCHANGED <<modrefs, pending, queue, wpc, freed, file>>
  PROVE  CountersExact' /\ LiveExact' /\ PinsExact'
<1>1. pending' = Work'
  BY DEF CountersExact, Work
<1>2. PinsExact'
  BY DEF PinsExact, CreateSame
<1> QED BY <1>1, <1>2, SameCounts

\* A put that may queue a work.
LEMMA PutPins ==
  ASSUME Typed, CountersExact, LiveExact, PinsExact, CreateSame, NEW n, PutUserNs(ref, n),
         UNCHANGED <<wpc, freed, file>>
  PROVE  CountersExact' /\ LiveExact' /\ PinsExact'
<1>1. CASE UNCHANGED <<pending, modrefs, queue>>
  BY <1>1, SameBooks
<1>2. CASE ~UNCHANGED <<pending, modrefs, queue>>
  <2>1. /\ n \in Ns /\ pending' = pending + 1 /\ modrefs' = modrefs + 1
        /\ queue' = Append(queue, n)
    BY <1>2 DEF PutUserNs, Typed, TypeOK
  <2>2. Len(queue') = Len(queue) + 1 /\ Len(queue) \in Nat
    BY <2>1 DEF Typed, TypeOK
  <2>3. pending' = Work'
    BY <2>1, <2>2 DEF CountersExact, Work
  <2>4. PinsExact'
    <3>1. Objects \in Nat /\ Own \in Nat /\ Files \in Nat /\ freed \in Nat
      BY SizesNat DEF Typed, TypeOK
    <3>2. Objects' = Objects /\ Own' = Own /\ Files' = Files
      BY DEF Objects, Own, Files, CreateSame
    <3> QED BY <2>1, <2>2, <3>1, <3>2, PinsAre
  <2> QED BY <2>3, <2>4, SameCounts
<1> QED BY <1>1, <1>2

\* One task moves: the numbers of creators change by as much.
LEMMA MoveOne ==
  ASSUME NEW t \in Task, \A u \in Task : u # t => pc'[u] = pc[u]
  PROVE  /\ Makers \in Nat /\ Namers \in Nat
         /\ Makers' = Makers + One(Making(t)') - One(Making(t))
         /\ Namers' = Namers + One(Naming(t)') - One(Naming(t))
<1> DEFINE A == {u \in Task : Making(u)}
           B == {u \in Task : Making(u)'}
           C == {u \in Task : Naming(u)}
           D == {u \in Task : Naming(u)'}
<1>1. /\ A \in SUBSET Task /\ B \in SUBSET Task
      /\ \A u \in Task : u # t => (u \in A <=> u \in B)
      /\ C \in SUBSET Task /\ D \in SUBSET Task
      /\ \A u \in Task : u # t => (u \in C <=> u \in D)
  BY DEF Making, Naming
<1>2. /\ (t \in A <=> Making(t)) /\ (t \in B <=> Making(t)')
      /\ (t \in C <=> Naming(t)) /\ (t \in D <=> Naming(t)')
  OBVIOUS
<1> HIDE DEF A, B, C, D
<1>3. Cardinality(A) \in Nat /\ Cardinality(B) = Cardinality(A) + One(t \in B) - One(t \in A)
  BY <1>1, CountChange
<1>4. Cardinality(C) \in Nat /\ Cardinality(D) = Cardinality(C) + One(t \in D) - One(t \in C)
  BY <1>1, CountChange
<1>5. /\ One(t \in B) = One(Making(t)') /\ One(t \in A) = One(Making(t))
      /\ One(t \in D) = One(Naming(t)') /\ One(t \in C) = One(Naming(t))
  BY <1>2 DEF One
<1> QED BY <1>3, <1>4, <1>5 DEF A, B, C, D, Makers, Namers

\* One namespace comes to life or goes.
LEMMA GrownOne ==
  ASSUME NEW n \in Ns, \A m \in Ns : m # n => (Grown(m)' <=> Grown(m))
  PROVE  /\ Growns \in Nat
         /\ Growns' = Growns + One(Grown(n)') - One(Grown(n))
<1> DEFINE A == {u \in Ns : Grown(u)}
           B == {u \in Ns : Grown(u)'}
<1>1. A \in SUBSET Ns /\ B \in SUBSET Ns /\ \A u \in Ns : u # n => (u \in A <=> u \in B)
  OBVIOUS
<1>2. (n \in A <=> Grown(n)) /\ (n \in B <=> Grown(n)')
  OBVIOUS
<1> HIDE DEF A, B
<1>3. Cardinality(A) \in Nat /\ Cardinality(B) = Cardinality(A) + One(n \in B) - One(n \in A)
  BY <1>1, CountChange
<1>5. One(n \in B) = One(Grown(n)') /\ One(n \in A) = One(Grown(n))
  BY <1>2 DEF One
<1> QED BY <1>3, <1>5 DEF A, B, Growns

\* A file is closed: its pin goes, or becomes the pin of the work.
LEMMA PinsRelease ==
  ASSUME Typed, CountersExact, LiveExact, PinsExact, NEW f \in File, IdmapRelease(f)
  PROVE  CountersExact' /\ LiveExact' /\ PinsExact'
<1>1. CreateSame /\ UNCHANGED <<heap, wpc, freed>> /\ Objects' = Objects /\ Own' = Own
  BY DEF IdmapRelease, taskVars, CreateSame, Objects, Own
<1>2. file[f] # NULL /\ file'[f] = NULL /\ \A g \in File : g # f => file'[g] = file[g]
  BY DEF IdmapRelease, Typed, TypeOK
<1>3. Files' = Files - 1
  <2> DEFINE A == {g \in File : file[g] # NULL}
             B == {g \in File : file'[g] # NULL}
  <2>1. /\ A \in SUBSET File /\ B \in SUBSET File
        /\ (\A g \in File : g # f => (g \in A <=> g \in B)) /\ f \in A /\ f \notin B
    BY <1>2
  <2> HIDE DEF A, B
  <2>2. Cardinality(B) = Cardinality(A) - 1
    BY <2>1, CountChange DEF One
  <2> QED BY <2>2 DEF A, B, Files
<1>4. /\ Objects \in Nat /\ Own \in Nat /\ Files \in Nat /\ freed \in Nat
      /\ Len(queue) \in Nat /\ queue \in Seq(Ns)
  BY SizesNat DEF Typed, TypeOK
<1>5. modrefs = Objects + freed + Len(queue) + Own + Files /\ pending = Work
  BY PinsAre, CountersAre
<1>6. CASE file[f] \in tracked /\ ref[file[f]] = 1
  <2>1. /\ modrefs' = modrefs /\ pending' = pending + 1 /\ queue' = Append(queue, file[f])
        /\ file[f] \in Ns
    BY <1>6 DEF IdmapRelease, Typed, TypeOK
  <2>2. Len(queue') = Len(queue) + 1
    BY <1>4, <2>1
  <2>3. pending' = Work'
    BY <1>1, <1>4, <1>5, <2>1, <2>2 DEF Work
  <2>4. modrefs' = Objects' + freed' + Len(queue') + Own' + Files'
    BY <1>1, <1>3, <1>4, <1>5, <2>1, <2>2
  <2> QED BY <1>1, <2>3, <2>4, PinsAre, SameCounts
<1>7. CASE ~(file[f] \in tracked /\ ref[file[f]] = 1)
  <2>1. modrefs' = modrefs - 1 /\ pending' = pending /\ queue' = queue
    BY <1>7 DEF IdmapRelease
  <2>3. pending' = Work'
    BY <1>1, <1>5, <2>1 DEF Work
  <2>4. modrefs' = Objects' + freed' + Len(queue') + Own' + Files'
    BY <1>1, <1>3, <1>4, <1>5, <2>1
  <2> QED BY <1>1, <2>3, <2>4, PinsAre, SameCounts
<1> QED BY <1>6, <1>7

\* A file is opened.
LEMMA PinsOpen ==
  ASSUME Typed, CountersExact, LiveExact, PinsExact, Tasks, NEW f \in File, NEW t \in
         Task, IdmapOpen(f, t)
  PROVE  CountersExact' /\ LiveExact' /\ PinsExact'
<1>1. CreateSame /\ UNCHANGED <<heap, wpc, freed, queue, pending>> /\ modrefs' = modrefs + 1
      /\ Objects' = Objects /\ Own' = Own
  BY DEF IdmapOpen, taskVars, workVars, CreateSame, Objects, Own
<1>2. file[f] = NULL /\ file'[f] # NULL /\ \A g \in File : g # f => file'[g] = file[g]
  BY DEF IdmapOpen, Tasks, CredOK, Typed, TypeOK
<1>3. Files' = Files + 1
  <2> DEFINE A == {g \in File : file[g] # NULL}
             B == {g \in File : file'[g] # NULL}
  <2>1. /\ A \in SUBSET File /\ B \in SUBSET File
        /\ (\A g \in File : g # f => (g \in A <=> g \in B)) /\ f \notin A /\ f \in B
    BY <1>2
  <2> HIDE DEF A, B
  <2>2. Cardinality(B) = Cardinality(A) + 1
    BY <2>1, CountChange DEF One
  <2> QED BY <2>2 DEF A, B, Files
<1>4. Objects \in Nat /\ Own \in Nat /\ Files \in Nat /\ freed \in Nat /\ Len(queue) \in Nat
  BY SizesNat DEF Typed, TypeOK
<1>5. modrefs = Objects + freed + Len(queue) + Own + Files /\ pending = Work
  BY PinsAre, CountersAre
<1>6. pending' = Work'
  BY <1>1, <1>5 DEF Work
<1>7. modrefs' = Objects' + freed' + Len(queue') + Own' + Files'
  BY <1>1, <1>3, <1>4, <1>5
<1> QED BY <1>1, <1>6, <1>7, PinsAre, SameCounts

\* The worker's own steps.
LEMMA PinsWork ==
  ASSUME Typed, CountersExact, LiveExact, PinsExact, QueueOK, WorkStart \/ WorkPins \/
         WorkOwnPin \/ WorkReturn
  PROVE  CountersExact' /\ LiveExact' /\ PinsExact'
<1>1. CreateSame /\ UNCHANGED <<heap, file>> /\ Objects' = Objects /\ Files' = Files
  BY DEF WorkStart, WorkPins, WorkOwnPin, WorkReturn, workRest, nsVars, taskVars, CreateSame, Objects, Files
<1>2. /\ Len(queue) \in Nat /\ Objects \in Nat /\ freed \in Nat /\ queue \in Seq(Ns)
      /\ Files \in Nat
  BY SizesNat DEF Typed, TypeOK
<1>3. CASE WorkStart
  <2>1. /\ Len(queue') = Len(queue) - 1 /\ wpc = "idle" /\ wpc' = "free"
        /\ UNCHANGED <<modrefs, pending, freed>>
    BY <1>2, <1>3 DEF WorkStart
  <2>2. pending' = Work'
    BY <1>2, <2>1 DEF CountersExact, Work
  <2>3. PinsExact'
    BY <1>1, <1>2, <2>1, PinsAre DEF Own
  <2> QED BY <1>1, <2>2, <2>3, SameCounts
<1>4. CASE WorkPins
  <2>1. /\ UNCHANGED queue /\ wpc = "pins" /\ wpc' = "own" /\ modrefs' = modrefs - freed
        /\ freed' = 0 /\ pending' = pending - 1
    BY <1>4 DEF WorkPins
  <2>2. pending' = Work'
    BY <1>2, <2>1 DEF CountersExact, Work
  <2>3. PinsExact'
    BY <1>1, <1>2, <2>1, PinsAre DEF Own
  <2> QED BY <1>1, <2>2, <2>3, SameCounts
<1>5. CASE WorkOwnPin
  <2>1. /\ UNCHANGED <<queue, pending, freed>> /\ wpc = "own" /\ wpc' = "tail"
        /\ modrefs' = modrefs - 1
    BY <1>5 DEF WorkOwnPin
  <2>2. pending' = Work'
    BY <1>2, <2>1 DEF CountersExact, Work
  <2>3. PinsExact'
    BY <1>1, <1>2, <2>1, PinsAre DEF Own
  <2> QED BY <1>1, <2>2, <2>3, SameCounts
<1>6. CASE WorkReturn
  <2>1. UNCHANGED <<queue, pending, freed, modrefs>> /\ wpc = "tail" /\ wpc' = "idle"
    BY <1>6 DEF WorkReturn
  <2>2. pending' = Work'
    BY <2>1 DEF CountersExact, Work
  <2>3. PinsExact'
    BY <1>1, <2>1, PinsAre DEF Own
  <2> QED BY <1>1, <2>2, <2>3, SameCounts
<1> QED BY <1>3, <1>4, <1>5, <1>6

\* A creation begins.
LEMMA PinsCreateBegin ==
  ASSUME Typed, Tasks, CountersExact, LiveExact, PinsExact, NEW t \in Task,
         CreateBegin(t)
  PROVE  CountersExact' /\ LiveExact' /\ PinsExact'
<1>1. /\ UNCHANGED <<heap, tracked, live, modrefs, pending, queue, wpc, freed, file>>
      /\ pc[t] = "create" /\ pc'[t] \in {"idle", "alloc"}
      /\ creating' = (IF pc'[t] = "alloc" THEN creating + 1 ELSE creating)
      /\ \A u \in Task : u # t => pc'[u] = pc[u] /\ obj'[u] = obj[u]
  BY DEF CreateBegin, Drop, Step, nsVars, workVars, Typed, TypeOK
<1>2. PinsExact' /\ pending' = Work'
  BY <1>1 DEF PinsExact, CountersExact, Work
<1>3. LiveExact'
  <2>1. \A u \in Task : BirthSame(u)
    BY <1>1 DEF BirthSame, Naming
  <2> QED BY <1>1, <2>1, LiveKeep
<1>4. /\ One(Making(t)') = (IF pc'[t] = "alloc" THEN 1 ELSE 0) /\ One(Making(t)) = 0
      /\ One(Naming(t)') = 0 /\ One(Naming(t)) = 0
  BY <1>1 DEF One, Making, Naming
<1>5. /\ creating' = Makers'
      /\ live' + Namers' = Cardinality(tracked')
  <2>1. /\ live \in Nat /\ creating \in Nat /\ creating = Makers
        /\ live + Namers = Cardinality(tracked)
    BY CountersAre DEF Typed, TypeOK
  <2>2. /\ Makers \in Nat /\ Namers \in Nat
        /\ Makers' = Makers + (IF pc'[t] = "alloc" THEN 1 ELSE 0) - 0
        /\ Namers' = Namers + 0 - 0
    BY <1>1, <1>4, MoveOne
  <2> QED BY <1>1, <2>1, <2>2
<1> QED BY <1>2, <1>3, <1>5, CountersNext

\* A namespace is allocated.
LEMMA PinsCreateAlloc ==
  ASSUME Typed, Tasks, QueueOK, LiveOK, CountersExact, LiveExact, PinsExact, NEW t \in
         Task, CreateAlloc(t)
  PROVE  CountersExact' /\ LiveExact' /\ PinsExact'
<1>1. PICK k \in Ns \ heap :
       /\ heap' = heap \cup {k} /\ tracked' = tracked \cup {k} /\ obj' = [obj EXCEPT ![t] = k]
  BY DEF CreateAlloc
<1>2. /\ UNCHANGED <<live, creating, pending, queue, wpc, freed, file>>
      /\ modrefs' = modrefs + 1
      /\ pc[t] = "alloc" /\ pc'[t] = "adopt" /\ obj[t] = NULL /\ obj'[t] = k
      /\ \A u \in Task : u # t => pc'[u] = pc[u] /\ obj'[u] = obj[u]
  <2>1. /\ UNCHANGED <<live, creating, pending, queue, wpc, freed, file>>
        /\ modrefs' = modrefs + 1
        /\ pc[t] = "alloc" /\ pc' = [pc EXCEPT ![t] = "adopt"]
    BY DEF CreateAlloc, Step, workVars
  <2> QED BY <1>1, <2>1 DEF Typed, TypeOK, Tasks, LocalOK
<1>3. /\ Objects' = Objects + 1 /\ Cardinality(tracked') = Cardinality(tracked) + 1
      /\ Objects \in Nat /\ Cardinality(tracked) \in Nat
  <2>1. IsFiniteSet(heap) /\ IsFiniteSet(tracked) /\ k \notin heap /\ k \notin tracked
    BY FS_Subset DEF Typed, TypeOK
  <2> QED BY <1>1, <2>1, FS_AddElement, FS_CardinalityType DEF Objects
<1>4. pending' = Work'
  BY <1>2 DEF CountersExact, Work
<1>5. PinsExact'
  <2>1. Objects \in Nat /\ Own \in Nat /\ Files \in Nat /\ freed \in Nat /\ Len(queue) \in Nat
    BY SizesNat DEF Typed, TypeOK
  <2>2. Own' = Own /\ Files' = Files
    BY <1>2 DEF Own, Files
  <2>3. modrefs = Objects + freed + Len(queue) + Own + Files
    BY PinsAre
  <2>4. modrefs' = Objects' + freed' + Len(queue') + Own' + Files'
    BY <1>2, <1>3, <2>1, <2>2, <2>3
  <2> QED BY <2>4, PinsAre
<1>6. LiveExact'
  <2>1. k \notin tracked /\ \A m \in tracked : m # k
    BY <1>1 DEF QueueOK
  <2>2. ASSUME NEW m \in Ns PROVE Grown(m)' <=> Grown(m)
    <3>1. CASE m = k
      BY <1>2, <2>1, <3>1 DEF Grown
    <3>2. CASE m # k
      <4>1. m \in tracked' <=> m \in tracked
        BY <1>1, <3>2
      <4>2. \A u \in Task : obj'[u] = m /\ pc'[u] \in {"adopt", "done"} <=> obj[u] = m /\ pc[u] \in {"adopt", "done"}
        BY <1>2, <3>2
      <4> QED BY <4>1, <4>2 DEF Grown
    <3> QED BY <3>1, <3>2
  <2>3. {m \in Ns : Grown(m)'} = {m \in Ns : Grown(m)}
    BY <2>2
  <2> QED BY <1>2, <2>3 DEF LiveExact
<1>7. One(Making(t)') = 1 /\ One(Making(t)) = 1 /\ One(Naming(t)') = 1 /\ One(Naming(t)) = 0
  BY <1>2 DEF One, Making, Naming
<1>8. /\ creating' = Makers'
      /\ live' + Namers' = Cardinality(tracked')
  <2>1. live \in Nat
    BY DEF Typed, TypeOK
  <2> QED BY <1>2, <1>3, <1>7, <2>1, CountersAre, MoveOne
<1> QED BY <1>4, <1>5, <1>6, <1>8, CountersNext

\* Adoption counts nothing.
LEMMA PinsCreateAdopt ==
  ASSUME Typed, Tasks, CountersExact, LiveExact, PinsExact, NEW t \in Task,
         CreateAdopt(t)
  PROVE  CountersExact' /\ LiveExact' /\ PinsExact'
<1>1. /\ UNCHANGED <<heap, tracked, live, creating, modrefs, pending, queue, wpc, freed, file, obj>>
      /\ pc[t] = "adopt" /\ pc'[t] = "done" /\ \A u \in Task : u # t => pc'[u] = pc[u]
  BY DEF CreateAdopt, Step, nsVars, workVars, Typed
<1>2. PinsExact' /\ pending' = Work'
  BY <1>1 DEF PinsExact, CountersExact, Work
<1>3. \A u \in Task : BirthSame(u) /\ (Making(u)' <=> Making(u)) /\ (Naming(u)' <=> Naming(u))
  BY <1>1 DEF BirthSame, Making, Naming
<1> QED BY <1>1, <1>2, <1>3, LiveKeep, CountersKeep

\* A namespace comes to life.
LEMMA PinsCreateDone ==
  ASSUME Typed, Tasks, Books, QueueOK, LiveOK, CountersExact, LiveExact, PinsExact, NEW
         t \in Task, CreateDone(t)
  PROVE  CountersExact' /\ LiveExact' /\ PinsExact'
<1>1. /\ UNCHANGED <<heap, tracked, modrefs, pending, queue, wpc, freed, file>>
      /\ live' = live + 1 /\ creating' = creating - 1
      /\ pc[t] = "done" /\ pc'[t] = "ready"
      /\ \A u \in Task : u # t => pc'[u] = pc[u] /\ obj'[u] = obj[u]
      /\ obj'[t] = NULL
  BY DEF CreateDone, Step, workVars, Typed, TypeOK
<1>0. PICK k : k = obj[t]
  OBVIOUS
<1>2. k \in Ns /\ k \in tracked /\ \A u \in Task : u # t => obj[u] # k
  BY <1>0, <1>1 DEF Tasks, LocalOK, Books, BirthOK, LiveOK, Solid
<1>3. PinsExact' /\ pending' = Work'
  BY <1>1 DEF PinsExact, CountersExact, Work
<1>4. LiveExact'
  <2>1. ~Grown(k) /\ Grown(k)'
    BY <1>0, <1>1, <1>2 DEF Grown
  <2>2. \A m \in Ns : m # k => (Grown(m)' <=> Grown(m))
    BY <1>0, <1>1, <1>2 DEF Grown
  <2>3. One(Grown(k)') = 1 /\ One(Grown(k)) = 0
    BY <2>1 DEF One
  <2> QED BY <1>1, <1>2, <2>2, <2>3, GrownOne, LiveIs
<1>5. One(Making(t)') = 0 /\ One(Making(t)) = 1 /\ One(Naming(t)') = 0 /\ One(Naming(t)) = 1
  BY <1>1 DEF One, Making, Naming
<1>6. /\ creating' = Makers'
      /\ live' + Namers' = Cardinality(tracked')
  <2>1. live \in Nat
    BY DEF Typed, TypeOK
  <2> QED BY <1>1, <1>5, <2>1, CountersAre, MoveOne
<1> QED BY <1>3, <1>4, <1>6, CountersNext

\* A creation fails.
LEMMA PinsCreateFails ==
  ASSUME Typed, Tasks, Books, QueueOK, LiveOK, CountersExact, LiveExact, PinsExact, NEW
         t \in Task, CreateFails(t)
  PROVE  CountersExact' /\ LiveExact' /\ PinsExact'
<1>1. /\ UNCHANGED <<live, pending, queue, wpc, freed, file>> /\ creating' = creating - 1
      /\ pc[t] \in {"alloc", "adopt"} /\ pc'[t] = "idle" /\ obj'[t] = NULL
      /\ \A u \in Task : u # t => pc'[u] = pc[u] /\ obj'[u] = obj[u]
  BY DEF CreateFails, Drop, workVars, Typed, TypeOK
<1>2. pending' = Work'
  BY <1>1 DEF CountersExact, Work
<1>3. live \in Nat /\ creating \in Nat
  BY DEF Typed, TypeOK
<1>4. CASE pc[t] = "alloc"
  <2>1. obj[t] = NULL /\ NULL \notin heap /\ NULL \notin tracked /\ NULL \notin Ns
    BY <1>4 DEF Tasks, LocalOK, Typed, TypeOK
  <2>2. UNCHANGED <<heap, tracked, modrefs>>
    BY <2>1 DEF CreateFails
  <2>3. \A u \in Task : BirthSame(u)
    BY <1>1, <1>4 DEF BirthSame, Naming
  <2>4. PinsExact'
    BY <1>1, <2>2 DEF PinsExact
  <2>5. One(Making(t)') = 0 /\ One(Making(t)) = 1 /\ One(Naming(t)') = 0 /\ One(Naming(t)) = 0
    BY <1>1, <1>4 DEF One, Making, Naming
  <2>6. /\ creating' = Makers'
        /\ live' + Namers' = Cardinality(tracked')
    BY <1>1, <1>3, <2>2, <2>5, CountersAre, MoveOne
  <2> QED BY <1>1, <1>2, <2>2, <2>3, <2>4, <2>6, CountersNext, LiveKeep
<1>5. CASE pc[t] = "adopt"
  <2>0. PICK k : k = obj[t]
    OBVIOUS
  <2>1. k \in Ns /\ k \in tracked /\ k \in heap /\ \A u \in Task : u # t => obj[u] # k
    BY <1>5, <2>0 DEF Tasks, LocalOK, Books, BirthOK, LiveOK, Solid, QueueOK
  <2>2. heap' = heap \ {k} /\ tracked' = tracked \ {k} /\ modrefs' = modrefs - 1
    BY <2>0, <2>1 DEF CreateFails
  <2>3. /\ Objects' = Objects - 1 /\ Cardinality(tracked') = Cardinality(tracked) - 1
        /\ Objects \in Nat /\ Cardinality(tracked) \in Nat
    <3>1. IsFiniteSet(heap) /\ IsFiniteSet(tracked)
      BY FS_Subset DEF Typed, TypeOK
    <3> QED BY <2>1, <2>2, <3>1, FS_RemoveElement, FS_CardinalityType DEF Objects
  <2>4. PinsExact'
    BY <1>1, <2>2, <2>3, SizesNat, PinsAre DEF Own, Files, Typed, TypeOK
  <2>5. LiveExact'
    <3>1. ASSUME NEW m \in Ns PROVE Grown(m)' <=> Grown(m)
      <4>1. CASE m = k
        BY <1>5, <2>0, <2>2, <4>1 DEF Grown
      <4>2. CASE m # k
        <5>1. m \in tracked' <=> m \in tracked
          BY <2>2, <4>2
        <5>2. m # NULL
          OBVIOUS
        <5> QED BY <1>1, <2>0, <4>2, <5>1, <5>2 DEF Grown
      <4> QED BY <4>1, <4>2
    <3>3. {m \in Ns : Grown(m)'} = {m \in Ns : Grown(m)}
      BY <3>1
    <3> QED BY <1>1, <3>3 DEF LiveExact
  <2>6. One(Making(t)') = 0 /\ One(Making(t)) = 1 /\ One(Naming(t)') = 0 /\ One(Naming(t)) = 1
    BY <1>1, <1>5 DEF One, Making, Naming
  <2>7. /\ creating' = Makers'
        /\ live' + Namers' = Cardinality(tracked')
    BY <1>1, <1>3, <2>3, <2>6, CountersAre, MoveOne
  <2> QED BY <1>2, <2>4, <2>5, <2>7, CountersNext
<1> QED BY <1>1, <1>4, <1>5

\* A namespace is freed; its pin stays with the worker.
LEMMA PinsFreeUserNs ==
  ASSUME Typed, Books, QueueOK, CountersExact, LiveExact, PinsExact, FreeUserNs
  PROVE  CountersExact' /\ LiveExact' /\ PinsExact'
<1>0. PICK k : k = cur
  OBVIOUS
<1>1. /\ UNCHANGED <<creating, pending, queue, modrefs, file, pc, obj>> /\ live' = live - 1
      /\ freed' = freed + 1
      /\ wpc = "free" /\ wpc' \in {"free", "pins"}
      /\ k \in tracked /\ k \in heap /\ k \in Ns /\ ref[k] = 0
      /\ heap' = heap \ {k} /\ tracked' = tracked \ {k}
  BY <1>0 DEF FreeUserNs, workRest, taskVars, QueueOK, Waiting, Typed, TypeOK
<1>2. \A u \in Task : obj[u] = k => pc[u] \notin {"adopt", "done"}
  BY <1>1 DEF Books, BirthOK
<1>3. pending' = Work'
  BY <1>1 DEF CountersExact, Work
<1>4. /\ Objects' = Objects - 1 /\ Cardinality(tracked') = Cardinality(tracked) - 1
      /\ Objects \in Nat /\ Cardinality(tracked) \in Nat
  <2>1. IsFiniteSet(heap) /\ IsFiniteSet(tracked)
    BY FS_Subset DEF Typed, TypeOK
  <2> QED BY <1>1, <2>1, FS_RemoveElement, FS_CardinalityType DEF Objects
<1>5. PinsExact'
  <2>1. Objects \in Nat /\ Own \in Nat /\ Files \in Nat /\ freed \in Nat /\ Len(queue) \in Nat
    BY SizesNat DEF Typed, TypeOK
  <2>2. Own' = Own /\ Files' = Files
    BY <1>1 DEF Own, Files
  <2> QED BY <1>1, <1>4, <2>1, <2>2, PinsAre
<1>6. LiveExact'
  <2>1. Grown(k) /\ ~Grown(k)'
    BY <1>1, <1>2 DEF Grown
  <2>2. \A m \in Ns : m # k => (Grown(m)' <=> Grown(m))
    BY <1>1 DEF Grown
  <2>3. One(Grown(k)') = 0 /\ One(Grown(k)) = 1
    BY <2>1 DEF One
  <2> QED BY <1>1, <2>2, <2>3, GrownOne, LiveIs
<1>7. Makers' = Makers /\ Namers' = Namers
  BY <1>1 DEF Makers, Namers, Making, Naming
<1>8. /\ creating' = Makers'
      /\ live' + Namers' = Cardinality(tracked')
  <2>1. live \in Nat /\ Namers \in Nat
    BY SizesNat DEF Typed, TypeOK
  <2> QED BY <1>1, <1>4, <1>7, <2>1, CountersAre
<1> QED BY <1>3, <1>5, <1>6, <1>8, CountersNext

\* Every step keeps the counters exact.
LEMMA KeepCounters ==
  ASSUME Typed, Tasks, Books, QueueOK, LiveOK, CountersExact, LiveExact, PinsExact, Next
  PROVE  CountersExact' /\ LiveExact' /\ PinsExact'
<1>1. ASSUME NEW t \in Task, NEW h \in {"unshare", "setns", "cred"}, Prepare(t, h, NULL)
      PROVE  CountersExact' /\ LiveExact' /\ PinsExact'
  <2>1. CreateSame
    BY <1>1 DEF CreateSame, Prepare, nsVars, Typed, TypeOK
  <2> QED BY <1>1, <2>1, SameBooks DEF Prepare, workVars
<1>2. ASSUME NEW t \in Task, NEW ch \in Task, NEW b \in BOOLEAN, Clone(t, ch, b)
      PROVE  CountersExact' /\ LiveExact' /\ PinsExact'
  <2>1. CreateSame
    BY <1>2 DEF CreateSame, Clone, Prepare, nsVars, Typed, TypeOK
  <2> QED BY <1>2, <2>1, SameBooks DEF Clone, Prepare, workVars
<1>3. ASSUME NEW t \in Task, NEW ch \in Task, CloneThread(t, ch)
      PROVE  CountersExact' /\ LiveExact' /\ PinsExact'
  <2>1. CreateSame
    BY <1>3 DEF CreateSame, CloneThread, nsVars, Typed, TypeOK
  <2> QED BY <1>3, <2>1, SameBooks DEF CloneThread, workVars
<1>4. ASSUME NEW t \in Task, HookPrepareCreds(t) \/ HookCopyCreds(t) \/ HookCopyNamespaces(t)
             \/ WakeUpNewTask(t)
      PROVE  CountersExact' /\ LiveExact' /\ PinsExact'
  <2>1. CreateSame
    BY <1>4 DEF CreateSame, HookPrepareCreds, HookCopyCreds, HookCopyNamespaces, WakeUpNewTask,
      Finish, Drop, Step, AfterPrepare, credGetRest, Typed, TypeOK, Tasks, LocalOK
  <2> QED BY <1>4, <2>1, SameBooks DEF HookPrepareCreds, HookCopyCreds, HookCopyNamespaces,
    WakeUpNewTask, Finish, credGetRest, workVars
<1>5. ASSUME NEW t \in Task, CreateBegin(t) PROVE CountersExact' /\ LiveExact' /\ PinsExact'
  BY <1>5, PinsCreateBegin
<1>6. ASSUME NEW t \in Task, CreateAlloc(t) PROVE CountersExact' /\ LiveExact' /\ PinsExact'
  BY <1>6, PinsCreateAlloc
<1>7. ASSUME NEW t \in Task, CreateAdopt(t) PROVE CountersExact' /\ LiveExact' /\ PinsExact'
  BY <1>7, PinsCreateAdopt
<1>8. ASSUME NEW t \in Task, CreateDone(t) PROVE CountersExact' /\ LiveExact' /\ PinsExact'
  BY <1>8, PinsCreateDone
<1>9. ASSUME NEW t \in Task, CreateFails(t) PROVE CountersExact' /\ LiveExact' /\ PinsExact'
  BY <1>9, PinsCreateFails
<1>10. ASSUME NEW t \in Task, NEW f \in File, JoinGet(t, f)
      PROVE  CountersExact' /\ LiveExact' /\ PinsExact'
  <2>1. CreateSame
    BY <1>10 DEF CreateSame, JoinGet, Step, Typed, TypeOK
  <2> QED BY <1>10, <2>1, SameBooks DEF JoinGet, workVars
<1>11. ASSUME NEW t \in Task, JoinAdopt(t) PROVE CountersExact' /\ LiveExact' /\ PinsExact'
  <2>1. CreateSame
    BY <1>11 DEF CreateSame, JoinAdopt, Step, Typed, TypeOK
  <2> QED BY <1>11, <2>1, PutPins DEF JoinAdopt
<1>12. ASSUME NEW t \in Task, JoinFails(t) PROVE CountersExact' /\ LiveExact' /\ PinsExact'
  <2>1. CreateSame
    BY <1>12 DEF CreateSame, JoinFails, Drop, Typed, TypeOK
  <2> QED BY <1>12, <2>1, PutPins DEF JoinFails
<1>13. ASSUME NEW t \in Task, Commit(t) \/ Abandon(t) \/ Exit(t)
      PROVE  CountersExact' /\ LiveExact' /\ PinsExact'
  <2>1. CreateSame
    BY <1>13 DEF CreateSame, Commit, Finish, Abandon, Drop, Exit, nsVars, Typed, TypeOK
  <2> QED BY <1>13, <2>1, SameBooks DEF Commit, Finish, Abandon, Exit, workVars
<1>14. ASSUME NEW c \in Cred, PutCredRcu(c) PROVE CountersExact' /\ LiveExact' /\ PinsExact'
  <2>1. CreateSame
    BY <1>14 DEF CreateSame, PutCredRcu, putRest, taskVars
  <2> QED BY <1>14, <2>1, SameBooks DEF PutCredRcu, putRest
<1>15. ASSUME NEW n \in Ns, PutDetached(n) PROVE CountersExact' /\ LiveExact' /\ PinsExact'
  <2>1. CreateSame
    BY <1>15 DEF CreateSame, PutDetached, putRest, taskVars
  <2> QED BY <1>15, <2>1, PutPins DEF PutDetached, putRest
<1>16. ASSUME NEW f \in File, NEW t \in Task, IdmapOpen(f, t)
      PROVE  CountersExact' /\ LiveExact' /\ PinsExact'
  BY <1>16, PinsOpen
<1>17. ASSUME NEW f \in File, IdmapRelease(f) PROVE CountersExact' /\ LiveExact' /\ PinsExact'
  BY <1>17, PinsRelease
<1>18. ASSUME WorkStart \/ WorkPins \/ WorkOwnPin \/ WorkReturn
      PROVE  CountersExact' /\ LiveExact' /\ PinsExact'
  BY <1>18, PinsWork
<1>19. ASSUME FreeUserNs PROVE CountersExact' /\ LiveExact' /\ PinsExact'
  BY <1>19, PinsFreeUserNs
<1>20. ASSUME Stops PROVE CountersExact' /\ LiveExact' /\ PinsExact'
  BY <1>20, StopFrame, SameBooks DEF CreateSame, stopRest, nsVars, workVars, taskVars
<1> QED BY <1>1, <1>2, <1>3, <1>4, <1>5, <1>6, <1>7, <1>8, <1>9, <1>10, <1>11, <1>12, <1>13,
           <1>14, <1>15, <1>16, <1>17, <1>18, <1>19, <1>20 DEF Next, TaskStep, Unshare, Setns,
           PrepareCred, Worker, Stops

-----------------------------------------------------------------------------
(***************************************************************************)
(* Types.                                                                  *)
(***************************************************************************)
\* The types, but for the four counters.
TypeStop ==
  /\ mod \in {"on", "off", "going", "gone", "raced"} /\ stopping \in BOOLEAN
  /\ timedOut \in BOOLEAN
  /\ stop \in {"idle", "begun", "waited", "prepared"}
TypeNs ==
  /\ tracked \subseteq heap /\ heap \subseteq Ns
  /\ parent \in [Ns -> Ns \cup {InitNs, NULL}]
TypeRefs == ref \in [Ns -> Nat] /\ puts \in [Ns -> Nat] /\ leaked \in [Ns -> Nat]
TypeCred ==
  credNs \in [Cred -> Ns \cup {InitNs, NULL}] /\ table \in [Cred -> Ns \cup {NULL}]
TypeTask ==
  /\ cred \in [Task -> Cred \cup {NULL}] /\ rcu \subseteq Cred
  /\ new \in [Task -> Cred \cup {NULL}] /\ obj \in [Task -> Ns \cup {InitNs, NULL}]
  /\ child \in [Task -> Task \cup {NULL}] /\ pc \in [Task -> PC] /\ fn \in [Task -> Fn]
TypeWork ==
  /\ file \in [File -> Ns \cup {InitNs, NULL}]
  /\ queue \in Seq(Ns) /\ wpc \in {"idle", "free", "pins", "own", "tail"}
  /\ cur \in Ns \cup {NULL} /\ freed \in Nat
TypeRest == TypeStop /\ TypeNs /\ TypeRefs /\ TypeCred /\ TypeTask /\ TypeWork

\* The types in this state.
LEMMA TypesNow == ASSUME Typed PROVE TypeRest
BY DEF Typed, TypeOK, TypeRest, TypeStop, TypeNs, TypeRefs, TypeCred, TypeTask, TypeWork

\* The counters are natural numbers because they count.
LEMMA TypesNext ==
  ASSUME TypeRest', CountersExact', LiveExact', PinsExact'
  PROVE  Typed'
<1>1. creating' \in Nat
  BY CountNat DEF CountersExact
<1>2. live' \in Nat
  BY CountNat DEF LiveExact
<1>3. Len(queue') \in Nat /\ freed' \in Nat
  BY DEF TypeRest, TypeWork
<1>4. pending' \in Nat
  BY <1>3 DEF CountersExact
<1>5. modrefs' \in Nat
  <2>1. heap' \in SUBSET Ns
    BY DEF TypeRest, TypeNs
  <2>2. Cardinality(heap') \in Nat
    BY <2>1, CountNat
  <2>3. Cardinality({f \in File : file'[f] # NULL}) \in Nat
    BY CountNat
  <2> QED BY <1>3, <2>2, <2>3 DEF PinsExact
<1> QED BY <1>1, <1>2, <1>4, <1>5 DEF Typed, TypeOK, TypeRest, TypeStop, TypeNs, TypeRefs, TypeCred,
           TypeTask, TypeWork

\* A put of a namespace that is counted.
LEMMA PutTypes ==
  ASSUME Typed, NEW n, n \in tracked => ref[n] >= 1, PutQueue(n)
  PROVE  ref' \in [Ns -> Nat] /\ queue' \in Seq(Ns)
<1>1. ref \in [Ns -> Nat] /\ queue \in Seq(Ns) /\ tracked \subseteq Ns
  BY DEF Typed, TypeOK
<1>2. CASE n \in tracked
  <2>1. n \in Ns /\ ref[n] \in Nat /\ ref[n] - 1 \in Nat
    BY <1>1, <1>2
  <2>2. ref' = [ref EXCEPT ![n] = ref[n] - 1] /\ (queue' = queue \/ queue' = Append(queue, n))
    BY <1>2 DEF PutQueue
  <2>3. ref' \in [Ns -> Nat]
    BY <1>1, <2>1, <2>2
  <2>4. Append(queue, n) \in Seq(Ns)
    BY <1>1, <2>1
  <2> QED BY <1>1, <2>2, <2>3, <2>4
<1>3. CASE n \notin tracked
  BY <1>1, <1>3 DEF PutQueue
<1> QED BY <1>2, <1>3

\* A handler that gives up.
LEMMA DropTypes ==
  ASSUME Typed, Tasks, NEW t \in Task, pc[t] # "idle", Drop(t)
  PROVE  TypeTask'
<1>1. new[t] \in Cred
  BY DEF Tasks, LocalOK, Typed, TypeOK
<1>2. TypeTask
  BY TypesNow DEF TypeRest
<1>3. rcu' \subseteq Cred
  BY <1>1, <1>2 DEF Drop, PutCred, TypeTask
<1> QED BY <1>2, <1>3 DEF Drop, TypeTask, PC, Fn

\* What the steps of a task leave alone.
LEMMA TaskFrame == ASSUME NEW t \in Task, TaskStep(t) PROVE UNCHANGED stopVars
BY DEF TaskStep, Unshare, Setns, PrepareCred, Clone, Prepare, CloneThread, HookPrepareCreds,
  HookCopyCreds, HookCopyNamespaces, credGetRest, CreateBegin, CreateAlloc, CreateAdopt,
  CreateDone, CreateFails, JoinGet, JoinAdopt, JoinFails, Commit, WakeUpNewTask, Finish,
  Abandon, Exit

\* The state of the module and of a stop.
LEMMA KeepTypeStop ==
  ASSUME Typed, Next
  PROVE  TypeStop'
<1>0. TypeStop
  BY TypesNow DEF TypeRest
<1>1. ASSUME NEW t \in Task, TaskStep(t) PROVE TypeStop'
  BY <1>0, <1>1, TaskFrame DEF TypeStop, stopVars
<1>2. ASSUME NEW c \in Cred, PutCredRcu(c) PROVE TypeStop'
  BY <1>0, <1>2 DEF PutCredRcu, putRest, TypeStop, stopVars
<1>3. ASSUME NEW n \in Ns, PutDetached(n) PROVE TypeStop'
  BY <1>0, <1>3 DEF PutDetached, putRest, TypeStop, stopVars
<1>4. ASSUME NEW f \in File, NEW t \in Task, IdmapOpen(f, t) PROVE TypeStop'
  BY <1>0, <1>4 DEF IdmapOpen, TypeStop, stopVars
<1>5. ASSUME NEW f \in File, IdmapRelease(f) PROVE TypeStop'
  BY <1>0, <1>5 DEF IdmapRelease, TypeStop, stopVars
<1>6. ASSUME Worker PROVE TypeStop'
  BY <1>0, <1>6, WorkFrame DEF workRest, TypeStop, stopVars
<1>7. ASSUME Stops PROVE TypeStop'
  BY <1>0, <1>7 DEF Stops, StopBegin, StopWait, StopPrepare, StopCommit, StopAbort, Start,
    Rmmod, UserNsExit, TypeStop
<1> QED BY <1>1, <1>2, <1>3, <1>4, <1>5, <1>6, <1>7 DEF Next, TaskStep, Unshare, Setns,
           PrepareCred, Worker, Stops

\* The namespaces.
LEMMA KeepTypeNs ==
  ASSUME Typed, Tasks, QueueOK, Next
  PROVE  TypeNs'
<1>0. TypeStop /\ TypeNs /\ TypeRefs /\ TypeCred /\ TypeTask /\ TypeWork
  BY TypesNow DEF TypeRest
<1>1. ASSUME NEW t \in Task, NEW h \in {"unshare", "setns", "cred"}, Prepare(t, h, NULL)
      PROVE  TypeNs'
  BY <1>0, <1>1 DEF Prepare, nsVars, TypeNs
<1>2. ASSUME NEW t \in Task, NEW ch \in Task, NEW b \in BOOLEAN, Clone(t, ch, b) PROVE TypeNs'
  BY <1>0, <1>2 DEF Clone, Prepare, nsVars, TypeNs
<1>3. ASSUME NEW t \in Task, NEW ch \in Task, CloneThread(t, ch) PROVE TypeNs'
  BY <1>0, <1>3 DEF CloneThread, nsVars, TypeNs
<1>4. ASSUME NEW t \in Task, HookPrepareCreds(t) \/ HookCopyCreds(t) \/ HookCopyNamespaces(t)
             \/ WakeUpNewTask(t)
      PROVE  TypeNs'
  BY <1>0, <1>4 DEF HookPrepareCreds, HookCopyCreds, HookCopyNamespaces, WakeUpNewTask, Finish,
    credGetRest, TypeNs
<1>5. ASSUME NEW t \in Task, CreateBegin(t) \/ CreateAdopt(t) \/ CreateDone(t) PROVE TypeNs'
  BY <1>0, <1>5 DEF CreateBegin, CreateAdopt, CreateDone, nsVars, TypeNs
<1>6. ASSUME NEW t \in Task, CreateAlloc(t) PROVE TypeNs'
  <2>1. credNs[new[t]] \in Ns \cup {InitNs, NULL}
    BY <1>0, <1>6 DEF CreateAlloc, Step, Tasks, LocalOK, TypeTask, TypeCred
  <2> QED BY <1>0, <1>6, <2>1 DEF CreateAlloc, TypeNs
<1>7. ASSUME NEW t \in Task, CreateFails(t) PROVE TypeNs'
  BY <1>0, <1>7 DEF CreateFails, TypeNs
<1>8. ASSUME NEW t \in Task, NEW f \in File, JoinGet(t, f) PROVE TypeNs'
  BY <1>0, <1>8 DEF JoinGet, TypeNs
<1>9. ASSUME NEW t \in Task, JoinAdopt(t) \/ JoinFails(t) PROVE TypeNs'
  BY <1>0, <1>9 DEF JoinAdopt, JoinFails, TypeNs
<1>10. ASSUME NEW t \in Task, Commit(t) \/ Abandon(t) \/ Exit(t) PROVE TypeNs'
  BY <1>0, <1>10 DEF Commit, Finish, Abandon, Exit, nsVars, TypeNs
<1>11. ASSUME NEW c \in Cred, PutCredRcu(c) PROVE TypeNs'
  BY <1>0, <1>11 DEF PutCredRcu, putRest, TypeNs
<1>12. ASSUME NEW n \in Ns, PutDetached(n) PROVE TypeNs'
  BY <1>0, <1>12 DEF PutDetached, putRest, TypeNs
<1>13. ASSUME NEW f \in File, NEW t \in Task, IdmapOpen(f, t) PROVE TypeNs'
  BY <1>0, <1>13 DEF IdmapOpen, TypeNs
<1>14. ASSUME NEW f \in File, IdmapRelease(f) PROVE TypeNs'
  BY <1>0, <1>14 DEF IdmapRelease, TypeNs
<1>15. ASSUME FreeUserNs PROVE TypeNs'
  <2>1. cur \in Ns
    BY <1>15 DEF FreeUserNs, QueueOK, Typed, TypeOK
  <2> QED BY <1>0, <1>15, <2>1 DEF FreeUserNs, TypeNs
<1>16. ASSUME WorkStart \/ WorkPins \/ WorkOwnPin \/ WorkReturn PROVE TypeNs'
  BY <1>0, <1>16 DEF WorkStart, WorkPins, WorkOwnPin, WorkReturn, nsVars, TypeNs
<1>17. ASSUME Stops PROVE TypeNs'
  BY <1>0, <1>17, StopFrame DEF stopRest, nsVars, TypeNs
<1> QED BY <1>1, <1>2, <1>3, <1>4, <1>5, <1>6, <1>7, <1>8, <1>9, <1>10, <1>11, <1>12, <1>13,
           <1>14, <1>15, <1>16, <1>17 DEF Next, TaskStep, Unshare, Setns, PrepareCred, Worker,
           Stops

\* The counts.
LEMMA KeepTypeRefs ==
  ASSUME Typed, Tasks, QueueOK, LiveOK, Next
  PROVE  TypeRefs'
<1>0. TypeStop /\ TypeNs /\ TypeRefs /\ TypeCred /\ TypeTask /\ TypeWork
  BY TypesNow DEF TypeRest
<1>1. ASSUME NEW t \in Task, NEW h \in {"unshare", "setns", "cred"}, Prepare(t, h, NULL)
      PROVE  TypeRefs'
  BY <1>0, <1>1 DEF Prepare, nsVars, TypeRefs
<1>2. ASSUME NEW t \in Task, NEW ch \in Task, NEW b \in BOOLEAN, Clone(t, ch, b) PROVE TypeRefs'
  BY <1>0, <1>2 DEF Clone, Prepare, nsVars, TypeRefs
<1>3. ASSUME NEW t \in Task, NEW ch \in Task, CloneThread(t, ch) PROVE TypeRefs'
  BY <1>0, <1>3 DEF CloneThread, nsVars, TypeRefs
<1>4. ASSUME NEW t \in Task, HookPrepareCreds(t) \/ HookCopyCreds(t) \/ HookCopyNamespaces(t)
             \/ WakeUpNewTask(t)
      PROVE  TypeRefs'
  <2>1. GetEffect(new[t]) /\ new[t] \in Cred
    BY <1>4, GetDoes DEF HookPrepareCreds, HookCopyCreds, HookCopyNamespaces, WakeUpNewTask,
      Step, Typed, TypeOK, Tasks, LocalOK
  <2> QED BY <1>0, <1>4, <2>1, GetTypes DEF HookPrepareCreds, HookCopyCreds, HookCopyNamespaces,
    WakeUpNewTask, Finish, credGetRest, TypeRefs
<1>5. ASSUME NEW t \in Task, CreateBegin(t) \/ CreateDone(t) PROVE TypeRefs'
  BY <1>0, <1>5 DEF CreateBegin, CreateDone, nsVars, TypeRefs
<1>6. ASSUME NEW t \in Task, CreateAlloc(t) PROVE TypeRefs'
  BY <1>0, <1>6 DEF CreateAlloc, TypeRefs
<1>7. ASSUME NEW t \in Task, CreateAdopt(t) PROVE TypeRefs'
  <2>1. new[t] \in Cred /\ obj[t] \in Ns
    BY <1>7 DEF CreateAdopt, Step, Tasks, LocalOK, Typed, TypeOK
  <2>2. leaked' \in [Ns -> Nat]
    <3>1. CASE UNCHANGED leaked
      BY <3>1 DEF Typed, TypeOK
    <3>2. CASE ~UNCHANGED leaked
      <4>1. /\ table[new[t]] = NULL /\ credNs[new[t]] \in Ns
            /\ leaked' = [leaked EXCEPT ![credNs[new[t]]] = @ - 1]
        BY <1>7, <3>2 DEF CreateAdopt
      <4>2. \A u \in Task : new[u] = new[t] => pc[u] # "prepared"
        BY <1>7, Lone DEF CreateAdopt, Step
      <4>3. leaked[credNs[new[t]]] >= 1
        BY <2>1, <4>1, <4>2 DEF LiveOK, Bare
      <4>4. leaked[credNs[new[t]]] - 1 \in Nat /\ leaked \in [Ns -> Nat]
        BY <4>1, <4>3 DEF Typed, TypeOK
      <4> QED BY <4>1, <4>4
    <3> QED BY <3>1, <3>2
  <2> QED BY <1>0, <1>7, <2>2 DEF CreateAdopt, nsVars, TypeRefs
<1>8. ASSUME NEW t \in Task, CreateFails(t) PROVE TypeRefs'
  BY <1>0, <1>8 DEF CreateFails, TypeRefs
<1>9. ASSUME NEW t \in Task, NEW f \in File, JoinGet(t, f) PROVE TypeRefs'
  <2>1. tracked \subseteq Ns /\ UNCHANGED <<puts, leaked>>
    BY <1>0, <1>9 DEF JoinGet, TypeNs
  <2>2. ref' \in [Ns -> Nat]
    BY <1>0, <1>9, <2>1 DEF JoinGet, TypeRefs
  <2> QED BY <1>0, <2>1, <2>2 DEF TypeRefs
<1>10. ASSUME NEW t \in Task, JoinAdopt(t) PROVE TypeRefs'
  <2>1. table[new[t]] \in tracked => ref[table[new[t]]] >= 1
    <3>1. new[t] \in Cred
      BY <1>10 DEF JoinAdopt, Step, Tasks, LocalOK, Typed, TypeOK
    <3> QED BY <3>1 DEF LiveOK, Solid, Typed, TypeOK
  <2>2. ref' \in [Ns -> Nat]
    BY <1>10, <2>1, PutIs, PutTypes DEF JoinAdopt
  <2> QED BY <1>0, <1>10, <2>2 DEF JoinAdopt, TypeRefs
<1>11. ASSUME NEW t \in Task, JoinFails(t) PROVE TypeRefs'
  <2>1. obj[t] \in tracked => ref[obj[t]] >= 1
    BY DEF LiveOK, Solid, Typed, TypeOK
  <2>2. ref' \in [Ns -> Nat]
    BY <1>11, <2>1, PutIs, PutTypes DEF JoinFails
  <2> QED BY <1>0, <1>11, <2>2 DEF JoinFails, TypeRefs
<1>12. ASSUME NEW t \in Task, Commit(t) \/ Abandon(t) \/ Exit(t) PROVE TypeRefs'
  BY <1>0, <1>12 DEF Commit, Finish, Abandon, Exit, nsVars, TypeRefs
<1>13. ASSUME NEW c \in Cred, PutCredRcu(c) PROVE TypeRefs'
  <2>1. c \in Cred /\ (table[c] # NULL => table[c] \in Ns) /\ puts \in [Ns -> Nat]
    BY DEF Typed, TypeOK
  <2>2. puts' \in [Ns -> Nat]
    <3>1. CASE UNCHANGED puts
      BY <2>1, <3>1
    <3>2. CASE ~UNCHANGED puts
      <4>1. table[c] \in Ns /\ puts' = [puts EXCEPT ![table[c]] = @ + 1]
        BY <1>13, <2>1, <3>2 DEF PutCredRcu
      <4> QED BY <2>1, <4>1
    <3> QED BY <3>1, <3>2
  <2> QED BY <1>0, <1>13, <2>2 DEF PutCredRcu, putRest, TypeRefs
<1>14. ASSUME NEW n \in Ns, PutDetached(n) PROVE TypeRefs'
  <2>1. n \in tracked => ref[n] >= 1
    BY <1>14 DEF LiveOK, Solid, PutDetached
  <2>2. ref' \in [Ns -> Nat]
    BY <1>14, <2>1, PutIs, PutTypes DEF PutDetached
  <2>3. puts[n] - 1 \in Nat /\ puts' = [puts EXCEPT ![n] = puts[n] - 1]
    BY <1>0, <1>14 DEF PutDetached, TypeRefs
  <2>4. puts' \in [Ns -> Nat] /\ leaked' = leaked
    BY <1>0, <1>14, <2>3 DEF PutDetached, putRest, TypeRefs
  <2> QED BY <1>0, <2>2, <2>4 DEF TypeRefs
<1>15. ASSUME NEW f \in File, NEW t \in Task, IdmapOpen(f, t) PROVE TypeRefs'
  <2>1. tracked \subseteq Ns /\ UNCHANGED <<puts, leaked>>
    BY <1>0, <1>15 DEF IdmapOpen, TypeNs
  <2>2. ref' \in [Ns -> Nat]
    BY <1>0, <1>15, <2>1 DEF IdmapOpen, TypeRefs
  <2> QED BY <1>0, <2>1, <2>2 DEF TypeRefs
<1>16. ASSUME NEW f \in File, IdmapRelease(f) PROVE TypeRefs'
  <2>1. (file[f] \in tracked => ref[file[f]] >= 1) /\ PutQueue(file[f])
    BY <1>16 DEF LiveOK, Solid, Typed, TypeOK, IdmapRelease, PutQueue
  <2>2. ref' \in [Ns -> Nat]
    BY <2>1, PutTypes
  <2> QED BY <1>0, <1>16, <2>2 DEF IdmapRelease, TypeRefs
<1>17. ASSUME FreeUserNs PROVE TypeRefs'
  <2>1. cur \in Ns /\ (parent[cur] \in tracked => parent[cur] \in Ns /\ ref[parent[cur]] >= 1)
    BY <1>17 DEF LiveOK, Solid, FreeUserNs, QueueOK, Typed, TypeOK
  <2>2. CASE UNCHANGED ref
    BY <1>0, <1>17, <2>2 DEF FreeUserNs, workRest, TypeRefs
  <2>3. CASE ~UNCHANGED ref
    <3>1. parent[cur] \in Ns /\ ref[parent[cur]] >= 1 /\ ref' = [ref EXCEPT ![parent[cur]] = @ -
      1]
      BY <1>17, <2>1, <2>3 DEF FreeUserNs
    <3>2. ref[parent[cur]] - 1 \in Nat /\ ref \in [Ns -> Nat]
      BY <1>0, <3>1 DEF TypeRefs
    <3> QED BY <1>0, <1>17, <3>1, <3>2 DEF FreeUserNs, workRest, TypeRefs
  <2> QED BY <2>2, <2>3
<1>18. ASSUME WorkStart \/ WorkPins \/ WorkOwnPin \/ WorkReturn PROVE TypeRefs'
  BY <1>0, <1>18 DEF WorkStart, WorkPins, WorkOwnPin, WorkReturn, workRest, nsVars, TypeRefs
<1>19. ASSUME Stops PROVE TypeRefs'
  BY <1>0, <1>19, StopFrame DEF stopRest, nsVars, TypeRefs
<1> QED BY <1>1, <1>2, <1>3, <1>4, <1>5, <1>6, <1>7, <1>8, <1>9, <1>10, <1>11, <1>12, <1>13,
           <1>14, <1>15, <1>16, <1>17, <1>18, <1>19 DEF Next, TaskStep, Unshare, Setns,
           PrepareCred, Worker, Stops

\* Creds and their entries.
LEMMA KeepTypeCred ==
  ASSUME Typed, Tasks, Next
  PROVE  TypeCred'
<1>0. TypeStop /\ TypeNs /\ TypeRefs /\ TypeCred /\ TypeTask /\ TypeWork
  BY TypesNow DEF TypeRest
<1>1. ASSUME NEW t \in Task, NEW h \in {"unshare", "setns", "cred"}, Prepare(t, h, NULL)
      PROVE  TypeCred'
  <2>1. credNs[cred[t]] \in Ns \cup {InitNs, NULL}
    BY <1>0, <1>1 DEF Prepare, TypeCred, TypeTask
  <2> QED BY <1>0, <1>1, <2>1 DEF Prepare, TypeCred
<1>2. ASSUME NEW t \in Task, NEW ch \in Task, NEW b \in BOOLEAN, Clone(t, ch, b) PROVE TypeCred'
  <2>1. credNs[cred[t]] \in Ns \cup {InitNs, NULL}
    BY <1>0, <1>2 DEF Clone, Prepare, TypeCred, TypeTask
  <2> QED BY <1>0, <1>2, <2>1 DEF Clone, Prepare, TypeCred
<1>3. ASSUME NEW t \in Task, NEW ch \in Task, CloneThread(t, ch) PROVE TypeCred'
  BY <1>0, <1>3 DEF CloneThread, TypeCred
<1>4. ASSUME NEW t \in Task, HookPrepareCreds(t) \/ HookCopyCreds(t) \/ HookCopyNamespaces(t)
             \/ WakeUpNewTask(t)
      PROVE  TypeCred'
  <2>1. GetEffect(new[t]) /\ new[t] \in Cred
    BY <1>4, GetDoes DEF HookPrepareCreds, HookCopyCreds, HookCopyNamespaces, WakeUpNewTask,
      Step, Typed, TypeOK, Tasks, LocalOK
  <2> QED BY <1>0, <1>4, <2>1, GetTypes DEF HookPrepareCreds, HookCopyCreds, HookCopyNamespaces,
    WakeUpNewTask, Finish, credGetRest, TypeCred
<1>5. ASSUME NEW t \in Task, CreateBegin(t) \/ CreateAlloc(t) \/ CreateFails(t) PROVE TypeCred'
  BY <1>0, <1>5 DEF CreateBegin, CreateAlloc, CreateFails, TypeCred
<1>6. ASSUME NEW t \in Task, CreateAdopt(t) \/ CreateDone(t) PROVE TypeCred'
  <2>1. obj[t] \in Ns
    BY <1>6 DEF CreateAdopt, CreateDone, Step, Tasks, LocalOK
  <2> QED BY <1>0, <1>6, <2>1 DEF CreateAdopt, CreateDone, TypeCred
<1>7. ASSUME NEW t \in Task, NEW f \in File, JoinGet(t, f) PROVE TypeCred'
  BY <1>0, <1>7 DEF JoinGet, TypeCred
<1>8. ASSUME NEW t \in Task, JoinAdopt(t) PROVE TypeCred'
  <2>1. obj[t] \in Ns \cup {InitNs, NULL} /\ tracked \subseteq Ns
    BY <1>0 DEF TypeTask, TypeNs
  <2> QED BY <1>0, <1>8, <2>1 DEF JoinAdopt, TypeCred
<1>9. ASSUME NEW t \in Task, JoinFails(t) PROVE TypeCred'
  BY <1>0, <1>9 DEF JoinFails, TypeCred
<1>10. ASSUME NEW t \in Task, Commit(t) \/ Abandon(t) \/ Exit(t) PROVE TypeCred'
  BY <1>0, <1>10 DEF Commit, Finish, Abandon, Exit, TypeCred
<1>11. ASSUME NEW c \in Cred, PutCredRcu(c) PROVE TypeCred'
  <2>1. table' = table \/ table' = [table EXCEPT ![c] = NULL]
    BY <1>11 DEF PutCredRcu
  <2> QED BY <1>0, <1>11, <2>1 DEF PutCredRcu, TypeCred
<1>12. ASSUME NEW n \in Ns, PutDetached(n) PROVE TypeCred'
  BY <1>0, <1>12 DEF PutDetached, TypeCred
<1>13. ASSUME NEW f \in File, NEW t \in Task, IdmapOpen(f, t) PROVE TypeCred'
  BY <1>0, <1>13 DEF IdmapOpen, TypeCred
<1>14. ASSUME NEW f \in File, IdmapRelease(f) PROVE TypeCred'
  BY <1>0, <1>14 DEF IdmapRelease, TypeCred
<1>15. ASSUME Worker PROVE TypeCred'
  BY <1>0, <1>15, WorkFrame DEF workRest, TypeCred
<1>16. ASSUME Stops PROVE TypeCred'
  BY <1>0, <1>16, StopFrame DEF stopRest, TypeCred
<1> QED BY <1>1, <1>2, <1>3, <1>4, <1>5, <1>6, <1>7, <1>8, <1>9, <1>10, <1>11, <1>12, <1>13,
           <1>14, <1>15, <1>16 DEF Next, TaskStep, Unshare, Setns, PrepareCred, Worker, Stops

\* Tasks and handlers.
LEMMA KeepTypeTask ==
  ASSUME Typed, Tasks, Next
  PROVE  TypeTask'
<1>0. TypeStop /\ TypeNs /\ TypeRefs /\ TypeCred /\ TypeTask /\ TypeWork
  BY TypesNow DEF TypeRest
<1>1. ASSUME NEW t \in Task, NEW h \in {"unshare", "setns", "cred"}, Prepare(t, h, NULL)
      PROVE  TypeTask'
  BY <1>0, <1>1 DEF Prepare, TypeTask, PC, Fn
<1>2. ASSUME NEW t \in Task, NEW ch \in Task, NEW b \in BOOLEAN, Clone(t, ch, b) PROVE TypeTask'
  BY <1>0, <1>2 DEF Clone, Prepare, TypeTask, PC, Fn
<1>3. ASSUME NEW t \in Task, NEW ch \in Task, CloneThread(t, ch) PROVE TypeTask'
  BY <1>0, <1>3 DEF CloneThread, TypeTask, PC, Fn
<1>4. ASSUME NEW t \in Task, HookPrepareCreds(t) PROVE TypeTask'
  BY <1>0, <1>4 DEF HookPrepareCreds, Step, AfterPrepare, TypeTask, PC, Fn
<1>5. ASSUME NEW t \in Task, HookCopyCreds(t) \/ HookCopyNamespaces(t) \/ CreateBegin(t)
      PROVE  TypeTask'
  <2>1. CASE Drop(t)
    BY <1>5, <2>1, DropTypes DEF HookCopyCreds, HookCopyNamespaces, CreateBegin
  <2>2. CASE ~Drop(t)
    BY <1>0, <1>5, <2>2 DEF HookCopyCreds, HookCopyNamespaces, CreateBegin, Step, TypeTask, PC
  <2> QED BY <2>1, <2>2
<1>6. ASSUME NEW t \in Task, CreateAlloc(t) \/ CreateAdopt(t) \/ CreateDone(t) \/
             JoinAdopt(t)
      PROVE  TypeTask'
  BY <1>0, <1>6 DEF CreateAlloc, CreateAdopt, CreateDone, JoinAdopt, Step, TypeTask, PC, Fn
<1>7. ASSUME NEW t \in Task, CreateFails(t) \/ JoinFails(t) \/ Abandon(t) PROVE TypeTask'
  BY <1>7, DropTypes DEF CreateFails, JoinFails, Abandon
<1>8. ASSUME NEW t \in Task, NEW f \in File, JoinGet(t, f) PROVE TypeTask'
  <2>1. file[f] \in Ns \cup {InitNs, NULL}
    BY <1>0 DEF TypeWork
  <2> QED BY <1>0, <1>8, <2>1 DEF JoinGet, Step, TypeTask, PC
<1>9. ASSUME NEW t \in Task, Commit(t) \/ Exit(t) PROVE TypeTask'
  <2>1. cred[t] \in Cred
    BY <1>0, <1>9 DEF Commit, Exit, Tasks, LocalOK, TypeTask
  <2>2. rcu' \subseteq Cred
    BY <1>0, <1>9, <2>1 DEF Commit, Exit, PutCred, TypeTask
  <2> QED BY <1>0, <1>9, <2>2 DEF Commit, Finish, Exit, TypeTask, PC, Fn
<1>10. ASSUME NEW t \in Task, WakeUpNewTask(t) PROVE TypeTask'
  BY <1>0, <1>10 DEF WakeUpNewTask, Finish, TypeTask, PC, Fn
<1>11. ASSUME NEW c \in Cred, PutCredRcu(c) PROVE TypeTask'
  BY <1>0, <1>11 DEF PutCredRcu, putRest, taskVars, TypeTask, PC, Fn
<1>12. ASSUME NEW n \in Ns, PutDetached(n) PROVE TypeTask'
  BY <1>0, <1>12 DEF PutDetached, putRest, taskVars, TypeTask, PC, Fn
<1>13. ASSUME NEW f \in File, NEW t \in Task, IdmapOpen(f, t) PROVE TypeTask'
  BY <1>0, <1>13 DEF IdmapOpen, taskVars, TypeTask, PC, Fn
<1>14. ASSUME NEW f \in File, IdmapRelease(f) PROVE TypeTask'
  BY <1>0, <1>14 DEF IdmapRelease, taskVars, TypeTask, PC, Fn
<1>15. ASSUME Worker PROVE TypeTask'
  BY <1>0, <1>15, WorkFrame DEF workRest, taskVars, TypeTask
<1>16. ASSUME Stops PROVE TypeTask'
  BY <1>0, <1>16, StopFrame DEF stopRest, taskVars, TypeTask
<1> QED BY <1>1, <1>2, <1>3, <1>4, <1>5, <1>6, <1>7, <1>8, <1>9, <1>10, <1>11, <1>12, <1>13,
           <1>14, <1>15, <1>16 DEF Next, TaskStep, Unshare, Setns, PrepareCred, Worker, Stops

\* Files, queue and worker.
LEMMA KeepTypeWork ==
  ASSUME Typed, Tasks, LiveOK, Next
  PROVE  TypeWork'
<1>0. TypeStop /\ TypeNs /\ TypeRefs /\ TypeCred /\ TypeTask /\ TypeWork
  BY TypesNow DEF TypeRest
<1>1. ASSUME NEW t \in Task, NEW h \in {"unshare", "setns", "cred"}, Prepare(t, h, NULL)
      PROVE  TypeWork'
  BY <1>0, <1>1 DEF Prepare, workVars, TypeWork
<1>2. ASSUME NEW t \in Task, NEW ch \in Task, NEW b \in BOOLEAN, Clone(t, ch, b) PROVE TypeWork'
  BY <1>0, <1>2 DEF Clone, Prepare, workVars, TypeWork
<1>3. ASSUME NEW t \in Task, NEW ch \in Task, CloneThread(t, ch) PROVE TypeWork'
  BY <1>0, <1>3 DEF CloneThread, workVars, TypeWork
<1>4. ASSUME NEW t \in Task, HookPrepareCreds(t) \/ HookCopyCreds(t) \/ HookCopyNamespaces(t)
             \/ WakeUpNewTask(t)
      PROVE  TypeWork'
  BY <1>0, <1>4 DEF HookPrepareCreds, HookCopyCreds, HookCopyNamespaces, WakeUpNewTask, Finish,
    credGetRest, workVars, TypeWork
<1>5. ASSUME NEW t \in Task, CreateBegin(t) \/ CreateAlloc(t) \/ CreateAdopt(t) \/
             CreateDone(t) \/ CreateFails(t)
      PROVE  TypeWork'
  BY <1>0, <1>5 DEF CreateBegin, CreateAlloc, CreateAdopt, CreateDone, CreateFails, workVars,
    TypeWork
<1>6. ASSUME NEW t \in Task, NEW f \in File, JoinGet(t, f) PROVE TypeWork'
  BY <1>0, <1>6 DEF JoinGet, workVars, TypeWork
<1>7. ASSUME NEW t \in Task, JoinAdopt(t) PROVE TypeWork'
  <2>1. table[new[t]] \in tracked => ref[table[new[t]]] >= 1
    <3>1. new[t] \in Cred
      BY <1>7 DEF JoinAdopt, Step, Tasks, LocalOK, Typed, TypeOK
    <3> QED BY <3>1 DEF LiveOK, Solid, Typed, TypeOK
  <2>2. queue' \in Seq(Ns)
    BY <1>7, <2>1, PutIs, PutTypes DEF JoinAdopt
  <2> QED BY <1>0, <1>7, <2>2 DEF JoinAdopt, TypeWork
<1>8. ASSUME NEW t \in Task, JoinFails(t) PROVE TypeWork'
  <2>1. obj[t] \in tracked => ref[obj[t]] >= 1
    BY DEF LiveOK, Solid, Typed, TypeOK
  <2>2. queue' \in Seq(Ns)
    BY <1>8, <2>1, PutIs, PutTypes DEF JoinFails
  <2> QED BY <1>0, <1>8, <2>2 DEF JoinFails, TypeWork
<1>9. ASSUME NEW t \in Task, Commit(t) \/ Abandon(t) \/ Exit(t) PROVE TypeWork'
  BY <1>0, <1>9 DEF Commit, Finish, Abandon, Exit, workVars, TypeWork
<1>10. ASSUME NEW c \in Cred, PutCredRcu(c) PROVE TypeWork'
  BY <1>0, <1>10 DEF PutCredRcu, putRest, TypeWork
<1>11. ASSUME NEW n \in Ns, PutDetached(n) PROVE TypeWork'
  <2>1. n \in tracked => ref[n] >= 1
    BY <1>11 DEF LiveOK, Solid, PutDetached
  <2>2. queue' \in Seq(Ns)
    BY <1>11, <2>1, PutIs, PutTypes DEF PutDetached
  <2> QED BY <1>0, <1>11, <2>2 DEF PutDetached, putRest, TypeWork
<1>12. ASSUME NEW f \in File, NEW t \in Task, IdmapOpen(f, t) PROVE TypeWork'
  <2>1. credNs[cred[t]] \in Ns \cup {InitNs, NULL}
    BY <1>0, <1>12 DEF IdmapOpen, TypeCred, TypeTask
  <2> QED BY <1>0, <1>12, <2>1 DEF IdmapOpen, workVars, TypeWork
<1>13. ASSUME NEW f \in File, IdmapRelease(f) PROVE TypeWork'
  <2>1. (file[f] \in tracked => ref[file[f]] >= 1) /\ PutQueue(file[f])
    BY <1>13 DEF LiveOK, Solid, Typed, TypeOK, IdmapRelease, PutQueue
  <2>2. queue' \in Seq(Ns)
    BY <2>1, PutTypes
  <2> QED BY <1>0, <1>13, <2>2 DEF IdmapRelease, TypeWork
<1>14. ASSUME WorkStart PROVE TypeWork'
  <2>1. Head(queue) \in Ns /\ Tail(queue) \in Seq(Ns)
    BY <1>0, <1>14 DEF WorkStart, TypeWork
  <2> QED BY <1>0, <1>14, <2>1 DEF WorkStart, workRest, TypeWork
<1>15. ASSUME FreeUserNs PROVE TypeWork'
  BY <1>0, <1>15 DEF FreeUserNs, workRest, TypeWork, TypeNs
<1>16. ASSUME WorkPins \/ WorkOwnPin \/ WorkReturn PROVE TypeWork'
  BY <1>0, <1>16 DEF WorkPins, WorkOwnPin, WorkReturn, workRest, TypeWork
<1>17. ASSUME Stops PROVE TypeWork'
  BY <1>0, <1>17, StopFrame DEF stopRest, workVars, TypeWork
<1> QED BY <1>1, <1>2, <1>3, <1>4, <1>5, <1>6, <1>7, <1>8, <1>9, <1>10, <1>11, <1>12, <1>13,
           <1>14, <1>15, <1>16, <1>17 DEF Next, TaskStep, Unshare, Setns, PrepareCred, Worker,
           Stops

\* Every step keeps the types.
LEMMA KeepTypes ==
  ASSUME Typed, Tasks, QueueOK, LiveOK, Next
  PROVE  TypeRest'
BY KeepTypeStop, KeepTypeNs, KeepTypeRefs, KeepTypeCred, KeepTypeTask, KeepTypeWork DEF TypeRest

-----------------------------------------------------------------------------
(***************************************************************************)
(* The state of the module.                                                *)
(***************************************************************************)

\* Without creators the namespaces are the live ones.
LEMMA NoneLive ==
  ASSUME Typed, CountersExact, live = 0, \A u \in Task : ~Naming(u)
  PROVE  tracked = {}
<1>1. {u \in Task : Naming(u)} = {}
  OBVIOUS
<1>2. Namers = 0
  BY <1>1, FS_EmptySet DEF Namers
<1>3. Cardinality(tracked) = 0
  BY <1>2, CountersAre
<1>4. tracked \in SUBSET Ns
  BY DEF Typed, TypeOK
<1> QED BY <1>3, <1>4, CountNat

\* There are no creators when the counter says so.
LEMMA NoneCreating ==
  ASSUME Typed, CountersExact, creating = 0
  PROVE  \A u \in Task : ~Making(u)
<1>1. Makers = 0
  BY CountersAre
<1>2. {u \in Task : Making(u)} = {}
  BY <1>1, CountNat DEF Makers
<1> QED BY <1>2

\* vns_user_ns_prepare_exit() finds nothing: there is nothing.
LEMMA ModStopPrepare ==
  ASSUME Typed, CountersExact, ModOK, StopPrepare
  PROVE  ModOK'
<1>1. \A u \in Task : ~Making(u) /\ ~Naming(u)
  BY NoneCreating DEF StopPrepare, Making, Naming
<1>2. tracked = {}
  BY <1>1, NoneLive DEF StopPrepare
<1> QED BY <1>2 DEF ModOK, StopPrepare, stopRest, nsVars, workVars, taskVars

\* The stop is committed with nothing left, unless its wait had timed out.
LEMMA ModStopCommit ==
  ASSUME Typed, CountersExact, ModOK, StopCommit
  PROVE  ModOK'
<1>1. (\A u \in Task : pc[u] = "idle") /\ \A n \in Ns : puts[n] = 0
  BY DEF StopCommit, NoHookInFlight, InHook
<1>2. live = 0 => tracked = {}
  BY <1>1, NoneLive DEF Naming
<1>3. tracked = {} => live = 0
  <2>1. ASSUME tracked = {} PROVE live = 0
    <3>1. Cardinality(tracked) = 0 /\ Namers \in Nat /\ live \in Nat
      BY <2>1, FS_EmptySet, SizesNat DEF Typed, TypeOK
    <3> QED BY <3>1, CountersAre
  <2> QED BY <2>1
<1> QED BY <1>1, <1>2, <1>3 DEF ModOK, StopCommit, stopRest, nsVars, workVars, taskVars

\* A module without references has no namespace and no work.
LEMMA ModRmmod ==
  ASSUME Typed, PinsExact, ModOK, Rmmod
  PROVE  ModOK'
<1>1. (\A u \in Task : pc[u] = "idle") /\ \A n \in Ns : puts[n] = 0
  BY DEF Rmmod, NoHookInFlight, InHook
<1>2. Objects = 0 /\ Own = 0
  <2>1. Objects \in Nat /\ Own \in Nat /\ Files \in Nat /\ freed \in Nat /\ Len(queue) \in Nat
    BY SizesNat DEF Typed, TypeOK
  <2>2. Objects + freed + Len(queue) + Own + Files = 0
    BY PinsAre DEF Rmmod
  <2> QED BY <2>1, <2>2
<1>3. heap = {}
  <2>1. heap \in SUBSET Ns
    BY DEF Typed, TypeOK
  <2> QED BY <1>2, <2>1, CountNat DEF Objects
<1>4. tracked = {} /\ wpc \in {"idle", "tail"}
  BY <1>2, <1>3 DEF Typed, TypeOK, Own
<1> QED BY <1>1, <1>4 DEF ModOK, Rmmod, stopRest, nsVars, workVars, taskVars

\* Every step keeps what is known of the module's state.
LEMMA KeepMod ==
  ASSUME Typed, Tasks, QueueOK, CountersExact, PinsExact, ModOK, LiveOK, Next
  PROVE  ModOK'
<1>1. ASSUME NEW t \in Task, NEW h \in {"unshare", "setns", "cred"}, Prepare(t, h, NULL)
      PROVE  ModOK'
  BY <1>1 DEF ModOK, Typed, TypeOK, Tasks, LocalOK, Prepare, nsVars, workVars, stopVars
<1>2. ASSUME NEW t \in Task, NEW ch \in Task, NEW b \in BOOLEAN, Clone(t, ch, b) PROVE ModOK'
  BY <1>2 DEF ModOK, Typed, TypeOK, Tasks, LocalOK, Clone, Prepare, nsVars, workVars, stopVars
<1>3. ASSUME NEW t \in Task, NEW ch \in Task, CloneThread(t, ch) PROVE ModOK'
  BY <1>3 DEF ModOK, Typed, TypeOK, Tasks, LocalOK, CloneThread, nsVars, workVars, stopVars
<1>4. ASSUME NEW t \in Task, HookPrepareCreds(t) PROVE ModOK'
  BY <1>4 DEF ModOK, Typed, TypeOK, Tasks, LocalOK, HookPrepareCreds, Step, AfterPrepare,
    credGetRest, workVars, stopVars
<1>5. ASSUME NEW t \in Task, HookCopyCreds(t) PROVE ModOK'
  BY <1>5 DEF ModOK, Typed, TypeOK, Tasks, LocalOK, HookCopyCreds, Step, Drop, credGetRest,
    workVars, stopVars
<1>6. ASSUME NEW t \in Task, HookCopyNamespaces(t) PROVE ModOK'
  BY <1>6 DEF ModOK, Typed, TypeOK, Tasks, LocalOK, HookCopyNamespaces, Step, Drop, credGetRest,
    workVars, stopVars
<1>7. ASSUME NEW t \in Task, CreateBegin(t) PROVE ModOK'
  BY <1>7 DEF ModOK, Typed, TypeOK, Tasks, LocalOK, CreateBegin, Step, Drop, nsVars, workVars,
    stopVars
<1>8. ASSUME NEW t \in Task, CreateAlloc(t) PROVE ModOK'
  BY <1>8 DEF ModOK, Typed, TypeOK, Tasks, LocalOK, CreateAlloc, Step, workVars, stopVars
<1>9. ASSUME NEW t \in Task, CreateAdopt(t) PROVE ModOK'
  BY <1>9 DEF ModOK, Typed, TypeOK, Tasks, LocalOK, CreateAdopt, Step, nsVars, workVars,
    stopVars
<1>10. ASSUME NEW t \in Task, CreateDone(t) PROVE ModOK'
  BY <1>10 DEF ModOK, Typed, TypeOK, Tasks, LocalOK, CreateDone, Step, workVars, stopVars
<1>11. ASSUME NEW t \in Task, CreateFails(t) PROVE ModOK'
  BY <1>11 DEF ModOK, Typed, TypeOK, Tasks, LocalOK, CreateFails, Drop, workVars, stopVars
<1>12. ASSUME NEW t \in Task, NEW f \in File, JoinGet(t, f) PROVE ModOK'
  BY <1>12 DEF ModOK, Typed, TypeOK, Tasks, LocalOK, JoinGet, Step, workVars, stopVars
<1>13. ASSUME NEW t \in Task, JoinAdopt(t) PROVE ModOK'
  BY <1>13 DEF ModOK, Typed, TypeOK, Tasks, LocalOK, JoinAdopt, Step, stopVars
<1>14. ASSUME NEW t \in Task, JoinFails(t) PROVE ModOK'
  BY <1>14 DEF ModOK, Typed, TypeOK, Tasks, LocalOK, JoinFails, Drop, stopVars
<1>15. ASSUME NEW t \in Task, Commit(t) PROVE ModOK'
  BY <1>15 DEF ModOK, Typed, TypeOK, Tasks, LocalOK, Commit, Finish, workVars, stopVars
<1>16. ASSUME NEW t \in Task, WakeUpNewTask(t) PROVE ModOK'
  BY <1>16 DEF ModOK, Typed, TypeOK, Tasks, LocalOK, WakeUpNewTask, Finish, workVars, stopVars
<1>17. ASSUME NEW t \in Task, Abandon(t) PROVE ModOK'
  BY <1>17 DEF ModOK, Typed, TypeOK, Tasks, LocalOK, Abandon, Drop, nsVars, workVars, stopVars
<1>18. ASSUME NEW t \in Task, Exit(t) PROVE ModOK'
  BY <1>18 DEF ModOK, Typed, TypeOK, Tasks, LocalOK, Exit, nsVars, workVars, stopVars
<1>19. ASSUME NEW c \in Cred, PutCredRcu(c) PROVE ModOK'
  BY <1>19 DEF ModOK, Typed, TypeOK, Tasks, LocalOK, PutCredRcu, putRest, stopVars, taskVars
<1>20. ASSUME NEW n \in Ns, PutDetached(n) PROVE ModOK'
  BY <1>20 DEF ModOK, Typed, TypeOK, Tasks, LocalOK, PutDetached, putRest, stopVars, taskVars
<1>21. ASSUME NEW f \in File, NEW t \in Task, IdmapOpen(f, t) PROVE ModOK'
  BY <1>21 DEF ModOK, Typed, TypeOK, Tasks, LocalOK, IdmapOpen, workVars, stopVars, taskVars
<1>22. ASSUME NEW f \in File, IdmapRelease(f) PROVE ModOK'
  BY <1>22 DEF ModOK, Typed, TypeOK, Tasks, LocalOK, IdmapRelease, stopVars, taskVars
<1>23. ASSUME WorkStart PROVE ModOK'
  <2>1. queue[1] \in tracked
    <3>1. queue \in Seq(Ns) /\ queue # <<>>
      BY <1>23 DEF WorkStart, Typed, TypeOK
    <3>2. 1 \in 1 .. Len(queue)
      BY <3>1
    <3> QED BY <3>2 DEF QueueOK
  <2> QED BY <1>23, <2>1 DEF ModOK, WorkStart, workRest, nsVars, stopVars, taskVars
<1>24. ASSUME FreeUserNs PROVE ModOK'
  BY <1>24 DEF ModOK, Typed, TypeOK, Tasks, LocalOK, QueueOK, FreeUserNs, workRest, stopVars,
    taskVars
<1>25. ASSUME WorkPins \/ WorkOwnPin \/ WorkReturn PROVE ModOK'
  BY <1>25 DEF ModOK, Typed, TypeOK, Tasks, LocalOK, WorkPins, WorkOwnPin, WorkReturn, workRest,
    nsVars, stopVars, taskVars
<1>26. ASSUME StopBegin \/ StopAbort \/ Start \/ UserNsExit PROVE ModOK'
  BY <1>26 DEF ModOK, Typed, TypeOK, Tasks, LocalOK, StopBegin, StopAbort, Start, UserNsExit,
    stopRest, nsVars, workVars, taskVars
<1>27. ASSUME StopWait PROVE ModOK'
  BY <1>27 DEF ModOK, Typed, TypeOK, Tasks, LocalOK, StopWait, NoHookInFlight, InHook, stopRest,
    nsVars, workVars, taskVars
<1>28. ASSUME StopPrepare PROVE ModOK'
  BY <1>28, ModStopPrepare
<1>29. ASSUME StopCommit PROVE ModOK'
  BY <1>29, ModStopCommit
<1>30. ASSUME Rmmod PROVE ModOK'
  BY <1>30, ModRmmod
<1> QED BY <1>1, <1>2, <1>3, <1>4, <1>5, <1>6, <1>7, <1>8, <1>9, <1>10, <1>11, <1>12, <1>13,
           <1>14, <1>15, <1>16, <1>17, <1>18, <1>19, <1>20, <1>21, <1>22, <1>23, <1>24, <1>25,
           <1>26, <1>27, <1>28, <1>29, <1>30 DEF Next, TaskStep, Unshare, Setns, PrepareCred,
           Worker, Stops

-----------------------------------------------------------------------------
(***************************************************************************)
(* The theorems.                                                           *)
(***************************************************************************)

\* The inductive invariant holds at the start: one task, one cred, nothing else.
LEMMA InitHolds == Init => IInv
<1> SUFFICES ASSUME Init PROVE IInv
  OBVIOUS
<1>1. Typed
  <2>1. /\ credNs \in [Cred -> Ns \cup {InitNs, NULL}] /\ cred \in [Task -> Cred \cup {NULL}]
    BY DEF Init
  <2>2. /\ pc \in [Task -> PC] /\ fn \in [Task -> Fn] /\ queue \in Seq(Ns)
        /\ new \in [Task -> Cred \cup {NULL}] /\ obj \in [Task -> Ns \cup {InitNs, NULL}]
        /\ child \in [Task -> Task \cup {NULL}] /\ file \in [File -> Ns \cup {InitNs, NULL}]
    BY DEF Init, PC, Fn
  <2>3. /\ ref \in [Ns -> Nat] /\ puts \in [Ns -> Nat] /\ leaked \in [Ns -> Nat]
        /\ parent \in [Ns -> Ns \cup {InitNs, NULL}] /\ table \in [Cred -> Ns \cup {NULL}]
    BY DEF Init
  <2> QED BY <2>1, <2>2, <2>3 DEF Init, Typed, TypeOK
<1>2. Tasks
  BY DEF Init, Tasks, LocalOK, ChildOK, OwnOK, CredOK
<1>3. Books
  BY DEF Init, Books, CopyOK, BirthOK, TableFresh
<1>4. QueueOK
  BY DEF Init, QueueOK
<1>5. Counts
  <2> SUFFICES ASSUME NEW n \in Ns PROVE Referrers(n) = Counted(n)
    BY DEF Counts
  <2>1. /\ {c \in Cred : Entry(c, n)} = {} /\ {m \in Ns : Kid(m, n)} = {}
        /\ {f \in File : Opened(f, n)} = {} /\ {t \in Task : Holds(t, n)} = {}
    BY DEF Init, Entry, Kid, Opened, Holds
  <2>2. Entries(n) = 0 /\ Kids(n) = 0 /\ Openings(n) = 0 /\ Holders(n) = 0
    BY <2>1, FS_EmptySet DEF Entries, Kids, Openings, Holders
  <2>3. puts[n] = 0 /\ leaked[n] = 0 /\ heap \subseteq Ns /\ Counted(n) = 0
    BY DEF Init, Counted
  <2> QED BY <2>2, <2>3, ReferrersAre
<1>6. LeaksBound
  <2> SUFFICES ASSUME NEW n \in Ns PROVE Cardinality({c \in Cred : Bare(c, n)}) <= leaked[n]
    BY DEF LeaksBound
  <2>1. {c \in Cred : Bare(c, n)} = {} /\ leaked[n] = 0
    BY DEF Init, Bare
  <2> QED BY <2>1, FS_EmptySet
<1>7. LiveExact
  <2>1. {n \in Ns : Grown(n)} = {} /\ live = 0
    BY DEF Init, Grown
  <2> QED BY <2>1, FS_EmptySet DEF LiveExact
<1>8. CountersExact
  <2>1. {u \in Task : Making(u)} = {} /\ {u \in Task : Naming(u)} = {}
    BY DEF Init, Making, Naming
  <2>2. Makers = 0 /\ Namers = 0 /\ Cardinality(tracked) = 0
    BY <2>1, FS_EmptySet DEF Makers, Namers, Init
  <2>3. live = 0 /\ creating = 0 /\ pending = 0 /\ Work = 0
    BY DEF Init, Work
  <2> QED BY <2>2, <2>3, CountersAre
<1>9. PinsExact
  <2>1. {f \in File : file[f] # NULL} = {} /\ heap = {}
    BY DEF Init
  <2>2. Objects = 0 /\ Files = 0
    BY <2>1, FS_EmptySet DEF Objects, Files
  <2>3. modrefs = 0 /\ freed = 0 /\ Len(queue) = 0 /\ Own = 0
    BY DEF Init, Own
  <2> QED BY <2>2, <2>3, PinsAre
<1>10. ModOK
  BY DEF Init, ModOK
<1> QED BY <1>1, <1>2, <1>3, <1>4, <1>5, <1>6, <1>7, <1>8, <1>9, <1>10 DEF IInv

\* Every step keeps it.
LEMMA NextHolds == IInv /\ [Next]_vars => IInv'
<1> SUFFICES ASSUME IInv, [Next]_vars PROVE IInv'
  OBVIOUS
<1>1. /\ Typed /\ Tasks /\ Books /\ QueueOK /\ Counts /\ LeaksBound
      /\ LiveExact /\ CountersExact /\ PinsExact /\ ModOK
  BY DEF IInv
<1>2. LiveOK
  BY <1>1, AllLive
<1>3. CASE Next
  <2>1. Tasks' /\ Books' /\ QueueOK'
    BY <1>1, <1>2, <1>3, KeepTasks, KeepBooks, KeepQueue
  <2>2. Counts' /\ LeaksBound' /\ ModOK'
    BY <1>1, <1>2, <1>3, KeepCounts, KeepLeaks, KeepMod
  <2>3. CountersExact' /\ LiveExact' /\ PinsExact'
    BY <1>1, <1>2, <1>3, KeepCounters
  <2>4. TypeRest'
    BY <1>1, <1>2, <1>3, KeepTypes
  <2>5. Typed'
    BY <2>3, <2>4, TypesNext
  <2> QED BY <2>1, <2>2, <2>3, <2>5 DEF IInv
<1>4. CASE UNCHANGED vars
  <2>1. UNCHANGED <<stopVars, modrefs, nsVars, creating, pending, credNs, table, rcu, puts,
                    taskVars, file, workVars, leaked>>
    BY <1>4 DEF vars
  <2>2. UNCHANGED stopRest /\ BooksSame
    BY <2>1 DEF stopRest, BooksSame, nsVars, taskVars
  <2>3. Typed'
    BY <1>1, <2>1 DEF Typed, TypeOK, stopVars, nsVars, taskVars, workVars
  <2>4. Tasks'
    BY <1>1, <2>1, SameTasks
  <2>5. Books'
    BY <1>1, <2>2, SameBook
  <2>6. QueueOK'
    BY <1>1, <2>1, SameQueue DEF QueueSame, nsVars, workVars
  <2>7. Counts'
    BY <1>1, <2>1, CountsQuiet DEF HoldSame, nsVars, taskVars
  <2>8. LeaksBound'
    BY <1>1, <2>1, LeaksSame DEF taskVars
  <2>9. CountersExact' /\ LiveExact' /\ PinsExact'
    BY <1>1, <2>1, SameBooks DEF CreateSame, nsVars, workVars, taskVars
  <2>10. ModOK'
    BY <1>1, <2>1 DEF ModOK, stopVars, nsVars, workVars, taskVars
  <2> QED BY <2>3, <2>4, <2>5, <2>6, <2>7, <2>8, <2>9, <2>10 DEF IInv
<1> QED BY <1>3, <1>4

\* Without namespaces the queue is empty.
LEMMA NothingQueued ==
  ASSUME Typed, QueueOK, tracked = {}
  PROVE  queue = <<>>
<1>1. queue \in Seq(Ns)
  BY DEF Typed, TypeOK
<1>2. CASE queue # <<>>
  <2>1. 1 \in 1 .. Len(queue)
    BY <1>1, <1>2
  <2> QED BY <2>1 DEF QueueOK
<1> QED BY <1>2

\* The inductive invariant holds throughout.
THEOREM Invariant == Spec => []IInv
BY InitHolds, NextHolds, PTL DEF Spec

\* Every variable keeps its type; in particular no count goes below zero.
THEOREM TypeCorrect == Spec => []TypeOK
<1>1. IInv => TypeOK
  BY DEF IInv, Typed
<1> QED BY <1>1, Invariant, PTL

\* Every count is what it stands for - the references of each namespace, the
\* table that backs them, the module's references and the three counters a
\* stop reads - whatever is copied, joined, created, abandoned or freed, and
\* whichever allocation fails.
THEOREM BooksCorrect == Spec => []BooksExact
<1>1. IInv => BooksExact
  <2> SUFFICES ASSUME IInv PROVE BooksExact
    OBVIOUS
  <2>1. RefsExact
    BY DEF IInv, Counts, Counted, QueueOK, Waiting, Typed, TypeOK, RefsExact
  <2> QED BY <2>1 DEF IInv, Books, BooksExact
<1> QED BY <1>1, Invariant, PTL

\* A stop that saw the hooks in flight end closes on nothing: no creation that
\* the gate exempts comes after the counters it has read, and only a stop
\* whose wait timed out can be overtaken.
THEOREM StopCorrect == Spec => []StopSeesAll
<1>1. IInv => StopSeesAll
  <2> SUFFICES ASSUME IInv PROVE StopSeesAll
    OBVIOUS
  <2>1. mod = "raced" => timedOut
    BY DEF IInv, ModOK
  <2>2. ASSUME stop = "prepared", ~timedOut PROVE tracked = {} /\ creating = 0 /\ queue = <<>>
    <3>1. tracked = {} /\ \A u \in Task : ~Making(u)
      BY <2>2 DEF IInv, ModOK, Making
    <3>2. queue = <<>>
      BY <3>1, NothingQueued DEF IInv
    <3>3. {u \in Task : Making(u)} = {}
      BY <3>1
    <3>4. creating = 0
      BY <3>3, FS_EmptySet, CountersAre DEF IInv, Makers
    <3> QED BY <3>1, <3>2, <3>4
  <2> QED BY <2>1, <2>2 DEF StopSeesAll
<1> QED BY <1>1, Invariant, PTL

\* No namespace is freed while a cred, a child namespace or a file points to
\* it, the module's memory goes only after the last namespace and work, and a
\* stop leaves nothing behind.
THEOREM MemoryCorrect == Spec => []MemorySafe
<1>1. IInv => NoDangling /\ ExitFlushes
  <2> SUFFICES ASSUME IInv PROVE NoDangling /\ ExitFlushes
    OBVIOUS
  <2>1. LiveOK
    BY AllLive DEF IInv
  <2>2. NoDangling
    BY <2>1 DEF LiveOK, Solid, NoDangling
  <2>3. ExitFlushes
    <3> SUFFICES ASSUME mod = "gone" PROVE heap = {} /\ wpc = "idle" /\ queue = <<>>
      BY DEF ExitFlushes
    <3>1. tracked = {} /\ wpc = "idle" /\ heap = tracked
      BY DEF IInv, ModOK, QueueOK
    <3> QED BY <3>1, NothingQueued DEF IInv
  <2> QED BY <2>2, <2>3
<1> QED BY <1>1, Invariant, StopCorrect, PTL DEF MemorySafe

-----------------------------------------------------------------------------
(***************************************************************************)
(* What is left when every user is gone.                                   *)
(***************************************************************************)
\* The parents form no cycle: of any namespaces one is not a parent of another.
NoCycle == \A S \in SUBSET heap : S # {} => \E n \in S : \A m \in S : parent[m] # n

\* Fewer namespaces with the parents they had form no cycle.
Shrinks == heap' \subseteq heap /\ \A m \in heap' : parent'[m] = parent[m]
LEMMA CycleShrinks ==
  ASSUME NoCycle, Shrinks
  PROVE  NoCycle'
<1> SUFFICES ASSUME NEW S \in SUBSET heap', S # {}
             PROVE  \E n \in S : \A m \in S : parent'[m] # n
  BY DEF NoCycle
<1>1. PICK n \in S : \A m \in S : parent[m] # n
  BY DEF NoCycle, Shrinks
<1>2. \A m \in S : parent'[m] = parent[m]
  BY DEF Shrinks
<1> QED BY <1>1, <1>2

\* A new namespace is nobody's parent yet.
LEMMA CycleAlloc ==
  ASSUME Typed, Tasks, QueueOK, LiveOK, NoCycle, NEW t \in Task, CreateAlloc(t)
  PROVE  NoCycle'
<1>1. PICK k \in Ns \ heap : /\ heap' = heap \cup {k}
                             /\ parent' = [parent EXCEPT ![k] = credNs[new[t]]]
  BY DEF CreateAlloc
<1>2. new[t] \in Cred
  BY DEF CreateAlloc, Step, Tasks, LocalOK, Typed, TypeOK
<1>3. \A n \in heap : parent[n] # k
  BY DEF LiveOK, Solid, QueueOK
<1>4. credNs[new[t]] # k
  BY <1>2 DEF LiveOK, Solid, QueueOK
<1>5. parent'[k] = credNs[new[t]] /\ \A n \in heap : parent'[n] = parent[n]
  BY <1>1 DEF Typed, TypeOK
<1> SUFFICES ASSUME NEW S \in SUBSET heap', S # {}
             PROVE  \E n \in S : \A m \in S : parent'[m] # n
  BY DEF NoCycle
<1>6. CASE k \in S
  <2>1. \A m \in S : parent'[m] # k
    BY <1>1, <1>3, <1>4, <1>5
  <2> QED BY <1>6, <2>1
<1>7. CASE k \notin S
  <2>1. S \in SUBSET heap
    BY <1>1, <1>7
  <2>2. PICK n \in S : \A m \in S : parent[m] # n
    BY <2>1 DEF NoCycle
  <2> QED BY <1>5, <2>1, <2>2
<1> QED BY <1>6, <1>7

\* No step closes a cycle.
LEMMA KeepCycle ==
  ASSUME Typed, Tasks, QueueOK, LiveOK, NoCycle, Next
  PROVE  NoCycle'
<1>1. ASSUME NEW t \in Task, NEW h \in {"unshare", "setns", "cred"}, Prepare(t, h, NULL)
      PROVE  Shrinks
  BY <1>1 DEF Prepare, nsVars, Shrinks
<1>2. ASSUME NEW t \in Task, NEW ch \in Task, NEW b \in BOOLEAN, Clone(t, ch, b) PROVE Shrinks
  BY <1>2 DEF Clone, Prepare, nsVars, Shrinks
<1>3. ASSUME NEW t \in Task, NEW ch \in Task, CloneThread(t, ch) PROVE Shrinks
  BY <1>3 DEF CloneThread, nsVars, Shrinks
<1>4. ASSUME NEW t \in Task, HookPrepareCreds(t) \/ HookCopyCreds(t) \/ HookCopyNamespaces(t)
             \/ WakeUpNewTask(t)
      PROVE  Shrinks
  BY <1>4 DEF HookPrepareCreds, HookCopyCreds, HookCopyNamespaces, WakeUpNewTask, Finish,
    credGetRest, Shrinks
<1>5. ASSUME NEW t \in Task, CreateBegin(t) \/ CreateAdopt(t) \/ CreateDone(t) PROVE Shrinks
  BY <1>5 DEF CreateBegin, CreateAdopt, CreateDone, nsVars, Shrinks
<1>6. ASSUME NEW t \in Task, CreateAlloc(t) PROVE NoCycle'
  BY <1>6, CycleAlloc
<1>7. ASSUME NEW t \in Task, CreateFails(t) PROVE Shrinks
  BY <1>7 DEF CreateFails, Shrinks, Typed, TypeOK
<1>8. ASSUME NEW t \in Task, NEW f \in File, JoinGet(t, f) PROVE Shrinks
  BY <1>8 DEF JoinGet, Shrinks
<1>9. ASSUME NEW t \in Task, JoinAdopt(t) \/ JoinFails(t) PROVE Shrinks
  BY <1>9 DEF JoinAdopt, JoinFails, Shrinks
<1>10. ASSUME NEW t \in Task, Commit(t) \/ Abandon(t) \/ Exit(t) PROVE Shrinks
  BY <1>10 DEF Commit, Finish, Abandon, Exit, nsVars, Shrinks
<1>11. ASSUME NEW c \in Cred, PutCredRcu(c) PROVE Shrinks
  BY <1>11 DEF PutCredRcu, putRest, Shrinks
<1>12. ASSUME NEW n \in Ns, PutDetached(n) PROVE Shrinks
  BY <1>12 DEF PutDetached, putRest, Shrinks
<1>13. ASSUME NEW f \in File, NEW t \in Task, IdmapOpen(f, t) PROVE Shrinks
  BY <1>13 DEF IdmapOpen, Shrinks
<1>14. ASSUME NEW f \in File, IdmapRelease(f) PROVE Shrinks
  BY <1>14 DEF IdmapRelease, Shrinks
<1>15. ASSUME FreeUserNs PROVE Shrinks
  BY <1>15 DEF FreeUserNs, Shrinks, Typed, TypeOK
<1>16. ASSUME WorkStart \/ WorkPins \/ WorkOwnPin \/ WorkReturn PROVE Shrinks
  BY <1>16 DEF WorkStart, WorkPins, WorkOwnPin, WorkReturn, nsVars, Shrinks
<1>17. ASSUME Stops PROVE Shrinks
  BY <1>17, StopFrame DEF stopRest, nsVars, Shrinks
<1> QED BY CycleShrinks, <1>1, <1>2, <1>3, <1>4, <1>5, <1>6, <1>7, <1>8, <1>9, <1>10, <1>11,
           <1>12, <1>13, <1>14, <1>15, <1>16, <1>17 DEF Next, TaskStep, Unshare, Setns,
           PrepareCred, Worker, Stops

\* The parents never form a cycle.
LEMMA NoCycleHolds == Spec => []NoCycle
<1>1. Init => NoCycle
  BY DEF Init, NoCycle
<1>2. IInv /\ NoCycle /\ [Next]_vars => NoCycle'
  <2> SUFFICES ASSUME IInv, NoCycle, [Next]_vars PROVE NoCycle'
    OBVIOUS
  <2>1. CASE Next
    <3>1. LiveOK
      BY AllLive DEF IInv
    <3> QED BY <2>1, <3>1, KeepCycle DEF IInv
  <2>2. CASE UNCHANGED vars
    BY <2>2, CycleShrinks DEF vars, nsVars, Shrinks
  <2> QED BY <2>1, <2>2
<1> QED BY <1>1, <1>2, Invariant, PTL DEF Spec

\* Without tasks, files, handlers, callbacks and works a namespace that is left
\* has a child or a fail-safe reference.
LEMMA LeftReferred ==
  ASSUME IInv, \A t \in Task : cred[t] = NULL, \A f \in File : file[f] = NULL,
         rcu = {}, NoHookInFlight, queue = <<>>, wpc = "idle", NEW n \in heap
  PROVE  leaked[n] > 0 \/ \E m \in heap : parent[m] = n
<1>1. n \in Ns /\ n # NULL /\ n \in tracked /\ heap \subseteq Ns
  BY DEF IInv, Typed, TypeOK, QueueOK
<1>2. \A t \in Task : pc[t] = "idle" /\ new[t] = NULL /\ obj[t] = NULL
  BY DEF IInv, NoHookInFlight, InHook, Tasks, LocalOK
<1>3. \A c \in Cred : credNs[c] = NULL
  BY <1>2 DEF IInv, Tasks, CredOK
<1>4. \A c \in Cred : table[c] = NULL
  BY <1>2, <1>3 DEF IInv, Books, TableFresh
<1>5. Entries(n) = 0
  <2>1. {c \in Cred : Entry(c, n)} = {}
    BY <1>1, <1>4 DEF Entry
  <2> QED BY <2>1, FS_EmptySet DEF Entries
<1>6. Openings(n) = 0
  <2>1. {f \in File : Opened(f, n)} = {}
    BY <1>1 DEF Opened
  <2> QED BY <2>1, FS_EmptySet DEF Openings
<1>7. Holders(n) = 0
  <2>1. {t \in Task : Holds(t, n)} = {}
    BY <1>1, <1>2 DEF Holds
  <2> QED BY <2>1, FS_EmptySet DEF Holders
<1>8. puts[n] = 0 /\ leaked[n] \in Nat /\ ref[n] \in Nat
  BY <1>1 DEF NoHookInFlight, IInv, Typed, TypeOK
<1>9. ref[n] # 0
  <2>1. cur = NULL /\ Len(queue) = 0
    BY DEF IInv, QueueOK
  <2>2. ~Waiting(n)
    BY <1>1, <2>1 DEF Waiting
  <2> QED BY <1>1, <2>2 DEF IInv, QueueOK
<1>10. Kids(n) + leaked[n] = ref[n] /\ Kids(n) \in Nat
  <2>1. Referrers(n) = ref[n]
    BY <1>1 DEF IInv, Counts, Counted
  <2>2. Kids(n) \in Nat
    BY PartsNat
  <2> QED BY <1>1, <1>5, <1>6, <1>7, <1>8, <2>1, <2>2, ReferrersAre
<1>11. CASE Kids(n) # 0
  <2>1. {m \in Ns : Kid(m, n)} # {}
    BY <1>11, FS_EmptySet DEF Kids
  <2> QED BY <2>1 DEF Kid
<1>12. CASE leaked[n] # 0
  BY <1>8, <1>12
<1> QED BY <1>8, <1>9, <1>10, <1>11, <1>12

\* No namespace outlives its users at any depth of nesting: each family of what
\* is left contains one that was given a fail-safe reference.
THEOREM DrainCorrect == Spec => []NamespacesDrain
<1>1. IInv /\ NoCycle => NamespacesDrain
  <2> SUFFICES ASSUME IInv, NoCycle,
                      \A t \in Task : cred[t] = NULL, \A f \in File : file[f] = NULL,
                      rcu = {}, NoHookInFlight, queue = <<>>, wpc = "idle",
                      NEW S \in SUBSET heap, S # {}, Family(S)
               PROVE  \E m \in S : leaked[m] > 0
    BY DEF NamespacesDrain
  <2>1. PICK n \in S : \A m \in S : parent[m] # n
    BY DEF NoCycle
  <2>2. \A m \in heap : parent[m] # n
    BY <2>1 DEF Family
  <2> QED BY <2>1, <2>2, LeftReferred
<1> QED BY <1>1, Invariant, NoCycleHolds, PTL
-----------------------------------------------------------------------------
(***************************************************************************)
(* The refinement of NamespaceService.                                     *)
(***************************************************************************)
\* The refinement mapping: the namespace task t is on, and the phase.
On(t) == IF cred[t] # NULL /\ credNs[cred[t]] \in Ns THEN credNs[cred[t]] ELSE NULL
User == [t \in Task |-> On(t)]
Phase == CASE mod = "off" \/ (mod = "raced" /\ ~timedOut) -> "stopped"
           [] mod \in {"going", "gone"} -> "removed"
           [] OTHER -> IF stop = "prepared" /\ ~timedOut THEN "closed" ELSE "open"

\* A step that changes no phase, no namespace and no task's is a stutter.
LEMMA ServiceStutter ==
  ASSUME Phase' = Phase, UNCHANGED tracked, \A u \in Task : On(u)' = On(u)
  PROVE  [Service!Next]_(Service!vars)
<1>1. User' = User
  BY DEF User
<1> QED BY <1>1 DEF Service!vars, User, On, Phase

\* So is one that leaves creds, tasks' creds and the state of the stop alone.
LEMMA ServiceSame ==
  ASSUME UNCHANGED <<stopVars, tracked, cred, credNs>>
  PROVE  [Service!Next]_(Service!vars)
<1>1. Phase' = Phase
  BY DEF Phase, stopVars
<1>2. \A u \in Task : On(u)' = On(u)
  BY DEF On
<1> QED BY <1>1, <1>2, ServiceStutter

\* A cred that no task uses yet, or any more, changes: still a stutter.
LEMMA ServiceCred ==
  ASSUME Typed, UNCHANGED <<stopVars, tracked, cred>>, NEW c \in Cred, NEW n,
         credNs' = [credNs EXCEPT ![c] = n], \A u \in Task : cred[u] # c
  PROVE  [Service!Next]_(Service!vars)
<1>1. Phase' = Phase
  BY DEF Phase, stopVars
<1>2. \A u \in Task : cred[u] # NULL => credNs'[cred[u]] = credNs[cred[u]]
  BY DEF Typed, TypeOK
<1>3. \A u \in Task : On(u)' = On(u)
  BY <1>2 DEF On
<1> QED BY <1>1, <1>3, ServiceStutter

\* A namespace leaves vns_user_ns_set: Release, since no cred names it then.
LEMMA ServiceRelease ==
  ASSUME Typed, NoDangling', NEW n, tracked' = tracked \ {n},
         UNCHANGED <<stopVars, cred, credNs>>
  PROVE  [Service!Next]_(Service!vars)
<1>1. CASE n \notin tracked
  <2>1. UNCHANGED tracked
    BY <1>1
  <2> QED BY <2>1, ServiceSame
<1>2. CASE n \in tracked
  <2>1. n \in Ns /\ n # NULL
    BY <1>2 DEF Typed, TypeOK
  <2>2. \A c \in Cred : credNs[c] # n
    BY <2>1 DEF NoDangling
  <2>3. \A u \in Task : On(u) # n
    BY <2>1, <2>2 DEF On, Typed, TypeOK
  <2>4. Service!Unused(n)
    BY <2>3 DEF Service!Unused, On
  <2>5. Service!Release(n)
    BY <1>2, <2>4 DEF Service!Release, stopVars
  <2> QED BY <2>1, <2>5 DEF Service!Next
<1> QED BY <1>1, <1>2

\* A task gets another cred, or none: Use.
LEMMA ServiceUse ==
  ASSUME Typed, NoDangling, NEW c \in Task, NEW d \in Cred \cup {NULL},
         cred' = [cred EXCEPT ![c] = d], mod = "on", UNCHANGED <<stopVars, tracked, credNs>>
  PROVE  [Service!Next]_(Service!vars)
<1>1. PICK n : n = IF d # NULL /\ credNs[d] \in Ns THEN credNs[d] ELSE NULL
  OBVIOUS
<1>2. User' = [User EXCEPT ![c] = n]
  BY <1>1 DEF User, On, Typed, TypeOK
<1>3. n \in tracked \cup {NULL} /\ n \in Ns \cup {NULL}
  BY <1>1 DEF NoDangling
<1>4. Service!Use(c, n)
  BY <1>2, <1>3 DEF Service!Use, User, On, stopVars
<1> QED BY <1>3, <1>4 DEF Service!Next

\* Every step of a task is allowed by NamespaceService: an admitted clone
\* creates its namespace before a stop that waited for it can close.
LEMMA TaskService ==
  ASSUME IInv, NoDangling, NoDangling', mod # "raced", NEW t \in Task, TaskStep(t)
  PROVE  [Service!Next]_(Service!vars)
<1>1. Typed /\ Tasks /\ QueueOK /\ ModOK /\ UNCHANGED stopVars
  BY TaskFrame DEF IInv
<1>2. ASSUME NEW h, NEW ch, Prepare(t, h, ch) PROVE [Service!Next]_(Service!vars)
  <2>1. PICK c \in Cred : credNs[c] = NULL /\ credNs' = [credNs EXCEPT ![c] = credNs[cred[t]]]
    BY <1>2 DEF Prepare
  <2>2. \A u \in Task : cred[u] # c
    BY <1>1, <2>1 DEF Tasks, CredOK
  <2>3. UNCHANGED <<tracked, cred>>
    BY <1>2 DEF Prepare, nsVars
  <2> QED BY <1>1, <2>1, <2>2, <2>3, ServiceCred
<1>3. CASE \/ Unshare(t) \/ Setns(t) \/ PrepareCred(t)
           \/ \E ch \in Task, b \in BOOLEAN : Clone(t, ch, b)
  BY <1>2, <1>3 DEF Unshare, Setns, PrepareCred, Clone
<1>4. CASE \/ \E ch \in Task : CloneThread(t, ch)
           \/ HookPrepareCreds(t) \/ HookCopyCreds(t) \/ HookCopyNamespaces(t)
           \/ CreateBegin(t) \/ CreateAdopt(t) \/ Abandon(t)
           \/ \E f \in File : JoinGet(t, f)
           \/ JoinFails(t)
  <2>1. UNCHANGED <<tracked, cred, credNs>>
    BY <1>4 DEF CloneThread, HookPrepareCreds, HookCopyCreds, HookCopyNamespaces, CreateBegin,
      CreateAdopt, Abandon, JoinGet, JoinFails, Drop, nsVars, credGetRest
  <2> QED BY <1>1, <2>1, ServiceSame
<1>5. CASE CreateAlloc(t)
  <2>1. PICK n \in Ns \ heap : tracked' = tracked \cup {n}
    BY <1>5 DEF CreateAlloc
  <2>2. n \in Ns /\ n \notin tracked
    BY <1>1, <2>1 DEF QueueOK
  <2>3. mod = "on" /\ ~(stop = "prepared" /\ ~timedOut)
    BY <1>1, <1>5 DEF CreateAlloc, Step, ModOK
  <2>4. UNCHANGED <<cred, credNs>>
    BY <1>5 DEF CreateAlloc
  <2>5. Service!Create(n)
    BY <1>1, <2>1, <2>2, <2>3, <2>4 DEF Service!Create, stopVars
  <2> QED BY <2>2, <2>5 DEF Service!Next
<1>6. CASE CreateDone(t) \/ JoinAdopt(t)
  <2>1. pc[t] \in {"done", "joining"} /\ UNCHANGED <<tracked, cred>>
        /\ credNs' = [credNs EXCEPT ![new[t]] = obj[t]]
    BY <1>6 DEF CreateDone, JoinAdopt, Step
  <2>2. new[t] \in Cred /\ \A u \in Task : cred[u] # new[t]
    BY <1>1, <2>1, Lone
  <2> QED BY <1>1, <2>1, <2>2, ServiceCred
<1>7. CASE CreateFails(t)
  <2>1. tracked' = tracked \ {obj[t]} /\ UNCHANGED <<cred, credNs>>
    BY <1>7 DEF CreateFails, Drop
  <2> QED BY <1>1, <2>1, ServiceRelease
<1>8. CASE Commit(t)
  <2>1. cred' = [cred EXCEPT ![t] = new[t]] /\ UNCHANGED <<tracked, credNs>>
    BY <1>8 DEF Commit, Finish
  <2>2. mod = "on" /\ new[t] \in Cred \cup {NULL}
    BY <1>1, <1>8 DEF Commit, ModOK, Typed, TypeOK
  <2> QED BY <1>1, <2>1, <2>2, ServiceUse
<1>9. CASE WakeUpNewTask(t)
  <2>1. cred' = [cred EXCEPT ![child[t]] = new[t]] /\ UNCHANGED <<tracked, credNs>>
    BY <1>9 DEF WakeUpNewTask, Finish
  <2>2. mod = "on" /\ new[t] \in Cred \cup {NULL} /\ child[t] \in Task
    BY <1>1, <1>9 DEF WakeUpNewTask, ModOK, Typed, TypeOK
  <2> QED BY <1>1, <2>1, <2>2, ServiceUse
<1>10. CASE Exit(t)
  <2>1. cred' = [cred EXCEPT ![t] = NULL] /\ UNCHANGED <<tracked, credNs>>
    BY <1>10 DEF Exit, nsVars
  <2>2. CASE mod = "on"
    BY <1>1, <2>1, <2>2, ServiceUse
  <2>3. CASE mod # "on"
    <3>1. tracked = {}
      BY <1>1, <2>3 DEF ModOK, Typed, TypeOK
    <3>2. \A u \in Task : On(u) = NULL /\ On(u)' = NULL
      BY <1>1, <2>1, <3>1 DEF On, NoDangling, Typed, TypeOK
    <3>3. Phase' = Phase
      BY <1>1 DEF Phase, stopVars
    <3> QED BY <2>1, <3>2, <3>3, ServiceStutter
  <2> QED BY <2>2, <2>3
<1> QED BY <1>3, <1>4, <1>5, <1>6, <1>7, <1>8, <1>9, <1>10 DEF TaskStep

\* RCU callbacks, files and the worker: creds that nobody uses go, and the
\* worker frees what no cred names.
LEMMA PutService ==
  ASSUME IInv, NoDangling',
         \/ \E c \in Cred : PutCredRcu(c)
         \/ \E n \in Ns : PutDetached(n)
         \/ \E f \in File, t \in Task : IdmapOpen(f, t)
         \/ \E f \in File : IdmapRelease(f)
         \/ Worker
  PROVE  [Service!Next]_(Service!vars)
<1>1. Typed /\ Tasks
  BY DEF IInv
<1>2. ASSUME NEW c \in Cred, PutCredRcu(c) PROVE [Service!Next]_(Service!vars)
  <2>1. credNs' = [credNs EXCEPT ![c] = NULL] /\ UNCHANGED <<stopVars, tracked, cred>>
    BY <1>2 DEF PutCredRcu, putRest, taskVars
  <2>2. \A u \in Task : cred[u] # c
    BY <1>1, <1>2 DEF PutCredRcu, Tasks, CredOK
  <2> QED BY <1>1, <2>1, <2>2, ServiceCred
<1>3. CASE \/ \E n \in Ns : PutDetached(n)
           \/ \E f \in File, t \in Task : IdmapOpen(f, t)
           \/ \E f \in File : IdmapRelease(f)
           \/ WorkStart \/ WorkPins \/ WorkOwnPin \/ WorkReturn
  <2>1. UNCHANGED <<stopVars, tracked, cred, credNs>>
    BY <1>3 DEF PutDetached, putRest, IdmapOpen, IdmapRelease, WorkStart, WorkPins, WorkOwnPin,
      WorkReturn, workRest, nsVars, taskVars
  <2> QED BY <2>1, ServiceSame
<1>4. CASE FreeUserNs
  <2>1. tracked' = tracked \ {cur} /\ UNCHANGED <<stopVars, cred, credNs>>
    BY <1>4 DEF FreeUserNs, workRest, taskVars
  <2> QED BY <1>1, <2>1, ServiceRelease
<1> QED BY <1>2, <1>3, <1>4 DEF Worker

\* Stop, start and module exit are those of the abstract service; a stop whose
\* wait timed out and that was overtaken has closed nothing.
LEMMA StopService ==
  ASSUME IInv, ModOK', Stops
  PROVE  [Service!Next]_(Service!vars)
<1>1. UNCHANGED <<tracked, cred, credNs>> /\ ModOK /\ Typed
  BY StopFrame DEF stopRest, nsVars, taskVars, IInv
<1>2. \A u \in Task : On(u)' = On(u)
  BY <1>1 DEF On
<1>3. CASE StopBegin \/ StopWait \/ UserNsExit
  <2>1. Phase' = Phase
    BY <1>1, <1>3 DEF StopBegin, StopWait, UserNsExit, Phase, ModOK
  <2> QED BY <1>1, <1>2, <2>1, ServiceStutter
<1>4. CASE StopPrepare
  <2>1. CASE timedOut
    <3>1. Phase' = Phase
      BY <1>4, <2>1 DEF StopPrepare, Phase
    <3> QED BY <1>1, <1>2, <3>1, ServiceStutter
  <2>2. CASE ~timedOut
    <3>1. mod = "on"
      BY <1>1, <1>4 DEF StopPrepare, ModOK
    <3>2. Service!Close
      BY <1>1, <1>4, <2>2, <3>1 DEF StopPrepare, Service!Close
    <3> QED BY <3>2 DEF Service!Next
  <2> QED BY <2>1, <2>2
<1>5. CASE StopCommit
  <2>1. mod = "on"
    BY <1>1, <1>5 DEF StopCommit, ModOK
  <2>2. CASE live = 0
    <3>1. mod' = "off" /\ tracked = {}
      BY <1>1, <1>5, <2>2 DEF StopCommit, ModOK
    <3>2. Service!Stop
      BY <1>1, <2>1, <3>1 DEF Service!Stop
    <3> QED BY <3>2 DEF Service!Next
  <2>3. CASE live # 0
    <3>1. mod' = "raced" /\ stop' = "idle" /\ timedOut /\ timedOut'
      BY <1>5, <2>3 DEF StopCommit, ModOK
    <3>2. Phase' = Phase
      BY <2>1, <3>1 DEF Phase
    <3> QED BY <1>1, <1>2, <3>2, ServiceStutter
  <2> QED BY <2>2, <2>3
<1>6. CASE StopAbort
  <2>1. mod = "on" /\ mod' = "on" /\ stop' = "idle"
    BY <1>1, <1>6 DEF StopAbort, ModOK
  <2>2. CASE stop = "prepared" /\ ~timedOut
    <3>1. Service!Reopen
      BY <1>1, <2>1, <2>2 DEF Service!Reopen
    <3> QED BY <3>1 DEF Service!Next
  <2>3. CASE ~(stop = "prepared" /\ ~timedOut)
    <3>1. Phase' = Phase
      BY <2>1, <2>3 DEF Phase
    <3> QED BY <1>1, <1>2, <3>1, ServiceStutter
  <2> QED BY <2>2, <2>3
<1>7. CASE Start
  <2>1. Service!Start
    BY <1>1, <1>7 DEF Start, ModOK, Service!Start
  <2> QED BY <2>1 DEF Service!Next
<1>8. CASE Rmmod
  <2>1. mod' = "going" /\ tracked = {}
    BY <1>1, <1>8 DEF Rmmod, ModOK
  <2>2. Service!Remove
    BY <1>1, <1>8, <2>1 DEF Rmmod, Service!Remove
  <2> QED BY <2>2 DEF Service!Next
<1> QED BY <1>3, <1>4, <1>5, <1>6, <1>7, <1>8 DEF Stops

\* THE SERVICE.  For any numbers of tasks, creds, namespaces and files, the
\* table of creds, the counts and the workqueue implement NamespaceService: a
\* task is never on a freed user namespace, none is created after a stop that
\* waited has read its counters, and the hooks or the memory of the module go
\* only with every namespace.
THEOREM ServiceRefinement == Spec => ImplementsService
<1>1. Init => Service!Init
  BY DEF Init, Service!Init
<1>2. IInv => NoDangling
  <2>1. IInv => LiveOK
    BY AllLive DEF IInv
  <2> QED BY <2>1 DEF LiveOK, Solid, NoDangling
<1>3. IInv' => NoDangling'
  BY <1>2, PTL
<1>4. IInv /\ IInv' /\ [Next]_vars => [Service!Next]_(Service!vars)
  <2> SUFFICES ASSUME IInv, IInv', [Next]_vars
               PROVE  [Service!Next]_(Service!vars)
    OBVIOUS
  <2>1. CASE Stops
    BY <2>1, StopService DEF IInv
  <2>2. CASE mod # "raced" /\ \E t \in Task : TaskStep(t)
    BY <1>2, <1>3, <2>2, TaskService
  <2>3. CASE UNCHANGED vars
    BY <2>3, ServiceSame DEF vars, nsVars, taskVars
  <2> QED BY <1>3, <2>1, <2>2, <2>3, PutService DEF Next, Stops
<1> QED BY <1>1, <1>4, Invariant, PTL DEF Spec, ImplementsService, Service!Spec
=============================================================================
