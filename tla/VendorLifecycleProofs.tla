----------------------- MODULE VendorLifecycleProofs -----------------------
(***************************************************************************)
(* Proofs about starting and stopping the subsystem, for any number of     *)
(* tasks and inodes.                                                       *)
(*                                                                         *)
(* Part 1 needs no assumption: types, the module references of inodes, and *)
(* that an inode pins the module.  Part 2, for a module whose first        *)
(* vendor_kernel_init() does not fail: what the guards of a stop found     *)
(* absent stays absent, and every start and stop ends cleanly.             *)
(***************************************************************************)
EXTENDS VendorLifecycle, FiniteSetTheorems, TLAPS

USE InodeAssumption, BoundAssumption

-----------------------------------------------------------------------------
(***************************************************************************)
(* The inductive invariants.                                               *)
(***************************************************************************)
\* What a call in flight is about, and what it knows of that inode.
ArgOK ==
  \A t \in Task :
    /\ pc[t] \in {"path", "gotpath"} => arg[t] \in Nsfs
    /\ pc[t] \in {"lookup", "instantiated"} => arg[t] \in Proc
    /\ pc[t] \in {"evict", "evicted"} => arg[t] \in Inode
    /\ pc[t] \in {"idle", "unshare", "exit", "creds"} => arg[t] = NoInode
InoKnown ==
  \A t \in Task :
    /\ pc[t] \in {"gotpath", "instantiated"} => ino[arg[t]] = "live"
    /\ pc[t] = "lookup" => ino[arg[t]] = "none"
    /\ pc[t] = "evict" => ino[arg[t]] = "evicting"
    /\ pc[t] = "evicted" => ino[arg[t]] = "dead"

\* Two calls share an inode only while one of them still waits for the lock.
Alone ==
  \A t, u \in Task :
    arg[t] = arg[u] /\ arg[t] # NoInode => t = u \/ pc[t] = "path" \/ pc[u] = "path"

\* vns_nsfs_lifecycle_lock is a lock.
OneLocked == \A t, u \in Task : pc[t] = "gotpath" /\ pc[u] = "gotpath" => t = u

\* Every exit hook in flight releases a proxy of its own.
ExitsBacked == Cardinality({t \in Task : pc[t] = "exit"}) <= live

PinInv ==
  /\ TypeOK /\ ArgOK /\ InoKnown /\ Alone /\ OneLocked
  /\ ExitsBacked /\ RefsBacked /\ PinnedWhileLive

\* Part 2 goes by where the sequencer is.
Quiet == {"cancel", "remove", "wait", "cleanup"} \cup GuardSet
Drained == {"procpins", "nsfspins", "sysv", "mqueue", "detach", "remove", "wait",
            "cleanup"}
Removing == {"remove", "wait", "cleanup"}

\* A subsystem that was stopped, up to its next start.
Dormant == seq \in {"off", "init"} /\ ~first

\* Which flags are up where.
GatesKnown ==
  /\ first => seq \in {"off", "init", "open"}
  /\ gate <=> (seq # "on" /\ ~first)
  /\ seq = "on" => ~ugate
  /\ quiescing <=> seq \in Quiet
  /\ stopping => \/ seq \in {"preflight", "quiesce"} \cup Quiet
                 \/ seq \in {"off", "init"} /\ "nsfs" \notin hooks /\ ~first
  /\ seq \in {"preflight", "quiesce"} \cup Quiet => stopping
  /\ seq \in {"on", "live", "nsfs", "preflight", "quiesce"} => ~dev_stopping
  /\ seq = "off" => work = "idle"
  /\ first /\ seq = "off" => hooks = {}

\* Which hooks are installed where.
HooksKnown ==
  /\ "core" \in hooks => {"exit", "nsfs"} \subseteq hooks
  /\ seq = "off" => hooks = {}
  /\ seq = "init" => hooks \subseteq RequiredSet
  /\ seq \in {"open", "on"} \cup (Stop \ Removing) => RequiredSet \subseteq hooks
  /\ seq \in {"wait", "cleanup"} => hooks = {}

\* Which objects and which calls there can be where.
CallsKnown ==
  \A t \in Task :
    /\ pc[t] = "gotpath" => ~stopping
    /\ pc[t] \in {"unshare", "lookup", "instantiated"} => seq \notin Drained
    /\ pc[t] \notin {"idle", "unshare", "creds"} => ~Dormant
    /\ pc[t] = "unshare" /\ first => "core" \in hooks
    /\ pc[t] = "path" /\ first => "nsfs" \in hooks
    /\ pc[t] = "path" /\ arg[t] \in InitPid => ops
    /\ pc[t] \in {"lookup", "instantiated"} => "procevict" \in hooks
    /\ seq = "cleanup" => pc[t] = "idle"
LiveKnown ==
  live > 0 => \/ seq \in {"on", "live", "nsfs", "preflight"}
              \/ first /\ "core" \in hooks
Unpinned(k) == kept[k] = 0 /\ \A i \in pins : Kind(i) # k
ObjectsKnown ==
  /\ Dormant \/ seq \in Removing => Unpinned("proc") /\ Unpinned("nsfs") /\ ~ops
  /\ seq \in {"nsfspins", "sysv", "mqueue", "detach"} => Unpinned("proc")
  /\ seq \in {"sysv", "mqueue", "detach"} => Unpinned("nsfs")
  /\ seq \in {"detach"} \cup Removing => mq_stopping /\ mq = 0
StopInv ==
  /\ PinInv /\ GatesKnown /\ HooksKnown /\ CallsKnown /\ LiveKnown
  /\ ObjectsKnown /\ ObjectsHeld

-----------------------------------------------------------------------------
(***************************************************************************)
(* The orders of the sequencer.                                            *)
(***************************************************************************)
\* The sets behind the three orders.
LEMMA Orders ==
  /\ GuardSet = {"drain", "procpins", "nsfspins", "sysv", "mqueue", "detach"}
  /\ RequiredSet = {"overlay", "nsfs", "exit", "core", "ipc"}
  /\ Group = {"overlay", "userns", "procfs", "procevict", "ipc", "core", "exit", "nsfs"}
<1>1. DOMAIN Guards = {1, 2, 3, 4, 5, 6}
  BY DEF Guards
<1>2. DOMAIN Required = {1, 2, 3, 4, 5}
  BY DEF Required
<1>3. DOMAIN RemoveOrder = {1, 2, 3, 4, 5, 6, 7, 8}
  BY DEF RemoveOrder
<1>4. GuardSet = {Guards[k] : k \in {1, 2, 3, 4, 5, 6}}
  BY <1>1 DEF GuardSet
<1>5. RequiredSet = {Required[k] : k \in {1, 2, 3, 4, 5}}
  BY <1>2 DEF RequiredSet
<1>6. Group = {RemoveOrder[k] : k \in {1, 2, 3, 4, 5, 6, 7, 8}}
  BY <1>3 DEF Group
<1>7. GuardSet = {"drain", "procpins", "nsfspins", "sysv", "mqueue", "detach"}
  BY <1>4 DEF Guards
<1>8. RequiredSet = {"overlay", "nsfs", "exit", "core", "ipc"}
  BY <1>5 DEF Required
<1>9. Group = {"overlay", "userns", "procfs", "procevict", "ipc", "core", "exit", "nsfs"}
  BY <1>6 DEF RemoveOrder
<1> QED BY <1>7, <1>8, <1>9

\* The next required group, in the order of bringing up.
LEMMA NextRequired ==
  ASSUME InitNext
  PROVE  \E g \in RequiredSet :
           /\ g \notin hooks /\ hooks' = hooks \cup {g}
           /\ g = "core" => {"exit", "nsfs"} \subseteq hooks
           /\ OverlayInit(g) /\ NsfsInit(g)
<1>1. PICK k \in DOMAIN Required :
        /\ Required[k] \notin hooks
        /\ \A j \in 1 .. k - 1 : Required[j] \in hooks
        /\ hooks' = hooks \cup {Required[k]}
        /\ OverlayInit(Required[k]) /\ NsfsInit(Required[k])
  BY DEF InitNext
<1>2. DOMAIN Required = {1, 2, 3, 4, 5}
  BY DEF Required
<1>3. Required[k] \in RequiredSet
  BY DEF RequiredSet
<1>4. Required[k] = "core" => k = 4
  BY <1>2 DEF Required
<1>5. Required[2] = "nsfs" /\ Required[3] = "exit"
  BY DEF Required
<1>6. Required[k] = "core" => Required[2] \in hooks /\ Required[3] \in hooks
  BY <1>1, <1>4
<1> QED BY <1>1, <1>3, <1>5, <1>6

\* The next group to be removed; "nsfs" is the last one.
LEMMA NextRemoved ==
  ASSUME StopRemove
  PROVE  \E g \in Group :
           /\ g \in hooks
           /\ hooks' = IF g = "nsfs" THEN NsfsExit(hooks) ELSE hooks \ {g}
           /\ seq' = IF g = "nsfs" THEN "wait" ELSE "remove"
           /\ OverlayExit(g)
           /\ g \in {"exit", "nsfs"} => "core" \notin hooks
           /\ g = "nsfs" => hooks \cap Group = {"nsfs"}
<1>1. PICK k \in DOMAIN RemoveOrder :
       LET g == RemoveOrder[k] IN
       /\ g \in hooks
       /\ \A j \in 1 .. k - 1 : RemoveOrder[j] \notin hooks
       /\ hooks' = IF g = "nsfs" THEN NsfsExit(hooks) ELSE hooks \ {g}
       /\ OverlayExit(g)
       /\ seq' = IF g = "nsfs" THEN "wait" ELSE seq
  BY DEF StopRemove
<1>2. DOMAIN RemoveOrder = {1, 2, 3, 4, 5, 6, 7, 8}
  BY DEF RemoveOrder
<1>3. RemoveOrder[k] \in Group
  BY DEF Group
<1>4. /\ RemoveOrder[k] = "nsfs" => k = 8
      /\ RemoveOrder[k] = "exit" => k = 7
      /\ RemoveOrder[6] = "core"
  BY <1>2 DEF RemoveOrder
<1>5. RemoveOrder[k] \in {"exit", "nsfs"} => "core" \notin hooks
  BY <1>1, <1>4
<1>6. RemoveOrder[k] = "nsfs" => hooks \cap Group = {"nsfs"}
  <2>1. SUFFICES ASSUME RemoveOrder[k] = "nsfs", NEW g \in hooks \cap Group
                 PROVE  g = "nsfs"
    BY <1>1, <1>3
  <2>2. PICK j \in {1, 2, 3, 4, 5, 6, 7, 8} : g = RemoveOrder[j]
    BY <1>2 DEF Group
  <2>3. j \notin 1 .. 7
    BY <1>1, <1>4, <2>1, <2>2
  <2> QED BY <2>1, <2>2, <2>3, <1>4
<1>7. seq = "remove"
  BY DEF StopRemove
<1> QED BY <1>1, <1>3, <1>5, <1>6, <1>7

\* The guards in their order, each with what it found and what it did.
LEMMA NextGuard ==
  ASSUME StopGuard
  PROVE  \/ seq = "drain" /\ inflight = 0 /\ seq' = "procpins"
         \/ seq = "procpins" /\ ProcfsIdle /\ seq' = "nsfspins"
         \/ seq = "nsfspins" /\ NsfsIdle /\ seq' = "sysv"
         \/ seq = "sysv" /\ seq' = "mqueue"
         \/ seq = "mqueue" /\ MqueueIdle /\ seq' = "detach"
         \/ seq = "detach" /\ MayDetach /\ seq' = "remove"
<1>1. PICK k \in DOMAIN Guards :
       /\ seq = Guards[k] /\ GuardPasses(seq)
       /\ seq' = IF k < Len(Guards) THEN Guards[k + 1] ELSE "remove"
  BY DEF StopGuard
<1>2. DOMAIN Guards = {1, 2, 3, 4, 5, 6} /\ Len(Guards) = 6
  BY DEF Guards
<1>3. /\ Guards[1] = "drain" /\ Guards[2] = "procpins" /\ Guards[3] = "nsfspins"
      /\ Guards[4] = "sysv" /\ Guards[5] = "mqueue" /\ Guards[6] = "detach"
  BY DEF Guards
<1>4. \/ seq = "drain" /\ seq' = "procpins"
      \/ seq = "procpins" /\ seq' = "nsfspins"
      \/ seq = "nsfspins" /\ seq' = "sysv"
      \/ seq = "sysv" /\ seq' = "mqueue"
      \/ seq = "mqueue" /\ seq' = "detach"
      \/ seq = "detach" /\ seq' = "remove"
  BY <1>1, <1>2, <1>3
<1> QED BY <1>1, <1>4 DEF GuardPasses

\* What lies behind each guard.
LEMMA PastIs ==
  /\ Past("drain") <=> seq \in {"procpins", "nsfspins", "sysv", "mqueue", "detach",
                                "remove", "wait", "cleanup"}
  /\ Past("procpins") <=> seq \in {"nsfspins", "sysv", "mqueue", "detach",
                                   "remove", "wait", "cleanup"}
  /\ Past("nsfspins") <=> seq \in {"sysv", "mqueue", "detach", "remove", "wait",
                                   "cleanup"}
  /\ Past("mqueue") <=> seq \in {"detach", "remove", "wait", "cleanup"}
  /\ Past("detach") <=> seq \in {"remove", "wait", "cleanup"}
<1>1. DOMAIN Guards = {1, 2, 3, 4, 5, 6}
  BY DEF Guards
<1>2. /\ Guards[1] = "drain" /\ Guards[2] = "procpins" /\ Guards[3] = "nsfspins"
      /\ Guards[4] = "sysv" /\ Guards[5] = "mqueue" /\ Guards[6] = "detach"
  BY DEF Guards
<1> QED BY <1>1, <1>2 DEF Past

-----------------------------------------------------------------------------
(***************************************************************************)
(* Counting calls and pins.                                                *)
(***************************************************************************)
\* The tasks whose call is at one of the places of S.
In(f, S) == {t \in Task : f[t] \in S}

\* They are finitely many.
LEMMA InFinite ==
  ASSUME NEW f, NEW S
  PROVE  IsFiniteSet(In(f, S)) /\ Cardinality(In(f, S)) \in Nat
BY FS_Subset, FS_CardinalityType DEF In

\* One call moves: the count of S grows by one, shrinks by one, or stays.
LEMMA InMove ==
  ASSUME NEW t \in Task, NEW to, NEW S, pc \in [Task -> PC],
         pc' = [pc EXCEPT ![t] = to]
  PROVE  /\ pc[t] \notin S /\ to \in S =>
              Cardinality(In(pc', S)) = Cardinality(In(pc, S)) + 1
         /\ pc[t] \in S /\ to \notin S =>
              Cardinality(In(pc', S)) = Cardinality(In(pc, S)) - 1
         /\ (pc[t] \in S <=> to \in S) =>
              Cardinality(In(pc', S)) = Cardinality(In(pc, S))
<1>1. CASE pc[t] \notin S /\ to \in S
  <2>1. In(pc', S) = In(pc, S) \cup {t} /\ t \notin In(pc, S)
    BY <1>1 DEF In
  <2> QED BY <1>1, <2>1, InFinite, FS_AddElement
<1>2. CASE pc[t] \in S /\ to \notin S
  <2>1. In(pc', S) = In(pc, S) \ {t} /\ t \in In(pc, S)
    BY <1>2 DEF In
  <2> QED BY <1>2, <2>1, InFinite, FS_RemoveElement
<1>3. CASE pc[t] \in S <=> to \in S
  <2>1. In(pc', S) = In(pc, S)
    BY <1>3 DEF In
  <2> QED BY <1>3, <2>1
<1> QED BY <1>1, <1>2, <1>3

\* No call is in flight when the in-flight count is zero.
LEMMA NoneInFlight ==
  ASSUME inflight = 0, NEW t \in Task
  PROVE  pc[t] = "idle"
<1> DEFINE F == {u \in Task : pc[u] # "idle"}
<1>1. IsFiniteSet(F)
  BY FS_Subset
<1>2. F = {}
  BY <1>1, FS_EmptySet DEF inflight
<1> QED BY <1>2

\* A pin count of zero means no record and no fail-safe pin of that kind.
LEMMA NoPins ==
  ASSUME TypeOK, NEW k \in {"nsfs", "proc"}
  PROVE  PinCount(k) = 0 <=> Unpinned(k)
<1> DEFINE P == {i \in pins : Kind(i) = k}
<1>1. IsFiniteSet(Inode)
  BY FS_Union DEF Inode
<1>2. IsFiniteSet(P) /\ Cardinality(P) \in Nat
  BY <1>1, FS_Subset, FS_CardinalityType DEF TypeOK
<1>3. kept[k] \in Nat
  BY DEF TypeOK
<1>4. \A x, y \in Nat : x + y = 0 <=> x = 0 /\ y = 0
  OBVIOUS
<1>5. PinCount(k) = 0 <=> Cardinality(P) = 0 /\ kept[k] = 0
  BY <1>2, <1>3, <1>4 DEF PinCount
<1>6. Cardinality(P) = 0 <=> P = {}
  BY <1>2, FS_EmptySet
<1> QED BY <1>5, <1>6 DEF Unpinned

-----------------------------------------------------------------------------
(***************************************************************************)
(* Part 1. Module references.                                              *)
(***************************************************************************)
\* The calls that hold a reference for an inode they have yet to pin, and the
\* calls about to release a proxy.
Pinners == {"gotpath", "instantiated"}
CountPinning == Cardinality({t \in Task : Pinning(t)})
CountExits == Cardinality({t \in Task : pc[t] = "exit"})

\* Both counts follow one call that moves.
LEMMA CountsMove ==
  ASSUME NEW t \in Task, NEW to, pc \in [Task -> PC],
         pc' = [pc EXCEPT ![t] = to]
  PROVE  /\ CountPinning \in Nat /\ CountPinning' \in Nat
         /\ CountExits \in Nat /\ CountExits' \in Nat
         /\ pc[t] \notin Pinners /\ to \in Pinners => CountPinning' = CountPinning + 1
         /\ pc[t] \in Pinners /\ to \notin Pinners => CountPinning' = CountPinning - 1
         /\ pc[t] \notin Pinners /\ to \notin Pinners => CountPinning' = CountPinning
         /\ pc[t] # "exit" /\ to = "exit" => CountExits' = CountExits + 1
         /\ pc[t] = "exit" /\ to # "exit" => CountExits' = CountExits - 1
         /\ pc[t] # "exit" /\ to # "exit" => CountExits' = CountExits
<1>1. /\ CountPinning = Cardinality(In(pc, Pinners))
      /\ CountPinning' = Cardinality(In(pc', Pinners))
  BY DEF CountPinning, Pinning, Pinners, In
<1>2. /\ CountExits = Cardinality(In(pc, {"exit"}))
      /\ CountExits' = Cardinality(In(pc', {"exit"}))
  BY DEF CountExits, In
<1>3. /\ CountPinning \in Nat /\ CountPinning' \in Nat
      /\ CountExits \in Nat /\ CountExits' \in Nat
  BY <1>1, <1>2, InFinite
<1>4. /\ pc[t] \notin Pinners /\ to \in Pinners => CountPinning' = CountPinning + 1
      /\ pc[t] \in Pinners /\ to \notin Pinners => CountPinning' = CountPinning - 1
      /\ pc[t] \notin Pinners /\ to \notin Pinners => CountPinning' = CountPinning
  BY <1>1, InMove
<1>5. /\ pc[t] \notin {"exit"} /\ to \in {"exit"} => CountExits' = CountExits + 1
      /\ pc[t] \in {"exit"} /\ to \notin {"exit"} => CountExits' = CountExits - 1
      /\ pc[t] \notin {"exit"} /\ to \notin {"exit"} => CountExits' = CountExits
  BY <1>2, InMove
<1> QED BY <1>3, <1>4, <1>5

\* Pin records come and go one at a time.
LEMMA PinsMove ==
  ASSUME TypeOK, NEW i \in Inode
  PROVE  /\ Cardinality(pins) \in Nat
         /\ i \notin pins => Cardinality(pins \cup {i}) = Cardinality(pins) + 1
         /\ i \in pins => /\ Cardinality(pins \ {i}) = Cardinality(pins) - 1
                          /\ Cardinality(pins \ {i}) \in Nat
<1>1. IsFiniteSet(pins)
  BY FS_Union, FS_Subset DEF TypeOK, Inode
<1>2. Cardinality(pins) \in Nat
  BY <1>1, FS_CardinalityType
<1>3. i \in pins => Cardinality(pins \ {i}) = Cardinality(pins) - 1
  BY <1>1, FS_RemoveElement
<1>4. Cardinality(pins \ {i}) \in Nat
  BY <1>1, FS_Subset, FS_CardinalityType
<1>5. i \notin pins => Cardinality(pins \cup {i}) = Cardinality(pins) + 1
  BY <1>1, FS_AddElement
<1> QED BY <1>2, <1>3, <1>4, <1>5

\* RefsBacked and ExitsBacked in terms of the two counts.
LEMMA CountsAre ==
  /\ ExitsBacked <=> CountExits <= live
  /\ ExitsBacked' <=> CountExits' <= live'
  /\ RefsBacked <=>
       refs = Cardinality(pins) + kept["nsfs"] + kept["proc"] + CountPinning
  /\ RefsBacked' <=>
       refs' = Cardinality(pins') + kept'["nsfs"] + kept'["proc"] + CountPinning'
BY DEF ExitsBacked, RefsBacked, CountPinning, CountExits

\* A call that moves without taking or giving back anything keeps the books.
LEMMA BooksKept ==
  ASSUME TypeOK, ExitsBacked, RefsBacked, NEW t \in Task, NEW to,
         pc' = [pc EXCEPT ![t] = to],
         pc[t] \notin Pinners \cup {"exit"}, to \notin Pinners \cup {"exit"},
         live' \in {live, live + 1}, UNCHANGED <<pins, kept, refs>>
  PROVE  (ExitsBacked /\ RefsBacked)'
<1>1. CountPinning' = CountPinning /\ CountExits' = CountExits /\ CountExits \in Nat
  BY CountsMove DEF TypeOK
<1>2. RefsBacked'
  BY <1>1, CountsAre
<1>3. live \in Nat
  BY DEF TypeOK
<1>4. CountExits' <= live'
  BY <1>1, <1>3, CountsAre
<1> QED BY <1>2, <1>4, CountsAre

\* An exit hook is entered for a proxy of its own, and releases it.
LEMMA BooksExit ==
  ASSUME TypeOK, ExitsBacked, RefsBacked, NEW t \in Task,
         ExitEnter(t) \/ Exit(t)
  PROVE  (ExitsBacked /\ RefsBacked)' /\ live' \in 0 .. MaxLive
<1>0. live \in 0 .. MaxLive /\ pc \in [Task -> PC]
  BY DEF TypeOK
<1>1. CASE ExitEnter(t)
  <2>1. /\ pc' = [pc EXCEPT ![t] = "exit"] /\ pc[t] = "idle" /\ live > CountExits
        /\ UNCHANGED <<live, pins, kept, refs>>
    BY <1>1 DEF ExitEnter, Enter, CountExits, inoVars
  <2>2. CountPinning' = CountPinning
    <3>1. pc[t] \notin Pinners /\ "exit" \notin Pinners
      BY <2>1 DEF Pinners
    <3> QED BY <1>0, <2>1, <3>1, CountsMove
  <2>3. CountExits' = CountExits + 1 /\ CountExits \in Nat
    BY <1>0, <2>1, CountsMove
  <2>4. RefsBacked'
    BY <2>1, <2>2, CountsAre
  <2>5. CountExits' <= live'
    BY <1>0, <2>1, <2>3
  <2> QED BY <1>0, <2>1, <2>4, <2>5, CountsAre
<1>2. CASE Exit(t)
  <2>1. /\ pc' = [pc EXCEPT ![t] = "idle"] /\ pc[t] = "exit" /\ live' = live - 1
        /\ UNCHANGED <<pins, kept, refs>>
    BY <1>2 DEF Exit, Leave, inoVars
  <2>2. pc' = [pc EXCEPT ![t] = "idle"] /\ pc[t] \notin Pinners /\ "idle" \notin Pinners
    BY <2>1 DEF Pinners
  <2>3. /\ CountExits' = CountExits - 1 /\ CountExits \in Nat /\ CountExits' \in Nat
        /\ CountPinning' = CountPinning
    BY <1>0, <2>1, <2>2, CountsMove
  <2>4. RefsBacked'
    BY <2>1, <2>3, CountsAre
  <2>5. CountExits <= live
    BY CountsAre
  <2>6. CountExits' <= live' /\ live' \in 0 .. MaxLive
    BY <1>0, <2>1, <2>3, <2>5
  <2> QED BY <2>4, <2>6, CountsAre
<1> QED BY <1>1, <1>2

\* A call takes a reference for an inode before it pins it.
LEMMA BooksGet ==
  ASSUME TypeOK, ExitsBacked, RefsBacked, NEW t \in Task,
         PathAcquire(t) \/ Instantiate(t)
  PROVE  (ExitsBacked /\ RefsBacked)' /\ refs' \in Nat
<1>0. refs \in Nat /\ pc \in [Task -> PC]
  BY DEF TypeOK
<1>1. PICK to \in Pinners : pc' = [pc EXCEPT ![t] = to]
  BY DEF PathAcquire, Instantiate, Move, Pinners
<1>2. /\ pc[t] \notin Pinners \cup {"exit"} /\ refs' = refs + 1
      /\ UNCHANGED <<live, pins, kept>>
  BY DEF PathAcquire, Instantiate, Move, Pinners
<1>3. CountPinning' = CountPinning + 1 /\ CountPinning \in Nat
  BY <1>0, <1>1, <1>2, CountsMove
<1>4. CountExits' = CountExits
  BY <1>0, <1>1, <1>2, CountsMove DEF Pinners
<1>5. Cardinality(pins) \in Nat /\ kept["nsfs"] \in Nat /\ kept["proc"] \in Nat
  <2>1. IsFiniteSet(pins)
    BY FS_Union, FS_Subset DEF TypeOK, Inode
  <2> QED BY <2>1, FS_CardinalityType DEF TypeOK
<1>6. refs' = Cardinality(pins') + kept'["nsfs"] + kept'["proc"] + CountPinning'
  BY <1>2, <1>3, <1>5, CountsAre
<1> QED BY <1>0, <1>2, <1>4, <1>6, CountsAre

\* The pin takes the reference over, or gives back a second one.
LEMMA BooksPin ==
  ASSUME TypeOK, ArgOK, ExitsBacked, RefsBacked, NEW t \in Task,
         PathPin(t) \/ LookupPin(t)
  PROVE  /\ (ExitsBacked /\ RefsBacked)'
         /\ refs' \in Nat /\ kept' \in [{"nsfs", "proc"} -> 0 .. MaxKept]
<1> DEFINE i == arg[t]
<1>0. refs \in Nat /\ pc \in [Task -> PC]
  BY DEF TypeOK
<1>1. /\ pc' = [pc EXCEPT ![t] = "idle"] /\ pc[t] \in Pinners
      /\ i \in Inode /\ UNCHANGED live /\ PinInode(i)
  BY DEF PathPin, LookupPin, Leave, Pinners, ArgOK, Inode
<1>2. pc' = [pc EXCEPT ![t] = "idle"] /\ "idle" \notin Pinners /\ pc[t] # "exit"
  BY <1>1 DEF Pinners
<1>3. /\ CountPinning' = CountPinning - 1 /\ CountPinning \in Nat /\ CountPinning' \in Nat
      /\ CountExits' = CountExits
  BY <1>0, <1>1, <1>2, CountsMove
<1>4. ExitsBacked'
  BY <1>1, <1>3, CountsAre
<1>5. refs = Cardinality(pins) + kept["nsfs"] + kept["proc"] + CountPinning
  BY CountsAre
<1>6. kept \in [{"nsfs", "proc"} -> 0 .. MaxKept]
  BY DEF TypeOK
<1>7. Cardinality(pins) \in Nat
  BY <1>1, PinsMove
<1>8. CASE i \notin pins /\ pins' = pins \cup {i} /\ UNCHANGED <<refs, kept>>
  <2>1. Cardinality(pins') = Cardinality(pins) + 1
    BY <1>1, <1>8, PinsMove
  <2>2. refs' = Cardinality(pins') + kept'["nsfs"] + kept'["proc"] + CountPinning'
    BY <1>3, <1>5, <1>6, <1>7, <1>8, <2>1
  <2> QED BY <1>0, <1>4, <1>6, <1>8, <2>2, CountsAre
<1>9. CASE i \in pins /\ refs' = refs - 1 /\ UNCHANGED <<pins, kept>>
  <2>1. refs' = Cardinality(pins') + kept'["nsfs"] + kept'["proc"] + CountPinning'
    BY <1>3, <1>5, <1>6, <1>7, <1>9
  <2>2. refs' \in Nat
    BY <1>3, <1>6, <1>7, <1>9, <2>1
  <2> QED BY <1>4, <1>6, <1>9, <2>1, <2>2, CountsAre
<1>10. CASE /\ kept["nsfs"] + kept["proc"] < MaxKept
            /\ kept' = [kept EXCEPT ![Kind(i)] = @ + 1] /\ UNCHANGED <<pins, refs>>
  <2>1. Kind(i) \in {"nsfs", "proc"}
    BY DEF Kind
  <2>2. kept' \in [{"nsfs", "proc"} -> 0 .. MaxKept]
    BY <1>6, <1>10, <2>1
  <2>3. kept'["nsfs"] + kept'["proc"] = kept["nsfs"] + kept["proc"] + 1
    BY <1>6, <1>10, <2>1
  <2>4. refs' = Cardinality(pins') + kept'["nsfs"] + kept'["proc"] + CountPinning'
    BY <1>3, <1>5, <1>6, <1>7, <1>10, <2>2, <2>3
  <2> QED BY <1>0, <1>4, <1>10, <2>2, <2>4, CountsAre
<1> QED BY <1>1, <1>8, <1>9, <1>10 DEF PinInode

\* An evicted inode gives its record and the record's reference back.
LEMMA BooksUnpin ==
  ASSUME TypeOK, ArgOK, ExitsBacked, RefsBacked, NEW t \in Task, Unpin(t)
  PROVE  (ExitsBacked /\ RefsBacked)' /\ refs' \in Nat
<1> DEFINE i == arg[t]
<1>0. refs \in Nat /\ pc \in [Task -> PC]
  BY DEF TypeOK
<1>1. /\ pc' = [pc EXCEPT ![t] = "idle"] /\ pc[t] = "evicted"
      /\ i \in Inode /\ UNCHANGED <<live, kept>>
      /\ pins' = pins \ {i} /\ refs' = IF i \in pins THEN refs - 1 ELSE refs
  BY DEF Unpin, Leave, ArgOK
<1>2. CountPinning' = CountPinning /\ CountExits' = CountExits /\ CountPinning \in Nat
  <2>1. pc' = [pc EXCEPT ![t] = "idle"] /\ pc[t] \notin Pinners /\ "idle" \notin Pinners
    BY <1>1 DEF Pinners
  <2> QED BY <1>0, <1>1, <2>1, CountsMove
<1>3. ExitsBacked'
  BY <1>1, <1>2, CountsAre
<1>4. refs = Cardinality(pins) + kept["nsfs"] + kept["proc"] + CountPinning
  BY CountsAre
<1>5. kept["nsfs"] \in Nat /\ kept["proc"] \in Nat
  BY DEF TypeOK
<1>6. CASE i \in pins
  <2>1. /\ Cardinality(pins) \in Nat /\ Cardinality(pins') \in Nat
        /\ Cardinality(pins') = Cardinality(pins) - 1
    BY <1>1, <1>6, PinsMove
  <2>2. /\ refs' = Cardinality(pins') + kept'["nsfs"] + kept'["proc"] + CountPinning'
        /\ refs' \in Nat
    BY <1>1, <1>2, <1>4, <1>5, <1>6, <2>1
  <2> QED BY <1>3, <2>2, CountsAre
<1>7. CASE i \notin pins
  <2>1. pins' = pins /\ refs' = refs
    BY <1>1, <1>7
  <2> QED BY <1>0, <1>1, <1>2, <1>3, <1>4, <2>1, CountsAre
<1> QED BY <1>6, <1>7

\* The module references under a call entered.
LEMMA BooksCall ==
  ASSUME TypeOK, ArgOK, ExitsBacked, RefsBacked, NEW t \in Task, Call(t)
  PROVE  (ExitsBacked /\ RefsBacked)'
<1> USE DEF PC, Pinners, inoVars, callVars
<1>1. CASE UnshareEnter(t)
  BY <1>1, BooksKept DEF UnshareEnter, Enter
<1>2. CASE ExitEnter(t)
  BY <1>2, BooksExit
<1>3. CASE CredsEnter(t)
  BY <1>3, BooksKept DEF CredsEnter, Enter
<1>4. CASE PathEnter(t)
  BY <1>4, BooksKept DEF PathEnter, Enter
<1>5. CASE LookupEnter(t)
  BY <1>5, BooksKept DEF LookupEnter, Enter
<1>6. CASE EvictEnter(t)
  BY <1>6, BooksKept DEF EvictEnter, Enter
<1> QED BY <1>1, <1>2, <1>3, <1>4, <1>5, <1>6 DEF Call

\* The module references under a step of a call.
LEMMA BooksProceed ==
  ASSUME TypeOK, ArgOK, ExitsBacked, RefsBacked, NEW t \in Task, Proceed(t)
  PROVE  (ExitsBacked /\ RefsBacked)'
<1> USE DEF PC, Pinners, inoVars, callVars
<1>1. CASE Unshare(t)
  BY <1>1, BooksKept DEF Unshare, Leave
<1>2. CASE Exit(t)
  BY <1>2, BooksExit
<1>3. CASE Creds(t)
  BY <1>3, BooksKept DEF Creds, Leave
<1>4. CASE PathAcquire(t)
  BY <1>4, BooksGet
<1>5. CASE PathFail(t)
  BY <1>5, BooksKept DEF PathFail, Leave
<1>6. CASE PathPin(t)
  BY <1>6, BooksPin
<1>7. CASE Instantiate(t)
  BY <1>7, BooksGet
<1>8. CASE InstantiateFail(t)
  BY <1>8, BooksKept DEF InstantiateFail, Leave, EnableInitPidnsOps
<1>9. CASE LookupPin(t)
  BY <1>9, BooksPin
<1>10. CASE RealEvict(t)
  BY <1>10, BooksKept DEF RealEvict, Move
<1>11. CASE Unpin(t)
  BY <1>11, BooksUnpin
<1> QED BY <1>1, <1>2, <1>3, <1>4, <1>5, <1>6, <1>7, <1>8, <1>9, <1>10, <1>11 DEF Proceed

-----------------------------------------------------------------------------
(***************************************************************************)
(* Part 1. Types.                                                          *)
(***************************************************************************)
\* Types under the sequencer.
LEMMA TypeSequencer ==
  ASSUME TypeOK, Sequencer
  PROVE  TypeOK'
<1> USE DEF TypeOK, PC, Inode, Seq_, Stop, restOfCalls, restOfMounts, seqVars,
      gateVars, mqVars, ovlVars, inoVars, callVars
<1>1. CASE InitBegin
  BY <1>1, Orders DEF InitBegin
<1>2. CASE InitNext
  BY <1>2, NextRequired, Orders DEF InitNext, OverlayInit, NsfsInit
<1>3. CASE InitFail
  BY <1>3, Orders DEF InitFail, NsfsExit, IpcDefaultExit
<1>4. CASE InitOptional
  BY <1>4, Orders DEF InitOptional, Optional
<1>5. CASE InitOpen
  BY <1>5, Orders DEF InitOpen, OpenGates, DevEnsure
<1>6. CASE StopBegin
  BY <1>6, Orders DEF StopBegin
<1>7. CASE StopLive
  BY <1>7, Orders DEF StopLive, OpenGates
<1>8. CASE StopNsfs
  BY <1>8, Orders DEF StopNsfs
<1>9. CASE StopPreflight
  <2>1. /\ seq' \in {"on", "quiesce"} /\ stopping' \in BOOLEAN
        /\ gate' \in BOOLEAN /\ ugate' \in BOOLEAN
    <3> HIDE DEF gateVars
    <3> QED BY <1>9 DEF StopPreflight, OpenGates
  <2>2. UNCHANGED <<first, hooks, quiescing, mqVars, ovlVars, live, inoVars, callVars>>
    BY <1>9 DEF StopPreflight
  <2> QED BY <2>1, <2>2, Orders
<1>10. CASE StopQuiesce
  BY <1>10, Orders DEF StopQuiesce
<1>11. CASE StopCancel
  BY <1>11, Orders DEF StopCancel
<1>12. CASE StopGuard
  BY <1>12, NextGuard, Orders DEF StopGuard
<1>13. CASE StopRefuse
  BY <1>13, Orders DEF StopRefuse, OpenGates, DevEnsure
<1>14. CASE StopRemove
  <2>1. hooks' \subseteq hooks /\ seq' \in {"remove", "wait"} /\ cache' \in BOOLEAN
    <3>1. PICK g \in Group :
            /\ hooks' = IF g = "nsfs" THEN NsfsExit(hooks) ELSE hooks \ {g}
            /\ seq' = IF g = "nsfs" THEN "wait" ELSE "remove"
            /\ OverlayExit(g)
      BY <1>14, NextRemoved
    <3>2. cache' \in BOOLEAN
      BY <3>1 DEF OverlayExit
    <3> QED BY <3>1, <3>2 DEF NsfsExit
  <2>2. UNCHANGED <<first, gateVars, mqVars, ovl, live, inoVars, callVars>>
    BY <1>14 DEF StopRemove
  <2> QED BY <2>1, <2>2, Orders
<1>15. CASE StopWait
  BY <1>15, Orders DEF StopWait
<1>16. CASE StopCleanup
  BY <1>16, Orders DEF StopCleanup, IpcDefaultExit
<1> QED BY <1>1, <1>2, <1>3, <1>4, <1>5, <1>6, <1>7, <1>8, <1>9, <1>10, <1>11,
  <1>12, <1>13, <1>14, <1>15, <1>16 DEF Sequencer

\* Types under mounts and the mqueue worker.
LEMMA TypeMounts ==
  ASSUME TypeOK, Mounts
  PROVE  TypeOK'
<1> USE DEF TypeOK, PC, Inode, Seq_, Stop, restOfCalls, restOfMounts, seqVars,
      gateVars, mqVars, ovlVars, inoVars, callVars
<1>1. CASE MqMount
  BY <1>1 DEF MqMount
<1>2. CASE MqUmount
  BY <1>2 DEF MqUmount
<1>3. CASE WorkRun
  BY <1>3 DEF WorkRun
<1>4. CASE WorkDone
  BY <1>4 DEF WorkDone
<1>5. CASE OvlMount
  BY <1>5 DEF OvlMount
<1>6. CASE OvlUmount
  BY <1>6 DEF OvlUmount
<1> QED BY <1>1, <1>2, <1>3, <1>4, <1>5, <1>6 DEF Mounts

\* Types under a call entered.
LEMMA TypeCall ==
  ASSUME TypeOK, NEW t \in Task, Call(t)
  PROVE  TypeOK'
<1> USE DEF TypeOK, PC, Inode, Seq_, Stop, restOfCalls, restOfMounts, seqVars,
      gateVars, mqVars, ovlVars, inoVars, callVars
<1>1. CASE UnshareEnter(t)
  BY <1>1 DEF UnshareEnter, Enter
<1>2. CASE ExitEnter(t)
  BY <1>2 DEF ExitEnter, Enter
<1>3. CASE CredsEnter(t)
  BY <1>3 DEF CredsEnter, Enter
<1>4. CASE PathEnter(t)
  BY <1>4 DEF PathEnter, Enter
<1>5. CASE LookupEnter(t)
  BY <1>5 DEF LookupEnter, Enter
<1>6. CASE EvictEnter(t)
  BY <1>6 DEF EvictEnter, Enter
<1> QED BY <1>1, <1>2, <1>3, <1>4, <1>5, <1>6 DEF Call

\* Types under a step of a call: counts never fall below zero.
LEMMA TypeProceed ==
  ASSUME TypeOK, ArgOK, ExitsBacked, RefsBacked, NEW t \in Task, Proceed(t)
  PROVE  TypeOK'
<1> USE DEF ArgOK, TypeOK, PC, Inode, Pinners, restOfCalls, restOfMounts,
      seqVars, gateVars, mqVars, ovlVars, inoVars, callVars
<1>1. CASE Unshare(t)
  BY <1>1 DEF Unshare, Leave
<1>2. CASE Exit(t)
  <2>1. live' \in 0 .. MaxLive
    BY <1>2, BooksExit
  <2> QED BY <1>2, <2>1 DEF Exit, Leave
<1>3. CASE Creds(t)
  BY <1>3 DEF Creds, Leave
<1>4. CASE PathAcquire(t)
  BY <1>4, BooksGet DEF PathAcquire, Move
<1>5. CASE PathFail(t)
  BY <1>5 DEF PathFail, Leave
<1>6. CASE PathPin(t)
  <2>1. refs' \in Nat /\ kept' \in [{"nsfs", "proc"} -> 0 .. MaxKept]
    BY <1>6, BooksPin
  <2> QED BY <1>6, <2>1 DEF PathPin, Leave, PinInode
<1>7. CASE Instantiate(t)
  BY <1>7, BooksGet DEF Instantiate, Move, EnableInitPidnsOps
<1>8. CASE InstantiateFail(t)
  BY <1>8 DEF InstantiateFail, Leave, EnableInitPidnsOps
<1>9. CASE LookupPin(t)
  <2>1. refs' \in Nat /\ kept' \in [{"nsfs", "proc"} -> 0 .. MaxKept]
    BY <1>9, BooksPin
  <2> QED BY <1>9, <2>1 DEF LookupPin, Leave, PinInode
<1>10. CASE RealEvict(t)
  BY <1>10 DEF RealEvict, Move
<1>11. CASE Unpin(t)
  <2>1. refs' \in Nat
    BY <1>11, BooksUnpin
  <2> QED BY <1>11, <2>1 DEF Unpin, Leave
<1> QED BY <1>1, <1>2, <1>3, <1>4, <1>5, <1>6, <1>7, <1>8, <1>9, <1>10, <1>11 DEF Proceed

-----------------------------------------------------------------------------
(***************************************************************************)
(* Part 1. Calls and their inodes.                                         *)
(***************************************************************************)
\* Arguments, exclusion and what calls know of inodes, under a call
\* entered.
LEMMA ShapeCall ==
  ASSUME TypeOK, ArgOK, InoKnown, Alone, OneLocked, NEW t \in Task, Call(t)
  PROVE  (ArgOK /\ InoKnown /\ Alone /\ OneLocked)'
<1> USE DEF ArgOK, InoKnown, Alone, OneLocked, TypeOK, PC, Inode, restOfCalls,
      restOfMounts, seqVars, gateVars, mqVars, ovlVars, inoVars, callVars,
      LockFree
<1>1. CASE UnshareEnter(t)
  BY <1>1 DEF UnshareEnter, Enter
<1>2. CASE ExitEnter(t)
  BY <1>2 DEF ExitEnter, Enter
<1>3. CASE CredsEnter(t)
  BY <1>3 DEF CredsEnter, Enter
<1>4. CASE PathEnter(t)
  BY <1>4 DEF PathEnter, Enter
<1>5. CASE LookupEnter(t)
  BY <1>5 DEF LookupEnter, Enter
<1>6. CASE EvictEnter(t)
  BY <1>6 DEF EvictEnter, Enter
<1> QED BY <1>1, <1>2, <1>3, <1>4, <1>5, <1>6 DEF Call

\* Arguments, exclusion and what calls know of inodes, under a step of a
\* call.
LEMMA ShapeProceed ==
  ASSUME TypeOK, ArgOK, InoKnown, Alone, OneLocked, NEW t \in Task, Proceed(t)
  PROVE  (ArgOK /\ InoKnown /\ Alone /\ OneLocked)'
<1> USE DEF ArgOK, InoKnown, Alone, OneLocked, TypeOK, PC, Inode, restOfCalls,
      restOfMounts, seqVars, gateVars, mqVars, ovlVars, inoVars, callVars,
      LockFree
<1>1. CASE Unshare(t)
  BY <1>1 DEF Unshare, Leave
<1>2. CASE Exit(t)
  BY <1>2 DEF Exit, Leave
<1>3. CASE Creds(t)
  BY <1>3 DEF Creds, Leave
<1>4. CASE PathAcquire(t)
  BY <1>4 DEF PathAcquire, Move
<1>5. CASE PathFail(t)
  BY <1>5 DEF PathFail, Leave
<1>6. CASE PathPin(t)
  BY <1>6 DEF PathPin, Leave, PinInode
<1>7. CASE Instantiate(t)
  BY <1>7 DEF Instantiate, Move, EnableInitPidnsOps
<1>8. CASE InstantiateFail(t)
  BY <1>8 DEF InstantiateFail, Leave, EnableInitPidnsOps
<1>9. CASE LookupPin(t)
  BY <1>9 DEF LookupPin, Leave, PinInode
<1>10. CASE RealEvict(t)
  BY <1>10 DEF RealEvict, Move
<1>11. CASE Unpin(t)
  BY <1>11 DEF Unpin, Leave
<1> QED BY <1>1, <1>2, <1>3, <1>4, <1>5, <1>6, <1>7, <1>8, <1>9, <1>10, <1>11 DEF Proceed

\* An inode keeps its pin under a call entered.
LEMMA PinnedCall ==
  ASSUME TypeOK, ArgOK, InoKnown, Alone, PinnedWhileLive, NEW t \in Task, Call(t)
  PROVE  PinnedWhileLive'
<1> USE DEF ArgOK, InoKnown, Alone, PinnedWhileLive, Pinning, Kind, TypeOK,
      PC, Inode, restOfCalls, restOfMounts, seqVars, gateVars, mqVars,
      ovlVars, inoVars, callVars
<1>1. CASE UnshareEnter(t)
  BY <1>1 DEF UnshareEnter, Enter
<1>2. CASE ExitEnter(t)
  BY <1>2 DEF ExitEnter, Enter
<1>3. CASE CredsEnter(t)
  BY <1>3 DEF CredsEnter, Enter
<1>4. CASE PathEnter(t)
  BY <1>4 DEF PathEnter, Enter
<1>5. CASE LookupEnter(t)
  BY <1>5 DEF LookupEnter, Enter
<1>6. CASE EvictEnter(t)
  BY <1>6 DEF EvictEnter, Enter
<1> QED BY <1>1, <1>2, <1>3, <1>4, <1>5, <1>6 DEF Call

\* An inode keeps its pin under a step of a call.
LEMMA PinnedProceed ==
  ASSUME TypeOK, ArgOK, InoKnown, Alone, PinnedWhileLive, NEW t \in Task, Proceed(t)
  PROVE  PinnedWhileLive'
<1> USE DEF ArgOK, InoKnown, Alone, PinnedWhileLive, Pinning, Kind, TypeOK,
      PC, Inode, restOfCalls, restOfMounts, seqVars, gateVars, mqVars,
      ovlVars, inoVars, callVars
<1>1. CASE Unshare(t)
  BY <1>1 DEF Unshare, Leave
<1>2. CASE Exit(t)
  BY <1>2 DEF Exit, Leave
<1>3. CASE Creds(t)
  BY <1>3 DEF Creds, Leave
<1>4. CASE PathAcquire(t)
  BY <1>4 DEF PathAcquire, Move
<1>5. CASE PathFail(t)
  BY <1>5 DEF PathFail, Leave
<1>6. CASE PathPin(t)
  BY <1>6 DEF PathPin, Leave, PinInode
<1>7. CASE Instantiate(t)
  BY <1>7 DEF Instantiate, Move, EnableInitPidnsOps
<1>8. CASE InstantiateFail(t)
  BY <1>8 DEF InstantiateFail, Leave, EnableInitPidnsOps
<1>9. CASE LookupPin(t)
  BY <1>9 DEF LookupPin, Leave, PinInode
<1>10. CASE RealEvict(t)
  BY <1>10 DEF RealEvict, Move
<1>11. CASE Unpin(t)
  BY <1>11 DEF Unpin, Leave
<1> QED BY <1>1, <1>2, <1>3, <1>4, <1>5, <1>6, <1>7, <1>8, <1>9, <1>10, <1>11 DEF Proceed

\* Only calls concern the invariant of part 1; the rest of its state is types.
LEMMA PinUnchanged ==
  ASSUME PinInv, TypeOK', UNCHANGED <<ino, pins, kept, refs, live, pc, arg>>
  PROVE  PinInv'
<1>1. (ArgOK /\ InoKnown /\ Alone /\ OneLocked)'
  BY DEF PinInv, ArgOK, InoKnown, Alone, OneLocked
<1>2. (ExitsBacked /\ RefsBacked)'
  BY DEF PinInv, ExitsBacked, RefsBacked, Pinning
<1>3. PinnedWhileLive'
  BY DEF PinInv, PinnedWhileLive, Pinning
<1> QED BY <1>1, <1>2, <1>3 DEF PinInv

\* Every step keeps the invariant of part 1.
LEMMA PinNext ==
  ASSUME PinInv, [Next]_vars
  PROVE  PinInv'
<1>1. CASE Sequencer
  <2>1. UNCHANGED <<ino, pins, kept, refs, live, pc, arg>>
    BY <1>1 DEF Sequencer, InitBegin, InitNext, InitFail, InitOptional, InitOpen,
      StopBegin, StopLive, StopNsfs, StopPreflight, StopQuiesce, StopCancel,
      StopGuard, StopRefuse, StopRemove, StopWait, StopCleanup, inoVars, callVars
  <2> QED BY <1>1, <2>1, TypeSequencer, PinUnchanged DEF PinInv
<1>2. CASE Mounts
  <2>1. UNCHANGED <<ino, pins, kept, refs, live, pc, arg>>
    BY <1>2 DEF Mounts, MqMount, MqUmount, WorkRun, WorkDone, OvlMount, OvlUmount,
      restOfMounts, inoVars, callVars
  <2> QED BY <1>2, <2>1, TypeMounts, PinUnchanged DEF PinInv
<1>3. CASE \E t \in Task : Call(t)
  BY <1>3, TypeCall, BooksCall, ShapeCall, PinnedCall DEF PinInv
<1>4. CASE \E t \in Task : Proceed(t)
  BY <1>4, TypeProceed, BooksProceed, ShapeProceed, PinnedProceed DEF PinInv
<1>5. CASE UNCHANGED vars
  <2>1. TypeOK'
    BY <1>5 DEF PinInv, TypeOK, vars, seqVars, gateVars, mqVars, ovlVars, inoVars,
      callVars
  <2> QED BY <1>5, <2>1, PinUnchanged DEF vars, inoVars, callVars
<1> QED BY <1>1, <1>2, <1>3, <1>4, <1>5 DEF Next

\* The module is loaded with nothing pinned and no call in flight.
LEMMA PinInit == Init => PinInv
<1> SUFFICES ASSUME Init PROVE PinInv
  OBVIOUS
<1>1. TypeOK
  <2>1. /\ ino \in [Inode -> {"none", "live", "evicting", "dead"}] /\ pins \subseteq Inode
        /\ pc \in [Task -> PC] /\ arg \in [Task -> Inode \cup {NoInode}]
    BY DEF Init, PC
  <2>2. /\ mq \in 0 .. MaxMounts /\ ovl \in 0 .. MaxMounts /\ live \in 0 .. MaxLive
        /\ kept \in [{"nsfs", "proc"} -> 0 .. MaxKept] /\ refs \in Nat
    BY DEF Init
  <2>3. /\ quiescing \in BOOLEAN /\ gate \in BOOLEAN /\ ugate \in BOOLEAN
        /\ stopping \in BOOLEAN /\ mq_stopping \in BOOLEAN /\ dev_stopping \in BOOLEAN
        /\ cache \in BOOLEAN /\ first \in BOOLEAN /\ ops \in BOOLEAN
    BY DEF Init
  <2> QED BY <2>1, <2>2, <2>3 DEF Init, TypeOK, Seq_
<1>2. ArgOK /\ InoKnown /\ Alone /\ OneLocked /\ PinnedWhileLive
  BY DEF Init, ArgOK, InoKnown, Alone, OneLocked, PinnedWhileLive
<1>3. {t \in Task : Pinning(t)} = {} /\ {t \in Task : pc[t] = "exit"} = {}
  BY DEF Init, Pinning
<1>4. Cardinality({}) = 0
  BY FS_EmptySet
<1>5. ExitsBacked /\ RefsBacked
  BY <1>3, <1>4 DEF Init, ExitsBacked, RefsBacked
<1> QED BY <1>1, <1>2, <1>5 DEF PinInv

\* PinInv is an invariant.
LEMMA PinInductive == Spec => []PinInv
BY PinInit, PinNext, PTL DEF Spec

\* Type correctness; the counters of proxies, mounts, pins and module
\* references stay in their ranges.
THEOREM TypeCorrect == Spec => []TypeOK
<1>1. PinInv => TypeOK
  BY DEF PinInv
<1> QED BY <1>1, PinInductive, PTL

\* The module references taken for NSFS and procfs inodes are those of the pin
\* records, of the fail-safe pins and of the calls about to pin.
THEOREM RefsCorrect == Spec => []RefsBacked
<1>1. PinInv => RefsBacked
  BY DEF PinInv
<1> QED BY <1>1, PinInductive, PTL

\* An inode whose operations are module text pins the module until the real
\* eviction is over, even if the first vendor_kernel_init() fails.
THEOREM PinsCorrect == Spec => []PinnedWhileLive
<1>1. PinInv => PinnedWhileLive
  BY DEF PinInv
<1> QED BY <1>1, PinInductive, PTL

-----------------------------------------------------------------------------
(***************************************************************************)
(* Part 2. Gates and flags.                                                *)
(***************************************************************************)
\* The gates follow the sequencer under the sequencer.
LEMMA GatesSequencer ==
  ASSUME StopInv, PinInv', FirstInitMayFail = FALSE, Sequencer
  PROVE  GatesKnown'
<1> USE DEF StopInv, PinInv, GatesKnown, HooksKnown, CallsKnown, LiveKnown,
      ObjectsKnown, ObjectsHeld, OpsOutliveInodes, ObjectsHooked,
      PinnedWhileLive, Pinning, Unpinned, Quiet, Drained, Removing, Dormant,
      Stop, ArgOK, InoKnown, TypeOK, Inode, Kind, restOfCalls, restOfMounts,
      seqVars, gateVars, mqVars, ovlVars, inoVars, callVars
<1>1. CASE InitBegin
  BY <1>1, Orders DEF InitBegin
<1>2. CASE InitNext
  BY <1>2, NextRequired, Orders DEF InitNext, NsfsInit
<1>3. CASE InitFail
  BY <1>3, Orders, NoPins DEF InitFail, NsfsExit, IpcDefaultExit
<1>4. CASE InitOptional
  BY <1>4, Orders DEF InitOptional, Optional
<1>5. CASE InitOpen
  BY <1>5, Orders DEF InitOpen, OpenGates, DevEnsure
<1>6. CASE StopBegin
  BY <1>6, Orders DEF StopBegin
<1>7. CASE StopLive
  BY <1>7, Orders DEF StopLive, OpenGates
<1>8. CASE StopNsfs
  BY <1>8, Orders DEF StopNsfs, LockFree
<1>9. CASE StopPreflight
  BY <1>9, Orders, NoneInFlight DEF StopPreflight, OpenGates
<1>10. CASE StopQuiesce
  BY <1>10, Orders DEF StopQuiesce
<1>11. CASE StopCancel
  BY <1>11, Orders DEF StopCancel
<1>12. CASE StopGuard
  BY <1>12, NextGuard, Orders, NoneInFlight, NoPins 
  DEF StopGuard, ProcfsIdle, NsfsIdle, MqueueIdle, MayDetach
<1>13. CASE StopRefuse
  BY <1>13, Orders DEF StopRefuse, OpenGates, DevEnsure
<1>14. CASE StopRemove
  BY <1>14, NextRemoved, Orders, NoPins DEF StopRemove, NsfsExit
<1>15. CASE StopWait
  BY <1>15, Orders, NoneInFlight DEF StopWait
<1>16. CASE StopCleanup
  BY <1>16, Orders DEF StopCleanup, IpcDefaultExit
<1> QED BY <1>1, <1>2, <1>3, <1>4, <1>5, <1>6, <1>7, <1>8, <1>9, <1>10, <1>11,
  <1>12, <1>13, <1>14, <1>15, <1>16 DEF Sequencer

\* The gates follow the sequencer under mounts and the mqueue worker.
LEMMA GatesMounts ==
  ASSUME StopInv, PinInv', FirstInitMayFail = FALSE, Mounts
  PROVE  GatesKnown'
<1> USE DEF StopInv, PinInv, GatesKnown, HooksKnown, CallsKnown, LiveKnown,
      ObjectsKnown, ObjectsHeld, OpsOutliveInodes, ObjectsHooked,
      PinnedWhileLive, Pinning, Unpinned, Quiet, Drained, Removing, Dormant,
      Stop, ArgOK, InoKnown, TypeOK, Inode, Kind, restOfCalls, restOfMounts,
      seqVars, gateVars, mqVars, ovlVars, inoVars, callVars
<1>1. CASE MqMount
  BY <1>1, Orders DEF MqMount
<1>2. CASE MqUmount
  BY <1>2, Orders DEF MqUmount
<1>3. CASE WorkRun
  BY <1>3, Orders DEF WorkRun
<1>4. CASE WorkDone
  BY <1>4, Orders DEF WorkDone
<1>5. CASE OvlMount
  BY <1>5, Orders DEF OvlMount
<1>6. CASE OvlUmount
  BY <1>6, Orders DEF OvlUmount
<1> QED BY <1>1, <1>2, <1>3, <1>4, <1>5, <1>6 DEF Mounts

-----------------------------------------------------------------------------
(***************************************************************************)
(* Part 2. Hook groups.                                                    *)
(***************************************************************************)
\* The installed groups follow the sequencer under the sequencer.
LEMMA HooksSequencer ==
  ASSUME StopInv, PinInv', FirstInitMayFail = FALSE, Sequencer
  PROVE  HooksKnown'
<1> USE DEF StopInv, PinInv, GatesKnown, HooksKnown, CallsKnown, LiveKnown,
      ObjectsKnown, ObjectsHeld, OpsOutliveInodes, ObjectsHooked,
      PinnedWhileLive, Pinning, Unpinned, Quiet, Drained, Removing, Dormant,
      Stop, ArgOK, InoKnown, TypeOK, Inode, Kind, restOfCalls, restOfMounts,
      seqVars, gateVars, mqVars, ovlVars, inoVars, callVars
<1>1. CASE InitBegin
  BY <1>1, Orders DEF InitBegin
<1>2. CASE InitNext
  BY <1>2, NextRequired, Orders DEF InitNext, NsfsInit
<1>3. CASE InitFail
  BY <1>3, Orders, NoPins DEF InitFail, NsfsExit, IpcDefaultExit
<1>4. CASE InitOptional
  BY <1>4, Orders DEF InitOptional, Optional
<1>5. CASE InitOpen
  BY <1>5, Orders DEF InitOpen, OpenGates, DevEnsure
<1>6. CASE StopBegin
  BY <1>6, Orders DEF StopBegin
<1>7. CASE StopLive
  BY <1>7, Orders DEF StopLive, OpenGates
<1>8. CASE StopNsfs
  BY <1>8, Orders DEF StopNsfs, LockFree
<1>9. CASE StopPreflight
  BY <1>9, Orders, NoneInFlight DEF StopPreflight, OpenGates
<1>10. CASE StopQuiesce
  BY <1>10, Orders DEF StopQuiesce
<1>11. CASE StopCancel
  BY <1>11, Orders DEF StopCancel
<1>12. CASE StopGuard
  BY <1>12, NextGuard, Orders, NoneInFlight, NoPins 
  DEF StopGuard, ProcfsIdle, NsfsIdle, MqueueIdle, MayDetach
<1>13. CASE StopRefuse
  BY <1>13, Orders DEF StopRefuse, OpenGates, DevEnsure
<1>14. CASE StopRemove
  <2>1. PICK g \in hooks \cap Group :
          /\ hooks' = IF g = "nsfs" THEN NsfsExit(hooks) ELSE hooks \ {g}
          /\ seq' = IF g = "nsfs" THEN "wait" ELSE "remove"
          /\ g \in {"exit", "nsfs"} => "core" \notin hooks
          /\ g = "nsfs" => hooks \cap Group = {"nsfs"}
    BY <1>14, NextRemoved
  <2>2. PinCount("nsfs") = 0
    BY <1>14, NoPins DEF StopRemove
  <2>3. CASE g = "nsfs"
    BY <2>1, <2>2, <2>3 DEF NsfsExit
  <2>4. CASE g # "nsfs"
    BY <2>1, <2>4
  <2> QED BY <2>3, <2>4
<1>15. CASE StopWait
  BY <1>15, Orders, NoneInFlight DEF StopWait
<1>16. CASE StopCleanup
  BY <1>16, Orders DEF StopCleanup, IpcDefaultExit
<1> QED BY <1>1, <1>2, <1>3, <1>4, <1>5, <1>6, <1>7, <1>8, <1>9, <1>10, <1>11,
  <1>12, <1>13, <1>14, <1>15, <1>16 DEF Sequencer

-----------------------------------------------------------------------------
(***************************************************************************)
(* Part 2. Calls in flight.                                                *)
(***************************************************************************)
\* Which calls can be in flight, under the sequencer.
LEMMA CallsSequencer ==
  ASSUME StopInv, PinInv', FirstInitMayFail = FALSE, Sequencer
  PROVE  CallsKnown'
<1> USE DEF StopInv, PinInv, GatesKnown, HooksKnown, CallsKnown, LiveKnown,
      ObjectsKnown, ObjectsHeld, OpsOutliveInodes, ObjectsHooked,
      PinnedWhileLive, Pinning, Unpinned, Quiet, Drained, Removing, Dormant,
      Stop, ArgOK, InoKnown, TypeOK, Inode, Kind, restOfCalls, restOfMounts,
      seqVars, gateVars, mqVars, ovlVars, inoVars, callVars
<1>1. CASE InitBegin
  BY <1>1, Orders DEF InitBegin
<1>2. CASE InitNext
  BY <1>2, NextRequired, Orders DEF InitNext, NsfsInit
<1>3. CASE InitFail
  BY <1>3, Orders, NoPins DEF InitFail, NsfsExit, IpcDefaultExit
<1>4. CASE InitOptional
  BY <1>4, Orders DEF InitOptional, Optional
<1>5. CASE InitOpen
  BY <1>5, Orders DEF InitOpen, OpenGates, DevEnsure
<1>6. CASE StopBegin
  BY <1>6, Orders DEF StopBegin
<1>7. CASE StopLive
  BY <1>7, Orders DEF StopLive, OpenGates
<1>8. CASE StopNsfs
  BY <1>8, Orders DEF StopNsfs, LockFree
<1>9. CASE StopPreflight
  <2>1. CASE seq' = "on" /\ stopping' = FALSE /\ OpenGates
    BY <1>9, <2>1, Orders DEF StopPreflight, OpenGates
  <2>2. CASE /\ inflight = 0 /\ live = 0
             /\ seq' = "quiesce" /\ UNCHANGED <<stopping, gate, ugate>>
    <3>1. \A u \in Task : pc[u] = "idle"
      BY <2>2, NoneInFlight
    <3> QED BY <1>9, <2>2, <3>1, Orders DEF StopPreflight
  <2> QED BY <1>9, <2>1, <2>2 DEF StopPreflight
<1>10. CASE StopQuiesce
  BY <1>10, Orders DEF StopQuiesce
<1>11. CASE StopCancel
  BY <1>11, Orders DEF StopCancel
<1>12. CASE StopGuard
  BY <1>12, NextGuard, Orders, NoneInFlight, NoPins 
  DEF StopGuard, ProcfsIdle, NsfsIdle, MqueueIdle, MayDetach
<1>13. CASE StopRefuse
  BY <1>13, Orders DEF StopRefuse, OpenGates, DevEnsure
<1>14. CASE StopRemove
  BY <1>14, NextRemoved, Orders, NoPins DEF StopRemove, NsfsExit
<1>15. CASE StopWait
  BY <1>15, Orders, NoneInFlight DEF StopWait
<1>16. CASE StopCleanup
  BY <1>16, Orders DEF StopCleanup, IpcDefaultExit
<1> QED BY <1>1, <1>2, <1>3, <1>4, <1>5, <1>6, <1>7, <1>8, <1>9, <1>10, <1>11,
  <1>12, <1>13, <1>14, <1>15, <1>16 DEF Sequencer

\* Which calls can be in flight, under a call entered.
LEMMA CallsCall ==
  ASSUME StopInv, PinInv', FirstInitMayFail = FALSE, NEW t \in Task, Call(t)
  PROVE  CallsKnown'
<1> USE DEF StopInv, PinInv, GatesKnown, HooksKnown, CallsKnown, LiveKnown,
      ObjectsKnown, ObjectsHeld, OpsOutliveInodes, ObjectsHooked,
      PinnedWhileLive, Pinning, Unpinned, Quiet, Drained, Removing, Dormant,
      Stop, ArgOK, InoKnown, TypeOK, Inode, Kind, restOfCalls, restOfMounts,
      seqVars, gateVars, mqVars, ovlVars, inoVars, callVars
<1>1. CASE UnshareEnter(t)
  BY <1>1, Orders DEF UnshareEnter, Enter
<1>2. CASE ExitEnter(t)
  <2>1. live > 0
    <3>1. Cardinality(In(pc, {"exit"})) \in Nat
      BY InFinite
    <3>2. live > Cardinality(In(pc, {"exit"}))
      BY <1>2 DEF ExitEnter, In
    <3> QED BY <3>1, <3>2
  <2> QED BY <1>2, <2>1, Orders DEF ExitEnter, Enter
<1>3. CASE CredsEnter(t)
  BY <1>3, Orders DEF CredsEnter, Enter
<1>4. CASE PathEnter(t)
  BY <1>4, Orders DEF PathEnter, Enter, Reachable
<1>5. CASE LookupEnter(t)
  BY <1>5, Orders DEF LookupEnter, Enter
<1>6. CASE EvictEnter(t)
  BY <1>6, Orders DEF EvictEnter, Enter
<1> QED BY <1>1, <1>2, <1>3, <1>4, <1>5, <1>6 DEF Call

\* Which calls can be in flight, under a step of a call.
LEMMA CallsProceed ==
  ASSUME StopInv, PinInv', FirstInitMayFail = FALSE, NEW t \in Task, Proceed(t)
  PROVE  CallsKnown'
<1> USE DEF StopInv, PinInv, GatesKnown, HooksKnown, CallsKnown, LiveKnown,
      ObjectsKnown, ObjectsHeld, OpsOutliveInodes, ObjectsHooked,
      PinnedWhileLive, Pinning, Unpinned, Quiet, Drained, Removing, Dormant,
      Stop, ArgOK, InoKnown, TypeOK, Inode, Kind, restOfCalls, restOfMounts,
      seqVars, gateVars, mqVars, ovlVars, inoVars, callVars
<1>1. CASE Unshare(t)
  BY <1>1, Orders DEF Unshare, Leave
<1>2. CASE Exit(t)
  BY <1>2, Orders DEF Exit, Leave
<1>3. CASE Creds(t)
  BY <1>3, Orders DEF Creds, Leave
<1>4. CASE PathAcquire(t)
  BY <1>4, Orders DEF PathAcquire, Move
<1>5. CASE PathFail(t)
  BY <1>5, Orders DEF PathFail, Leave
<1>6. CASE PathPin(t)
  BY <1>6, Orders DEF PathPin, Leave, PinInode
<1>7. CASE Instantiate(t)
  BY <1>7, Orders DEF Instantiate, Move, EnableInitPidnsOps
<1>8. CASE InstantiateFail(t)
  BY <1>8, Orders DEF InstantiateFail, Leave, EnableInitPidnsOps
<1>9. CASE LookupPin(t)
  BY <1>9, Orders DEF LookupPin, Leave, PinInode
<1>10. CASE RealEvict(t)
  BY <1>10, Orders DEF RealEvict, Move
<1>11. CASE Unpin(t)
  BY <1>11, Orders DEF Unpin, Leave
<1> QED BY <1>1, <1>2, <1>3, <1>4, <1>5, <1>6, <1>7, <1>8, <1>9, <1>10, <1>11 DEF Proceed

-----------------------------------------------------------------------------
(***************************************************************************)
(* Part 2. Objects.                                                        *)
(***************************************************************************)
\* Which objects there can be, and what they find, under the sequencer.
LEMMA ObjectsSequencer ==
  ASSUME StopInv, PinInv', FirstInitMayFail = FALSE, Sequencer
  PROVE  (LiveKnown /\ ObjectsKnown /\ ObjectsHooked /\ OpsOutliveInodes)'
<1> USE DEF StopInv, PinInv, GatesKnown, HooksKnown, CallsKnown, LiveKnown,
      ObjectsKnown, ObjectsHeld, OpsOutliveInodes, ObjectsHooked,
      PinnedWhileLive, Pinning, Unpinned, Quiet, Drained, Removing, Dormant,
      Stop, ArgOK, InoKnown, TypeOK, Inode, Kind, restOfCalls, restOfMounts,
      seqVars, gateVars, mqVars, ovlVars, inoVars, callVars
<1>1. CASE InitBegin
  BY <1>1, Orders DEF InitBegin
<1>2. CASE InitNext
  BY <1>2, NextRequired, Orders DEF InitNext, NsfsInit
<1>3. CASE InitFail
  BY <1>3, Orders, NoPins DEF InitFail, NsfsExit, IpcDefaultExit
<1>4. CASE InitOptional
  BY <1>4, Orders DEF InitOptional, Optional
<1>5. CASE InitOpen
  BY <1>5, Orders DEF InitOpen, OpenGates, DevEnsure
<1>6. CASE StopBegin
  BY <1>6, Orders DEF StopBegin
<1>7. CASE StopLive
  BY <1>7, Orders DEF StopLive, OpenGates
<1>8. CASE StopNsfs
  BY <1>8, Orders DEF StopNsfs, LockFree
<1>9. CASE StopPreflight
  <2>1. CASE seq' = "on" /\ stopping' = FALSE /\ OpenGates
    BY <1>9, <2>1, Orders DEF StopPreflight, OpenGates
  <2>2. CASE /\ inflight = 0 /\ live = 0
             /\ seq' = "quiesce" /\ UNCHANGED <<stopping, gate, ugate>>
    <3>1. \A u \in Task : pc[u] = "idle"
      BY <2>2, NoneInFlight
    <3> QED BY <1>9, <2>2, <3>1, Orders DEF StopPreflight
  <2> QED BY <1>9, <2>1, <2>2 DEF StopPreflight
<1>10. CASE StopQuiesce
  BY <1>10, Orders DEF StopQuiesce
<1>11. CASE StopCancel
  BY <1>11, Orders DEF StopCancel
<1>12. CASE StopGuard
  BY <1>12, NextGuard, Orders, NoneInFlight, NoPins 
  DEF StopGuard, ProcfsIdle, NsfsIdle, MqueueIdle, MayDetach
<1>13. CASE StopRefuse
  BY <1>13, Orders DEF StopRefuse, OpenGates, DevEnsure
<1>14. CASE StopRemove
  BY <1>14, NextRemoved, Orders, NoPins DEF StopRemove, NsfsExit
<1>15. CASE StopWait
  BY <1>15, Orders, NoneInFlight DEF StopWait
<1>16. CASE StopCleanup
  BY <1>16, Orders DEF StopCleanup, IpcDefaultExit
<1> QED BY <1>1, <1>2, <1>3, <1>4, <1>5, <1>6, <1>7, <1>8, <1>9, <1>10, <1>11,
  <1>12, <1>13, <1>14, <1>15, <1>16 DEF Sequencer

\* Which objects there can be, and what they find, under mounts and the
\* mqueue worker.
LEMMA ObjectsMounts ==
  ASSUME StopInv, PinInv', FirstInitMayFail = FALSE, Mounts
  PROVE  (LiveKnown /\ ObjectsKnown /\ ObjectsHooked /\ OpsOutliveInodes)'
<1> USE DEF StopInv, PinInv, GatesKnown, HooksKnown, CallsKnown, LiveKnown,
      ObjectsKnown, ObjectsHeld, OpsOutliveInodes, ObjectsHooked,
      PinnedWhileLive, Pinning, Unpinned, Quiet, Drained, Removing, Dormant,
      Stop, ArgOK, InoKnown, TypeOK, Inode, Kind, restOfCalls, restOfMounts,
      seqVars, gateVars, mqVars, ovlVars, inoVars, callVars
<1>1. CASE MqMount
  BY <1>1, Orders DEF MqMount
<1>2. CASE MqUmount
  BY <1>2, Orders DEF MqUmount
<1>3. CASE WorkRun
  BY <1>3, Orders DEF WorkRun
<1>4. CASE WorkDone
  BY <1>4, Orders DEF WorkDone
<1>5. CASE OvlMount
  BY <1>5, Orders DEF OvlMount
<1>6. CASE OvlUmount
  BY <1>6, Orders DEF OvlUmount
<1> QED BY <1>1, <1>2, <1>3, <1>4, <1>5, <1>6 DEF Mounts

\* Which objects there can be, and what they find, under a call entered.
LEMMA ObjectsCall ==
  ASSUME StopInv, PinInv', FirstInitMayFail = FALSE, NEW t \in Task, Call(t)
  PROVE  (LiveKnown /\ ObjectsKnown /\ ObjectsHooked /\ OpsOutliveInodes)'
<1> USE DEF StopInv, PinInv, GatesKnown, HooksKnown, CallsKnown, LiveKnown,
      ObjectsKnown, ObjectsHeld, OpsOutliveInodes, ObjectsHooked,
      PinnedWhileLive, Pinning, Unpinned, Quiet, Drained, Removing, Dormant,
      Stop, ArgOK, InoKnown, TypeOK, Inode, Kind, restOfCalls, restOfMounts,
      seqVars, gateVars, mqVars, ovlVars, inoVars, callVars
<1>1. CASE UnshareEnter(t)
  BY <1>1, Orders DEF UnshareEnter, Enter
<1>2. CASE ExitEnter(t)
  BY <1>2, Orders DEF ExitEnter, Enter
<1>3. CASE CredsEnter(t)
  BY <1>3, Orders DEF CredsEnter, Enter
<1>4. CASE PathEnter(t)
  BY <1>4, Orders DEF PathEnter, Enter, Reachable
<1>5. CASE LookupEnter(t)
  BY <1>5, Orders DEF LookupEnter, Enter
<1>6. CASE EvictEnter(t)
  BY <1>6, Orders DEF EvictEnter, Enter
<1> QED BY <1>1, <1>2, <1>3, <1>4, <1>5, <1>6 DEF Call

\* Which objects there can be, and what they find, under a step of a call.
LEMMA ObjectsProceed ==
  ASSUME StopInv, PinInv', FirstInitMayFail = FALSE, NEW t \in Task, Proceed(t)
  PROVE  (LiveKnown /\ ObjectsKnown /\ ObjectsHooked /\ OpsOutliveInodes)'
<1> USE DEF StopInv, PinInv, GatesKnown, HooksKnown, CallsKnown, LiveKnown,
      ObjectsKnown, ObjectsHeld, OpsOutliveInodes, ObjectsHooked,
      PinnedWhileLive, Pinning, Unpinned, Quiet, Drained, Removing, Dormant,
      Stop, ArgOK, InoKnown, TypeOK, Inode, Kind, restOfCalls, restOfMounts,
      seqVars, gateVars, mqVars, ovlVars, inoVars, callVars
<1>1. CASE Unshare(t)
  BY <1>1, Orders DEF Unshare, Leave
<1>2. CASE Exit(t)
  BY <1>2, Orders DEF Exit, Leave
<1>3. CASE Creds(t)
  BY <1>3, Orders DEF Creds, Leave
<1>4. CASE PathAcquire(t)
  <2>1. LiveKnown'
    BY <1>4, Orders DEF PathAcquire, Move
  <2>2. ObjectsKnown'
    BY <1>4, Orders DEF PathAcquire, Move
  <2>3. ObjectsHooked'
    <3>1. "nsfs" \in hooks
      BY <1>4, Orders DEF PathAcquire, Move, Seq_
    <3> QED BY <1>4, <3>1 DEF PathAcquire, Move
  <2>4. OpsOutliveInodes'
    BY <1>4, Orders DEF PathAcquire, Move
  <2> QED BY <2>1, <2>2, <2>3, <2>4
<1>5. CASE PathFail(t)
  BY <1>5, Orders DEF PathFail, Leave
<1>6. CASE PathPin(t)
  BY <1>6, Orders DEF PathPin, Leave, PinInode
<1>7. CASE Instantiate(t)
  <2>1. LiveKnown'
    BY <1>7, Orders DEF Instantiate, Move, EnableInitPidnsOps
  <2>2. ObjectsKnown'
    BY <1>7, Orders DEF Instantiate, Move, EnableInitPidnsOps
  <2>3. ObjectsHooked'
    BY <1>7, Orders DEF Instantiate, Move, EnableInitPidnsOps
  <2>4. OpsOutliveInodes'
    <3>1. ops => ops'
      BY <1>7 DEF Instantiate, EnableInitPidnsOps
    <3>2. arg[t] \in InitPid => ops'
      BY <1>7 DEF Instantiate, EnableInitPidnsOps
    <3>3. \A i \in Inode : i # arg[t] => ino'[i] = ino[i]
      BY <1>7 DEF Instantiate
    <3> QED BY <3>1, <3>2, <3>3
  <2> QED BY <2>1, <2>2, <2>3, <2>4
<1>8. CASE InstantiateFail(t)
  BY <1>8, Orders DEF InstantiateFail, Leave, EnableInitPidnsOps
<1>9. CASE LookupPin(t)
  BY <1>9, Orders DEF LookupPin, Leave, PinInode
<1>10. CASE RealEvict(t)
  BY <1>10, Orders DEF RealEvict, Move
<1>11. CASE Unpin(t)
  BY <1>11, Orders DEF Unpin, Leave
<1> QED BY <1>1, <1>2, <1>3, <1>4, <1>5, <1>6, <1>7, <1>8, <1>9, <1>10, <1>11 DEF Proceed

-----------------------------------------------------------------------------
(***************************************************************************)
(* Part 2. The theorems.                                                   *)
(***************************************************************************)
\* Every step keeps the invariant of part 2.
LEMMA StopNext ==
  ASSUME StopInv, [Next]_vars, FirstInitMayFail = FALSE
  PROVE  StopInv'
<1>0. PinInv'
  BY PinNext DEF StopInv
<1> SUFFICES /\ (GatesKnown /\ HooksKnown /\ CallsKnown /\ LiveKnown)'
             /\ (ObjectsKnown /\ ObjectsHooked /\ OpsOutliveInodes)'
  BY <1>0 DEF StopInv, PinInv, ObjectsHeld
<1>1. CASE Sequencer
  BY <1>1, <1>0, GatesSequencer, HooksSequencer, CallsSequencer, ObjectsSequencer
<1>2. CASE Mounts
  <2>1. UNCHANGED <<seq, first, hooks, stopping, ops, pc, arg>>
    BY <1>2 DEF Mounts, MqMount, MqUmount, WorkRun, WorkDone, OvlMount, OvlUmount,
      restOfMounts, seqVars, gateVars, inoVars, callVars
  <2>2. (HooksKnown /\ CallsKnown)'
    BY <2>1 DEF StopInv, HooksKnown, CallsKnown, Dormant
  <2> QED BY <1>2, <1>0, <2>2, GatesMounts, ObjectsMounts
<1>3. ASSUME NEW t \in Task, Call(t) \/ Proceed(t)
      PROVE  (GatesKnown /\ HooksKnown)'
  <2>1. UNCHANGED restOfCalls
    BY <1>3 DEF Call, UnshareEnter, ExitEnter, CredsEnter, PathEnter, LookupEnter,
      EvictEnter, Proceed, Unshare, Exit, Creds, PathAcquire, PathFail, PathPin,
      Instantiate, InstantiateFail, LookupPin, RealEvict, Unpin
  <2> QED BY <2>1 DEF StopInv, GatesKnown, HooksKnown, restOfCalls, seqVars,
      gateVars, mqVars, ovlVars
<1>4. CASE \E t \in Task : Call(t)
  BY <1>4, <1>0, <1>3, CallsCall, ObjectsCall
<1>5. CASE \E t \in Task : Proceed(t)
  BY <1>5, <1>0, <1>3, CallsProceed, ObjectsProceed
<1>6. CASE UNCHANGED vars
  BY <1>6 DEF StopInv, GatesKnown, HooksKnown, CallsKnown, LiveKnown, ObjectsKnown,
    ObjectsHeld, ObjectsHooked, OpsOutliveInodes, Unpinned, Dormant, vars, seqVars,
    gateVars, mqVars, ovlVars, inoVars, callVars
<1> QED BY <1>1, <1>2, <1>4, <1>5, <1>6 DEF Next

\* StopInv is an invariant.
LEMMA StopInductive ==
  ASSUME FirstInitMayFail = FALSE
  PROVE  Spec => []StopInv
<1>1. Init => StopInv
  BY PinInit, Orders DEF Init, StopInv, PinInv, GatesKnown, HooksKnown, CallsKnown,
    LiveKnown, ObjectsKnown, ObjectsHeld, ObjectsHooked, OpsOutliveInodes, Dormant,
    Quiet, Drained, Removing, Stop
<1>2. StopInv /\ [Next]_vars => StopInv'
  BY StopNext
<1> QED BY <1>1, <1>2, PTL DEF Spec

\* Everything alive that will call into the module has what it will call: the
\* module's text, the operations lent to the initial pid namespace, and the
\* eviction or exit hook that ends its life.
THEOREM ObjectsCorrect ==
  ASSUME FirstInitMayFail = FALSE
  PROVE  Spec => []ObjectsHeld
<1>1. StopInv => ObjectsHeld
  BY DEF StopInv
<1> QED BY <1>1, StopInductive, PTL

\* What a guard of __vendor_kernel_exit(false) found absent stays absent until
\* the stop ends, while exempt hooks, workers and mounts go on.
THEOREM GuardsCorrect ==
  ASSUME FirstInitMayFail = FALSE
  PROVE  Spec => []GuardsHold
<1>1. StopInv => GuardsHold
  <2> SUFFICES ASSUME StopInv PROVE GuardsHold
    OBVIOUS
  <2>1. Past("drain") => live = 0
    BY PastIs DEF StopInv, PinInv, TypeOK, LiveKnown, GatesKnown
  <2>2. Past("procpins") => PinCount("proc") = 0
    BY PastIs, NoPins DEF StopInv, PinInv, ObjectsKnown, Removing
  <2>3. Past("nsfspins") => PinCount("nsfs") = 0
    BY PastIs, NoPins DEF StopInv, PinInv, ObjectsKnown, Removing
  <2>4. (Past("mqueue") => mq = 0) /\ (Past("detach") => ~ops)
    BY PastIs DEF StopInv, ObjectsKnown, Removing
  <2> QED BY <2>1, <2>2, <2>3, <2>4 DEF GuardsHold
<1> QED BY <1>1, StopInductive, PTL

\* However a start or a stop ended, everything is off and detached from the
\* kernel, or everything is back in service.
THEOREM EndsCorrect ==
  ASSUME FirstInitMayFail = FALSE
  PROVE  Spec => []EndsClean
<1>1. StopInv => StoppedDetached
  <2> SUFFICES ASSUME StopInv, seq = "off", ~first
               PROVE  /\ hooks = {} /\ live = 0 /\ ~ops /\ work = "idle" /\ ~quiescing
                      /\ \A i \in Inode : ino[i] \in {"none", "dead"}
    BY DEF StoppedDetached
  <2>1. hooks = {} /\ ~ops /\ work = "idle" /\ ~quiescing
    BY Orders DEF StopInv, HooksKnown, GatesKnown, ObjectsKnown, Dormant, Quiet
  <2>2. live = 0
    BY DEF StopInv, PinInv, TypeOK, LiveKnown
  <2>3. \A i \in Inode : ino[i] \notin {"live", "evicting"}
    BY DEF StopInv, PinInv, PinnedWhileLive, Pinning, CallsKnown, ObjectsKnown,
      Unpinned, Dormant, Kind, TypeOK
  <2> QED BY <2>1, <2>2, <2>3 DEF StopInv, PinInv, TypeOK
<1>2. StopInv => RefusalRestores
  BY Orders DEF StopInv, RefusalRestores, GatesKnown, HooksKnown, Quiet
<1> QED BY <1>1, <1>2, StopInductive, PTL DEF EndsClean
============================================================================
