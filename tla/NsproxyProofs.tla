--------------------------- MODULE NsproxyProofs ---------------------------
(***************************************************************************)
(* Proofs about the life of vendored proxies, for any number of tasks,     *)
(* thread groups and proxies.                                              *)
(*                                                                         *)
(* The heart is counting: Pointers(o) is a sum of cardinalities, and a     *)
(* step of a task changes each of them at one place.  Balanced() says so   *)
(* of one step, Balance turns it into the change of the sum, and PinsMove  *)
(* does the same for the module references.  Counts alone are not          *)
(* inductive: that a put finds its proxy alive needs to know which step of *)
(* which handler owns which pointer, which is what Shape says.  The last   *)
(* part maps every step to one of NamespaceService.                        *)
(***************************************************************************)
EXTENDS Nsproxy, FiniteSetTheorems, TLAPS

USE NsproxyAssumption

-----------------------------------------------------------------------------
(***************************************************************************)
(* The inductive invariant.                                                *)
(***************************************************************************)
\* The handlers that own an unpublished proxy.
Building == {"created", "added", "copied", "validated", "switch"}

\* What a task's own variables say, at each step of its handler.
LocalOK ==
  \A t \in Task :
    /\ t \notin run => pc[t] = "idle"
    /\ t \in run => nsp[t] # NULL
    /\ new[t] # NULL <=> pc[t] \in Building
    /\ pc[t] \notin {"put", "free", "validated"} => held[t] = NULL
    /\ pc[t] \in {"validated", "free"} => held[t] \in Obj
    /\ pc[t] \in {"idle", "exit", "swap", "real", "native"} => fn[t] = "none"
    /\ pc[t] \in {"validated", "switch", "registry"} => fn[t] = "setns"
    /\ pc[t] = "forked" => fn[t] = "fork"
    /\ pc[t] \in {"put", "free", "registry"} /\ fn[t] = "setns" => nsp[t] \in Ns
    /\ nsp[t] = VInit => pc[t] \in {"real", "native"}
    /\ pc[t] \in {"real", "native"} => nsp[t] \notin Ns

\* A fork in progress owns its child.
ForkOK ==
  \A t \in Task : fn[t] = "fork" =>
    /\ child[t] \in Task \ run /\ nsp[child[t]] # NULL
    /\ \A u \in Task : fn[u] = "fork" /\ child[u] = child[t] => u = t

\* An unpublished proxy has one reference and nothing else points to it.
FreshOK ==
  \A t \in Task : new[t] # NULL =>
    /\ new[t] \in heap /\ count[new[t]] = 1
    /\ deferred[new[t]] = 0 /\ leaked[new[t]] = 0
    /\ \A u \in Task : /\ nsp[u] # new[t] /\ held[u] # new[t]
                       /\ u # t => new[u] # new[t]
    /\ \A g \in Tgid : reg[g] # new[t]

\* A proxy that is being destroyed has no reference left and one destroyer.
FreeOK ==
  \A t \in Task : pc[t] = "free" =>
    /\ held[t] \in tracked /\ count[held[t]] = 0
    /\ \A u \in Task : pc[u] = "free" /\ held[u] = held[t] => u = t

\* The tracking set holds every proxy but those not added yet.
TrackedOK ==
  /\ tracked \subseteq heap
  /\ \A n \in heap \ tracked : \E t \in Task : pc[t] = "created" /\ new[t] = n
  /\ \A t \in Task : pc[t] = "created" => new[t] \notin tracked

\* Counts of the real kernel's proxies, and the bound of queued puts.
ForeignBacked == \A o \in Foreign : Pointers(o) = count[o]
DeferredBound == \A n \in Ns : deferred[n] <= MaxDeferred

\* Without hooks there is no handler, no proxy and no queued put.
OffOK ==
  mod # "on" => /\ heap = {} /\ \A t \in Task : pc[t] \in {"idle", "native"}
                /\ \A n \in Ns : deferred[n] = 0

\* What a step preserves without counting.
Shape == LocalOK /\ ForkOK /\ FreshOK /\ FreeOK /\ TrackedOK /\ OffOK

\* The inductive invariant.
IInv ==
  /\ TypeOK /\ Shape /\ CountBacked /\ ForeignBacked /\ DeferredBound /\ PinsBacked

\* The exit_task_namespaces() hook drops &vns_init_nsproxy before it returns.
InitHeld == \A t \in Task : nsp[t] = VInit => pc[t] = "real"

-----------------------------------------------------------------------------
(***************************************************************************)
(* Counting pointers.                                                      *)
(***************************************************************************)
\* 1 for a fact, 0 for its absence.
One(b) == IF b THEN 1 ELSE 0

\* A set that changes at most at x.
LEMMA CountChange ==
  ASSUME NEW S, IsFiniteSet(S), NEW A \in SUBSET S, NEW B \in SUBSET S, NEW x \in S,
         \A y \in S : y # x => (y \in A <=> y \in B)
  PROVE  /\ Cardinality(A) \in Nat /\ Cardinality(B) \in Nat
         /\ Cardinality(B) = Cardinality(A) + One(x \in B) - One(x \in A)
<1>1. IsFiniteSet(A) /\ IsFiniteSet(B)
  BY FS_Subset
<1>2. Cardinality(A) \in Nat /\ Cardinality(B) \in Nat
  BY <1>1, FS_CardinalityType
<1>3. CASE x \in A <=> x \in B
  <2>1. A = B
    BY <1>3
  <2> QED BY <1>2, <2>1 DEF One
<1>4. CASE x \in A /\ x \notin B
  <2>1. B = A \ {x}
    BY <1>4
  <2>2. Cardinality(B) = Cardinality(A) - 1
    BY <1>1, <1>4, <2>1, FS_RemoveElement
  <2> QED BY <1>2, <1>4, <2>2 DEF One
<1>5. CASE x \notin A /\ x \in B
  <2>1. B = A \cup {x}
    BY <1>5
  <2>2. Cardinality(B) = Cardinality(A) + 1
    BY <1>1, <1>5, <2>1, FS_AddElement
  <2> QED BY <1>2, <1>5, <2>2 DEF One
<1> QED BY <1>3, <1>4, <1>5

\* The parts of Pointers(o).
InNsp(o) == Cardinality({t \in Task : nsp[t] = o})
InNew(o) == Cardinality({t \in Task : new[t] = o})
InHeld(o) == Cardinality({t \in Task : held[t] = o /\ pc[t] # "free"})
InReg(o) == Cardinality({g \in Tgid : reg[g] = o})
Queued(o) == IF o \in Ns THEN deferred[o] ELSE 0

\* Pointers(o) is their sum.
LEMMA PointersAre ==
  ASSUME NEW o
  PROVE  /\ Pointers(o) = InNsp(o) + InNew(o) + InHeld(o) + InReg(o)
                            + Queued(o) + leaked[o]
         /\ Pointers(o)' = InNsp(o)' + InNew(o)' + InHeld(o)' + InReg(o)'
                            + Queued(o)' + leaked'[o]
BY DEF Pointers, InNsp, InNew, InHeld, InReg, Queued

\* All of them are natural numbers.
LEMMA PointersNat ==
  ASSUME TypeOK, NEW o \in Obj
  PROVE  /\ InNsp(o) \in Nat /\ InNew(o) \in Nat /\ InHeld(o) \in Nat
         /\ InReg(o) \in Nat /\ Queued(o) \in Nat /\ leaked[o] \in Nat
         /\ Pointers(o) \in Nat
<1>1. InNsp(o) \in Nat
  BY FS_Subset, FS_CardinalityType DEF InNsp
<1>2. InNew(o) \in Nat
  BY FS_Subset, FS_CardinalityType DEF InNew
<1>3. InHeld(o) \in Nat
  BY FS_Subset, FS_CardinalityType DEF InHeld
<1>4. InReg(o) \in Nat
  BY FS_Subset, FS_CardinalityType DEF InReg
<1>5. Queued(o) \in Nat /\ leaked[o] \in Nat
  BY DEF TypeOK, Queued
<1> QED BY <1>1, <1>2, <1>3, <1>4, <1>5, PointersAre

\* Whoever points to a proxy is counted.
LEMMA Pointed ==
  ASSUME TypeOK, NEW o \in Obj,
         \/ \E t \in Task : nsp[t] = o \/ new[t] = o \/ (held[t] = o /\ pc[t] # "free")
         \/ \E g \in Tgid : reg[g] = o
         \/ o \in Ns /\ deferred[o] > 0
  PROVE  Pointers(o) > 0
<1>1. \A S : IsFiniteSet(S) /\ S # {} => Cardinality(S) \in Nat /\ Cardinality(S) # 0
  BY FS_CardinalityType, FS_EmptySet
<1>2. CASE \E t \in Task : nsp[t] = o
  <2>1. InNsp(o) > 0
    <3>1. {t \in Task : nsp[t] = o} # {} /\ IsFiniteSet({t \in Task : nsp[t] = o})
      BY <1>2, FS_Subset
    <3> QED BY <1>1, <3>1 DEF InNsp
  <2> QED BY <2>1, PointersNat, PointersAre
<1>3. CASE \E t \in Task : new[t] = o
  <2>1. InNew(o) > 0
    <3>1. {t \in Task : new[t] = o} # {} /\ IsFiniteSet({t \in Task : new[t] = o})
      BY <1>3, FS_Subset
    <3> QED BY <1>1, <3>1 DEF InNew
  <2> QED BY <2>1, PointersNat, PointersAre
<1>4. CASE \E t \in Task : held[t] = o /\ pc[t] # "free"
  <2>1. InHeld(o) > 0
    <3>1. /\ {t \in Task : held[t] = o /\ pc[t] # "free"} # {}
          /\ IsFiniteSet({t \in Task : held[t] = o /\ pc[t] # "free"})
      BY <1>4, FS_Subset
    <3> QED BY <1>1, <3>1 DEF InHeld
  <2> QED BY <2>1, PointersNat, PointersAre
<1>5. CASE \E g \in Tgid : reg[g] = o
  <2>1. InReg(o) > 0
    <3>1. {g \in Tgid : reg[g] = o} # {} /\ IsFiniteSet({g \in Tgid : reg[g] = o})
      BY <1>5, FS_Subset
    <3> QED BY <1>1, <3>1 DEF InReg
  <2> QED BY <2>1, PointersNat, PointersAre
<1>6. CASE o \in Ns /\ deferred[o] > 0
  <2>1. Queued(o) > 0
    BY <1>6 DEF Queued
  <2> QED BY <2>1, PointersNat, PointersAre
<1> QED BY <1>2, <1>3, <1>4, <1>5, <1>6

\* What a step of task t changes in the number of pointers to o, when it
\* touches the nsproxy of one task s and the registry entry of one group g.
LEMMA PointersMove ==
  ASSUME NEW o \in Obj, NEW t \in Task, NEW s \in Task, NEW g \in Tgid,
         \A u \in Task : u # s => nsp'[u] = nsp[u],
         \A u \in Task : u # t => new'[u] = new[u] /\ held'[u] = held[u] /\ pc'[u] = pc[u],
         \A h \in Tgid : h # g => reg'[h] = reg[h]
  PROVE  /\ InNsp(o)' = InNsp(o) + One(nsp'[s] = o) - One(nsp[s] = o)
         /\ InNew(o)' = InNew(o) + One(new'[t] = o) - One(new[t] = o)
         /\ InHeld(o)' = InHeld(o) + One(held'[t] = o /\ pc'[t] # "free")
                                   - One(held[t] = o /\ pc[t] # "free")
         /\ InReg(o)' = InReg(o) + One(reg'[g] = o) - One(reg[g] = o)
<1>1. InNsp(o)' = InNsp(o) + One(nsp'[s] = o) - One(nsp[s] = o)
  <2> DEFINE A == {u \in Task : nsp[u] = o}
             B == {u \in Task : nsp'[u] = o}
  <2>1. A \in SUBSET Task /\ B \in SUBSET Task /\ \A u \in Task : u # s => (u \in A <=> u \in B)
    OBVIOUS
  <2>2. Cardinality(B) = Cardinality(A) + One(s \in B) - One(s \in A)
    <3> HIDE DEF A, B
    <3> QED BY <2>1, CountChange
  <2>3. (s \in B <=> nsp'[s] = o) /\ (s \in A <=> nsp[s] = o)
    OBVIOUS
  <2> QED BY <2>2, <2>3 DEF InNsp, One
<1>2. InNew(o)' = InNew(o) + One(new'[t] = o) - One(new[t] = o)
  <2> DEFINE A == {u \in Task : new[u] = o}
             B == {u \in Task : new'[u] = o}
  <2>1. A \in SUBSET Task /\ B \in SUBSET Task /\ \A u \in Task : u # t => (u \in A <=> u \in B)
    OBVIOUS
  <2>2. Cardinality(B) = Cardinality(A) + One(t \in B) - One(t \in A)
    <3> HIDE DEF A, B
    <3> QED BY <2>1, CountChange
  <2>3. (t \in B <=> new'[t] = o) /\ (t \in A <=> new[t] = o)
    OBVIOUS
  <2> QED BY <2>2, <2>3 DEF InNew, One
<1>3. InHeld(o)' = InHeld(o) + One(held'[t] = o /\ pc'[t] # "free")
                             - One(held[t] = o /\ pc[t] # "free")
  <2> DEFINE A == {u \in Task : held[u] = o /\ pc[u] # "free"}
             B == {u \in Task : held'[u] = o /\ pc'[u] # "free"}
  <2>1. A \in SUBSET Task /\ B \in SUBSET Task /\ \A u \in Task : u # t => (u \in A <=> u \in B)
    OBVIOUS
  <2>2. Cardinality(B) = Cardinality(A) + One(t \in B) - One(t \in A)
    <3> HIDE DEF A, B
    <3> QED BY <2>1, CountChange
  <2>3. /\ t \in B <=> (held'[t] = o /\ pc'[t] # "free")
        /\ t \in A <=> (held[t] = o /\ pc[t] # "free")
    OBVIOUS
  <2> QED BY <2>2, <2>3 DEF InHeld, One
<1>4. InReg(o)' = InReg(o) + One(reg'[g] = o) - One(reg[g] = o)
  <2> DEFINE A == {h \in Tgid : reg[h] = o}
             B == {h \in Tgid : reg'[h] = o}
  <2>1. A \in SUBSET Tgid /\ B \in SUBSET Tgid /\ \A h \in Tgid : h # g => (h \in A <=> h \in B)
    OBVIOUS
  <2>2. Cardinality(B) = Cardinality(A) + One(g \in B) - One(g \in A)
    <3> HIDE DEF A, B
    <3> QED BY <2>1, CountChange
  <2>3. (g \in B <=> reg'[g] = o) /\ (g \in A <=> reg[g] = o)
    OBVIOUS
  <2> QED BY <2>2, <2>3 DEF InReg, One
<1> QED BY <1>1, <1>2, <1>3, <1>4

\* The bound on queued puts makes them a finite set.
LEMMA BoundFinite == IsFiniteSet(Ns \X (1 .. MaxDeferred))
<1>1. 1 \in Int /\ MaxDeferred \in Int
  OBVIOUS
<1>2. IsFiniteSet(1 .. MaxDeferred)
  BY <1>1, FS_Interval
<1> QED BY <1>2, FS_Product

\* The number of queued puts follows the queue of one proxy.
LEMMA DeferredMove ==
  ASSUME NEW n \in Ns, deferred \in [Ns -> Nat], DeferredBound
  PROVE  /\ DeferredPuts \in Nat
         /\ deferred[n] < MaxDeferred /\ deferred' = [deferred EXCEPT ![n] = @ + 1] =>
              DeferredPuts' = DeferredPuts + 1
         /\ deferred[n] > 0 /\ deferred' = [deferred EXCEPT ![n] = @ - 1] =>
              DeferredPuts' = DeferredPuts - 1 /\ DeferredPuts' \in Nat
<1> DEFINE Q(d) == {p \in Ns \X (1 .. MaxDeferred) : p[2] <= d[p[1]]}
<1>1. DeferredPuts = Cardinality(Q(deferred)) /\ DeferredPuts' = Cardinality(Q(deferred'))
  BY DEF DeferredPuts
<1>2. IsFiniteSet(Ns \X (1 .. MaxDeferred))
  BY BoundFinite
<1>3. \A d : IsFiniteSet(Q(d)) /\ Cardinality(Q(d)) \in Nat
  BY <1>2, FS_Subset, FS_CardinalityType
<1>4. ASSUME deferred[n] < MaxDeferred, deferred' = [deferred EXCEPT ![n] = @ + 1]
      PROVE  DeferredPuts' = DeferredPuts + 1
  <2>1. Q(deferred') = Q(deferred) \cup {<<n, deferred[n] + 1>>}
    BY <1>4
  <2>2. <<n, deferred[n] + 1>> \notin Q(deferred)
    OBVIOUS
  <2> HIDE DEF Q
  <2> QED BY <1>1, <1>3, <2>1, <2>2, FS_AddElement
<1>5. ASSUME deferred[n] > 0, deferred' = [deferred EXCEPT ![n] = @ - 1]
      PROVE  DeferredPuts' = DeferredPuts - 1
  <2>1. Q(deferred') = Q(deferred) \ {<<n, deferred[n]>>}
    BY <1>5 DEF DeferredBound
  <2>2. <<n, deferred[n]>> \in Q(deferred)
    BY <1>5 DEF DeferredBound
  <2> HIDE DEF Q
  <2>3. IsFiniteSet(Q(deferred))
    BY <1>3
  <2>4. Cardinality(Q(deferred) \ {<<n, deferred[n]>>}) = Cardinality(Q(deferred)) - 1
    BY <2>2, <2>3, FS_RemoveElement
  <2> QED BY <1>1, <2>1, <2>4
<1>6. DeferredPuts \in Nat /\ DeferredPuts' \in Nat
  <2> HIDE DEF Q
  <2> QED BY <1>1, <1>3
<1> QED BY <1>4, <1>5, <1>6

\* The heap grows and shrinks by one proxy.
LEMMA HeapMove ==
  ASSUME TypeOK, NEW n \in Ns
  PROVE  /\ Cardinality(heap) \in Nat
         /\ n \notin heap => Cardinality(heap \cup {n}) = Cardinality(heap) + 1
         /\ n \in heap => /\ Cardinality(heap \ {n}) = Cardinality(heap) - 1
                          /\ Cardinality(heap \ {n}) \in Nat
<1>1. IsFiniteSet(heap) /\ IsFiniteSet(heap \ {n})
  BY FS_Subset DEF TypeOK
<1>2. Cardinality(heap) \in Nat /\ Cardinality(heap \ {n}) \in Nat
  BY <1>1, FS_CardinalityType
<1>3. n \notin heap => Cardinality(heap \cup {n}) = Cardinality(heap) + 1
  BY <1>1, FS_AddElement
<1>4. n \in heap => Cardinality(heap \ {n}) = Cardinality(heap) - 1
  BY <1>1, FS_RemoveElement
<1> QED BY <1>2, <1>3, <1>4

\* The references proxy o counts: none once it is freed.
Counted(o) == IF o \in Ns /\ o \notin heap THEN 0 ELSE count[o]

\* CountBacked and ForeignBacked say that pointers and references agree.
LEMMA Backed ==
  CountBacked /\ ForeignBacked <=> \A o \in Obj : Pointers(o) = Counted(o)
BY DEF CountBacked, ForeignBacked, Counted, Obj

\* The same of the next state.
LEMMA BackedNext ==
  (\A o \in Obj : Pointers(o)' = Counted(o)') => CountBacked' /\ ForeignBacked'
BY DEF CountBacked, ForeignBacked, Counted, Obj

\* A proxy that somebody points to is allocated and counted, and, when it is a
\* published one, tracked.
LEMMA Live ==
  ASSUME TypeOK, FreshOK, TrackedOK, CountBacked, ForeignBacked, NEW o \in Obj,
         \/ \E t \in Task : nsp[t] = o \/ (held[t] = o /\ pc[t] # "free")
         \/ \E g \in Tgid : reg[g] = o
         \/ o \in Ns /\ deferred[o] > 0
  PROVE  count[o] \in Nat /\ count[o] >= 1 /\ (o \in Ns => o \in heap /\ o \in tracked)
<1>1. Pointers(o) \in Nat /\ Pointers(o) > 0
  BY Pointed, PointersNat
<1>2. count[o] \in Nat
  BY DEF TypeOK
<1>3. (o \in Ns => o \in heap) /\ count[o] = Pointers(o)
  BY <1>1 DEF CountBacked, ForeignBacked, Obj
<1>4. ASSUME o \in Ns PROVE o \in tracked
  BY <1>3, <1>4 DEF TrackedOK, FreshOK, TypeOK
<1> QED BY <1>1, <1>2, <1>3, <1>4

\* Nothing points to an address that is not allocated.
LEMMA Unused ==
  ASSUME TypeOK, CountBacked, NEW n \in Ns, n \notin heap
  PROVE  /\ \A t \in Task : nsp[t] # n /\ new[t] # n /\ (held[t] = n => pc[t] = "free")
         /\ \A g \in Tgid : reg[g] # n
         /\ deferred[n] = 0 /\ leaked[n] = 0
<1>1. n \in Obj /\ Pointers(n) = 0
  BY DEF CountBacked, Obj
<1>2. Pointers(n) <= 0 /\ leaked[n] \in Nat /\ deferred[n] \in Nat
  BY <1>1 DEF TypeOK
<1>3. leaked[n] = 0
  BY <1>1, PointersNat, PointersAre
<1> QED BY <1>1, <1>2, <1>3, Pointed


\* What the invariant says of the proxies that somebody points to.
Solid(o) == count[o] >= 1 /\ (o \in Ns => o \in heap /\ o \in tracked)
LiveOK ==
  /\ \A t \in Task : nsp[t] \in Obj => Solid(nsp[t])
  /\ \A t \in Task : held[t] \in Obj /\ pc[t] # "free" => Solid(held[t])
  /\ \A g \in Tgid : reg[g] # NULL => Solid(reg[g])
  /\ \A n \in Ns : deferred[n] > 0 => Solid(n)
  /\ \A t \in Task : new[t] # NULL /\ pc[t] # "created" => new[t] \in tracked

\* They are all allocated, counted and tracked.
LEMMA AllLive ==
  ASSUME TypeOK, FreshOK, TrackedOK, CountBacked, ForeignBacked
  PROVE  LiveOK
<1>1. ASSUME NEW t \in Task, nsp[t] \in Obj PROVE Solid(nsp[t])
  BY <1>1, Live DEF Solid
<1>2. ASSUME NEW t \in Task, held[t] \in Obj, pc[t] # "free" PROVE Solid(held[t])
  BY <1>2, Live DEF Solid
<1>3. ASSUME NEW g \in Tgid, reg[g] # NULL PROVE Solid(reg[g])
  <2>1. reg[g] \in Obj
    BY <1>3 DEF TypeOK, Obj
  <2> QED BY <2>1, Live DEF Solid
<1>4. ASSUME NEW n \in Ns, deferred[n] > 0 PROVE Solid(n)
  BY <1>4, Live DEF Solid, Obj
<1>5. ASSUME NEW t \in Task, new[t] # NULL, pc[t] # "created" PROVE new[t] \in tracked
  BY <1>5 DEF TrackedOK, FreshOK
<1> QED BY <1>1, <1>2, <1>3, <1>4, <1>5 DEF LiveOK

-----------------------------------------------------------------------------
(***************************************************************************)
(* Counting module references.                                             *)
(***************************************************************************)
\* How a step moves the module references: with the heap and with the queue.
PinsSame == heap' = heap /\ deferred' = deferred /\ modrefs' = modrefs
Grows == \E n \in Ns \ heap :
  heap' = heap \cup {n} /\ deferred' = deferred /\ modrefs' = modrefs + 1
Shrinks == \E n \in heap :
  heap' = heap \ {n} /\ deferred' = deferred /\ modrefs' = modrefs - 1
Queues == \E n \in Ns :
  /\ deferred[n] < MaxDeferred /\ deferred' = [deferred EXCEPT ![n] = @ + 1]
  /\ heap' = heap /\ modrefs' = modrefs + 1
Unqueues == \E n \in Ns :
  /\ deferred[n] > 0 /\ deferred' = [deferred EXCEPT ![n] = @ - 1]
  /\ \/ heap' = heap /\ modrefs' = modrefs - 1
     \/ n \in heap /\ heap' = heap \ {n} /\ modrefs' = modrefs - 2
PinsMove == PinsSame \/ Grows \/ Shrinks \/ Queues \/ Unqueues

\* Each of these ways keeps the module references backed.
LEMMA PinsStep ==
  ASSUME TypeOK, DeferredBound, PinsBacked, PinsMove
  PROVE  PinsBacked' /\ DeferredBound' /\ modrefs' \in Nat /\ deferred' \in [Ns -> Nat]
<1>1. modrefs = Cardinality(heap) + DeferredPuts
  BY DEF PinsBacked
<1>2. IsFiniteSet(heap) /\ Cardinality(heap) \in Nat
  BY FS_Subset, FS_CardinalityType DEF TypeOK
<1>3. DeferredPuts \in Nat
  <2>1. IsFiniteSet({q \in Ns \X (1 .. MaxDeferred) : q[2] <= deferred[q[1]]})
    BY BoundFinite, FS_Subset
  <2> QED BY <2>1, FS_CardinalityType DEF DeferredPuts
<1>4. SUFFICES /\ modrefs' = Cardinality(heap') + DeferredPuts'
               /\ DeferredBound' /\ modrefs' \in Nat /\ deferred' \in [Ns -> Nat]
  BY DEF PinsBacked
<1>5. deferred' = deferred => DeferredPuts' = DeferredPuts
  BY DEF DeferredPuts
<1>6. CASE PinsSame
  BY <1>1, <1>5, <1>6 DEF PinsSame, DeferredBound, TypeOK
<1>7. CASE Grows
  <2>1. PICK n \in Ns \ heap :
          heap' = heap \cup {n} /\ deferred' = deferred /\ modrefs' = modrefs + 1
    BY <1>7 DEF Grows
  <2>2. Cardinality(heap') = Cardinality(heap) + 1
    BY <1>2, <2>1, FS_AddElement
  <2>3. DeferredBound' /\ deferred' \in [Ns -> Nat]
    BY <2>1 DEF DeferredBound, TypeOK
  <2> QED BY <1>1, <1>2, <1>3, <1>5, <2>1, <2>2, <2>3
<1>8. CASE Shrinks
  <2>1. PICK n \in heap :
          heap' = heap \ {n} /\ deferred' = deferred /\ modrefs' = modrefs - 1
    BY <1>8 DEF Shrinks
  <2>2. Cardinality(heap') = Cardinality(heap) - 1 /\ Cardinality(heap') \in Nat
    BY <1>2, <2>1, HeapMove DEF TypeOK
  <2>3. DeferredBound' /\ deferred' \in [Ns -> Nat]
    BY <2>1 DEF DeferredBound, TypeOK
  <2> QED BY <1>1, <1>2, <1>3, <1>5, <2>1, <2>2, <2>3
<1>9. CASE Queues
  <2>1. PICK n \in Ns :
          /\ deferred[n] < MaxDeferred /\ deferred' = [deferred EXCEPT ![n] = @ + 1]
          /\ heap' = heap /\ modrefs' = modrefs + 1
    BY <1>9 DEF Queues
  <2>2. DeferredPuts' = DeferredPuts + 1
    BY <2>1, DeferredMove DEF TypeOK
  <2>3. DeferredBound' /\ deferred' \in [Ns -> Nat]
    BY <2>1 DEF DeferredBound, TypeOK
  <2> QED BY <1>1, <1>2, <1>3, <2>1, <2>2, <2>3
<1>10. CASE Unqueues
  <2>1. PICK n \in Ns :
          /\ deferred[n] > 0 /\ deferred' = [deferred EXCEPT ![n] = @ - 1]
          /\ \/ heap' = heap /\ modrefs' = modrefs - 1
             \/ n \in heap /\ heap' = heap \ {n} /\ modrefs' = modrefs - 2
    BY <1>10 DEF Unqueues
  <2>2. DeferredPuts' = DeferredPuts - 1 /\ DeferredPuts' \in Nat
    BY <2>1, DeferredMove DEF TypeOK
  <2>3. DeferredBound' /\ deferred' \in [Ns -> Nat]
    BY <2>1 DEF DeferredBound, TypeOK
  <2>4. n \in heap => /\ Cardinality(heap \ {n}) = Cardinality(heap) - 1
                      /\ Cardinality(heap \ {n}) \in Nat
    BY HeapMove
  <2>5. CASE heap' = heap /\ modrefs' = modrefs - 1
    BY <1>1, <1>2, <1>3, <2>2, <2>3, <2>5
  <2>6. CASE n \in heap /\ heap' = heap \ {n} /\ modrefs' = modrefs - 2
    BY <1>1, <1>2, <1>3, <2>2, <2>3, <2>4, <2>6
  <2> QED BY <2>1, <2>5, <2>6
<1> QED BY <1>6, <1>7, <1>8, <1>9, <1>10 DEF PinsMove

-----------------------------------------------------------------------------
(***************************************************************************)
(* Counting what a step does.                                              *)
(***************************************************************************)
\* What a step of task t does to proxy o, when it touches the nsproxy of one
\* task s and the registry entry of one group g: pointers and references move
\* together.
Balanced(o, t, s, g) ==
  /\ \A u \in Task : u # s => nsp'[u] = nsp[u]
  /\ \A u \in Task : u # t => new'[u] = new[u] /\ held'[u] = held[u] /\ pc'[u] = pc[u]
  /\ \A h \in Tgid : h # g => reg'[h] = reg[h]
  /\ Counted(o)' = Counted(o) + One(nsp'[s] = o) - One(nsp[s] = o)
       + One(new'[t] = o) - One(new[t] = o)
       + One(held'[t] = o /\ pc'[t] # "free") - One(held[t] = o /\ pc[t] # "free")
       + One(reg'[g] = o) - One(reg[g] = o)
       + Queued(o)' - Queued(o) + leaked'[o] - leaked[o]

\* Such a step keeps the count of o backed.
LEMMA Balance ==
  ASSUME TypeOK, TypeOK', NEW o \in Obj, NEW t \in Task, NEW s \in Task, NEW g \in Tgid,
         Pointers(o) = Counted(o), Balanced(o, t, s, g)
  PROVE  Pointers(o)' = Counted(o)'
<1>1. /\ InNsp(o) \in Nat /\ InNew(o) \in Nat /\ InHeld(o) \in Nat
      /\ InReg(o) \in Nat /\ Queued(o) \in Nat /\ leaked[o] \in Nat
  BY PointersNat
<1>2. Queued(o)' \in Nat /\ leaked'[o] \in Nat
  BY DEF TypeOK, Queued
<1>3. /\ InNsp(o)' = InNsp(o) + One(nsp'[s] = o) - One(nsp[s] = o)
      /\ InNew(o)' = InNew(o) + One(new'[t] = o) - One(new[t] = o)
      /\ InHeld(o)' = InHeld(o) + One(held'[t] = o /\ pc'[t] # "free")
                                - One(held[t] = o /\ pc[t] # "free")
      /\ InReg(o)' = InReg(o) + One(reg'[g] = o) - One(reg[g] = o)
  BY PointersMove DEF Balanced
<1>4. \A b : One(b) \in {0, 1}
  BY DEF One
<1> QED BY <1>1, <1>2, <1>3, <1>4, PointersAre DEF Balanced

-----------------------------------------------------------------------------
(***************************************************************************)
(* Steps of a task.                                                        *)
(***************************************************************************)
\* A step of a task keeps the shape of the handlers' state.
LEMMA TaskShape ==
  ASSUME TypeOK, Shape, LiveOK, CountBacked, NEW t \in Task, TaskStep(t)
  PROVE  Shape'
<1> USE DEF Goto, At, objVars, histVars, Obj, TypeOK, LocalOK, Building, PC,
      LiveOK, Solid, Shape, ForkOK, FreshOK, FreeOK, TrackedOK, OffOK
<1>1. CASE Unshare(t)
  BY <1>1, Unused DEF Unshare, CreateNsproxy, constructVars
<1>2. CASE Setns(t)
  BY <1>2, Unused DEF Setns, CreateNsproxy, constructVars
<1>3. CASE ForkCreate(t)
  BY <1>3, Unused DEF ForkCreate, CreateNsproxy, constructVars
<1>4. CASE SetAdd(t)
  <2>1. CASE gate
    <3>1. LocalOK' /\ ForkOK'
      BY <1>4, <2>1 DEF SetAdd, Abandon
    <3>2. FreshOK' /\ FreeOK' /\ TrackedOK' /\ OffOK'
      BY <1>4, <2>1 DEF SetAdd, Abandon
    <3> QED BY <3>1, <3>2
  <2>2. CASE ~gate
    <3>1. LocalOK' /\ ForkOK'
      BY <1>4, <2>2 DEF SetAdd, constructVars
    <3>2. FreshOK' /\ FreeOK' /\ TrackedOK' /\ OffOK'
      BY <1>4, <2>2 DEF SetAdd, constructVars
    <3> QED BY <3>1, <3>2
  <2> QED BY <2>1, <2>2
<1>5. CASE CopyNamespaces(t)
  BY <1>5 DEF CopyNamespaces, constructVars
<1>6. CASE CopyFails(t)
  BY <1>6 DEF CopyFails, Abandon
<1>7. CASE ForkFails(t)
  BY <1>7 DEF ForkFails, Abandon
<1>8. CASE SwitchTaskNamespaces(t)
  BY <1>8 DEF SwitchTaskNamespaces, Target
<1>9. CASE PutOld(t)
  BY <1>9 DEF PutOld, AfterPut
<1>10. CASE FreeOld(t)
  BY <1>10 DEF FreeOld, AfterPut
<1>11. CASE ValidateFd(t)
  BY <1>11 DEF ValidateFd
<1>12. CASE \E q \in Task : ValidateGet(t, q)
  BY <1>12 DEF ValidateGet
<1>13. CASE ValidatePut(t)
  BY <1>13 DEF ValidatePut
<1>14. CASE ValidateFails(t)
  BY <1>14 DEF ValidateFails
<1>15. CASE RegistrySet(t)
  BY <1>15 DEF RegistrySet
<1>16. CASE \E c \in Task, flags \in BOOLEAN : Fork(t, c, flags)
  BY <1>16 DEF Fork, Unborn
<1>17. CASE ExitBegin(t)
  BY <1>17 DEF ExitBegin
<1>18. CASE ExitRegistry(t)
  BY <1>18 DEF ExitRegistry, PutDeferred
<1>19. CASE ExitSwap(t)
  BY <1>19 DEF ExitSwap, PutDeferred
<1>20. CASE ExitReal(t)
  BY <1>20 DEF ExitReal
<1> QED BY <1>1, <1>2, <1>3, <1>4, <1>5, <1>6, <1>7, <1>8, <1>9, <1>10, <1>11,
  <1>12, <1>13, <1>14, <1>15, <1>16, <1>17, <1>18, <1>19, <1>20 DEF TaskStep

\* A step of a task moves the module references with the heap and the queue.
LEMMA TaskPins ==
  ASSUME TypeOK, Shape, LiveOK, DeferredBound, NEW t \in Task, TaskStep(t)
  PROVE  PinsMove
<1> USE DEF Goto, At, objVars, histVars, Obj, TypeOK, LocalOK, Building, PC,
      LiveOK, Solid, Shape, ForkOK, FreshOK, FreeOK, TrackedOK, DeferredBound,
      PinsMove, PinsSame, Grows, Shrinks, Queues, Unqueues
<1>1. CASE Unshare(t)
  BY <1>1 DEF Unshare, CreateNsproxy, constructVars
<1>2. CASE Setns(t)
  BY <1>2 DEF Setns, CreateNsproxy, constructVars
<1>3. CASE ForkCreate(t)
  BY <1>3 DEF ForkCreate, CreateNsproxy, constructVars
<1>4. CASE SetAdd(t)
  BY <1>4 DEF SetAdd, Abandon, constructVars
<1>5. CASE CopyNamespaces(t)
  BY <1>5 DEF CopyNamespaces, constructVars
<1>6. CASE CopyFails(t)
  BY <1>6 DEF CopyFails, Abandon
<1>7. CASE ForkFails(t)
  BY <1>7 DEF ForkFails, Abandon
<1>8. CASE SwitchTaskNamespaces(t)
  BY <1>8 DEF SwitchTaskNamespaces, Target
<1>9. CASE PutOld(t)
  BY <1>9 DEF PutOld, AfterPut
<1>10. CASE FreeOld(t)
  BY <1>10 DEF FreeOld, AfterPut
<1>11. CASE ValidateFd(t)
  BY <1>11 DEF ValidateFd
<1>12. CASE \E q \in Task : ValidateGet(t, q)
  BY <1>12 DEF ValidateGet
<1>13. CASE ValidatePut(t)
  BY <1>13 DEF ValidatePut
<1>14. CASE ValidateFails(t)
  BY <1>14 DEF ValidateFails
<1>15. CASE RegistrySet(t)
  BY <1>15 DEF RegistrySet
<1>16. CASE \E c \in Task, flags \in BOOLEAN : Fork(t, c, flags)
  BY <1>16 DEF Fork, Unborn
<1>17. CASE ExitBegin(t)
  BY <1>17 DEF ExitBegin
<1>18. CASE ExitRegistry(t)
  BY <1>18 DEF ExitRegistry, PutDeferred
<1>19. CASE ExitSwap(t)
  BY <1>19 DEF ExitSwap, PutDeferred
<1>20. CASE ExitReal(t)
  BY <1>20 DEF ExitReal
<1> QED BY <1>1, <1>2, <1>3, <1>4, <1>5, <1>6, <1>7, <1>8, <1>9, <1>10, <1>11,
  <1>12, <1>13, <1>14, <1>15, <1>16, <1>17, <1>18, <1>19, <1>20 DEF TaskStep

\* A step of a task keeps the types.
LEMMA TaskType ==
  ASSUME TypeOK, Shape, LiveOK, NEW t \in Task, TaskStep(t),
         modrefs' \in Nat, deferred' \in [Ns -> Nat]
  PROVE  TypeOK'
<1> USE DEF Goto, At, objVars, histVars, Obj, TypeOK, LocalOK, Building, PC,
      LiveOK, Solid, Shape, ForkOK, FreshOK, FreeOK, TrackedOK
<1>1. CASE Unshare(t)
  BY <1>1 DEF Unshare, CreateNsproxy, constructVars
<1>2. CASE Setns(t)
  BY <1>2 DEF Setns, CreateNsproxy, constructVars
<1>3. CASE ForkCreate(t)
  BY <1>3 DEF ForkCreate, CreateNsproxy, constructVars
<1>4. CASE SetAdd(t)
  <2>1. CASE gate
    <3>1. pc' \in [Task -> PC] /\ fn' \in [Task -> {"none", "unshare", "setns", "fork"}]
      BY <1>4, <2>1 DEF SetAdd, Abandon
    <3>2. heap' \subseteq Ns /\ new' \in [Task -> Ns \cup {NULL}]
      BY <1>4, <2>1 DEF SetAdd
    <3>3. child' \in [Task -> Task \cup {NULL}]
      BY <1>4, <2>1 DEF SetAdd, Abandon
    <3>4. nsp' \in [Task -> Obj \cup {KInit, VInit, NULL}] /\ leaked' \in [Obj -> Nat]
      BY <1>4, <2>1 DEF SetAdd, Abandon
    <3>5. UNCHANGED <<mod, gate, stop, tracked, count, reg, run, dying, held, locked, wrong>>
      BY <1>4, <2>1 DEF SetAdd
    <3> QED BY <3>1, <3>2, <3>3, <3>4, <3>5
  <2>2. CASE ~gate
    BY <1>4, <2>2 DEF SetAdd, constructVars
  <2> QED BY <2>1, <2>2
<1>5. CASE CopyNamespaces(t)
  BY <1>5 DEF CopyNamespaces, constructVars
<1>6. CASE CopyFails(t)
  BY <1>6 DEF CopyFails, Abandon
<1>7. CASE ForkFails(t)
  BY <1>7 DEF ForkFails, Abandon
<1>8. CASE SwitchTaskNamespaces(t)
  BY <1>8 DEF SwitchTaskNamespaces, Target
<1>9. CASE PutOld(t)
  <2>1. count' \in [Obj -> Nat]
    BY <1>9 DEF PutOld
  <2>2. run' \subseteq Task /\ dying' \subseteq run' /\ child' \in [Task -> Task \cup {NULL}]
    BY <1>9 DEF PutOld, AfterPut
  <2>3. pc' \in [Task -> PC] /\ fn' \in [Task -> {"none", "unshare", "setns", "fork"}]
    BY <1>9 DEF PutOld, AfterPut
  <2>4. held' \in [Task -> Obj \cup {KInit, NULL}]
    BY <1>9 DEF PutOld, AfterPut
  <2>5. UNCHANGED <<mod, gate, stop, heap, tracked, nsp, reg, new, leaked, locked, wrong>>
    BY <1>9 DEF PutOld
  <2> QED BY <2>1, <2>2, <2>3, <2>4, <2>5
<1>10. CASE FreeOld(t)
  BY <1>10 DEF FreeOld, AfterPut
<1>11. CASE ValidateFd(t)
  BY <1>11 DEF ValidateFd
<1>12. CASE \E q \in Task : ValidateGet(t, q)
  BY <1>12 DEF ValidateGet
<1>13. CASE ValidatePut(t)
  BY <1>13 DEF ValidatePut
<1>14. CASE ValidateFails(t)
  BY <1>14 DEF ValidateFails
<1>15. CASE RegistrySet(t)
  <2>1. reg[TgidOf[t]] # NULL => reg[TgidOf[t]] \in Obj /\ count[reg[TgidOf[t]]] >= 1
    OBVIOUS
  <2>2. nsp[t] \in Ns
    BY <1>15 DEF RegistrySet
  <2>3. count' \in [Obj -> Nat]
    BY <1>15, <2>1, <2>2 DEF RegistrySet
  <2>4. heap' \subseteq Ns /\ tracked' \subseteq Ns /\ reg' \in [Tgid -> Ns \cup {NULL}]
    BY <1>15, <2>2 DEF RegistrySet
  <2>5. locked' \in BOOLEAN
    BY <1>15 DEF RegistrySet
  <2> QED BY <1>15, <2>3, <2>4, <2>5 DEF RegistrySet
<1>16. CASE \E c \in Task, flags \in BOOLEAN : Fork(t, c, flags)
  <2>1. PICK c \in Task, flags \in BOOLEAN : Fork(t, c, flags)
    BY <1>16
  <2>2. count' \in [Obj -> Nat] /\ nsp' \in [Task -> Obj \cup {KInit, VInit, NULL}]
    BY <2>1 DEF Fork
  <2>3. /\ pc' \in [Task -> PC] /\ fn' \in [Task -> {"none", "unshare", "setns", "fork"}]
        /\ run' \subseteq Task /\ dying' \subseteq run' /\ child' \in [Task -> Task \cup {NULL}]
    BY <2>1 DEF Fork
  <2>4. UNCHANGED <<mod, gate, stop, heap, tracked, reg, new, held, leaked, locked, wrong>>
    BY <2>1 DEF Fork
  <2> QED BY <2>2, <2>3, <2>4
<1>17. CASE ExitBegin(t)
  BY <1>17 DEF ExitBegin
<1>18. CASE ExitRegistry(t)
  BY <1>18 DEF ExitRegistry, PutDeferred
<1>19. CASE ExitSwap(t)
  <2>1. nsp' \in [Task -> Obj \cup {KInit, VInit, NULL}] /\ leaked' \in [Obj -> Nat]
    BY <1>19 DEF ExitSwap, PutDeferred
  <2>2. pc' \in [Task -> PC]
    BY <1>19 DEF ExitSwap
  <2>3. UNCHANGED <<mod, gate, stop, heap, tracked, count, reg, run, dying, fn, new, held,
                    child, locked, wrong>>
    BY <1>19 DEF ExitSwap
  <2> QED BY <2>1, <2>2, <2>3
<1>20. CASE ExitReal(t)
  BY <1>20 DEF ExitReal
<1> QED BY <1>1, <1>2, <1>3, <1>4, <1>5, <1>6, <1>7, <1>8, <1>9, <1>10, <1>11,
  <1>12, <1>13, <1>14, <1>15, <1>16, <1>17, <1>18, <1>19, <1>20 DEF TaskStep

\* A step of a task moves the pointers to a proxy and the references it
\* counts together.
LEMMA TaskCount ==
  ASSUME TypeOK, TypeOK', Shape, LiveOK, NEW t \in Task, TaskStep(t),
         NEW o \in Obj, Pointers(o) = Counted(o)
  PROVE  Pointers(o)' = Counted(o)'
<1> DEFINE g == TgidOf[t]
<1>a. g \in Tgid /\ Target(t) \in Task
  BY DEF Target, Shape, ForkOK
<1>b. SUFFICES \E s \in Task : Balanced(o, t, s, g)
  <2> HIDE DEF g
  <2> QED BY <1>a, Balance
<1> USE DEF Goto, At, objVars, histVars, Obj, TypeOK, LocalOK, Building, PC,
      LiveOK, Solid, Shape, ForkOK, FreshOK, FreeOK, TrackedOK, Target,
      Balanced, One, Counted, Queued
<1>1. CASE Unshare(t)
  <2>1. Balanced(o, t, t, g)
    BY <1>1 DEF Unshare, CreateNsproxy, constructVars
  <2> QED BY <2>1
<1>2. CASE Setns(t)
  <2>1. Balanced(o, t, t, g)
    BY <1>2 DEF Setns, CreateNsproxy, constructVars
  <2> QED BY <2>1
<1>3. CASE ForkCreate(t)
  <2>1. Balanced(o, t, t, g)
    BY <1>3 DEF ForkCreate, CreateNsproxy, constructVars
  <2> QED BY <2>1
<1>4. CASE SetAdd(t)
  <2>1. Balanced(o, t, Target(t), g)
    BY <1>4, <1>a DEF SetAdd, Abandon, constructVars
  <2> QED BY <1>a, <2>1
<1>5. CASE CopyNamespaces(t)
  <2>1. Balanced(o, t, t, g)
    BY <1>5 DEF CopyNamespaces, constructVars
  <2> QED BY <2>1
<1>6. CASE CopyFails(t)
  <2>1. /\ \A u \in Task : u # Target(t) => nsp'[u] = nsp[u]
        /\ \A u \in Task : u # t => new'[u] = new[u] /\ held'[u] = held[u] /\ pc'[u] = pc[u]
        /\ UNCHANGED <<reg, deferred, count>> /\ heap' = heap \ {new[t]}
        /\ UNCHANGED held /\ pc[t] # "free" /\ pc'[t] # "free"
        /\ new[t] \in heap /\ count[new[t]] = 1 /\ new'[t] = NULL
    BY <1>6, <1>a DEF CopyFails, Abandon
  <2>2. leaked'[o] - leaked[o] = One(nsp[Target(t)] = o) - One(nsp'[Target(t)] = o)
    BY <1>6, <1>a DEF CopyFails, Abandon
  <2>3. Counted(o)' = Counted(o) - One(new[t] = o)
    BY <2>1
  <2>4. /\ Queued(o)' = Queued(o) /\ Queued(o) \in Int /\ Counted(o) \in Int
        /\ leaked[o] \in Int /\ leaked'[o] \in Int
    BY <2>1
  <2> HIDE DEF Counted, Queued
  <2>5. Balanced(o, t, Target(t), g)
    BY <1>a, <2>1, <2>2, <2>3, <2>4
  <2> QED BY <1>a, <2>5
<1>7. CASE ForkFails(t)
  <2>1. Balanced(o, t, Target(t), g)
    BY <1>7, <1>a DEF ForkFails, Abandon
  <2> QED BY <1>a, <2>1
<1>8. CASE SwitchTaskNamespaces(t)
  <2>1. Balanced(o, t, Target(t), g)
    BY <1>8, <1>a DEF SwitchTaskNamespaces
  <2> QED BY <1>a, <2>1
<1>9. CASE PutOld(t)
  <2>1. Balanced(o, t, t, g)
    BY <1>9 DEF PutOld, AfterPut
  <2> QED BY <2>1
<1>10. CASE FreeOld(t)
  <2>1. Balanced(o, t, t, g)
    BY <1>10 DEF FreeOld, AfterPut
  <2> QED BY <2>1
<1>11. CASE ValidateFd(t)
  <2>1. Balanced(o, t, t, g)
    BY <1>11 DEF ValidateFd
  <2> QED BY <2>1
<1>12. CASE \E q \in Task : ValidateGet(t, q)
  <2>1. Balanced(o, t, t, g)
    BY <1>12 DEF ValidateGet
  <2> QED BY <2>1
<1>13. CASE ValidatePut(t)
  <2>1. Balanced(o, t, t, g)
    BY <1>13 DEF ValidatePut
  <2> QED BY <2>1
<1>14. CASE ValidateFails(t)
  <2>1. Balanced(o, t, t, g)
    BY <1>14 DEF ValidateFails
  <2> QED BY <2>1
<1>15. CASE RegistrySet(t)
  <2>1. Balanced(o, t, t, g)
    BY <1>15 DEF RegistrySet
  <2> QED BY <2>1
<1>16. CASE \E c \in Task, flags \in BOOLEAN : Fork(t, c, flags)
  <2>1. PICK c \in Task, flags \in BOOLEAN : Fork(t, c, flags)
    BY <1>16
  <2>2. Balanced(o, t, c, g)
    BY <2>1 DEF Fork, Unborn
  <2> QED BY <2>2
<1>17. CASE ExitBegin(t)
  <2>1. Balanced(o, t, t, g)
    BY <1>17 DEF ExitBegin
  <2> QED BY <2>1
<1>18. CASE ExitRegistry(t)
  <2>1. Balanced(o, t, t, g)
    <3> DEFINE n == reg[g]
    <3>1. /\ UNCHANGED <<nsp, new, held, heap, count>>
          /\ \A u \in Task : u # t => pc'[u] = pc[u]
          /\ pc[t] # "free" /\ pc'[t] # "free"
          /\ \A h \in Tgid : h # g => reg'[h] = reg[h]
      BY <1>18 DEF ExitRegistry, PutDeferred
    <3>2. One(reg'[g] = o) - One(reg[g] = o) + Queued(o)' - Queued(o) + leaked'[o] - leaked[o] = 0
      BY <1>18 DEF ExitRegistry, PutDeferred
    <3>3. Counted(o)' = Counted(o) /\ Counted(o) \in Nat
      BY <3>1
    <3>4. /\ One(reg'[g] = o) \in Int /\ One(reg[g] = o) \in Int /\ leaked'[o] \in Int
          /\ leaked[o] \in Int /\ Queued(o) \in Int /\ Queued(o)' \in Int
      OBVIOUS
    <3> HIDE DEF Counted, Queued
    <3> QED BY <3>1, <3>2, <3>3, <3>4
  <2> QED BY <2>1
<1>19. CASE ExitSwap(t)
  <2>1. Balanced(o, t, t, g)
    BY <1>19 DEF ExitSwap, PutDeferred
  <2> QED BY <2>1
<1>20. CASE ExitReal(t)
  <2>1. Balanced(o, t, t, g)
    BY <1>20 DEF ExitReal
  <2> QED BY <2>1
<1> QED BY <1>1, <1>2, <1>3, <1>4, <1>5, <1>6, <1>7, <1>8, <1>9, <1>10, <1>11,
  <1>12, <1>13, <1>14, <1>15, <1>16, <1>17, <1>18, <1>19, <1>20 DEF TaskStep

-----------------------------------------------------------------------------
(***************************************************************************)
(* Steps of the workqueue, of diagfs and of the module.                    *)
(***************************************************************************)
\* The steps that put a proxy outside a handler.
PutStep == (\E n \in Ns : DeferredPut(n)) \/ (\E g \in Tgid : DiagNsDelete(g))

\* The steps that start and stop the module.
ModStep == StopBegin \/ StopAbort \/ StopCommit \/ Start \/ Rmmod

\* A step of the module changes only its own state.  A stop finds the registry
\* empty: an entry would point to a tracked proxy.
LEMMA ModKeeps ==
  ASSUME TypeOK, LiveOK, ModStep
  PROVE  /\ UNCHANGED <<modrefs, heap, tracked, count, nsp, reg, deferred, run, dying, pc,
                        fn, new, held, child, leaked, locked, wrong>>
         /\ mod' \in {"on", "off", "gone"} /\ gate' \in BOOLEAN /\ stop' \in {"idle", "begun"}
<1> USE DEF TypeOK, stopRest, objVars, histVars
<1>1. CASE StopBegin
  BY <1>1 DEF StopBegin
<1>2. CASE StopAbort
  BY <1>2 DEF StopAbort
<1>3. CASE StopCommit
  <2>1. reg' = reg
    BY <1>3 DEF StopCommit, LiveOK, Solid
  <2> QED BY <1>3, <2>1 DEF StopCommit
<1>4. CASE Start
  BY <1>4 DEF Start
<1>5. CASE Rmmod
  BY <1>5 DEF Rmmod
<1> QED BY <1>1, <1>2, <1>3, <1>4, <1>5 DEF ModStep

\* The memory of the module goes, and its hooks come off, only without proxies.
LEMMA ModOff ==
  ASSUME TypeOK, Shape, LiveOK, PinsBacked, DeferredBound, ModStep
  PROVE  OffOK'
<1>1. UNCHANGED <<heap, deferred, pc>>
  BY ModKeeps
<1>2. CASE StopBegin \/ StopAbort \/ Start
  BY <1>1, <1>2 DEF StopBegin, StopAbort, Start, Shape, OffOK
<1>3. CASE StopCommit
  <2>1. \A t \in Task : pc[t] \in {"idle", "native"}
    BY <1>3 DEF StopCommit, InHook
  <2>2. heap = {}
    BY <1>3, <2>1 DEF StopCommit, Shape, TrackedOK
  <2> QED BY <1>1, <1>3, <2>1, <2>2 DEF StopCommit, OffOK
<1>4. CASE Rmmod
  <2>1. \A t \in Task : pc[t] \in {"idle", "native"}
    BY <1>4 DEF Rmmod, InHook
  <2>2. Cardinality(heap) + DeferredPuts = 0
    BY <1>4 DEF Rmmod, PinsBacked
  <2>3. IsFiniteSet(heap) /\ Cardinality(heap) \in Nat
    BY FS_Subset, FS_CardinalityType DEF TypeOK
  <2>4. DeferredPuts \in Nat /\ \A n \in Ns : deferred[n] > 0 => DeferredPuts > 0
    <3> DEFINE Q == {q \in Ns \X (1 .. MaxDeferred) : q[2] <= deferred[q[1]]}
    <3>1. IsFiniteSet(Q)
      BY BoundFinite, FS_Subset
    <3>2. ASSUME NEW n \in Ns, deferred[n] > 0 PROVE <<n, 1>> \in Q
      BY <3>2 DEF TypeOK
    <3>3. DeferredPuts = Cardinality(Q)
      BY DEF DeferredPuts
    <3> HIDE DEF Q
    <3>4. Cardinality(Q) \in Nat /\ (Cardinality(Q) = 0 <=> Q = {})
      BY <3>1, FS_CardinalityType, FS_EmptySet
    <3>5. ASSUME NEW n \in Ns, deferred[n] > 0 PROVE Cardinality(Q) > 0
      <4>1. Q # {}
        BY <3>2, <3>5
      <4>2. \A k \in Nat : k # 0 => k > 0
        OBVIOUS
      <4> QED BY <3>4, <4>1, <4>2
    <3> QED BY <3>3, <3>4, <3>5
  <2>5. Cardinality(heap) = 0 /\ DeferredPuts = 0
    BY <2>2, <2>3, <2>4
  <2>6. heap = {}
    BY <2>3, <2>5, FS_EmptySet
  <2>7. \A n \in Ns : deferred[n] = 0
    BY <2>4, <2>5 DEF TypeOK
  <2> QED BY <1>1, <2>1, <2>6, <2>7 DEF OffOK
<1> QED BY <1>2, <1>3, <1>4 DEF ModStep

\* A put outside a handler keeps the shape of the handlers' state.
LEMMA PutShape ==
  ASSUME TypeOK, Shape, LiveOK, CountBacked, PutStep
  PROVE  Shape'
<1> USE DEF objVars, histVars, Obj, TypeOK, LocalOK, Building, PC, LiveOK, Solid, Shape,
      ForkOK, FreshOK, FreeOK, TrackedOK, OffOK
<1>1. ASSUME NEW n \in Ns, DeferredPut(n) PROVE Shape'
  BY <1>1 DEF DeferredPut
<1>2. ASSUME NEW g \in Tgid, DiagNsDelete(g) PROVE Shape'
  BY <1>2 DEF DiagNsDelete
<1> QED BY <1>1, <1>2 DEF PutStep

\* It moves the module references with the heap and the queue.
LEMMA PutPins ==
  ASSUME TypeOK, Shape, LiveOK, DeferredBound, PutStep
  PROVE  PinsMove
<1> USE DEF objVars, histVars, Obj, TypeOK, LiveOK, Solid, PinsMove, PinsSame, Grows,
      Shrinks, Queues, Unqueues
<1>1. ASSUME NEW n \in Ns, DeferredPut(n) PROVE PinsMove
  BY <1>1 DEF DeferredPut
<1>2. ASSUME NEW g \in Tgid, DiagNsDelete(g) PROVE PinsMove
  BY <1>2 DEF DiagNsDelete
<1> QED BY <1>1, <1>2 DEF PutStep

\* It keeps the types.
LEMMA PutType ==
  ASSUME TypeOK, Shape, LiveOK, PutStep, modrefs' \in Nat, deferred' \in [Ns -> Nat]
  PROVE  TypeOK'
<1> USE DEF objVars, histVars, Obj, TypeOK, LiveOK, Solid
<1>1. ASSUME NEW n \in Ns, DeferredPut(n) PROVE TypeOK'
  BY <1>1 DEF DeferredPut
<1>2. ASSUME NEW g \in Tgid, DiagNsDelete(g) PROVE TypeOK'
  BY <1>2 DEF DiagNsDelete
<1> QED BY <1>1, <1>2 DEF PutStep

\* It takes one pointer and one reference.
LEMMA PutCount ==
  ASSUME TypeOK, TypeOK', Shape, LiveOK, PutStep, NEW o \in Obj, Pointers(o) = Counted(o)
  PROVE  Pointers(o)' = Counted(o)'
<1>1. /\ InNsp(o) \in Nat /\ InNew(o) \in Nat /\ InHeld(o) \in Nat
      /\ InReg(o) \in Nat /\ Queued(o) \in Nat /\ leaked[o] \in Nat
  BY PointersNat
<1>2. UNCHANGED <<nsp, new, held, pc, leaked>>
  BY DEF PutStep, DeferredPut, DiagNsDelete, histVars
<1>3. InNsp(o)' = InNsp(o) /\ InNew(o)' = InNew(o) /\ InHeld(o)' = InHeld(o)
  BY <1>2 DEF InNsp, InNew, InHeld
<1>4. ASSUME NEW n \in Ns, DeferredPut(n) PROVE Pointers(o)' = Counted(o)'
  <2>1. InReg(o)' = InReg(o)
    BY <1>4 DEF DeferredPut, InReg
  <2>2. Queued(o)' = Queued(o) - One(n = o)
    BY <1>4 DEF DeferredPut, Queued, One, TypeOK
  <2>3. Counted(o)' = Counted(o) - One(n = o)
    BY <1>4 DEF DeferredPut, Counted, One, TypeOK, LiveOK, Solid, Obj
  <2>4. One(n = o) \in {0, 1}
    BY DEF One
  <2> QED BY <1>1, <1>2, <1>3, <2>1, <2>2, <2>3, <2>4, PointersAre
<1>5. ASSUME NEW g \in Tgid, DiagNsDelete(g) PROVE Pointers(o)' = Counted(o)'
  <2>1. InReg(o)' = InReg(o) - One(reg[g] = o)
    <3> DEFINE S == {h \in Tgid : reg[h] = o}
               T == {h \in Tgid : reg'[h] = o}
    <3>1. S \in SUBSET Tgid /\ T \in SUBSET Tgid /\ g \notin T /\ (g \in S <=> reg[g] = o)
      BY <1>5 DEF DiagNsDelete, TypeOK, Obj
    <3>2. \A h \in Tgid : h # g => (h \in S <=> h \in T)
      BY <1>5 DEF DiagNsDelete, TypeOK
    <3>3. InReg(o) = Cardinality(S) /\ InReg(o)' = Cardinality(T)
      BY DEF InReg
    <3> HIDE DEF S, T
    <3>4. Cardinality(T) = Cardinality(S) + One(g \in T) - One(g \in S)
      BY <3>1, <3>2, CountChange
    <3>5. One(g \in T) = 0 /\ One(g \in S) = One(reg[g] = o)
      BY <3>1 DEF One
    <3>6. One(reg[g] = o) \in {0, 1}
      BY DEF One
    <3> QED BY <1>1, <3>3, <3>4, <3>5, <3>6
  <2>2. Queued(o)' = Queued(o)
    BY <1>5 DEF DiagNsDelete, Queued
  <2>3. Counted(o)' = Counted(o) - One(reg[g] = o)
    BY <1>5 DEF DiagNsDelete, Counted, One, TypeOK, LiveOK, Solid, Obj
  <2>4. One(reg[g] = o) \in {0, 1}
    BY DEF One
  <2> QED BY <1>1, <1>2, <1>3, <2>1, <2>2, <2>3, <2>4, PointersAre
<1> QED BY <1>4, <1>5 DEF PutStep

-----------------------------------------------------------------------------
(***************************************************************************)
(* The theorems.                                                           *)
(***************************************************************************)
\* Initially a proxy of the kernel counts the tasks it serves and no vendored
\* proxy exists.
LEMMA InitInv == Init => IInv
<1> SUFFICES ASSUME Init PROVE IInv
  OBVIOUS
<1>1. \A o \in Obj : Cardinality({t \in Task : nsp[t] = o}) \in Nat
  BY FS_Subset, FS_CardinalityType
<1>2. TypeOK
  BY <1>1 DEF Init, TypeOK, Obj, PC
<1>3. Shape
  BY DEF Init, Shape, LocalOK, ForkOK, FreshOK, FreeOK, TrackedOK, OffOK, Building
<1>4. DeferredBound
  BY DEF Init, DeferredBound
<1>5. PinsBacked
  <2>1. {q \in Ns \X (1 .. MaxDeferred) : q[2] <= deferred[q[1]]} = {}
    BY DEF Init
  <2>2. Cardinality(heap) = 0 /\ DeferredPuts = 0
    BY <2>1, FS_EmptySet DEF Init, DeferredPuts
  <2> QED BY <2>2 DEF Init, PinsBacked
<1>6. ASSUME NEW o \in Obj PROVE Pointers(o) = Counted(o)
  <2>1. \A t \in Task : new[t] # o /\ held[t] # o /\ \A g \in Tgid : reg[g] # o
    BY DEF Init, Obj
  <2>2. InNew(o) = 0 /\ InHeld(o) = 0
    <3>1. {t \in Task : new[t] = o} = {} /\ {t \in Task : held[t] = o /\ pc[t] # "free"} = {}
      BY <2>1
    <3> QED BY <3>1, FS_EmptySet DEF InNew, InHeld
  <2>3. InReg(o) = 0
    <3>1. {g \in Tgid : reg[g] = o} = {}
      BY DEF Init, Obj
    <3> QED BY <3>1, FS_EmptySet DEF InReg
  <2>4. Queued(o) = 0 /\ leaked[o] = 0
    BY DEF Init, Queued
  <2>5. InNsp(o) = Counted(o)
    <3>1. CASE o \in Ns
      <4>1. {t \in Task : nsp[t] = o} = {}
        BY <3>1 DEF Init
      <4> QED BY <3>1, <4>1, FS_EmptySet DEF Init, InNsp, Counted
    <3>2. CASE o \notin Ns
      BY <3>2 DEF Init, InNsp, Counted
    <3> QED BY <3>1, <3>2
  <2>6. InNsp(o) \in Nat
    BY <1>1 DEF InNsp
  <2> QED BY <2>2, <2>3, <2>4, <2>5, <2>6, PointersAre
<1> QED BY <1>2, <1>3, <1>4, <1>5, <1>6, Backed DEF IInv

\* Every step keeps the inductive invariant.
LEMMA Inductive ==
  ASSUME IInv, [Next]_vars
  PROVE  IInv'
<1>1. TypeOK /\ Shape /\ CountBacked /\ ForeignBacked /\ DeferredBound /\ PinsBacked
  BY DEF IInv
<1>2. LiveOK
  BY <1>1, AllLive DEF Shape
<1>3. \A o \in Obj : Pointers(o) = Counted(o)
  BY <1>1, Backed
<1>4. SUFFICES /\ TypeOK' /\ Shape' /\ DeferredBound' /\ PinsBacked'
               /\ \A o \in Obj : Pointers(o)' = Counted(o)'
  BY BackedNext DEF IInv
<1>5. ASSUME NEW t \in Task, TaskStep(t)
      PROVE  /\ TypeOK' /\ Shape' /\ DeferredBound' /\ PinsBacked'
             /\ \A o \in Obj : Pointers(o)' = Counted(o)'
  <2>1. PinsMove
    BY <1>1, <1>2, <1>5, TaskPins
  <2>2. PinsBacked' /\ DeferredBound' /\ modrefs' \in Nat /\ deferred' \in [Ns -> Nat]
    BY <1>1, <2>1, PinsStep
  <2>3. TypeOK'
    BY <1>1, <1>2, <1>5, <2>2, TaskType
  <2>4. Shape'
    BY <1>1, <1>2, <1>5, TaskShape
  <2>5. \A o \in Obj : Pointers(o)' = Counted(o)'
    BY <1>1, <1>2, <1>3, <1>5, <2>3, TaskCount
  <2> QED BY <2>2, <2>3, <2>4, <2>5
<1>6. ASSUME PutStep
      PROVE  /\ TypeOK' /\ Shape' /\ DeferredBound' /\ PinsBacked'
             /\ \A o \in Obj : Pointers(o)' = Counted(o)'
  <2>1. PinsMove
    BY <1>1, <1>2, <1>6, PutPins
  <2>2. PinsBacked' /\ DeferredBound' /\ modrefs' \in Nat /\ deferred' \in [Ns -> Nat]
    BY <1>1, <2>1, PinsStep
  <2>3. TypeOK'
    BY <1>1, <1>2, <1>6, <2>2, PutType
  <2>4. Shape'
    BY <1>1, <1>2, <1>6, PutShape
  <2>5. \A o \in Obj : Pointers(o)' = Counted(o)'
    BY <1>1, <1>2, <1>3, <1>6, <2>3, PutCount
  <2> QED BY <2>2, <2>3, <2>4, <2>5
<1>7. ASSUME ModStep \/ UNCHANGED vars
      PROVE  /\ TypeOK' /\ Shape' /\ DeferredBound' /\ PinsBacked'
             /\ \A o \in Obj : Pointers(o)' = Counted(o)'
  <2>1. /\ UNCHANGED <<modrefs, heap, tracked, count, nsp, reg, deferred, run, dying, pc,
                       fn, new, held, child, leaked, locked, wrong>>
        /\ mod' \in {"on", "off", "gone"} /\ gate' \in BOOLEAN /\ stop' \in {"idle", "begun"}
    BY <1>1, <1>2, <1>7, ModKeeps DEF vars, objVars, histVars, TypeOK
  <2>2. TypeOK'
    BY <1>1, <2>1 DEF TypeOK
  <2>3. OffOK'
    BY <1>1, <1>2, <1>7, ModOff DEF vars, objVars, Shape, OffOK
  <2>4. Shape'
    BY <1>1, <2>1, <2>3 DEF Shape, LocalOK, ForkOK, FreshOK, FreeOK, TrackedOK
  <2>5. DeferredBound' /\ PinsBacked'
    BY <1>1, <2>1 DEF DeferredBound, PinsBacked, DeferredPuts
  <2>6. \A o \in Obj : Pointers(o)' = Counted(o)'
    BY <1>3, <2>1 DEF Pointers, Counted
  <2> QED BY <2>2, <2>4, <2>5, <2>6
<1> QED BY <1>5, <1>6, <1>7 DEF Next, PutStep, ModStep

\* THE INVARIANT.  It holds in every reachable state.
LEMMA InvariantHolds == Spec => []IInv
<1>1. Init => IInv
  BY InitInv
<1>2. IInv /\ [Next]_vars => IInv'
  BY Inductive
<1> QED BY <1>1, <1>2, PTL DEF Spec

\* TYPES.  Every variable keeps its type: in particular no reference count of
\* a proxy and no count of module references falls below zero, whatever the
\* number of tasks and proxies.
THEOREM TypeCorrect == Spec => []TypeOK
<1>1. IInv => TypeOK
  BY DEF IInv
<1> QED BY <1>1, InvariantHolds, PTL

\* COUNTS.  The reference count of every vendored proxy is the number of
\* pointers to it that vns_put_nsproxy() has yet to be called for, and the
\* module references are those of the proxies and of the queued puts.
THEOREM CountsCorrect == Spec => []CountsBacked
<1>1. IInv => CountsBacked
  BY DEF IInv, CountsBacked
<1> QED BY <1>1, InvariantHolds, PTL

\* STOPPED.  With the hooks off no task is on a vendored proxy, which the
\* kernel would free into a cache of its own.
THEOREM StoppedCorrect == Spec => []StoppedMeansUnused
<1>1. IInv => StoppedMeansUnused
  <2> SUFFICES ASSUME IInv, mod # "on", NEW t \in Task PROVE nsp[t] \notin Ns
    BY DEF StoppedMeansUnused
  <2>1. LiveOK /\ heap = {}
    BY AllLive DEF IInv, Shape, OffOK
  <2> QED BY <2>1 DEF LiveOK, Solid, Obj
<1> QED BY <1>1, InvariantHolds, PTL

\* THE GATE.  While the stop gate is shut no proxy becomes live.
THEOREM GateCorrect == Spec => GateFreezesLive
<1>1. [Next]_vars => [gate /\ gate' => tracked' \subseteq tracked]_vars
  <2> SUFFICES ASSUME Next, gate, gate' PROVE tracked' \subseteq tracked
    OBVIOUS
  <2>1. ASSUME NEW t \in Task, TaskStep(t) PROVE tracked' \subseteq tracked
    BY <2>1 DEF TaskStep, Unshare, Setns, CreateNsproxy, SetAdd, CopyNamespaces, CopyFails,
      SwitchTaskNamespaces, PutOld, FreeOld, ValidateFd, ValidateGet, ValidatePut,
      ValidateFails, RegistrySet, ForkCreate, ForkFails, Fork, ExitBegin, ExitRegistry,
      ExitSwap, ExitReal, objVars
  <2>2. ASSUME ~(\E t \in Task : TaskStep(t)) PROVE tracked' \subseteq tracked
    BY <2>2 DEF Next, DeferredPut, DiagNsDelete, StopBegin, StopAbort, StopCommit, Start,
      Rmmod, stopRest, objVars
  <2> QED BY <2>1, <2>2
<1> QED BY <1>1, PTL DEF Spec, GateFreezesLive

\* A step of the exit_task_namespaces() hook leaves no task on the module's
\* init proxy when it returns.
LEMMA InitHeldStep ==
  ASSUME ExitVia = "exit_task_namespaces", IInv, InitHeld, [Next]_vars
  PROVE  InitHeld'
<1> USE DEF IInv, Shape, LocalOK, ForkOK, TypeOK, InitHeld, Goto, At, objVars, histVars, Obj,
      Building
<1>1. ASSUME NEW t \in Task, TaskStep(t) PROVE InitHeld'
  <2>1. CASE \/ Unshare(t) \/ Setns(t) \/ ForkCreate(t) \/ CopyNamespaces(t)
             \/ \E q \in Task : ValidateGet(t, q)
    BY <2>1 DEF Unshare, Setns, ForkCreate, CreateNsproxy, CopyNamespaces, constructVars,
      ValidateGet
  <2>2. CASE SetAdd(t) \/ CopyFails(t) \/ ForkFails(t)
    BY <2>2 DEF SetAdd, CopyFails, ForkFails, Abandon, constructVars
  <2>3. CASE SwitchTaskNamespaces(t)
    BY <2>3 DEF SwitchTaskNamespaces, Target
  <2>4. CASE PutOld(t) \/ FreeOld(t)
    BY <2>4 DEF PutOld, FreeOld, AfterPut
  <2>5. CASE ValidateFd(t) \/ ValidatePut(t) \/ ValidateFails(t) \/ RegistrySet(t)
    BY <2>5 DEF ValidateFd, ValidatePut, ValidateFails, RegistrySet
  <2>6. CASE \E c \in Task, flags \in BOOLEAN : Fork(t, c, flags)
    BY <2>6 DEF Fork, Unborn
  <2>7. CASE ExitBegin(t) \/ ExitRegistry(t)
    BY <2>7 DEF ExitBegin, ExitRegistry
  <2>8. CASE ExitSwap(t)
    BY <2>8 DEF ExitSwap
  <2>9. CASE ExitReal(t)
    BY <2>9 DEF ExitReal
  <2> QED BY <1>1, <2>1, <2>2, <2>3, <2>4, <2>5, <2>6, <2>7, <2>8, <2>9 DEF TaskStep
<1>2. ASSUME ~(\E t \in Task : TaskStep(t)) PROVE InitHeld'
  <2>1. UNCHANGED <<nsp, pc>>
    BY <1>2 DEF Next, DeferredPut, DiagNsDelete, StopBegin, StopAbort, StopCommit, Start,
      Rmmod, stopRest, vars
  <2> QED BY <2>1
<1> QED BY <1>1, <1>2

\* UNUSED.  Where exit_task_namespaces() can be hooked, a stop leaves no task
\* on a vendored proxy and rmmod none on anything in module memory.
THEOREM UnusedCorrect ==
  ASSUME ExitVia = "exit_task_namespaces"
  PROVE  Spec => []ModuleUnused
<1>1. Init => InitHeld
  BY DEF Init, InitHeld, Obj
<1>2. IInv /\ InitHeld /\ [Next]_vars => InitHeld'
  BY InitHeldStep
<1>3. IInv /\ InitHeld => NoProxyInFreedModule
  <2> SUFFICES ASSUME IInv, InitHeld, mod = "gone" PROVE NoProxyInFreedModule
    BY DEF NoProxyInFreedModule
  <2>1. LiveOK /\ OffOK
    BY AllLive DEF IInv, Shape
  <2> QED BY <2>1 DEF LiveOK, Solid, OffOK, Obj, InitHeld, NoProxyInFreedModule
<1> QED BY <1>1, <1>2, <1>3, InvariantHolds, StoppedCorrect, PTL DEF Spec, ModuleUnused
-----------------------------------------------------------------------------
(***************************************************************************)
(* The refinement of NamespaceService.                                     *)
(***************************************************************************)
\* The gate is shut during a stop and after one, and there is no stop without
\* hooks.
GateInv ==
  /\ mod = "on" => (gate <=> stop = "begun")
  /\ mod # "on" => stop = "idle"

\* Only the steps of the module move mod, gate and stop.
LEMMA PhaseKept ==
  ASSUME Next, ~ModStep
  PROVE  UNCHANGED <<mod, gate, stop>>
<1>1. ASSUME NEW t \in Task, TaskStep(t) PROVE UNCHANGED <<mod, gate, stop>>
  BY <1>1 DEF TaskStep, Unshare, Setns, CreateNsproxy, SetAdd, CopyNamespaces, CopyFails,
    SwitchTaskNamespaces, PutOld, FreeOld, ValidateFd, ValidateGet, ValidatePut,
    ValidateFails, RegistrySet, ForkCreate, ForkFails, Fork, ExitBegin, ExitRegistry,
    ExitSwap, ExitReal, constructVars
<1>2. ASSUME PutStep PROVE UNCHANGED <<mod, gate, stop>>
  BY <1>2 DEF PutStep, DeferredPut, DiagNsDelete
<1> QED BY <1>1, <1>2 DEF Next, PutStep, ModStep

LEMMA GateStep ==
  ASSUME GateInv, [Next]_vars
  PROVE  GateInv'
<1>1. CASE ModStep
  BY <1>1 DEF ModStep, StopBegin, StopAbort, StopCommit, Start, Rmmod, GateInv
<1>2. CASE ~ModStep
  <2>1. UNCHANGED <<mod, gate, stop>>
    BY <1>2, PhaseKept DEF vars
  <2> QED BY <2>1 DEF GateInv
<1> QED BY <1>1, <1>2

\* The refinement mapping.
Phase == CASE mod = "off" -> "stopped"
           [] mod = "gone" -> "removed"
           [] OTHER -> IF gate THEN "closed" ELSE "open"
User == [t \in Task |-> IF nsp[t] \in Ns THEN nsp[t] ELSE NULL]

\* A step that leaves phase, proxies and the tasks' pointers is a stutter.
LEMMA ServiceStutter ==
  ASSUME UNCHANGED <<mod, gate, tracked, nsp>>
  PROVE  [Service!Next]_(Service!vars)
BY DEF Service!vars

\* A proxy is registered while the gate is open: Create.
LEMMA ServiceCreate ==
  ASSUME NEW n \in Ns, n \notin tracked, mod = "on", ~gate,
         tracked' = tracked \cup {n}, UNCHANGED <<mod, gate, nsp>>
  PROVE  [Service!Next]_(Service!vars)
<1>1. Service!Create(n)
  BY DEF Service!Create
<1> QED BY <1>1 DEF Service!Next

\* A proxy leaves the set: Release, since in the next state, too, tasks are on
\* registered proxies only.
LEMMA ServiceRelease ==
  ASSUME TypeOK, LiveOK', NEW n, tracked' = tracked \ {n}, UNCHANGED <<mod, gate, nsp>>
  PROVE  [Service!Next]_(Service!vars)
<1>1. CASE n \notin tracked
  <2>1. UNCHANGED tracked
    BY <1>1
  <2> QED BY <2>1, ServiceStutter
<1>2. CASE n \in tracked
  <2>1. n \in Ns
    BY <1>2 DEF TypeOK
  <2>2. \A t \in Task : nsp[t] # n
    BY <2>1 DEF LiveOK, Solid, Obj
  <2>3. n # NULL
    BY <2>1
  <2>4. Service!Unused(n)
    BY <2>2, <2>3 DEF Service!Unused
  <2>5. Service!Release(n)
    BY <1>2, <2>4 DEF Service!Release
  <2> QED BY <2>1, <2>5 DEF Service!Next
<1> QED BY <1>1, <1>2

\* A task's pointer moves to a registered proxy or away from one: Use.
LEMMA ServiceUse ==
  ASSUME TypeOK, LiveOK', NEW c \in Task, NEW x, nsp' = [nsp EXCEPT ![c] = x],
         mod = "on" \/ (nsp[c] \notin Ns /\ x \notin Ns), UNCHANGED <<mod, gate, tracked>>
  PROVE  [Service!Next]_(Service!vars)
<1> DEFINE n == IF x \in Ns THEN x ELSE NULL
<1>1. User' = [User EXCEPT ![c] = n]
  BY DEF User, TypeOK
<1>2. n \in tracked \cup {NULL}
  <2>1. nsp'[c] = x
    BY DEF TypeOK
  <2> QED BY <2>1 DEF LiveOK, Solid, Obj
<1>3. CASE mod = "on"
  <2>1. n \in Ns \cup {NULL}
    OBVIOUS
  <2>2. Service!Use(c, n)
    BY <1>1, <1>2, <1>3 DEF Service!Use, User
  <2> HIDE DEF n
  <2> QED BY <2>1, <2>2 DEF Service!Next
<1>4. CASE nsp[c] \notin Ns /\ x \notin Ns
  <2>1. User' = User
    BY <1>4 DEF User, TypeOK
  <2> QED BY <2>1 DEF Service!vars, User
<1> QED BY <1>3, <1>4

\* A failed clone takes back the child's pointer and the proxy built for it.
LEMMA ServiceDiscard ==
  ASSUME TypeOK, NEW n \in Ns, n \in tracked, \A t \in Task : nsp[t] # n,
         NEW c \in Task, nsp' = [nsp EXCEPT ![c] = NULL],
         tracked' = tracked \ {n}, UNCHANGED <<mod, gate>>
  PROVE  [Service!Next]_(Service!vars)
<1>1. User' = [User EXCEPT ![c] = NULL]
  BY DEF User, TypeOK
<1>2. Service!Unused(n)
  BY DEF Service!Unused
<1>3. Service!Discard(c, n)
  BY <1>1, <1>2 DEF Service!Discard, User
<1> QED BY <1>3 DEF Service!Next

\* Every step of a task is allowed by NamespaceService.
LEMMA TaskService ==
  ASSUME TypeOK, Shape, LiveOK, LiveOK', NEW t \in Task, TaskStep(t), UNCHANGED <<mod, gate>>
  PROVE  [Service!Next]_(Service!vars)
<1>1. CASE \/ Unshare(t) \/ Setns(t) \/ ForkCreate(t) \/ CopyNamespaces(t)
           \/ ValidateFd(t) \/ (\E q \in Task : ValidateGet(t, q))
           \/ PutOld(t) \/ ExitBegin(t) \/ ExitRegistry(t)
  <2>1. UNCHANGED <<tracked, nsp>>
    BY <1>1 DEF Unshare, Setns, ForkCreate, CreateNsproxy, CopyNamespaces, ValidateFd,
      ValidateGet, PutOld, ExitBegin, ExitRegistry, constructVars, objVars
  <2> QED BY <2>1, ServiceStutter
<1>2. CASE SetAdd(t)
  <2>1. CASE ~gate
    <3>1. new[t] \in Ns /\ new[t] \notin tracked /\ mod = "on"
      BY <1>2 DEF SetAdd, At, Shape, LocalOK, TrackedOK, OffOK, TypeOK, Building
    <3>2. tracked' = tracked \cup {new[t]} /\ UNCHANGED nsp
      BY <1>2, <2>1 DEF SetAdd, constructVars
    <3> QED BY <2>1, <3>1, <3>2, ServiceCreate
  <2>2. CASE gate
    <3>1. UNCHANGED tracked /\ Abandon(t) /\ mod = "on"
      BY <1>2, <2>2 DEF SetAdd, At, Shape, OffOK
    <3>2. CASE fn[t] = "fork"
      <4>1. child[t] \in Task /\ nsp' = [nsp EXCEPT ![child[t]] = NULL]
        BY <3>1, <3>2 DEF Abandon, Shape, ForkOK
      <4> QED BY <3>1, <4>1, ServiceUse
    <3>3. CASE fn[t] # "fork"
      BY <3>1, <3>3, ServiceStutter DEF Abandon
    <3> QED BY <3>2, <3>3
  <2> QED BY <2>1, <2>2
<1>3. CASE CopyFails(t)
  <2>1. new[t] \in Ns /\ new[t] \in tracked /\ \A u \in Task : nsp[u] # new[t]
    BY <1>3 DEF CopyFails, At, Shape, LocalOK, FreshOK, LiveOK, TypeOK, Building
  <2>2. tracked' = tracked \ {new[t]} /\ Abandon(t)
    BY <1>3 DEF CopyFails
  <2>3. CASE fn[t] = "fork"
    <3>1. child[t] \in Task /\ nsp' = [nsp EXCEPT ![child[t]] = NULL]
      BY <2>2, <2>3 DEF Abandon, Shape, ForkOK
    <3> QED BY <2>1, <2>2, <3>1, ServiceDiscard
  <2>4. CASE fn[t] # "fork"
    <3>1. UNCHANGED nsp
      BY <2>2, <2>4 DEF Abandon
    <3> QED BY <2>2, <3>1, ServiceRelease
  <2> QED BY <2>3, <2>4
<1>4. CASE ForkFails(t)
  <2>1. child[t] \in Task /\ nsp' = [nsp EXCEPT ![child[t]] = NULL]
    BY <1>4 DEF ForkFails, Abandon, At, Shape, LocalOK, ForkOK
  <2>2. mod = "on" /\ UNCHANGED tracked
    BY <1>4 DEF ForkFails, At, Shape, OffOK, objVars
  <2> QED BY <2>1, <2>2, ServiceUse
<1>5. CASE SwitchTaskNamespaces(t)
  <2>1. Target(t) \in Task /\ nsp' = [nsp EXCEPT ![Target(t)] = new[t]]
    BY <1>5 DEF SwitchTaskNamespaces, Target, Shape, ForkOK
  <2>2. mod = "on" /\ UNCHANGED tracked
    BY <1>5 DEF SwitchTaskNamespaces, At, Shape, OffOK, objVars
  <2> QED BY <2>1, <2>2, ServiceUse
<1>6. CASE FreeOld(t)
  BY <1>6, ServiceRelease DEF FreeOld
<1>7. CASE ValidatePut(t)
  <2>1. UNCHANGED nsp /\ (tracked' = tracked \ {held[t]} \/ UNCHANGED tracked)
    BY <1>7 DEF ValidatePut
  <2> QED BY <2>1, ServiceRelease, ServiceStutter
<1>8. CASE ValidateFails(t)
  BY <1>8, ServiceRelease DEF ValidateFails
<1>9. CASE RegistrySet(t)
  <2>1. UNCHANGED nsp /\ (tracked' = tracked \ {reg[TgidOf[t]]} \/ UNCHANGED tracked)
    BY <1>9 DEF RegistrySet, objVars
  <2> QED BY <2>1, ServiceRelease, ServiceStutter
<1>10. CASE \E c \in Task, flags \in BOOLEAN : Fork(t, c, flags)
  <2>1. PICK c \in Task : nsp[c] = NULL /\ nsp' = [nsp EXCEPT ![c] = nsp[t]]
    BY <1>10 DEF Fork, Unborn
  <2>2. UNCHANGED tracked /\ (mod = "on" \/ nsp[t] \notin Ns)
    BY <1>10 DEF Fork, Shape, OffOK, LiveOK, Solid, Obj
  <2> QED BY <2>1, <2>2, ServiceUse
<1>11. CASE ExitSwap(t)
  <2>1. mod = "on" /\ UNCHANGED tracked
    BY <1>11 DEF ExitSwap, At, Shape, OffOK, objVars
  <2>2. nsp' = [nsp EXCEPT ![t] = VInit] \/ UNCHANGED nsp
    BY <1>11 DEF ExitSwap
  <2> QED BY <2>1, <2>2, ServiceUse, ServiceStutter
<1>12. CASE ExitReal(t)
  <2>1. nsp' = [nsp EXCEPT ![t] = NULL] /\ UNCHANGED tracked /\ nsp[t] \notin Ns
    BY <1>12 DEF ExitReal, At, Shape, LocalOK
  <2> QED BY <2>1, ServiceUse
<1> QED BY <1>1, <1>2, <1>3, <1>4, <1>5, <1>6, <1>7, <1>8, <1>9, <1>10, <1>11, <1>12
        DEF TaskStep

\* The module's own steps are those of the abstract service: rmmod, which asks
\* for module references only, finds no proxy because each holds one.
LEMMA ModService ==
  ASSUME TypeOK, GateInv, OffOK', TrackedOK', LiveOK, ModStep
  PROVE  [Service!Next]_(Service!vars)
<1>1. UNCHANGED <<tracked, nsp>>
  BY ModKeeps
<1>2. User' = User
  BY <1>1 DEF User
<1>3. mod' # "on" => tracked = {}
  BY <1>1 DEF OffOK, TrackedOK
<1>4. CASE StopBegin
  <2>1. Service!Close
    BY <1>1, <1>4 DEF StopBegin, GateInv, Service!Close
  <2> QED BY <2>1 DEF Service!Next
<1>5. CASE StopAbort
  <2>1. Service!Reopen
    BY <1>1, <1>5 DEF StopAbort, GateInv, Service!Reopen
  <2> QED BY <2>1 DEF Service!Next
<1>6. CASE StopCommit
  <2>1. Service!Stop
    BY <1>1, <1>6 DEF StopCommit, GateInv, Service!Stop
  <2> QED BY <2>1 DEF Service!Next
<1>7. CASE Start
  <2>1. Service!Start
    BY <1>1, <1>7 DEF Start, Service!Start
  <2> QED BY <2>1 DEF Service!Next
<1>8. CASE Rmmod
  <2>1. Service!Remove
    BY <1>1, <1>3, <1>8 DEF Rmmod, GateInv, Service!Remove
  <2> QED BY <2>1 DEF Service!Next
<1> QED BY <1>4, <1>5, <1>6, <1>7, <1>8 DEF ModStep

\* THE SERVICE.  For any number of tasks, groups and proxies, and for either
\* exit hook, the counted and deferred life of proxies implements
\* NamespaceService: a task is never on a freed proxy, nothing becomes live
\* behind the shut gate, and the hooks or the memory go only with every proxy.
THEOREM ServiceRefinement == Spec => ImplementsService
<1>1. Init => Service!Init
  BY DEF Init, Service!Init
<1>2. Init => IInv /\ GateInv
  BY InitInv DEF Init, GateInv
<1>3. IInv /\ GateInv /\ [Next]_vars => IInv' /\ GateInv'
  BY Inductive, GateStep
<1>4. IInv => LiveOK
  BY AllLive DEF IInv, Shape
<1>5. IInv' => LiveOK'
  BY <1>4, PTL
<1>6. IInv /\ GateInv /\ IInv' /\ [Next]_vars => [Service!Next]_(Service!vars)
  <2> SUFFICES ASSUME IInv, GateInv, IInv', [Next]_vars
               PROVE  [Service!Next]_(Service!vars)
    OBVIOUS
  <2>1. TypeOK /\ Shape /\ LiveOK /\ LiveOK' /\ Shape'
    BY <1>4, <1>5 DEF IInv
  <2>2. CASE ModStep
    BY <2>1, <2>2, ModService DEF Shape
  <2>3. CASE Next /\ ~ModStep
    <3>1. UNCHANGED <<mod, gate>>
      BY <2>3, PhaseKept
    <3>2. ASSUME NEW t \in Task, TaskStep(t) PROVE [Service!Next]_(Service!vars)
      BY <2>1, <3>1, <3>2, TaskService
    <3>3. ASSUME NEW n \in Ns, DeferredPut(n) PROVE [Service!Next]_(Service!vars)
      <4>1. UNCHANGED nsp /\ (tracked' = tracked \ {n} \/ UNCHANGED tracked)
        BY <3>3 DEF DeferredPut
      <4> QED BY <2>1, <3>1, <4>1, ServiceRelease, ServiceStutter
    <3>4. ASSUME NEW g \in Tgid, DiagNsDelete(g) PROVE [Service!Next]_(Service!vars)
      <4>1. UNCHANGED nsp /\ (tracked' = tracked \ {reg[g]} \/ UNCHANGED tracked)
        BY <3>4 DEF DiagNsDelete
      <4> QED BY <2>1, <3>1, <4>1, ServiceRelease, ServiceStutter
    <3> QED BY <2>3, <3>2, <3>3, <3>4 DEF Next, ModStep
  <2>4. CASE UNCHANGED vars
    BY <2>4, ServiceStutter DEF vars, objVars
  <2> QED BY <2>2, <2>3, <2>4
<1> QED BY <1>1, <1>2, <1>3, <1>6, PTL DEF Spec, ImplementsService, Service!Spec
=============================================================================
