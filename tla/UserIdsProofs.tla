--------------------------- MODULE UserIdsProofs ---------------------------
(***************************************************************************)
(* Proofs about the id maps, for any number of tasks, namespaces and files,*)
(* any width of an id, any limits on the extents and any text written: a   *)
(* reader finds exactly the pairs that were asked for, a map that is       *)
(* visible stays, get*id() and set*id() translate by it, and an            *)
(* unprivileged gid map is safe.                                           *)
(***************************************************************************)
EXTENDS IdMapProofs, FiniteSetTheorems

USE UserIdsAssumption

-----------------------------------------------------------------------------
(***************************************************************************)
(* The inductive invariant.                                                *)
(***************************************************************************)
\* The tables of maps and flags have one row per namespace.
RowsOK ==
  /\ nr = [n \in AnyNs |-> nr[n]] /\ ext = [n \in AnyNs |-> ext[n]]
  /\ rev = [n \in AnyNs |-> rev[n]]
  /\ parent \in [AnyNs -> AnyNs \cup {NULL}] /\ setgroups \in [AnyNs -> BOOLEAN]
  /\ nsOf \in [Task -> AnyNs]
  /\ file = [f \in File |-> file[f]] /\ \A f \in File : OpenOn(f) => file[f].ns \in AnyNs

\* The write that holds the mutex is for a namespace that has no map yet.
WriteOK ==
  wr # NULL =>
    /\ wr = [file |-> wr.file, ns |-> wr.ns, size |-> wr.size, new |-> wr.new,
             step |-> wr.step, rel |-> wr.rel, lone |-> wr.lone]
    /\ wr.ns \in AnyNs /\ parent[wr.ns] # NULL /\ nr[wr.ns] = 0

\* A namespace under the unprivileged rule exists; its flag
\* USERNS_SETGROUPS_ALLOWED is clear from the moment the write was permitted.
LoneOK ==
  /\ \A n \in lone : n \in AnyNs /\ parent[n] # NULL
  /\ kind = "gid" => \A n \in lone : ~setgroups[n]
  /\ kind = "gid" /\ wr # NULL => (wr.lone => ~setgroups[wr.ns])

\* The tables of a map: k extents e for the pairs R; beyond the static array
\* they are sorted, and r has them sorted the other way.
Whole(k, e, r, R) ==
  /\ k \in 1 .. MaxExtents /\ WholeMap(e) /\ Len(e) = k /\ R = Pairs(e)
  /\ k > BaseExtents => /\ Ascends(e, FALSE)
                        /\ WholeMap(r) /\ Len(r) = k /\ Ascends(r, TRUE) /\ Pairs(r) = R

\* init_user_ns has its map; any other namespace has none or one for the pairs
\* that were asked for, and so has the write that holds the mutex: its extents
\* are in place before their count is.
MapsOK ==
  /\ rel = [n \in AnyNs |-> rel[n]]
  /\ nr[InitNs] = 1 /\ ext[InitNs] = <<Extent(0, 0, NoId)>> /\ parent[InitNs] = NULL
  /\ rel[InitNs] = {<<i, i>> : i \in Id \ {NoId}}
  /\ \A n \in Ns : IF nr[n] = 0 THEN rel[n] = {} ELSE Whole(nr[n], ext[n], rev[n], rel[n])
  /\ wr # NULL => /\ wr.ns \in Ns /\ Whole(wr.size, wr.new.ext, wr.new.rev, wr.rel)
                  /\ wr.step # "extents" => ext[wr.ns] = wr.new.ext /\ rev[wr.ns] = wr.new.rev

\* The inductive invariant about maps.
IInv == RowsOK /\ WriteOK /\ LoneOK /\ MapsOK

\* The ids that a task may have or be shown.
Kid == Id \ {NoId}

Distinct(ptrs) == \A i, j \in 1 .. 3 : i # j => ptrs[i] # ptrs[j]

\* In namespace ns, whose map has N extents for the pairs R, kernel id k shows as
\* v; "early" excuses what was shown before the map was there.
ExactIn(ns, R, k, v) ==
  IF ns = InitNs THEN v = k
  ELSE IF \E i \in Id : <<i, k>> \in R THEN <<v, k>> \in R ELSE v = OverflowId

Shows(ns, N, R, k, v, early) ==
  /\ early \/ N # 0
  /\ ExactIn(ns, R, k, v) \/ (v = OverflowId /\ early)

\* A getres*id() under way, by a task with kernel ids ids: the addresses before the
\* i-th hold what the caller is to see, the others what the real call stored there.
CallOK(c, ids, ns, N, R) ==
  /\ c = [op |-> "getres", ptrs |-> c.ptrs, buf |-> c.buf, i |-> c.i, early |-> c.early]
  /\ c.ptrs \in [1 .. 3 -> 1 .. 3] /\ c.buf \in [1 .. 3 -> Id] /\ c.i \in 1 .. 3
  /\ ns \in Ns /\ (c.early \/ N # 0)
  /\ \A j \in 1 .. 3 : c.buf[c.ptrs[j]] # NoId
  /\ Distinct(c.ptrs) => \A j \in 1 .. 3 :
       IF j < c.i THEN Shows(ns, N, R, ids[j], c.buf[c.ptrs[j]], c.early)
       ELSE c.buf[c.ptrs[j]] = ids[j]

\* What a getter returned.
RetOK(x, ids, ns, N, R) ==
  /\ x.op = "get" =>
       x.which \in 1 .. 2 /\ x.val \in Kid /\ Shows(ns, N, R, ids[x.which], x.val, x.early)
  /\ x.op = "getres" =>
       /\ x.ptrs \in [1 .. 3 -> 1 .. 3] /\ \A j \in 1 .. 3 : x.buf[x.ptrs[j]] \in Kid
       /\ Distinct(x.ptrs) => \A j \in 1 .. 3 :
            Shows(ns, N, R, ids[j], x.buf[x.ptrs[j]], x.early)

CallerOK(t) ==
  /\ call[t] = Idle \/ CallOK(call[t], cred[t], nsOf[t], nr[nsOf[t]], rel[nsOf[t]])
  /\ RetOK(ret[t], cred[t], nsOf[t], nr[nsOf[t]], rel[nsOf[t]])

\* The inductive invariant about calls, on top of the one about maps.
CallsOK ==
  /\ cred \in [Task -> Kid \X Kid \X Kid]
  /\ call = [t \in Caller |-> call[t]] /\ ret = [t \in Caller |-> ret[t]]
  /\ \A t \in Caller : CallerOK(t)

-----------------------------------------------------------------------------
(***************************************************************************)
(* What a lookup in a correct map returns, and what a write makes.         *)
(***************************************************************************)
\* The pairs of a map are of ids other than NoId.
LEMMA PairsBound ==
  ASSUME NEW s, WholeMap(s), NEW i, NEW k, <<i, k>> \in Pairs(s)
  PROVE  i \in Id \ {NoId} /\ k \in Id \ {NoId}
<1>1. PICK j \in 1 .. Len(s) : \E o \in 0 .. s[j].count - 1 :
        i = s[j].first + o /\ k = s[j].lower + o
  BY DEF Pairs
<1>2. Sound(s[j])
  BY <1>1 DEF WholeMap
<1> QED BY <1>1, <1>2, Sizes DEF Sound, Id

\* A lookup of one id, down and up, in a namespace whose tables are correct.
LEMMA Lookup ==
  ASSUME MapsOK, NEW n \in Ns, NEW id \in Id
  PROVE  /\ MakeKid(n, id) \in Id /\ MapIdUp(n, id) \in Id
         /\ \A k \in Id \ {NoId} : MakeKid(n, id) = k <=> <<id, k>> \in rel[n]
         /\ \A k \in Id \ {NoId} : MapIdUp(n, id) = k <=> <<k, id>> \in rel[n]
<1> DEFINE down == IF nr[n] <= BaseExtents THEN SearchBase(ext[n], nr[n], FALSE, id, 1)
                   ELSE Bsearch(ext[n], nr[n], FALSE, id, 1)
           up == IF nr[n] <= BaseExtents THEN SearchBase(ext[n], nr[n], TRUE, id, 1)
                 ELSE Bsearch(rev[n], nr[n], TRUE, id, 1)
<1>1. MakeKid(n, id) = Value(down, FALSE, id) /\ MapIdUp(n, id) = Value(up, TRUE, id)
  BY DEF MakeKid, MapIdRangeDown, MapIdUp, Value, First
<1>2. CASE nr[n] = 0
  <2>1. BaseExtents \in Nat
    OBVIOUS
  <2>2. down = NULL /\ up = NULL
    BY <1>2, <2>1 DEF SearchBase
  <2>3. rel[n] = {}
    BY <1>2 DEF MapsOK
  <2> QED BY <1>1, <2>2, <2>3, Sizes DEF Value, Id
<1>3. CASE nr[n] # 0
  <2>1. Whole(nr[n], ext[n], rev[n], rel[n])
    BY <1>3 DEF MapsOK
  <2>2. CASE nr[n] <= BaseExtents
    <3>1. WholeMap(ext[n]) /\ Len(ext[n]) = nr[n] /\ rel[n] = Pairs(ext[n])
      BY <2>1 DEF Whole
    <3>2. Found(down, ext[n], FALSE, id) /\ Found(up, ext[n], TRUE, id)
      BY <2>2, <3>1, SearchBaseFinds
    <3> HIDE DEF down, up
    <3>3. /\ Value(down, FALSE, id) \in Id
          /\ \A k \in Id \ {NoId} : Value(down, FALSE, id) = k <=> <<id, k>> \in Pairs(ext[n])
      BY <3>1, <3>2, ValueDown
    <3>4. /\ Value(up, TRUE, id) \in Id
          /\ \A k \in Id \ {NoId} : Value(up, TRUE, id) = k <=> <<k, id>> \in Pairs(ext[n])
      BY <3>1, <3>2, ValueUp
    <3> QED BY <1>1, <3>1, <3>3, <3>4, Zenon
  <2>3. CASE ~(nr[n] <= BaseExtents)
    <3>1. /\ WholeMap(ext[n]) /\ Len(ext[n]) = nr[n] /\ rel[n] = Pairs(ext[n])
          /\ WholeMap(rev[n]) /\ Len(rev[n]) = nr[n] /\ rel[n] = Pairs(rev[n])
          /\ Ascends(ext[n], FALSE) /\ Ascends(rev[n], TRUE)
      <4>1. nr[n] > BaseExtents
        BY <2>1, <2>3 DEF Whole
      <4> QED BY <2>1, <4>1 DEF Whole
    <3>2. Found(down, ext[n], FALSE, id) /\ Found(up, rev[n], TRUE, id)
      BY <2>3, <3>1, BsearchFinds
    <3> HIDE DEF down, up
    <3>3. /\ Value(down, FALSE, id) \in Id
          /\ \A k \in Id \ {NoId} : Value(down, FALSE, id) = k <=> <<id, k>> \in Pairs(ext[n])
      BY <3>1, <3>2, ValueDown
    <3>4. /\ Value(up, TRUE, id) \in Id
          /\ \A k \in Id \ {NoId} : Value(up, TRUE, id) = k <=> <<k, id>> \in Pairs(rev[n])
      BY <3>1, <3>2, ValueUp
    <3> QED BY <1>1, <3>1, <3>3, <3>4, Zenon
  <2> QED BY <2>2, <2>3
<1> QED BY <1>2, <1>3

\* The ids of a namespace below init_user_ns become the kernel ids they are.
LEMMA TranslatedSame ==
  ASSUME MapsOK, NEW n, parent[n] = InitNs, NEW s, WholeMap(s)
  PROVE  Translated(n, s) = s
<1> DEFINE one == <<Extent(0, 0, NoId)>>
<1>1. ASSUME NEW e, Sound(e)
      PROVE  MapIdRangeDown(InitNs, e.lower, e.count) = e.lower
  <2>1. /\ e.lower \in Nat /\ e.count \in Nat /\ e.count > 0 /\ e.lower + e.count <= NoId
    BY <1>1, Sizes DEF Sound, Id
  <2>2. Last(0, NoId) = NoId - 1
    BY Sizes, Remainder DEF Last
  <2>3. Last(e.lower, e.count) = e.lower + e.count - 1
    <3>1. e.lower + e.count - 1 \in Nat /\ e.lower + e.count - 1 <= NoId
      BY <2>1, Sizes
    <3> QED BY <3>1, Remainder DEF Last
  <2>4. Within(e.lower, e.count, 0, NoId)
    BY <2>1, <2>2, <2>3, Sizes DEF Within
  <2>5. DOMAIN one = {1} /\ one[1] = Extent(0, 0, NoId)
    OBVIOUS
  <2>6. one[1].first = 0 /\ one[1].lower = 0 /\ one[1].count = NoId
    BY <2>5 DEF Extent
  <2>7. SearchBase(one, 1, FALSE, e.lower, e.count) = one[1]
    <3> DEFINE hits == {i \in (1 .. 1) \cap DOMAIN one :
                          Within(e.lower, e.count, First(one[i], FALSE), one[i].count)}
    <3>1. hits = {1}
      BY <2>4, <2>5, <2>6 DEF First
    <3>2. SearchBase(one, 1, FALSE, e.lower, e.count) =
            IF hits = {} THEN NULL ELSE one[CHOOSE i \in hits : \A j \in hits : i <= j]
      BY DEF SearchBase
    <3> HIDE DEF hits
    <3>3. (CHOOSE i \in hits : \A j \in hits : i <= j) = 1
      BY <3>1
    <3> QED BY <3>1, <3>2, <3>3
  <2>8. one[1] # NULL
    <3>1. one[1] \in [first : Id, lower : Id, count : Id]
      BY <2>5, Sizes DEF Extent, Id
    <3> QED BY <3>1
  <2>9. nr[InitNs] = 1 /\ ext[InitNs] = one /\ 1 <= BaseExtents
    BY DEF MapsOK
  <2>10. MapIdRangeDown(InitNs, e.lower, e.count) = (e.lower - one[1].first + one[1].lower) % Modulus
    BY <2>7, <2>8, <2>9 DEF MapIdRangeDown
  <2>11. e.lower - 0 + 0 = e.lower /\ e.lower <= NoId
    BY <2>1, Sizes
  <2> QED BY <2>1, <2>6, <2>10, <2>11, Remainder
<1>2. s = [i \in 1 .. Len(s) |-> s[i]] /\ DOMAIN s = 1 .. Len(s)
  BY DEF WholeMap
<1>3. ASSUME NEW i \in 1 .. Len(s)
      PROVE  [s[i] EXCEPT !.lower = MapIdRangeDown(parent[n], s[i].lower, s[i].count)] = s[i]
  <2>1. Sound(s[i])
    BY DEF WholeMap
  <2>2. s[i] \in [first : Id, lower : Id, count : Id]
    BY <2>1 DEF Sound
  <2> QED BY <1>1, <2>1, <2>2
<1> QED BY <1>2, <1>3 DEF Translated

\* The pairs the text asks for are those of the extents.
LEMMA AskedPairs ==
  ASSUME MapsOK, NEW n, parent[n] = InitNs, NEW s, WholeMap(s)
  PROVE  Asked(n, s) = Pairs(s)
<1>1. DOMAIN s = 1 .. Len(s)
  BY DEF WholeMap
<1>2. ASSUME NEW j \in 1 .. Len(s), NEW o \in 0 .. s[j].count - 1, NEW k \in Id
      PROVE  <<s[j].lower + o, k>> \in rel[parent[n]] <=> k = s[j].lower + o
  <2>1. Sound(s[j])
    BY DEF WholeMap
  <2>2. s[j].lower + o \in Id \ {NoId}
    BY <2>1, Sizes DEF Sound, Id
  <2>3. rel[parent[n]] = {<<i, i>> : i \in Id \ {NoId}}
    BY DEF MapsOK
  <2> HIDE DEF MapsOK
  <2> QED BY <2>2, <2>3
<1>3. ASSUME NEW p \in Id \X Id
      PROVE  p \in Asked(n, s) <=> p \in Pairs(s)
  <2>1. p[2] \in Id
    OBVIOUS
  <2>2. p \in Asked(n, s) <=> \E j \in 1 .. Len(s) : \E o \in 0 .. s[j].count - 1 :
          p[1] = s[j].first + o /\ <<s[j].lower + o, p[2]>> \in rel[parent[n]]
    BY <1>1 DEF Asked
  <2>3. p \in Pairs(s) <=> \E j \in 1 .. Len(s) : \E o \in 0 .. s[j].count - 1 :
          p[1] = s[j].first + o /\ p[2] = s[j].lower + o
    BY DEF Pairs
  <2>4. \A j \in 1 .. Len(s) : \A o \in 0 .. s[j].count - 1 :
          <<s[j].lower + o, p[2]>> \in rel[parent[n]] <=> p[2] = s[j].lower + o
    BY <1>2, <2>1
  <2>5. ASSUME p \in Asked(n, s) PROVE p \in Pairs(s)
    <3>1. PICK j \in 1 .. Len(s), o \in Nat :
            /\ o \in 0 .. s[j].count - 1 /\ p[1] = s[j].first + o
            /\ <<s[j].lower + o, p[2]>> \in rel[parent[n]]
      BY <2>2, <2>5
    <3> QED BY <2>3, <2>4, <3>1
  <2>6. ASSUME p \in Pairs(s) PROVE p \in Asked(n, s)
    BY <2>2, <2>3, <2>4, <2>6
  <2> QED BY <2>5, <2>6
<1>4. Asked(n, s) \subseteq Id \X Id /\ Pairs(s) \subseteq Id \X Id
  BY DEF Asked, Pairs
<1> QED BY <1>3, <1>4

\* What sort_idmaps() makes of the extents are correct tables.
LEMMA SortedWhole ==
  ASSUME NEW s, WholeMap(s), Len(s) \in 1 .. MaxExtents
  PROVE  Whole(Len(s), Sorted(s).ext, Sorted(s).rev, Pairs(s))
<1>1. CASE Len(s) <= BaseExtents
  <2>1. Sorted(s).ext = s /\ ~(Len(s) > BaseExtents)
    BY <1>1 DEF Sorted
  <2> QED BY <2>1 DEF Whole
<1>2. CASE ~(Len(s) <= BaseExtents)
  <2>1. Sorted(s).ext = SortedBy(s, FALSE) /\ Sorted(s).rev = SortedBy(s, TRUE)
    BY <1>2 DEF Sorted
  <2> QED BY <2>1, SortedIs DEF Whole
<1> QED BY <1>1, <1>2

-----------------------------------------------------------------------------
(***************************************************************************)
(* Steps.                                                                  *)
(***************************************************************************)
\* A step that leaves the maps alone leaves them correct.
LEMMA MapsKept ==
  ASSUME MapsOK, UNCHANGED <<mapVars, wr>>, parent'[InitNs] = parent[InitNs]
  PROVE  MapsOK'
BY DEF MapsOK, mapVars

\* A new namespace takes the setgroups flag of its parent; nobody writes its
\* map before it exists.
LEMMA StepUnshare ==
  ASSUME IInv, NEW t \in Caller, NEW n \in Ns, UnshareUserns(t, n)
  PROVE  IInv'
<1> USE DEF IInv, AnyNs
<1>1. RowsOK'
  BY DEF RowsOK, UnshareUserns, mapVars, OpenOn
<1>2. WriteOK'
  BY DEF RowsOK, WriteOK, UnshareUserns, mapVars
<1>3. LoneOK'
  BY DEF RowsOK, LoneOK, UnshareUserns, mapVars
<1>4. MapsOK'
  <2>1. UNCHANGED <<mapVars, wr>> /\ parent'[InitNs] = parent[InitNs]
    BY DEF RowsOK, UnshareUserns
  <2> QED BY <2>1, MapsKept
<1> QED BY <1>1, <1>2, <1>3, <1>4

\* setns() moves the task alone.
LEMMA StepInstall ==
  ASSUME IInv, NEW t \in Task, NEW n \in Ns, UsernsInstall(t, n)
  PROVE  IInv'
<1>1. UNCHANGED <<kind, nsVars, setgroups, mapVars, file, wr>>
  BY DEF UsernsInstall
<1>2. RowsOK' /\ WriteOK' /\ LoneOK'
  BY <1>1 DEF IInv, AnyNs, RowsOK, WriteOK, LoneOK, UsernsInstall, mapVars, nsVars, OpenOn
<1>3. MapsOK'
  BY <1>1, MapsKept DEF IInv, nsVars
<1> QED BY <1>2, <1>3 DEF IInv

\* A file keeps the namespace of the task it was opened on.
LEMMA StepFile ==
  ASSUME IInv, NEW f \in File,
         \/ \E t, target \in Task, entry \in {"map", "setgroups"} : CreateFd(f, t, target, entry)
         \/ CloseFile(f)
  PROVE  IInv'
<1> USE DEF IInv, fileRest, nsVars, mapVars
<1>1. RowsOK'
  <2>1. \A g \in File : g # f => file'[g] = file[g]
    BY DEF RowsOK, CreateFd, CloseFile
  <2>2. file'[f] # NULL /\ file'[f].ns # NULL => file'[f].ns \in AnyNs
    BY DEF RowsOK, CreateFd, CloseFile
  <2>3. file' = [g \in File |-> file'[g]]
    BY DEF RowsOK, CreateFd, CloseFile
  <2>4. UNCHANGED <<nsOf, nsVars, setgroups, mapVars>>
    BY DEF CreateFd, CloseFile
  <2> QED BY <2>1, <2>2, <2>3, <2>4 DEF RowsOK, OpenOn
<1>2. WriteOK' /\ LoneOK'
  BY DEF WriteOK, LoneOK, CreateFd, CloseFile
<1>3. MapsOK'
  <2>1. UNCHANGED <<nsVars, mapVars, wr>>
    BY DEF CreateFd, CloseFile
  <2> QED BY <2>1, MapsKept
<1> QED BY <1>1, <1>2, <1>3

\* "allow" does not undo a "deny", and "deny" only adds to what LoneOK asks.
LEMMA StepSetgroups ==
  ASSUME IInv, NEW f \in File, SetgroupsWrite(f)
  PROVE  IInv'
<1> USE DEF IInv, nsVars, mapVars, SetgroupsWrite
<1>1. file[f].ns \in AnyNs
  BY DEF RowsOK
<1>2. RowsOK'
  BY <1>1 DEF RowsOK, OpenOn, SetgroupsAllow, SetgroupsDeny
<1>3. WriteOK'
  BY DEF WriteOK
<1>4. LoneOK'
  BY <1>1 DEF RowsOK, LoneOK, SetgroupsAllow, SetgroupsDeny
<1>5. MapsOK'
  BY MapsKept
<1> QED BY <1>2, <1>3, <1>4, <1>5

\* A write is admitted for a namespace without a map; by the unprivileged rule
\* only with USERNS_SETGROUPS_ALLOWED clear.
LEMMA StepMapWrite ==
  ASSUME IInv, NEW f \in File, NEW power \in Power, MapWrite(f, power)
  PROVE  IInv'
<1>1. file[f].ns \in AnyNs /\ wr = NULL
  BY DEF IInv, RowsOK, MapWrite
<1>2. CASE UNCHANGED vars
  <2>1. MapsOK'
    BY <1>2, MapsKept DEF vars, nsVars, IInv
  <2> QED BY <1>2, <2>1 DEF vars, nsVars, mapVars, IInv, RowsOK, WriteOK, LoneOK, OpenOn
<1>3. ASSUME WriteAdmitted(file[f], power), NEW lines \in Text, NEW owns, NEW memory,
             MapWriteBy(f, lines, power, owns, memory)
      PROVE  IInv'
  <2> DEFINE fl == file[f]
             s == Built(lines)
  <2>1. parent[fl.ns] # NULL /\ nr[fl.ns] = 0
    BY <1>3 DEF WriteAdmitted
  <2>2. UNCHANGED <<kind, nsOf, parent, setgroups, rel, lone, file>>
    BY <1>3 DEF MapWriteBy, writeRest, nsVars
  <2>0. fl.ns \in Ns /\ parent[fl.ns] = InitNs
    BY <1>1, <1>3 DEF WriteAdmitted, IInv, MapsOK, AnyNs
  <2>3. CASE /\ Len(s) = Len(lines)
             /\ new_idmap_permitted(fl, s, power, owns)
             /\ wr' = [file |-> f, ns |-> fl.ns, size |-> Len(s),
                       new |-> Sorted(Translated(fl.ns, s)), step |-> "extents",
                       rel |-> Asked(fl.ns, s), lone |-> power # "parent"]
             /\ UNCHANGED <<nr, ext, rev>>
    <3>1. wr'.lone = (power # "parent") /\ wr'.ns = fl.ns
      BY <2>3
    <3>2. kind = "gid" /\ power # "parent" => ~setgroups[fl.ns]
      BY <2>3 DEF new_idmap_permitted, LoneRule
    <3>3. RowsOK'
      BY <2>2, <2>3 DEF IInv, RowsOK, OpenOn
    <3>4. WriteOK'
      BY <1>1, <2>1, <2>2, <2>3 DEF WriteOK
    <3>5. LoneOK'
      BY <2>2, <3>1, <3>2 DEF IInv, LoneOK
    <3>6. MapsOK'
      <4>1. WholeMap(s) /\ Len(s) \in 1 .. MaxExtents
        BY <1>3, <2>3, BuiltWhole
      <4>2. Translated(fl.ns, s) = s /\ Asked(fl.ns, s) = Pairs(s)
        BY <2>0, <4>1, TranslatedSame, AskedPairs DEF IInv
      <4>3. wr'.ns = fl.ns /\ wr'.size = Len(s) /\ wr'.new = Sorted(s) /\ wr'.step = "extents"
            /\ wr'.rel = Pairs(s)
        BY <2>3, <4>2
      <4>4. Whole(wr'.size, wr'.new.ext, wr'.new.rev, wr'.rel)
        BY <4>1, <4>3, SortedWhole
      <4>5. UNCHANGED <<nr, ext, rev, rel, parent>>
        BY <2>2, <2>3
      <4> QED BY <2>0, <4>3, <4>4, <4>5 DEF IInv, MapsOK
    <3> QED BY <3>3, <3>4, <3>5, <3>6 DEF IInv
  <2>4. CASE wr' = wr
    <3>1. \/ UNCHANGED <<nr, ext, rev>>
          \/ /\ nr' = [nr EXCEPT ![fl.ns] = 0] /\ ext' = [ext EXCEPT ![fl.ns] = <<>>]
             /\ rev' = [rev EXCEPT ![fl.ns] = <<>>]
      BY <1>3 DEF MapWriteBy
    <3>2. RowsOK'
      BY <2>2, <3>1 DEF IInv, RowsOK, OpenOn
    <3>3. MapsOK'
      <4>1. \A n \in AnyNs : nr'[n] = IF n = fl.ns THEN 0 ELSE nr[n]
        BY <2>1, <3>1 DEF IInv, RowsOK
      <4>2. \A n \in AnyNs : n # fl.ns => ext'[n] = ext[n] /\ rev'[n] = rev[n]
        BY <3>1 DEF IInv, RowsOK
      <4>3. InitNs \in AnyNs /\ InitNs # fl.ns /\ Ns \subseteq AnyNs
        BY <2>0 DEF AnyNs
      <4>4. \A n \in Ns :
              IF nr'[n] = 0 THEN rel'[n] = {} ELSE Whole(nr'[n], ext'[n], rev'[n], rel'[n])
        BY <2>1, <2>2, <4>1, <4>2, <4>3 DEF IInv, MapsOK
      <4> QED BY <1>1, <2>2, <2>4, <4>1, <4>2, <4>3, <4>4 DEF IInv, MapsOK
    <3> QED BY <1>1, <2>2, <2>4, <3>2, <3>3 DEF IInv, WriteOK, LoneOK
  <2> QED BY <1>3, <2>3, <2>4 DEF MapWriteBy
<1> QED BY <1>2, <1>3 DEF MapWrite

\* The installation fills the one map the write is for.
LEMMA StepMap ==
  ASSUME IInv, InstallExtents \/ InstallCount
  PROVE  IInv'
<1> USE DEF IInv, writeRest, nsVars
<1>1. CASE InstallExtents
  <2>1. wr' = [file |-> wr.file, ns |-> wr.ns, size |-> wr.size, new |-> wr.new,
               step |-> "count", rel |-> wr.rel, lone |-> wr.lone]
    BY <1>1 DEF InstallExtents, WriteOK
  <2>2. RowsOK'
    BY <1>1 DEF InstallExtents, RowsOK, OpenOn
  <2>3. WriteOK' /\ LoneOK'
    BY <1>1, <2>1 DEF InstallExtents, WriteOK, LoneOK
  <2>4. MapsOK'
    <3>1. nr[wr.ns] = 0 /\ wr.ns \in Ns /\ InitNs \in AnyNs /\ Ns \subseteq AnyNs
      BY <1>1 DEF InstallExtents, WriteOK, MapsOK, AnyNs
    <3>2. UNCHANGED <<nr, rel, parent>>
      BY <1>1 DEF InstallExtents
    <3>3. \A n \in AnyNs : n # wr.ns => ext'[n] = ext[n] /\ rev'[n] = rev[n]
      BY <1>1 DEF InstallExtents, RowsOK
    <3>4. ext'[wr.ns] = wr.new.ext /\ rev'[wr.ns] = wr.new.rev
      BY <1>1, <3>1 DEF InstallExtents, RowsOK
    <3>5. \A n \in Ns :
            IF nr'[n] = 0 THEN rel'[n] = {} ELSE Whole(nr'[n], ext'[n], rev'[n], rel'[n])
      BY <3>1, <3>2, <3>3 DEF MapsOK
    <3>6. Whole(wr.size, wr.new.ext, wr.new.rev, wr.rel)
      BY <1>1 DEF InstallExtents, MapsOK
    <3>7. wr' # NULL => /\ wr'.ns \in Ns /\ Whole(wr'.size, wr'.new.ext, wr'.new.rev, wr'.rel)
                        /\ ext'[wr'.ns] = wr'.new.ext /\ rev'[wr'.ns] = wr'.new.rev
      BY <2>1, <3>1, <3>4, <3>6
    <3> QED BY <3>1, <3>2, <3>3, <3>5, <3>7 DEF MapsOK
  <2> QED BY <2>2, <2>3, <2>4
<1>2. CASE InstallCount
  <2>1. RowsOK'
    BY <1>2 DEF InstallCount, RowsOK, OpenOn
  <2>2. WriteOK' /\ LoneOK'
    BY <1>2 DEF InstallCount, WriteOK, LoneOK
  <2>3. MapsOK'
    <3>1. /\ wr.ns \in Ns /\ Whole(wr.size, ext[wr.ns], rev[wr.ns], wr.rel)
          /\ InitNs \in AnyNs /\ Ns \subseteq AnyNs
      BY <1>2 DEF InstallCount, MapsOK, AnyNs
    <3>2. UNCHANGED <<ext, rev, parent>> /\ wr' = NULL
      BY <1>2 DEF InstallCount
    <3>3. \A n \in AnyNs : n # wr.ns => nr'[n] = nr[n] /\ rel'[n] = rel[n]
      BY <1>2 DEF InstallCount, RowsOK, MapsOK
    <3>4. nr'[wr.ns] = wr.size /\ rel'[wr.ns] = wr.rel /\ rel' = [n \in AnyNs |-> rel'[n]]
      BY <1>2, <3>1 DEF InstallCount, RowsOK, MapsOK
    <3>5. wr.size # 0
      BY <3>1 DEF Whole
    <3>6. \A n \in Ns :
            IF nr'[n] = 0 THEN rel'[n] = {} ELSE Whole(nr'[n], ext'[n], rev'[n], rel'[n])
      BY <3>1, <3>2, <3>3, <3>4, <3>5 DEF MapsOK
    <3> QED BY <3>1, <3>2, <3>3, <3>4, <3>6 DEF MapsOK
  <2> QED BY <2>1, <2>2, <2>3
<1> QED BY <1>1, <1>2

\* A get*id() or set*id() call touches neither maps nor flags.
LEMMA CallKeeps ==
  ASSUME NEW t \in Caller, CallStep(t)
  PROVE  UNCHANGED <<kind, nsOf, nsVars, setgroups, mapVars, file, wr>>
BY DEF CallStep, HookGetid, HookGetresid, GetresidLoop, GetresidFault, HookSetid, HookSetreid,
  HookSetresid, SetTo, callRest

\* Every step keeps the inductive invariant.
LEMMA Inductive ==
  ASSUME IInv, [Next]_vars
  PROVE  IInv'
<1>1. ASSUME NEW f \in File, FileStep(f) PROVE IInv'
  BY <1>1, StepFile, StepSetgroups, StepMapWrite DEF FileStep
<1>2. ASSUME (\E t \in Caller : CallStep(t)) \/ UNCHANGED vars PROVE IInv'
  <2>1. UNCHANGED <<kind, nsOf, nsVars, setgroups, mapVars, file, wr>>
    BY <1>2, CallKeeps DEF vars
  <2>2. MapsOK'
    BY <2>1, MapsKept DEF IInv, nsVars
  <2> QED BY <2>1, <2>2 DEF IInv, RowsOK, WriteOK, LoneOK, OpenOn, nsVars, mapVars
<1> QED BY <1>1, <1>2, StepUnshare, StepInstall, StepMap DEF Next

\* The map of a namespace that readers can see, and the pairs it is for.
Same(n) == nr'[n] = nr[n] /\ ext'[n] = ext[n] /\ rev'[n] = rev[n] /\ rel'[n] = rel[n]

\* It never changes.
LEMMA VisibleStays ==
  ASSUME IInv, [Next]_vars, NEW n \in AnyNs, nr[n] # 0
  PROVE  Same(n)
<1> USE DEF Same
<1>1. ASSUME NEW t \in Task, NEW m \in Ns, UnshareUserns(t, m) \/ UsernsInstall(t, m)
      PROVE  UNCHANGED mapVars
  BY <1>1 DEF UnshareUserns, UsernsInstall, mapVars
<1>2. ASSUME NEW f \in File, FileStep(f)
      PROVE  Same(n)
  <2>1. CASE ~(\E power \in Power : MapWrite(f, power))
    BY <1>2, <2>1 DEF FileStep, CreateFd, CloseFile, SetgroupsWrite, fileRest, mapVars
  <2>2. ASSUME NEW power \in Power, MapWrite(f, power)
        PROVE  Same(n)
    <3>1. CASE UNCHANGED vars
      BY <3>1 DEF vars, mapVars
    <3>2. CASE nr[file[f].ns] = 0 /\ \E lines \in Text, owns \in BOOLEAN, memory \in BOOLEAN :
                 MapWriteBy(f, lines, power, owns, memory)
      <4>1. n # file[f].ns
        BY <3>2
      <4> QED BY <3>2, <4>1 DEF IInv, RowsOK, MapWriteBy
    <3> QED BY <2>2, <3>1, <3>2 DEF MapWrite, WriteAdmitted
  <2> QED BY <2>1, <2>2
<1>3. CASE InstallExtents \/ InstallCount
  <2>1. n # wr.ns
    BY <1>3 DEF IInv, WriteOK, InstallExtents, InstallCount
  <2> QED BY <1>3, <2>1 DEF IInv, RowsOK, MapsOK, InstallExtents, InstallCount
<1>4. ASSUME NEW t \in Caller, CallStep(t) PROVE UNCHANGED mapVars
  BY <1>4, CallKeeps DEF mapVars
<1>5. CASE UNCHANGED mapVars
  BY <1>5 DEF mapVars
<1> QED BY <1>1, <1>2, <1>3, <1>4, <1>5 DEF Next, vars

\* It holds in every reachable state.
LEMMA InvariantHolds == Spec => []IInv
<1>1. Init => IInv
  <2>1. Init => RowsOK /\ WriteOK /\ LoneOK
    <3> SUFFICES ASSUME Init PROVE RowsOK /\ WriteOK /\ LoneOK
      OBVIOUS
    <3>1. RowsOK
      BY DEF Init, RowsOK, OpenOn, AnyNs
    <3>2. wr = NULL /\ lone = {}
      BY DEF Init
    <3> QED BY <3>1, <3>2 DEF WriteOK, LoneOK
  <2>2. Init => MapsOK
    <3> SUFFICES ASSUME Init PROVE MapsOK
      OBVIOUS
    <3>1. wr = NULL /\ rel = [n \in AnyNs |-> rel[n]]
      BY DEF Init
    <3>2. InitNs \in AnyNs /\ Ns \subseteq AnyNs /\ \A n \in Ns : n # InitNs
      BY DEF AnyNs
    <3>3. /\ nr[InitNs] = 1 /\ ext[InitNs] = <<Extent(0, 0, NoId)>> /\ parent[InitNs] = NULL
          /\ rel[InitNs] = {<<i, i>> : i \in Id \ {NoId}}
      BY <3>2 DEF Init
    <3>4. \A n \in Ns : nr[n] = 0 /\ rel[n] = {}
      BY <3>2 DEF Init
    <3> QED BY <3>1, <3>3, <3>4 DEF MapsOK
  <2> QED BY <2>1, <2>2 DEF IInv
<1>2. IInv /\ [Next]_vars => IInv'
  BY Inductive
<1> QED BY <1>1, <1>2, PTL DEF Spec

-----------------------------------------------------------------------------
(***************************************************************************)
(* Calls.                                                                  *)
(***************************************************************************)
\* A kernel id shows as an id, the right one.
LEMMA Munged ==
  ASSUME MapsOK, NEW n \in Ns, NEW k \in Kid
  PROVE  FromKidMunged(n, k) \in Kid /\ ExactIn(n, rel[n], k, FromKidMunged(n, k))
<1> DEFINE m == MapIdUp(n, k)
           v == FromKidMunged(n, k)
<1>1. m \in Id /\ \A i \in Kid : m = i <=> <<i, k>> \in rel[n]
  BY Lookup DEF Kid
<1>2. \A i : <<i, k>> \in rel[n] => i \in Kid
  <2>1. nr[n] # 0 => Whole(nr[n], ext[n], rev[n], rel[n])
    BY DEF MapsOK
  <2>2. nr[n] = 0 => rel[n] = {}
    BY DEF MapsOK
  <2> SUFFICES ASSUME NEW i, <<i, k>> \in rel[n] PROVE i \in Kid
    OBVIOUS
  <2>3. WholeMap(ext[n]) /\ <<i, k>> \in Pairs(ext[n])
    BY <2>1, <2>2 DEF Whole
  <2> QED BY <2>3, PairsBound DEF Kid
<1>3. v = (IF m = NoId THEN OverflowId ELSE m) /\ n # InitNs
  BY DEF FromKidMunged
<1>4. OverflowId \in Kid
  BY Sizes DEF Kid, Id
<1> HIDE DEF m, v
<1>5. v \in Kid
  BY <1>1, <1>3, <1>4 DEF Kid
<1>6. ASSUME \E i \in Id : <<i, k>> \in rel[n]
      PROVE  ExactIn(n, rel[n], k, v)
  <2>1. PICK i \in Kid : <<i, k>> \in rel[n]
    BY <1>2, <1>6
  <2>2. m = i /\ v = i
    BY <1>1, <1>3, <2>1 DEF Kid
  <2> QED BY <1>3, <1>6, <2>1, <2>2 DEF ExactIn
<1>7. ASSUME ~ \E i \in Id : <<i, k>> \in rel[n]
      PROVE  ExactIn(n, rel[n], k, v)
  <2>1. m = NoId
    BY <1>1, <1>7 DEF Kid
  <2> QED BY <1>3, <1>7, <2>1 DEF ExactIn
<1>8. ExactIn(n, rel[n], k, v)
  BY <1>6, <1>7
<1> QED BY <1>5, <1>8 DEF v

\* What was shown stays right when the map appears.
LEMMA ShowsKept ==
  ASSUME NEW ns, NEW N, NEW R, NEW N2, NEW R2, NEW k, NEW v, NEW early,
         N = 0 => R = {} /\ ns # InitNs, N # 0 => N2 = N /\ R2 = R,
         Shows(ns, N, R, k, v, early)
  PROVE  Shows(ns, N2, R2, k, v, early)
<1>1. CASE N = 0
  BY <1>1 DEF Shows, ExactIn
<1>2. CASE N # 0
  BY <1>2
<1> QED BY <1>1, <1>2

\* So the calls stay right.
LEMMA CallKept ==
  ASSUME NEW ns, NEW N, NEW R, NEW N2, NEW R2, NEW c, NEW ids,
         N = 0 => R = {} /\ ns # InitNs, N # 0 => N2 = N /\ R2 = R
  PROVE  /\ CallOK(c, ids, ns, N, R) => CallOK(c, ids, ns, N2, R2)
         /\ RetOK(c, ids, ns, N, R) => RetOK(c, ids, ns, N2, R2)
<1>1. \A k, v, early : Shows(ns, N, R, k, v, early) => Shows(ns, N2, R2, k, v, early)
  BY ShowsKept
<1>2. CallOK(c, ids, ns, N, R) => CallOK(c, ids, ns, N2, R2)
  BY <1>1 DEF CallOK
<1>3. RetOK(c, ids, ns, N, R) => RetOK(c, ids, ns, N2, R2)
  BY <1>1 DEF RetOK
<1> QED BY <1>2, <1>3

\* One turn of the loop of getres*id(): w is what the id at the address shows as.
LEMMA TurnRight ==
  ASSUME NEW c, NEW ids, NEW ns, NEW N, NEW R, NEW w \in Kid, CallOK(c, ids, ns, N, R),
         ExactIn(ns, R, c.buf[c.ptrs[c.i]], w),
         NEW b, b = [c.buf EXCEPT ![c.ptrs[c.i]] = w]
  PROVE  /\ c.i < 3 => CallOK([c EXCEPT !.buf = b, !.i = c.i + 1], ids, ns, N, R)
         /\ c.i = 3 => RetOK([op |-> "getres", ptrs |-> c.ptrs, buf |-> b, early |-> c.early],
                             ids, ns, N, R)
<1> DEFINE p == c.ptrs
           i == c.i
           early == c.early
<1>1. /\ c = [op |-> "getres", ptrs |-> p, buf |-> c.buf, i |-> i, early |-> early]
      /\ p \in [1 .. 3 -> 1 .. 3] /\ c.buf \in [1 .. 3 -> Id] /\ i \in 1 .. 3
      /\ ns \in Ns /\ (early \/ N # 0) /\ \A j \in 1 .. 3 : c.buf[p[j]] # NoId
  BY DEF CallOK
<1>2. Distinct(p) => \A j \in 1 .. 3 :
        IF j < i THEN Shows(ns, N, R, ids[j], c.buf[p[j]], early) ELSE c.buf[p[j]] = ids[j]
  BY DEF CallOK
<1>3. b \in [1 .. 3 -> Id] /\ \A j \in 1 .. 3 : b[p[j]] = IF p[j] = p[i] THEN w ELSE c.buf[p[j]]
  BY <1>1 DEF Kid
<1>4. \A j \in 1 .. 3 : b[p[j]] \in Kid
  BY <1>1, <1>3 DEF Kid
<1>5. ExactIn(ns, R, c.buf[p[i]], w)
  OBVIOUS
<1> HIDE DEF p, i, early
<1>6. ASSUME Distinct(p), NEW j \in 1 .. 3
      PROVE  IF j <= i THEN Shows(ns, N, R, ids[j], b[p[j]], early) ELSE b[p[j]] = ids[j]
  <2>1. CASE j = i
    <3>1. b[p[j]] = w /\ c.buf[p[i]] = ids[i]
      BY <1>1, <1>2, <1>3, <1>6, <2>1
    <3> QED BY <1>1, <1>5, <2>1, <3>1 DEF Shows
  <2>2. CASE j # i
    <3>1. b[p[j]] = c.buf[p[j]]
      BY <1>1, <1>3, <1>6, <2>2 DEF Distinct
    <3>2. j <= i <=> j < i
      BY <1>1, <2>2
    <3> QED BY <1>2, <1>6, <3>1, <3>2
  <2> QED BY <2>1, <2>2
<1>7. ASSUME i < 3
      PROVE  CallOK([c EXCEPT !.buf = b, !.i = c.i + 1], ids, ns, N, R)
  <2> DEFINE d == [c EXCEPT !.buf = b, !.i = c.i + 1]
  <2>1. d = [op |-> "getres", ptrs |-> p, buf |-> b, i |-> i + 1, early |-> early]
    <3>1. c = [op |-> "getres", ptrs |-> c.ptrs, buf |-> c.buf, i |-> c.i, early |-> c.early]
      BY DEF CallOK
    <3>2. [c EXCEPT !.buf = b] =
            [op |-> "getres", ptrs |-> c.ptrs, buf |-> b, i |-> c.i, early |-> c.early]
      BY <3>1
    <3>3. d = [[c EXCEPT !.buf = b] EXCEPT !.i = c.i + 1]
      OBVIOUS
    <3> HIDE DEF d
    <3>4. d = [op |-> "getres", ptrs |-> c.ptrs, buf |-> b, i |-> c.i + 1, early |-> c.early]
      BY <3>2, <3>3
    <3> QED BY <3>4 DEF p, i, early
  <2>2. d.ptrs = p /\ d.buf = b /\ d.i = i + 1 /\ d.early = early
    BY <2>1
  <2> HIDE DEF d
  <2>3. i + 1 \in 1 .. 3 /\ \A j \in 1 .. 3 : j < i + 1 <=> j <= i
    BY <1>1, <1>7
  <2>4. \A j \in 1 .. 3 : b[p[j]] # NoId
    BY <1>4 DEF Kid
  <2>5. Distinct(p) => \A j \in 1 .. 3 :
          IF j < i + 1 THEN Shows(ns, N, R, ids[j], b[p[j]], early) ELSE b[p[j]] = ids[j]
    BY <1>6, <2>3
  <2>6. CallOK(d, ids, ns, N, R)
    BY <1>1, <1>3, <2>1, <2>2, <2>3, <2>4, <2>5 DEF CallOK
  <2> QED BY <2>6 DEF d
<1>8. ASSUME i = 3
      PROVE  RetOK([op |-> "getres", ptrs |-> p, buf |-> b, early |-> early], ids, ns, N, R)
  <2>1. Distinct(p) => \A j \in 1 .. 3 : Shows(ns, N, R, ids[j], b[p[j]], early)
    BY <1>6, <1>8
  <2> QED BY <1>1, <1>4, <2>1 DEF RetOK
<1> QED BY <1>7, <1>8 DEF p, i, early

\* Three addresses are distinct if there are three of them.
LEMMA ThreeDistinct ==
  ASSUME NEW ptrs \in [1 .. 3 -> 1 .. 3], Cardinality({ptrs[i] : i \in 1 .. 3}) = 3
  PROVE  Distinct(ptrs)
<1> DEFINE T == {ptrs[i] : i \in 1 .. 3}
<1>1. IsFiniteSet(1 .. 3) /\ Cardinality(1 .. 3) = 3
  <2>1. 1 \in Int /\ 3 \in Int /\ 3 - 1 + 1 = 3 /\ ~(1 > 3)
    OBVIOUS
  <2> QED BY <2>1, FS_Interval
<1>2. ptrs \in Surjection(1 .. 3, T)
  <2>1. ptrs \in [1 .. 3 -> T] /\ \A x \in T : \E i \in 1 .. 3 : ptrs[i] = x
    OBVIOUS
  <2> HIDE DEF T
  <2> QED BY <2>1 DEF Surjection
<1>3. ptrs \in Injection(1 .. 3, T)
  BY <1>1, <1>2, FS_SurjSameCardinalityImpliesInj
<1> QED BY <1>3 DEF Injection, IsInjective, Distinct

\* What the real getres*id() leaves at the addresses.
Store(ids, ptrs) ==
  [a \in 1 .. 3 |->
     LET at == {i \in 1 .. 3 : ptrs[i] = a}
     IN IF at = {} THEN NoId ELSE ids[CHOOSE i \in at : \A j \in at : j <= i]]

\* At each address there is an id, and at distinct ones there are all three.
LEMMA Stored ==
  ASSUME NEW ids \in Kid \X Kid \X Kid, NEW ptrs \in [1 .. 3 -> 1 .. 3], NEW buf,
         buf = Store(ids, ptrs)
  PROVE  /\ buf \in [1 .. 3 -> Id] /\ \A j \in 1 .. 3 : buf[ptrs[j]] \in Kid
         /\ Distinct(ptrs) => \A j \in 1 .. 3 : buf[ptrs[j]] = ids[j]
<1> DEFINE At(a) == {i \in 1 .. 3 : ptrs[i] = a}
           Top(a) == CHOOSE i \in At(a) : \A j \in At(a) : j <= i
<1>1. ASSUME NEW a \in 1 .. 3, At(a) # {} PROVE Top(a) \in At(a)
  <2>1. At(a) \in SUBSET (0 .. 3) /\ 3 \in Nat
    OBVIOUS
  <2> HIDE DEF At
  <2> QED BY <1>1, <2>1, Greatest
<1>2. \A a \in 1 .. 3 : buf[a] = IF At(a) = {} THEN NoId ELSE ids[Top(a)]
  BY DEF Store
<1>3. \A i \in 1 .. 3 : ids[i] \in Kid
  OBVIOUS
<1>4. \A a \in 1 .. 3 : At(a) \subseteq 1 .. 3
  OBVIOUS
<1>5. NoId \in Id /\ Kid \subseteq Id
  BY Sizes DEF Id, Kid
<1>6. buf = [a \in 1 .. 3 |-> buf[a]]
  BY DEF Store
<1>7. \A j \in 1 .. 3 : ptrs[j] \in 1 .. 3 /\ j \in At(ptrs[j])
  OBVIOUS
<1>8. ASSUME Distinct(ptrs), NEW j \in 1 .. 3 PROVE At(ptrs[j]) = {j}
  BY <1>8 DEF Distinct
<1> HIDE DEF At, Top
<1>9. buf \in [1 .. 3 -> Id]
  <2>1. ASSUME NEW a \in 1 .. 3 PROVE buf[a] \in Id
    <3>1. At(a) # {} => Top(a) \in 1 .. 3
      BY <1>1, <1>4
    <3>2. CASE At(a) = {}
      <4>1. buf[a] = NoId
        BY <1>2, <3>2, Zenon
      <4> QED BY <1>5, <4>1
    <3>3. CASE At(a) # {}
      <4>1. buf[a] = ids[Top(a)] /\ ids[Top(a)] \in Kid
        BY <1>2, <1>3, <3>1, <3>3
      <4> QED BY <1>5, <4>1
    <3> QED BY <3>2, <3>3
  <2> QED BY <1>6, <2>1
<1>10. \A j \in 1 .. 3 : buf[ptrs[j]] \in Kid
  <2> SUFFICES ASSUME NEW j \in 1 .. 3 PROVE buf[ptrs[j]] \in Kid
    OBVIOUS
  <2>1. ptrs[j] \in 1 .. 3 /\ At(ptrs[j]) # {}
    BY <1>7
  <2>2. Top(ptrs[j]) \in 1 .. 3
    BY <1>1, <1>4, <2>1
  <2> QED BY <1>2, <1>3, <2>1, <2>2
<1>11. ASSUME Distinct(ptrs), NEW j \in 1 .. 3 PROVE buf[ptrs[j]] = ids[j]
  <2>1. At(ptrs[j]) = {j} /\ ptrs[j] \in 1 .. 3
    BY <1>7, <1>8, <1>11
  <2>2. Top(ptrs[j]) = j
    BY <1>1, <2>1
  <2> QED BY <1>2, <2>1, <2>2
<1> QED BY <1>9, <1>10, <1>11

\* A caller that a step leaves alone stays right.
LEMMA OthersRight ==
  ASSUME IInv, [Next]_vars, NEW t \in Caller, nsOf'[t] = nsOf[t], cred'[t] = cred[t], CallerOK(t)
  PROVE  /\ call[t] # Idle =>
              CallOK(call[t], cred'[t], nsOf'[t], nr'[nsOf'[t]], rel'[nsOf'[t]])
         /\ RetOK(ret[t], cred'[t], nsOf'[t], nr'[nsOf'[t]], rel'[nsOf'[t]])
<1> DEFINE n == nsOf[t]
<1>1. n \in AnyNs
  BY DEF IInv, RowsOK
<1>2. nr[n] = 0 => rel[n] = {} /\ n # InitNs
  BY <1>1 DEF IInv, MapsOK, AnyNs
<1>3. nr[n] # 0 => nr'[n] = nr[n] /\ rel'[n] = rel[n]
  BY <1>1, VisibleStays DEF Same
<1>4. call[t] # Idle => CallOK(call[t], cred[t], n, nr[n], rel[n])
  BY DEF CallerOK
<1>5. RetOK(ret[t], cred[t], n, nr[n], rel[n])
  BY DEF CallerOK
<1> HIDE DEF n
<1>6. /\ call[t] # Idle => CallOK(call[t], cred[t], n, nr'[n], rel'[n])
      /\ RetOK(ret[t], cred[t], n, nr'[n], rel'[n])
  BY <1>2, <1>3, <1>4, <1>5, CallKept
<1> QED BY <1>6 DEF n

\* A caller that has forgotten its last call.
LEMMA IdleRight ==
  ASSUME NEW ids, NEW ns, NEW N, NEW R
  PROVE  RetOK(Idle, ids, ns, N, R)
BY DEF RetOK, Idle

\* unshare() and setns() are for a task between two calls.
LEMMA CallsMove ==
  ASSUME IInv, CallsOK, [Next]_vars, NEW t \in Task, NEW n \in Ns,
         (t \in Caller /\ UnshareUserns(t, n)) \/ UsernsInstall(t, n)
  PROVE  CallsOK'
<1>1. /\ UNCHANGED <<cred, call>> /\ \A u \in Task : u # t => nsOf'[u] = nsOf[u]
      /\ t \in Caller => call[t] = Idle
  BY DEF IInv, RowsOK, UnshareUserns, UsernsInstall, NotBusy
<1>2. ret' = [u \in Caller |-> IF u = t THEN Idle ELSE ret[u]]
  BY DEF UnshareUserns, UsernsInstall, Forget
<1>3. ASSUME NEW u \in Caller PROVE CallerOK(u)'
  <2>1. CASE u = t
    BY <1>1, <1>2, <2>1, IdleRight DEF CallerOK
  <2>2. CASE u # t
    <3>1. nsOf'[u] = nsOf[u] /\ cred'[u] = cred[u] /\ call'[u] = call[u] /\ ret'[u] = ret[u]
      BY <1>1, <1>2, <2>2
    <3>2. CallerOK(u)
      BY DEF CallsOK
    <3> QED BY <3>1, <3>2, OthersRight DEF CallerOK
  <2> QED BY <2>1, <2>2
<1>4. ret' = [u \in Caller |-> ret'[u]]
  BY <1>2
<1> QED BY <1>1, <1>3, <1>4 DEF CallsOK

\* Steps of the files.
LEMMA CallsStay ==
  ASSUME IInv, CallsOK, [Next]_vars, UNCHANGED <<nsOf, cred, call, ret>>
  PROVE  CallsOK'
<1>1. ASSUME NEW u \in Caller PROVE CallerOK(u)'
  <2>1. CallerOK(u)
    BY DEF CallsOK
  <2> QED BY <2>1, OthersRight DEF CallerOK
<1> QED BY <1>1 DEF CallsOK

\* A step of one caller that leaves its id maps alone.
LEMMA CallsOne ==
  ASSUME IInv, CallsOK, [Next]_vars, NEW t \in Caller, UNCHANGED nsOf,
         cred' \in [Task -> Kid \X Kid \X Kid], NEW c, NEW x,
         \A u \in Caller : u # t => cred'[u] = cred[u],
         call' = [call EXCEPT ![t] = c], ret' = [ret EXCEPT ![t] = x],
         c = Idle \/ CallOK(c, cred'[t], nsOf[t], nr'[nsOf[t]], rel'[nsOf[t]]),
         RetOK(x, cred'[t], nsOf[t], nr'[nsOf[t]], rel'[nsOf[t]])
  PROVE  CallsOK'
<1>1. /\ call' = [u \in Caller |-> call'[u]] /\ ret' = [u \in Caller |-> ret'[u]]
      /\ call'[t] = c /\ ret'[t] = x
      /\ \A u \in Caller : u # t => call'[u] = call[u] /\ ret'[u] = ret[u]
  BY DEF CallsOK
<1>2. ASSUME NEW u \in Caller PROVE CallerOK(u)'
  <2>1. CASE u = t
    BY <1>1, <2>1 DEF CallerOK
  <2>2. CASE u # t
    <3>1. CallerOK(u)
      BY DEF CallsOK
    <3> QED BY <1>1, <2>2, <3>1, OthersRight DEF CallerOK
  <2> QED BY <2>1, <2>2
<1> QED BY <1>1, <1>2 DEF CallsOK

\* getuid() and geteuid().
LEMMA StepGetid ==
  ASSUME IInv, CallsOK, [Next]_vars, NEW t \in Caller, NEW which \in 1 .. 2, HookGetid(t, which)
  PROVE  CallsOK'
<1> DEFINE n == nsOf[t]
           k == cred[t][which]
           v == Shown(t, k)
           x == [op |-> "get", which |-> which, val |-> v, early |-> nr[n] = 0]
<1>1. t \in Task /\ n \in AnyNs /\ k \in Kid
  BY DEF IInv, RowsOK, CallsOK
<1>2. v \in Kid /\ ExactIn(n, rel[n], k, v)
  <2>1. CASE n = InitNs
    BY <1>1, <2>1 DEF Shown, ExactIn
  <2>2. CASE n # InitNs
    <3>1. n \in Ns /\ v = FromKidMunged(n, k)
      BY <1>1, <2>2 DEF AnyNs, Shown
    <3> HIDE DEF n, k, v
    <3> QED BY <1>1, <3>1, Munged DEF IInv
  <2> QED BY <2>1, <2>2
<1>3. /\ UNCHANGED <<nsOf, cred, mapVars>> /\ call' = [call EXCEPT ![t] = call[t]]
      /\ ret' = [ret EXCEPT ![t] = x] /\ call[t] = Idle
  BY DEF HookGetid, callRest, CallsOK
<1> HIDE DEF v
<1>4. x.op = "get" /\ x.which = which /\ x.val = v /\ (x.early <=> nr[n] = 0)
  OBVIOUS
<1> HIDE DEF x
<1>5. Shows(n, nr[n], rel[n], k, v, x.early)
  BY <1>2, <1>4 DEF Shows
<1>6. RetOK(x, cred[t], n, nr[n], rel[n])
  BY <1>2, <1>4, <1>5 DEF RetOK
<1> QED BY <1>3, <1>6, CallsOne DEF CallsOK, mapVars

\* The real getresuid(), first.
LEMMA StepGetresid ==
  ASSUME IInv, CallsOK, [Next]_vars, NEW t \in Caller, NEW ptrs \in Pointers, HookGetresid(t, ptrs)
  PROVE  CallsOK'
<1> DEFINE n == nsOf[t]
           buf == Store(cred[t], ptrs)
           x == [op |-> "getres", ptrs |-> ptrs, buf |-> buf, early |-> FALSE]
           c == [op |-> "getres", ptrs |-> ptrs, buf |-> buf, i |-> 1, early |-> nr[n] = 0]
<1>1. t \in Task /\ n \in AnyNs /\ cred[t] \in Kid \X Kid \X Kid /\ ptrs \in [1 .. 3 -> 1 .. 3]
  BY DEF IInv, RowsOK, CallsOK
<1>2. UNCHANGED <<nsOf, cred, mapVars>> /\ call[t] = Idle
  BY DEF HookGetresid, callRest
<1>3. IF n = InitNs THEN ret' = [ret EXCEPT ![t] = x] /\ call' = call
      ELSE call' = [call EXCEPT ![t] = c] /\ ret' = [ret EXCEPT ![t] = Idle]
  BY DEF HookGetresid, Store
<1>4. /\ buf \in [1 .. 3 -> Id] /\ \A j \in 1 .. 3 : buf[ptrs[j]] \in Kid
      /\ Distinct(ptrs) => \A j \in 1 .. 3 : buf[ptrs[j]] = cred[t][j]
  BY <1>1, Stored
<1> HIDE DEF buf
<1>5. CASE n = InitNs
  <2>1. call' = [call EXCEPT ![t] = call[t]] /\ ret' = [ret EXCEPT ![t] = x]
    BY <1>3, <1>5 DEF CallsOK
  <2>2. x.op = "getres" /\ x.ptrs = ptrs /\ x.buf = buf /\ ~x.early
    OBVIOUS
  <2> HIDE DEF x
  <2>3. nr[n] = 1
    BY <1>5 DEF IInv, MapsOK
  <2>4. ASSUME Distinct(ptrs), NEW j \in 1 .. 3
        PROVE  Shows(n, nr[n], rel[n], cred[t][j], buf[ptrs[j]], x.early)
    BY <1>4, <1>5, <2>3, <2>4 DEF Shows, ExactIn
  <2>5. RetOK(x, cred[t], n, nr[n], rel[n])
    BY <1>1, <1>4, <2>2, <2>4 DEF RetOK
  <2> QED BY <1>2, <2>1, <2>5, CallsOne DEF CallsOK, mapVars
<1>6. CASE n # InitNs
  <2>1. call' = [call EXCEPT ![t] = c] /\ ret' = [ret EXCEPT ![t] = Idle] /\ n \in Ns
    BY <1>1, <1>3, <1>6 DEF AnyNs
  <2>2. c.ptrs = ptrs /\ c.buf = buf /\ c.i = 1 /\ (c.early <=> nr[n] = 0)
    OBVIOUS
  <2>3. c = [op |-> "getres", ptrs |-> c.ptrs, buf |-> c.buf, i |-> c.i, early |-> c.early]
    OBVIOUS
  <2> HIDE DEF c
  <2>4. \A j \in 1 .. 3 : ~(j < 1) /\ buf[ptrs[j]] # NoId
    BY <1>4 DEF Kid
  <2>5. CallOK(c, cred[t], n, nr[n], rel[n])
    BY <1>1, <1>4, <2>1, <2>2, <2>3, <2>4 DEF CallOK
  <2>6. RetOK(Idle, cred[t], n, nr[n], rel[n])
    BY IdleRight
  <2> QED BY <1>2, <2>1, <2>5, <2>6, CallsOne DEF CallsOK, mapVars
<1> QED BY <1>5, <1>6

\* Its loop, address by address; and the fault that ends it.
LEMMA StepLoop ==
  ASSUME IInv, CallsOK, [Next]_vars, NEW t \in Caller, GetresidLoop(t) \/ GetresidFault(t)
  PROVE  CallsOK'
<1> DEFINE n == nsOf[t]
           c == call[t]
           k == c.buf[c.ptrs[c.i]]
           w == FromKidMunged(n, k)
           b == TranslateNext(t)
<1>1. CallOK(c, cred[t], n, nr[n], rel[n]) /\ RetOK(ret[t], cred[t], n, nr[n], rel[n])
  BY DEF GetresidLoop, GetresidFault, CallsOK, CallerOK
<1>2. UNCHANGED <<nsOf, cred, mapVars>>
  BY DEF GetresidLoop, GetresidFault, callRest
<1>3. CASE GetresidFault(t)
  <2>1. call' = [call EXCEPT ![t] = Idle] /\ ret' = [ret EXCEPT ![t] = ret[t]]
    BY <1>3 DEF GetresidFault, CallsOK
  <2> QED BY <1>1, <1>2, <2>1, CallsOne DEF CallsOK, mapVars
<1>4. CASE GetresidLoop(t)
  <2>1. n \in Ns /\ k \in Kid /\ c.i \in 1 .. 3
    BY <1>1 DEF CallOK, Kid
  <2>2. w \in Kid /\ ExactIn(n, rel[n], k, w)
    BY <2>1, Munged DEF IInv
  <2>3. b = [c.buf EXCEPT ![c.ptrs[c.i]] = w]
    BY DEF TranslateNext
  <2>4. CASE c.i < 3
    <3> DEFINE d == [c EXCEPT !.buf = b, !.i = c.i + 1]
    <3>1. call' = [call EXCEPT ![t] = d] /\ ret' = [ret EXCEPT ![t] = ret[t]]
      BY <1>4, <2>4 DEF GetresidLoop, CallsOK
    <3> HIDE DEF b, w, k, n, c
    <3>2. CallOK(d, cred[t], n, nr[n], rel[n])
      BY <1>1, <2>2, <2>3, <2>4, TurnRight DEF k
    <3> HIDE DEF d
    <3> QED BY <1>1, <1>2, <3>1, <3>2, CallsOne DEF CallsOK, mapVars, n
  <2>5. CASE ~(c.i < 3)
    <3> DEFINE x == [op |-> "getres", ptrs |-> c.ptrs, buf |-> b, early |-> c.early]
    <3>1. call' = [call EXCEPT ![t] = Idle] /\ ret' = [ret EXCEPT ![t] = x]
      BY <1>4, <2>5 DEF GetresidLoop
    <3>2. c.i = 3
      BY <2>1, <2>5
    <3> HIDE DEF b, w, k, n, c
    <3>3. RetOK(x, cred[t], n, nr[n], rel[n])
      BY <1>1, <2>2, <2>3, <3>2, TurnRight DEF k
    <3> HIDE DEF x
    <3> QED BY <1>2, <3>1, <3>3, CallsOne DEF CallsOK, mapVars, n
  <2> QED BY <2>4, <2>5
<1> QED BY <1>3, <1>4

\* The arguments of the real call are ids, each of them the one that the
\* namespace maps the user's id to.
LEMMA Kernel ==
  ASSUME IInv, NEW t \in Task, nsOf[t] \in Ns, NEW id \in Id
  PROVE  /\ MakeKid(nsOf[t], id) \in Id
         /\ MakeKid(nsOf[t], id) # NoId =>
              id # NoId /\ <<id, MakeKid(nsOf[t], id)>> \in rel[nsOf[t]]
<1> DEFINE n == nsOf[t]
           k == MakeKid(n, id)
<1>1. k \in Id /\ (k # NoId => <<id, k>> \in rel[n])
  BY Lookup DEF IInv
<1>2. ASSUME k # NoId PROVE id # NoId
  <2>1. n \in Ns /\ <<id, k>> \in rel[n] /\ MapsOK
    BY <1>1, <1>2 DEF IInv
  <2> HIDE DEF n, k
  <2>2. WholeMap(ext[n]) /\ <<id, k>> \in Pairs(ext[n])
    BY <2>1 DEF MapsOK, Whole
  <2> QED BY <2>2, PairsBound
<1> QED BY <1>1, <1>2

\* What the real calls make of kernel ids.
LEMMA RealResults ==
  ASSUME NEW c \in Kid \X Kid \X Kid, NEW priv \in BOOLEAN
  PROVE  /\ \A k \in Id : RealSetid(c, k, priv) \in (Kid \X Kid \X Kid) \cup {NULL}
         /\ \A k, e \in Id : RealSetreid(c, k, e, priv) \in (Kid \X Kid \X Kid) \cup {NULL}
         /\ \A a : (\A i \in 1 .. 3 : a[i] \in Id) =>
              RealSetresid(c, a, priv) \in (Kid \X Kid \X Kid) \cup {NULL}
<1>1. c[1] \in Kid /\ c[2] \in Kid /\ c[3] \in Kid
  OBVIOUS
<1>2. ASSUME NEW k \in Id PROVE RealSetid(c, k, priv) \in (Kid \X Kid \X Kid) \cup {NULL}
  BY <1>1, <1>2 DEF RealSetid, Kid
<1>3. \A old \in Kid, k \in Id : Keep(old, k) \in Kid
  BY DEF Keep, Kid
<1>4. ASSUME NEW k \in Id, NEW e \in Id
      PROVE  RealSetreid(c, k, e, priv) \in (Kid \X Kid \X Kid) \cup {NULL}
  BY <1>1, <1>3 DEF RealSetreid
<1>5. ASSUME NEW a, \A i \in 1 .. 3 : a[i] \in Id
      PROVE  RealSetresid(c, a, priv) \in (Kid \X Kid \X Kid) \cup {NULL}
  <2> DEFINE f == [i \in 1 .. 3 |-> Keep(c[i], a[i])]
  <2>1. \A i \in 1 .. 3 : f[i] \in Kid
    BY <1>1, <1>3, <1>5
  <2>2. f = [i \in 1 .. 3 |-> f[i]]
    OBVIOUS
  <2>3. RealSetresid(c, a, priv) \in {f, NULL}
    BY DEF RealSetresid
  <2> HIDE DEF f
  <2>4. f \in Kid \X Kid \X Kid
    BY <2>1, <2>2
  <2> QED BY <2>3, <2>4
<1> QED BY <1>2, <1>4, <1>5

\* What the hooks make of them.
LEMMA SetResults ==
  ASSUME IInv, CallsOK, NEW t \in Caller, NEW priv \in BOOLEAN
  PROVE  /\ \A id \in Id : SetidResult(t, id, priv) \in (Kid \X Kid \X Kid) \cup {NULL}
         /\ \A a \in Id \X Id : SetreidResult(t, a, priv) \in (Kid \X Kid \X Kid) \cup {NULL}
         /\ \A a \in Id \X Id \X Id :
              SetresidResult(t, a, priv) \in (Kid \X Kid \X Kid) \cup {NULL}
<1>1. t \in Task /\ nsOf[t] \in AnyNs /\ cred[t] \in Kid \X Kid \X Kid
  BY DEF IInv, RowsOK, CallsOK
<1>2. \A id \in Id : nsOf[t] # InitNs => MakeKid(nsOf[t], id) \in Id
  BY <1>1, Kernel DEF AnyNs
<1>3. ASSUME NEW id \in Id PROVE SetidResult(t, id, priv) \in (Kid \X Kid \X Kid) \cup {NULL}
  BY <1>1, <1>2, RealResults DEF SetidResult
<1>4. ASSUME NEW a, NEW m \in Nat, DOMAIN a = 1 .. m, \A i \in 1 .. m : a[i] \in Id
      PROVE  \A i \in 1 .. m : ToKernel(t, a)[i] \in Id
  BY <1>2, <1>4, Sizes DEF ToKernel, Id
<1>5. ASSUME NEW a \in Id \X Id
      PROVE  SetreidResult(t, a, priv) \in (Kid \X Kid \X Kid) \cup {NULL}
  <2>1. DOMAIN a = 1 .. 2 /\ \A i \in 1 .. 2 : a[i] \in Id
    OBVIOUS
  <2>2. ToKernel(t, a)[1] \in Id /\ ToKernel(t, a)[2] \in Id
    <3>1. \A i \in 1 .. 2 : ToKernel(t, a)[i] \in Id
      BY <1>4, <2>1
    <3> QED BY <3>1
  <2> QED BY <1>1, <2>2, RealResults DEF SetreidResult
<1>6. ASSUME NEW a \in Id \X Id \X Id
      PROVE  SetresidResult(t, a, priv) \in (Kid \X Kid \X Kid) \cup {NULL}
  <2>1. DOMAIN a = 1 .. 3 /\ \A i \in 1 .. 3 : a[i] \in Id
    OBVIOUS
  <2>2. \A i \in 1 .. 3 : ToKernel(t, a)[i] \in Id
    BY <1>4, <2>1
  <2> QED BY <1>1, <2>2, RealResults DEF SetresidResult
<1> QED BY <1>3, <1>5, <1>6

\* set*id().
LEMMA StepSet ==
  ASSUME IInv, CallsOK, [Next]_vars, NEW t \in Caller,
         NEW new \in (Kid \X Kid \X Kid) \cup {NULL}, SetTo(t, new)
  PROVE  CallsOK'
<1>1. UNCHANGED nsOf /\ call' = [call EXCEPT ![t] = Idle] /\ ret' = [ret EXCEPT ![t] = Idle]
  BY DEF SetTo, Forget, callRest, CallsOK
<1>2. /\ cred' \in [Task -> Kid \X Kid \X Kid]
      /\ \A u \in Caller : u # t => cred'[u] = cred[u]
  BY DEF SetTo, CallsOK
<1>3. RetOK(Idle, cred'[t], nsOf[t], nr'[nsOf[t]], rel'[nsOf[t]])
  BY IdleRight
<1> QED BY <1>1, <1>2, <1>3, CallsOne

\* Every step keeps the invariant about calls.
LEMMA CallsInductive ==
  ASSUME IInv, CallsOK, [Next]_vars
  PROVE  CallsOK'
<1>1. ASSUME NEW t \in Caller, CallStep(t) PROVE CallsOK'
  <2>1. ASSUME NEW id \in Arg, HookSetid(t, id) PROVE CallsOK'
    <3>1. PICK priv \in BOOLEAN : SetTo(t, SetidResult(t, id, priv))
      BY <2>1 DEF HookSetid
    <3>2. SetidResult(t, id, priv) \in (Kid \X Kid \X Kid) \cup {NULL}
      BY SetResults
    <3> QED BY <3>1, <3>2, StepSet
  <2>2. ASSUME NEW a \in Arg \X Arg, HookSetreid(t, a) PROVE CallsOK'
    <3>1. PICK priv \in BOOLEAN : SetTo(t, SetreidResult(t, a, priv))
      BY <2>2 DEF HookSetreid
    <3>2. a \in Id \X Id
      OBVIOUS
    <3>3. SetreidResult(t, a, priv) \in (Kid \X Kid \X Kid) \cup {NULL}
      BY <3>2, SetResults
    <3> QED BY <3>1, <3>3, StepSet
  <2>3. ASSUME NEW a \in Arg \X Arg \X Arg, HookSetresid(t, a) PROVE CallsOK'
    <3>1. PICK priv \in BOOLEAN : SetTo(t, SetresidResult(t, a, priv))
      BY <2>3 DEF HookSetresid
    <3>2. a \in Id \X Id \X Id
      OBVIOUS
    <3>3. SetresidResult(t, a, priv) \in (Kid \X Kid \X Kid) \cup {NULL}
      BY <3>2, SetResults
    <3> QED BY <3>1, <3>3, StepSet
  <2> QED BY <1>1, <2>1, <2>2, <2>3, StepGetid, StepGetresid, StepLoop DEF CallStep
<1>2. CASE \E f \in File : FileStep(f)
  <2>1. UNCHANGED <<nsOf, cred, call, ret>>
    <3>1. ASSUME NEW f \in File, NEW power \in Power, MapWrite(f, power)
          PROVE  UNCHANGED <<nsOf, cred, call, ret>>
      <4>1. ASSUME NEW lines, NEW owns, NEW memory, MapWriteBy(f, lines, power, owns, memory)
            PROVE  UNCHANGED <<nsOf, cred, call, ret>>
        BY <4>1 DEF MapWriteBy, writeRest
      <4> QED BY <3>1, <4>1 DEF MapWrite, vars
    <3> QED BY <1>2, <3>1 DEF FileStep, CreateFd, CloseFile, SetgroupsWrite, fileRest
  <2> QED BY <2>1, CallsStay
<1>3. CASE InstallExtents \/ InstallCount \/ UNCHANGED vars
  <2>1. UNCHANGED <<nsOf, cred, call, ret>>
    BY <1>3 DEF InstallExtents, InstallCount, writeRest, vars
  <2> QED BY <2>1, CallsStay
<1>4. ASSUME NEW t \in Caller, NEW n \in Ns, UnshareUserns(t, n) PROVE CallsOK'
  BY <1>4, CallsMove
<1>5. ASSUME NEW t \in Task, NEW n \in Ns, UsernsInstall(t, n) PROVE CallsOK'
  BY <1>5, CallsMove
<1> QED BY <1>1, <1>2, <1>3, <1>4, <1>5 DEF Next

\* It holds in every reachable state.
LEMMA CallsHold == Spec => [](IInv /\ CallsOK)
<1>1. Init => CallsOK
  <2> SUFFICES ASSUME Init PROVE CallsOK
    OBVIOUS
  <2>1. /\ call = [t \in Caller |-> Idle] /\ ret = [t \in Caller |-> Idle]
    BY DEF Init
  <2>2. cred \in [Task -> Kid \X Kid \X Kid]
    <3>1. PICK c \in [Caller -> Arg \ {NoId}] :
            cred = [t \in Task |-> IF t \in Caller THEN <<c[t], c[t], c[t]>> ELSE <<0, 0, 0>>]
      BY DEF Init
    <3>2. 0 \in Kid /\ \A t \in Caller : c[t] \in Kid
      <4>1. 0 \in Kid
        BY Sizes DEF Kid, Id
      <4> QED BY <4>1 DEF Kid
    <3> QED BY <3>1, <3>2
  <2>3. \A t \in Caller : CallerOK(t)
    BY <2>1, IdleRight DEF CallerOK
  <2> QED BY <2>1, <2>2, <2>3 DEF CallsOK
<1>2. IInv /\ CallsOK /\ [Next]_vars => CallsOK'
  BY CallsInductive
<1> QED BY <1>1, <1>2, InvariantHolds, PTL DEF Spec

-----------------------------------------------------------------------------
(***************************************************************************)
(* The theorems.                                                           *)
(***************************************************************************)
\* SETGROUPS.  A gid map that was written by the unprivileged rule of
\* new_idmap_permitted() never goes with the flag USERNS_SETGROUPS_ALLOWED: the
\* flag is looked at under the mutex, and no later write of either file sets it
\* again.  What setgroups(2) does with it is not claimed: nothing asks for it.
THEOREM SetgroupsCorrect == Spec => []SetgroupsSafe
<1>1. IInv => SetgroupsSafe
  BY DEF IInv, LoneOK, SetgroupsSafe
<1> QED BY <1>1, InvariantHolds, PTL

\* LOOKUPS.  A reader without a lock finds in both directions exactly the pairs
\* that the accepted text asked for: map_write() builds sound extents without
\* overlap, sort_idmaps() keeps them, and both searches find what is there.
THEOREM LookupCorrect == Spec => []LookupRight
<1>1. IInv => LookupRight
  <2> SUFFICES ASSUME MapsOK, NEW n \in Ns, NEW i \in Id \ {NoId}, NEW k \in Id \ {NoId}
               PROVE  /\ MakeKid(n, i) = k <=> <<i, k>> \in rel[n]
                      /\ MapIdUp(n, k) = i <=> <<i, k>> \in rel[n]
    BY DEF IInv, LookupRight
  <2> QED BY Lookup
<1> QED BY <1>1, InvariantHolds, PTL

\* TYPES.  No task ever has (u32)-1 among its ids, and none is shown it.
THEOREM TypeCorrect == Spec => []TypeOK
<1>1. ASSUME IInv, CallsOK PROVE TypeOK
  <2>1. nsOf \in [Task -> AnyNs] /\ cred \in [Task -> (Id \ {NoId}) \X (Id \ {NoId}) \X (Id \ {NoId})]
    BY <1>1 DEF IInv, RowsOK, CallsOK, Kid
  <2>2. nr \in [AnyNs -> 0 .. MaxExtents]
    <3>1. nr = [n \in AnyNs |-> nr[n]]
      BY <1>1 DEF IInv, RowsOK
    <3>2. ASSUME NEW n \in AnyNs PROVE nr[n] \in 0 .. MaxExtents
      <4>1. MaxExtents \in Nat /\ MaxExtents >= 1
        OBVIOUS
      <4>2. CASE n = InitNs
        BY <1>1, <4>1, <4>2 DEF IInv, MapsOK
      <4>3. CASE n \in Ns
        <5>1. nr[n] # 0 => Whole(nr[n], ext[n], rev[n], rel[n])
          BY <1>1, <4>3 DEF IInv, MapsOK
        <5>2. nr[n] # 0 => nr[n] \in 1 .. MaxExtents
          BY <5>1 DEF Whole
        <5> QED BY <4>1, <5>2
      <4> QED BY <4>2, <4>3 DEF AnyNs
    <3> QED BY <3>1, <3>2
  <2>3. parent \in [AnyNs -> AnyNs \cup {NULL}] /\ setgroups \in [AnyNs -> BOOLEAN]
    BY <1>1 DEF IInv, RowsOK
  <2>4. ASSUME NEW t \in Caller, call[t] # Idle
        PROVE  call[t].i \in 1 .. 3 /\ call[t].buf \in [1 .. 3 -> Id]
    BY <1>1, <2>4 DEF CallsOK, CallerOK, CallOK
  <2>5. ASSUME NEW t \in Caller
        PROVE  /\ ret[t].op = "get" => ret[t].val \in Id \ {NoId}
               /\ ret[t].op = "getres" =>
                    \A i \in 1 .. 3 : ret[t].buf[ret[t].ptrs[i]] \in Id \ {NoId}
    BY <1>1 DEF CallsOK, CallerOK, RetOK, Kid
  <2> QED BY <2>1, <2>2, <2>3, <2>4, <2>5 DEF TypeOK
<1> QED BY <1>1, CallsHold, PTL

\* GETTERS.  What a getter returns is the caller's id as its namespace maps it,
\* address by address, even when the map appears during the call.
THEOREM GettersCorrect == Spec => []GettersRight
<1>1. ASSUME IInv, CallsOK PROVE GettersRight
  <2> SUFFICES ASSUME NEW t \in Caller
               PROVE  /\ ret[t].op = "get" =>
                           \/ Exact(t, cred[t][ret[t].which], ret[t].val)
                           \/ ret[t].val = OverflowId /\ ret[t].early
                      /\ (ret[t].op = "getres" /\ Cardinality({ret[t].ptrs[i] : i \in 1 .. 3}) = 3) =>
                           \A i \in 1 .. 3 : \/ Exact(t, cred[t][i], ret[t].buf[ret[t].ptrs[i]])
                                             \/ /\ ret[t].buf[ret[t].ptrs[i]] = OverflowId
                                                /\ ret[t].early
    BY DEF GettersRight
  <2> DEFINE x == ret[t]
             n == nsOf[t]
  <2>1. RetOK(x, cred[t], n, nr[n], rel[n])
    BY <1>1 DEF CallsOK, CallerOK
  <2>2. \A k, v : ExactIn(n, rel[n], k, v) => Exact(t, k, v)
    BY DEF ExactIn, Exact
  <2>3. \A k, v, early : Shows(n, nr[n], rel[n], k, v, early) =>
          Exact(t, k, v) \/ (v = OverflowId /\ early)
    BY <2>2 DEF Shows
  <2> HIDE DEF n
  <2>4. ASSUME x.op = "get"
        PROVE  Exact(t, cred[t][x.which], x.val) \/ (x.val = OverflowId /\ x.early)
    BY <2>1, <2>3, <2>4 DEF RetOK
  <2>5. ASSUME x.op = "getres", Cardinality({x.ptrs[i] : i \in 1 .. 3}) = 3, NEW i \in 1 .. 3
        PROVE  \/ Exact(t, cred[t][i], x.buf[x.ptrs[i]])
               \/ x.buf[x.ptrs[i]] = OverflowId /\ x.early
    <3>1. x.ptrs \in [1 .. 3 -> 1 .. 3]
      BY <2>1, <2>5 DEF RetOK
    <3>2. Distinct(x.ptrs)
      BY <2>5, <3>1, ThreeDistinct
    <3> QED BY <2>1, <2>3, <2>5, <3>2 DEF RetOK
  <2> QED BY <2>4, <2>5
<1> QED BY <1>1, CallsHold, PTL

\* SETTERS.  A set*id() that succeeds, privileged or not, gives each id the kernel
\* id that the namespace maps the argument to; -1 leaves its id alone.
THEOREM SettersCorrect == Spec => []SettersRight
<1>1. ASSUME IInv, CallsOK, NEW t \in Caller, nsOf[t] # InitNs, NEW priv \in BOOLEAN,
             NEW a \in Id \X Id \X Id
      PROVE  LET Right(new, i) == IF a[i] = NoId THEN new[i] = cred[t][i]
                                  ELSE <<a[i], new[i]>> \in rel[nsOf[t]]
                 res == SetresidResult(t, a, priv)
                 re  == SetreidResult(t, <<a[1], a[2]>>, priv)
                 one == SetidResult(t, a[2], priv)
             IN /\ one # NULL => a[2] # NoId /\ Right(one, 2)
                /\ res # NULL => \A i \in 1 .. 3 : Right(res, i)
                /\ re # NULL  => \A i \in 1 .. 2 : Right(re, i)
  <2> DEFINE n == nsOf[t]
             K(i) == MakeKid(n, a[i])
             R(new, i) == IF a[i] = NoId THEN new[i] = cred[t][i]
                          ELSE <<a[i], new[i]>> \in rel[n]
             res == SetresidResult(t, a, priv)
             q   == <<a[1], a[2]>>
             re  == SetreidResult(t, q, priv)
             one == SetidResult(t, a[2], priv)
  <2>1. t \in Task /\ n \in Ns /\ n # InitNs
    BY <1>1 DEF IInv, RowsOK, AnyNs
  <2>2. \A i \in 1 .. 3 : a[i] \in Id
    OBVIOUS
  <2>3. \A i \in 1 .. 3 : K(i) # NoId => a[i] # NoId /\ <<a[i], K(i)>> \in rel[n]
    BY <1>1, <2>1, <2>2, Kernel
  <2> HIDE DEF K
  <2>4. ASSUME one # NULL PROVE a[2] # NoId /\ R(one, 2)
    <3>1. K(2) # NoId /\ one[2] = K(2)
      BY <2>1, <2>4 DEF SetidResult, RealSetid, K
    <3> QED BY <2>3, <3>1
  <2>5. ASSUME res # NULL, NEW i \in 1 .. 3 PROVE R(res, i)
    <3>1. ~Unmapped(t, a) /\ RealSetresid(cred[t], ToKernel(t, a), priv) = res
      BY <2>5 DEF SetresidResult
    <3>2. DOMAIN a = 1 .. 3
      OBVIOUS
    <3>3. ToKernel(t, a)[i] = IF a[i] = NoId THEN NoId ELSE K(i)
      BY <2>1, <3>2 DEF ToKernel, K
    <3>4. res[i] = Keep(cred[t][i], ToKernel(t, a)[i])
      BY <2>5, <3>1 DEF RealSetresid
    <3>5. a[i] # NoId => K(i) # NoId
      BY <2>1, <3>1, <3>2 DEF Unmapped, K
    <3> HIDE DEF res
    <3> QED BY <2>3, <3>3, <3>4, <3>5 DEF Keep
  <2>6. ASSUME re # NULL, NEW i \in 1 .. 2 PROVE R(re, i)
    <3>1. ~Unmapped(t, q) /\ RealSetreid(cred[t], ToKernel(t, q)[1], ToKernel(t, q)[2], priv) = re
      BY <2>6 DEF SetreidResult
    <3>2. DOMAIN q = 1 .. 2 /\ q[i] = a[i]
      OBVIOUS
    <3>3. ToKernel(t, q)[i] = IF a[i] = NoId THEN NoId ELSE K(i)
      BY <2>1, <3>2 DEF ToKernel, K
    <3>4. re[i] = Keep(cred[t][i], ToKernel(t, q)[i])
      BY <2>6, <3>1 DEF RealSetreid
    <3>5. a[i] # NoId => K(i) # NoId
      BY <2>1, <3>1, <3>2 DEF Unmapped, K
    <3> HIDE DEF re, q
    <3> QED BY <2>3, <3>3, <3>4, <3>5 DEF Keep
  <2> QED BY <2>4, <2>5, <2>6
<1>2. IInv /\ CallsOK => SettersRight
  BY <1>1 DEF SettersRight
<1> QED BY <1>2, CallsHold, PTL

\* STABLE.  A map that readers can see never changes: the writer holds the
\* mutex from the test for an empty map to the store of the count, and the
\* clean-up of a refused write follows that test.
THEOREM MapStableCorrect == Spec => MapStable
<1>1. IInv /\ [Next]_vars =>
        [\A n \in AnyNs : nr[n] # 0 =>
           nr'[n] = nr[n] /\ ext'[n] = ext[n] /\ rev'[n] = rev[n]]_<<nr, ext, rev>>
  BY VisibleStays DEF Same
<1> QED BY <1>1, InvariantHolds, PTL DEF Spec, MapStable
=============================================================================
