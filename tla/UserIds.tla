------------------------------ MODULE UserIds ------------------------------
(***************************************************************************)
(* User and group ids inside a vendored user namespace, on a kernel        *)
(* without CONFIG_USER_NS: the id maps of vendor/kernel/user_namespace.c,  *)
(* the files of glue/vendor_kernel_procfs_userns.c that write them, and    *)
(* the twelve get*id()/set*id() hooks of                                   *)
(* glue/vendor_kernel_syscalls_userns.c that translate at the system call  *)
(* boundary, because the kernel's own from_kuid() and make_kuid() are the  *)
(* identity.                                                               *)
(*                                                                         *)
(* uids and gids go through the same code with different names and share   *)
(* nothing but userns_state_mutex; a behaviour follows one of the two      *)
(* (kind).  A reader of a map takes no lock: it reads nr_extents and then  *)
(* the extents.  A map changes once, from empty to complete, so the two    *)
(* reads of one lookup may be taken as one; the writer's two stores may    *)
(* not, and are two actions.                                               *)
(*                                                                         *)
(* External: the real set*id() system calls, capability checks, uaccess    *)
(* faults, anon inodes, bsearch() and sort(), and two inline functions of  *)
(* the headers of such a kernel: seq_user_ns() is init_user_ns whoever     *)
(* opened the file, and kuid_has_mapping() is true.                        *)
(***************************************************************************)
EXTENDS Integers, Sequences, FiniteSets, Functions

CONSTANTS
  Task,         \* tasks
  Caller,       \* those that unshare and call get*id() and set*id(); the
                \* others start as root, write maps and setns()
  Ns,           \* vendored user namespaces
  InitNs,       \* init_user_ns
  NULL,
  File,         \* struct files for the id-map and setgroups entries
  Width,        \* bits of an id (32)
  OverflowId,   \* overflowuid, overflowgid (65534)
  BaseExtents,  \* UID_GID_MAP_MAX_BASE_EXTENTS (5)
  MaxExtents,   \* UID_GID_MAP_MAX_EXTENTS (340)
  Text,         \* what is written to a map: sequences of lines
  Arg,          \* ids that callers start with and pass to set*id()
  Pointers      \* triples of addresses passed to getres*id()

Modulus == 2^Width
NoId    == Modulus - 1                 \* (u32)-1
Id      == 0 .. NoId
Junk    == <<>>                        \* a line that is not three numbers

ASSUME UserIdsAssumption ==
  /\ Width \in Nat \ {0} /\ Modulus \in Nat /\ OverflowId \in 0 .. NoId - 1
  /\ BaseExtents \in Nat \ {0} /\ MaxExtents \in Nat /\ MaxExtents > BaseExtents
  /\ Caller \subseteq Task /\ InitNs \notin Ns /\ NULL \notin Ns \cup {InitNs}
  /\ NULL \notin [first : Id, lower : Id, count : Id]
  /\ Arg \subseteq Id /\ Pointers \subseteq [1 .. 3 -> 1 .. 3]
  /\ \A s \in Text : s # <<>> /\ s \in Seq((Nat \X Nat \X Nat) \cup {Junk})

VARIABLES
  kind,     \* "uid" or "gid": the ids this behaviour is about
  nsOf,     \* cred->user_ns of a task
  cred,     \* kernel ids of a task: <<real, effective, saved>>
  parent,   \* ns->parent; NULL for a namespace that does not exist yet
  owner,    \* ns->owner (of interest for uids only)
  setfcap,  \* ns->parent_could_setfcap
  setgroups,\* USERNS_SETGROUPS_ALLOWED in ns->flags
  nr,       \* map->nr_extents
  ext,      \* map->extent or map->forward
  rev,      \* map->reverse
  file,     \* open files
  wr,       \* the write that holds userns_state_mutex
  call,     \* per caller: the getres*id() in progress
  ret,      \* per caller: what its last call did, until it calls again
  rel,      \* history: the pairs <<id, kernel id>> that were asked for
  lone      \* history: namespaces mapped by the unprivileged rule

mapVars == <<nr, ext, rev, rel, lone>>
nsVars  == <<parent, owner, setfcap>>
vars == <<kind, nsOf, cred, nsVars, setgroups, mapVars, file, wr, call, ret>>

AnyNs == Ns \cup {InitNs}
Idle  == [op |-> "none"]

(***************************************************************************)
(* Id maps                                                                 *)
(***************************************************************************)
Extent(first, lower, count) == [first |-> first, lower |-> lower, count |-> count]
Last(first, count) == (first + count - 1) % Modulus

\* init_user_ns maps every id to itself.
Init ==
  /\ kind \in {"uid", "gid"}
  /\ nsOf = [t \in Task |-> InitNs]
  /\ \E c \in [Caller -> Arg \ {NoId}] :
       cred = [t \in Task |-> IF t \in Caller THEN <<c[t], c[t], c[t]>> ELSE <<0, 0, 0>>]
  /\ parent = [n \in AnyNs |-> NULL]
  /\ owner = [n \in AnyNs |-> 0]
  /\ setfcap = [n \in AnyNs |-> TRUE]
  /\ setgroups = [n \in AnyNs |-> TRUE]
  /\ nr = [n \in AnyNs |-> IF n = InitNs THEN 1 ELSE 0]
  /\ ext = [n \in AnyNs |-> IF n = InitNs THEN <<Extent(0, 0, NoId)>> ELSE <<>>]
  /\ rev = [n \in AnyNs |-> <<>>]
  /\ rel = [n \in AnyNs |-> IF n = InitNs THEN {<<i, i>> : i \in Id \ {NoId}} ELSE {}]
  /\ lone = {}
  /\ file = [f \in File |-> NULL] /\ wr = NULL
  /\ call = [t \in Caller |-> Idle] /\ ret = [t \in Caller |-> Idle]

\* The ids id .. id + count - 1 lie in the range of extents that starts at first.
Within(id, count, first, size) ==
  /\ id >= first /\ id <= Last(first, size)
  /\ Last(id, count) >= first /\ Last(id, count) <= Last(first, size)

First(e, up) == IF up THEN e.lower ELSE e.first

\* Linear search of the static array: the first extent that matches.
SearchBase(s, n, up, id, count) ==
  LET hits == {i \in 1 .. n \cap DOMAIN s : Within(id, count, First(s[i], up), s[i].count)}
  IN IF hits = {} THEN NULL ELSE s[CHOOSE i \in hits : \A j \in hits : i <= j]

cmp_map_id(e, up, id, count) ==
  IF Within(id, count, First(e, up), e.count) THEN 0
  ELSE IF id < First(e, up) \/ Last(id, count) < First(e, up) THEN -1 ELSE 1

\* bsearch() over n extents: halve what is left - where it starts and how many -
\* until the key compares equal.
Bsearch(s, n, up, id, count) ==
  LET find[left \in Nat \X (0 .. n)] ==
        LET base  == left[1]
            num   == left[2]
            pivot == base + num \div 2
            c     == IF pivot + 1 \in DOMAIN s
                     THEN cmp_map_id(s[pivot + 1], up, id, count) ELSE -1
        IN IF num = 0 THEN NULL
           ELSE IF c = 0 THEN s[pivot + 1]
           ELSE IF c > 0 THEN find[<<pivot + 1, (num - 1) \div 2>>]
           ELSE find[<<base, num \div 2>>]
  IN find[<<0, n>>]

\* vns_map_id_range_down(): from the namespace to the kernel.
MapIdRangeDown(n, id, count) ==
  LET e == IF nr[n] <= BaseExtents THEN SearchBase(ext[n], nr[n], FALSE, id, count)
                                   ELSE Bsearch(ext[n], nr[n], FALSE, id, count)
  IN IF e = NULL THEN NoId ELSE (id - e.first + e.lower) % Modulus

\* vns_map_id_up(): from the kernel to the namespace.
MapIdUp(n, id) ==
  LET e == IF nr[n] <= BaseExtents THEN SearchBase(ext[n], nr[n], TRUE, id, 1)
                                   ELSE Bsearch(rev[n], nr[n], TRUE, id, 1)
  IN IF e = NULL THEN NoId ELSE (id - e.lower + e.first) % Modulus

MakeKid(n, id) == MapIdRangeDown(n, id, 1)

FromKidMunged_Plain(n, k) == MapIdUp(n, k)

\* A kernel id without a mapping shows as the overflow id.
FromKidMunged(n, k) == IF MapIdUp(n, k) = NoId THEN OverflowId ELSE MapIdUp(n, k)

(***************************************************************************)
(* Namespaces: unshare(CLONE_NEWUSER) and setns(), as far as they set what *)
(* the maps depend on                                                      *)
(***************************************************************************)
Forget(t) == ret' = [u \in Caller |-> IF u = t THEN Idle ELSE ret[u]]
NotBusy(t) == t \in Caller => call[t] = Idle

\* The flags are copied from the parent under the mutex.
UnshareUserns(t, n) ==
  /\ call[t] = Idle /\ parent[n] = NULL /\ wr = NULL
  /\ parent' = [parent EXCEPT ![n] = nsOf[t]]
  /\ owner' = [owner EXCEPT ![n] = IF kind = "uid" THEN cred[t][2] ELSE 0]
  /\ \E b \in IF kind = "uid" THEN BOOLEAN ELSE {TRUE} : setfcap' = [setfcap EXCEPT ![n] = b]
  /\ setgroups' = [setgroups EXCEPT ![n] = setgroups[nsOf[t]]]
  /\ nsOf' = [nsOf EXCEPT ![t] = n]
  /\ Forget(t) /\ UNCHANGED <<kind, cred, mapVars, file, wr, call>>

UsernsInstall(t, n) ==
  /\ NotBusy(t) /\ parent[n] # NULL /\ n # nsOf[t]
  /\ nsOf' = [nsOf EXCEPT ![t] = n]
  /\ Forget(t) /\ UNCHANGED <<kind, cred, nsVars, setgroups, mapVars, file, wr, call>>

(***************************************************************************)
(* The files /proc/<pid>/{uid_map,gid_map,setgroups}                       *)
(***************************************************************************)
fileRest == <<kind, nsOf, cred, nsVars, setgroups, mapVars, wr, call, ret>>

Free(f)   == ~(wr # NULL /\ wr.file = f)
OpenOn(f) == file[f] # NULL /\ file[f].ns # NULL

\* vns_idmap_create_fd(): the descriptor exists before it is set up, so a failed
\* set-up (the pid is gone, no memory) leaves one whose private_data is NULL.
\* The opener's credentials are kept where a later write looks at them.
CreateFd(f, t, target, entry) ==
  /\ file[f] = NULL
  /\ entry = "setgroups" => kind = "gid"
  /\ \/ file' = [file EXCEPT ![f] = [ns |-> NULL]]
     \/ file' = [file EXCEPT ![f] =
          [ns |-> nsOf[target], entry |-> entry,
           opener |-> IF kind = "uid" THEN nsOf[t] ELSE NULL,
           eid |-> IF entry = "map" THEN cred[t][2] ELSE NoId]]
  /\ UNCHANGED fileRest

CloseFile(f) ==
  /\ file[f] # NULL /\ Free(f) /\ file' = [file EXCEPT ![f] = NULL] /\ UNCHANGED fileRest

(***************************************************************************)
(* Writing a map                                                           *)
(***************************************************************************)
Parse(line) == Extent(line[1] % Modulus, line[2] % Modulus, line[3] % Modulus)

Meet(a, n, b, m) == a <= Last(b, m) /\ Last(a, n) >= b

\* Does the extent meet an earlier one, among the ids or among the kernel ids?
MappingsOverlap(s, e) ==
  \E i \in DOMAIN s : \/ Meet(s[i].first, s[i].count, e.first, e.count)
                      \/ Meet(s[i].lower, s[i].count, e.lower, e.count)

\* A line is taken when it parses, does not wrap, is not empty, meets no earlier
\* one, and leaves room for the lines after it.
LineOk(lines, i, built) ==
  /\ lines[i] # Junk
  /\ LET e == Parse(lines[i]) IN
       /\ e.first # NoId /\ e.lower # NoId
       /\ (e.first + e.count) % Modulus > e.first
       /\ (e.lower + e.count) % Modulus > e.lower
       /\ ~MappingsOverlap(built, e)
  /\ Len(built) + 1 = MaxExtents => i = Len(lines)

\* The parse loop: the extents of the lines before the first one that is refused.
Parsed(lines, n) == [i \in 1 .. n |-> Parse(lines[i])]
Taken(lines) ==
  {n \in 0 .. Len(lines) : \A i \in 1 .. n : LineOk(lines, i, Parsed(lines, i - 1))}
Built(lines) == Parsed(lines, CHOOSE n \in Taken(lines) : \A m \in Taken(lines) : m <= n)

\* Capabilities of opener and writer: over nothing, over the namespace, or over
\* its parent too.  A write that is not at position 0 is refused like "none".
Power == {"none", "ns", "parent"}

verify_root_map(fl, s, power) ==
  (\E i \in DOMAIN s : s[i].lower = 0) =>
    IF fl.ns = fl.opener THEN setfcap[fl.ns] ELSE power = "parent"

\* The unprivileged rule: one id, the writer's own, by the owner of the namespace.
LoneRule(fl, s, owns) ==
  /\ Len(s) = 1 /\ s[1].count = 1 /\ owns
  /\ MakeKid(parent[fl.ns], s[1].lower) = fl.eid
  /\ kind = "gid" => ~setgroups[fl.ns]

new_idmap_permitted(fl, s, power, owns) ==
  /\ kind = "uid" => verify_root_map(fl, s, power)
  /\ LoneRule(fl, s, owns) \/ power = "parent"

\* The lower ids become kernel ids: the whole extent must lie in the parent's map.
Translated(n, s) ==
  [i \in DOMAIN s |-> [s[i] EXCEPT !.lower = MapIdRangeDown(parent[n], s[i].lower, s[i].count)]]

\* sort(): a permutation of s in which the keys ascend.
Order(s, up) ==
  CHOOSE p \in Bijection(DOMAIN s, DOMAIN s) :
    \A i, j \in DOMAIN s : i < j => First(s[p[i]], up) <= First(s[p[j]], up)
SortedBy(s, up) == [i \in DOMAIN s |-> s[Order(s, up)[i]]]

Sorted_ForwardOnly(s) == [ext |-> SortedBy(s, FALSE), rev |-> SortedBy(s, FALSE)]

\* sort_idmaps(): only a map beyond the static array is sorted, once each way.
Sorted(s) ==
  IF Len(s) <= BaseExtents THEN [ext |-> s, rev |-> <<>>]
  ELSE [ext |-> SortedBy(s, FALSE), rev |-> SortedBy(s, TRUE)]

WriteAdmitted_Late(fl, power) ==
  /\ parent[fl.ns] # NULL
  /\ InitNs \in {fl.ns, parent[fl.ns]}
  /\ power # "none"

\* What is checked before the text is looked at.
WriteAdmitted(fl, power) ==
  /\ parent[fl.ns] # NULL
  /\ InitNs \in {fl.ns, parent[fl.ns]}
  /\ nr[fl.ns] = 0
  /\ power # "none"

\* The pairs the text asks for, in terms of the parent's pairs.
Asked(n, s) ==
  {p \in Id \X Id : \E j \in DOMAIN s : \E o \in 0 .. s[j].count - 1 :
     p[1] = s[j].first + o /\ <<s[j].lower + o, p[2]>> \in rel[parent[n]]}

writeRest == <<kind, nsOf, cred, nsVars, setgroups, call, ret>>

\* vns_proc_uid_map_write(), map_write(): everything up to the installation.  A
\* refusal after more than BaseExtents lines frees the extents and resets the map.
MapWriteBy(f, lines, power, owns, memory) ==
  LET fl == file[f]
      s  == Built(lines)
      ok == /\ Len(s) = Len(lines)
            /\ new_idmap_permitted(fl, s, power, owns)
            /\ \A i \in DOMAIN s : Translated(fl.ns, s)[i].lower # NoId
            /\ Len(s) > BaseExtents => memory
  IN /\ \/ /\ ok
           /\ wr' = [file |-> f, ns |-> fl.ns, size |-> Len(s),
                     new |-> Sorted(Translated(fl.ns, s)), step |-> "extents",
                     rel |-> Asked(fl.ns, s), lone |-> power # "parent"]
           /\ UNCHANGED <<nr, ext, rev>>
        \/ /\ ~ok /\ UNCHANGED wr
           /\ IF Len(s) > BaseExtents
              THEN /\ nr' = [nr EXCEPT ![fl.ns] = 0]
                   /\ ext' = [ext EXCEPT ![fl.ns] = <<>>]
                   /\ rev' = [rev EXCEPT ![fl.ns] = <<>>]
              ELSE UNCHANGED <<nr, ext, rev>>
     /\ UNCHANGED <<writeRest, rel, lone, file>>

\* Whether the opener owns the namespace is in the state for uids only, and
\* matters for a map of one line; memory runs out beyond the static array.
MapWrite(f, power) ==
  /\ OpenOn(f) /\ file[f].entry = "map" /\ wr = NULL
  /\ \/ /\ WriteAdmitted(file[f], power)
        /\ \E lines \in Text :
           \E owns \in (IF kind = "uid" THEN {file[f].eid = owner[file[f].ns]}
                        ELSE IF Len(lines) = 1 THEN BOOLEAN ELSE {FALSE}),
              memory \in (IF Len(lines) > BaseExtents THEN BOOLEAN ELSE {TRUE}) :
             MapWriteBy(f, lines, power, owns, memory)
     \/ ~WriteAdmitted(file[f], power) /\ UNCHANGED vars

InstallExtents ==
  /\ wr # NULL /\ wr.step = "extents"
  /\ ext' = [ext EXCEPT ![wr.ns] = wr.new.ext]
  /\ rev' = [rev EXCEPT ![wr.ns] = wr.new.rev]
  /\ wr' = [wr EXCEPT !.step = "count"]
  /\ UNCHANGED <<writeRest, nr, rel, lone, file>>

\* smp_wmb(), then the count makes the map visible; the mutex is released.
InstallCount ==
  /\ wr # NULL /\ wr.step = "count"
  /\ nr' = [nr EXCEPT ![wr.ns] = wr.size]
  /\ rel' = [rel EXCEPT ![wr.ns] = wr.rel]
  /\ lone' = IF wr.lone THEN lone \cup {wr.ns} ELSE lone
  /\ wr' = NULL
  /\ UNCHANGED <<writeRest, ext, rev, file>>

SetgroupsAllow_Always(n) == setgroups' = [setgroups EXCEPT ![n] = TRUE]

\* "allow" never undoes a "deny".
SetgroupsAllow(n) == setgroups[n] /\ UNCHANGED setgroups
\* "deny" is too late once the gid map exists.
SetgroupsDeny(n) == nr[n] = 0 /\ setgroups' = [setgroups EXCEPT ![n] = FALSE]

\* vns_proc_setgroups_write(); what it refuses changes nothing.
SetgroupsWrite(f) ==
  /\ kind = "gid" /\ OpenOn(f) /\ file[f].entry = "setgroups" /\ wr = NULL
  /\ SetgroupsAllow(file[f].ns) \/ SetgroupsDeny(file[f].ns)
  /\ UNCHANGED <<kind, nsOf, cred, nsVars, mapVars, file, wr, call, ret>>

(***************************************************************************)
(* The get*id() hooks                                                      *)
(***************************************************************************)
callRest == <<kind, nsOf, nsVars, setgroups, mapVars, file, wr>>

Shown(t, k) == IF nsOf[t] = InitNs THEN k ELSE FromKidMunged(nsOf[t], k)

\* getuid() and geteuid(): which is 1 or 2.
HookGetid(t, which) ==
  /\ call[t] = Idle
  /\ ret' = [ret EXCEPT ![t] = [op |-> "get", which |-> which,
                                val |-> Shown(t, cred[t][which]), early |-> nr[nsOf[t]] = 0]]
  /\ UNCHANGED <<callRest, cred, call>>

\* getresuid() starts with the real call, which stores the kernel ids at the
\* three addresses; of two equal addresses the later store stays.
HookGetresid(t, ptrs) ==
  /\ call[t] = Idle
  /\ LET buf == [a \in 1 .. 3 |->
                   LET at == {i \in 1 .. 3 : ptrs[i] = a}
                   IN IF at = {} THEN NoId ELSE cred[t][CHOOSE i \in at : \A j \in at : j <= i]]
     IN IF nsOf[t] = InitNs
        THEN /\ ret' = [ret EXCEPT ![t] = [op |-> "getres", ptrs |-> ptrs, buf |-> buf, early |-> FALSE]]
             /\ UNCHANGED call
        ELSE /\ call' = [call EXCEPT ![t] = [op |-> "getres", ptrs |-> ptrs, buf |-> buf,
                                             i |-> 1, early |-> nr[nsOf[t]] = 0]]
             /\ ret' = [ret EXCEPT ![t] = Idle]
  /\ UNCHANGED <<callRest, cred>>

TranslateNext_First(t) ==
  [call[t].buf EXCEPT ![call[t].ptrs[1]] = FromKidMunged(nsOf[t], @)]

\* One turn of the loop: read the user's memory, translate, write it back.
TranslateNext(t) ==
  LET a == call[t].ptrs[call[t].i]
  IN [call[t].buf EXCEPT ![a] = FromKidMunged(nsOf[t], @)]

GetresidLoop(t) ==
  /\ call[t] # Idle
  /\ IF call[t].i < 3
     THEN /\ call' = [call EXCEPT ![t].buf = TranslateNext(t), ![t].i = @ + 1]
          /\ UNCHANGED ret
     ELSE /\ ret' = [ret EXCEPT ![t] = [op |-> "getres", ptrs |-> call[t].ptrs,
                                        buf |-> TranslateNext(t), early |-> call[t].early]]
          /\ call' = [call EXCEPT ![t] = Idle]
  /\ UNCHANGED <<callRest, cred>>

\* -EFAULT: the ids that were not reached stay kernel ids in the user's memory.
GetresidFault(t) ==
  /\ call[t] # Idle /\ call' = [call EXCEPT ![t] = Idle]
  /\ UNCHANGED <<callRest, cred, ret>>

(***************************************************************************)
(* The set*id() hooks.  An argument is a user's id, or NoId for "leave it".*)
(***************************************************************************)
Keep(old, k) == IF k = NoId THEN old ELSE k

\* External: what the real calls do with kernel ids, or NULL when they fail.
RealSetid(c, k, priv) ==
  IF k = NoId THEN NULL
  ELSE IF priv THEN <<k, k, k>>
  ELSE IF k \in {c[1], c[3]} THEN <<c[1], k, c[3]>> ELSE NULL

RealSetreid(c, r, e, priv) ==
  IF priv \/ (r \in {NoId, c[1], c[2]} /\ e \in {NoId, c[1], c[2], c[3]})
  THEN LET ne == Keep(c[2], e)
       IN <<Keep(c[1], r), ne, IF r # NoId \/ (e # NoId /\ e # c[1]) THEN ne ELSE c[3]>>
  ELSE NULL

RealSetresid(c, a, priv) ==
  IF priv \/ \A i \in 1 .. 3 : a[i] \in {NoId, c[1], c[2], c[3]}
  THEN [i \in 1 .. 3 |-> Keep(c[i], a[i])] ELSE NULL

\* The arguments as the real call gets them: in init_user_ns as they are, else
\* each one that is not NoId as a kernel id.
ToKernel(t, a) ==
  IF nsOf[t] = InitNs THEN a
  ELSE [i \in DOMAIN a |-> IF a[i] = NoId THEN NoId ELSE MakeKid(nsOf[t], a[i])]

Unmapped_Never(t, a) == FALSE

\* -EINVAL: an argument has no mapping.
Unmapped(t, a) ==
  nsOf[t] # InitNs /\ \E i \in DOMAIN a : a[i] # NoId /\ MakeKid(nsOf[t], a[i]) = NoId

\* The credentials after a call: -EINVAL before the real call and the real call's
\* own refusal leave the old ones.
SetidResult(t, id, priv) ==
  LET k == IF nsOf[t] = InitNs THEN id ELSE MakeKid(nsOf[t], id)
  IN RealSetid(cred[t], k, priv)

SetreidResult(t, a, priv) ==
  IF Unmapped(t, a) THEN NULL
  ELSE LET k == ToKernel(t, a) IN RealSetreid(cred[t], k[1], k[2], priv)

SetresidResult(t, a, priv) ==
  IF Unmapped(t, a) THEN NULL ELSE RealSetresid(cred[t], ToKernel(t, a), priv)

SetTo(t, new) ==
  /\ call[t] = Idle
  /\ cred' = IF new = NULL THEN cred ELSE [cred EXCEPT ![t] = new]
  /\ Forget(t) /\ UNCHANGED <<callRest, call>>

HookSetid(t, id)   == \E priv \in BOOLEAN : SetTo(t, SetidResult(t, id, priv))
HookSetreid(t, a)  == \E priv \in BOOLEAN : SetTo(t, SetreidResult(t, a, priv))
HookSetresid(t, a) == \E priv \in BOOLEAN : SetTo(t, SetresidResult(t, a, priv))

(***************************************************************************)
(* Specification                                                           *)
(***************************************************************************)
FileStep(f) ==
  \/ \E t, target \in Task, entry \in {"map", "setgroups"} : CreateFd(f, t, target, entry)
  \/ CloseFile(f) \/ SetgroupsWrite(f)
  \/ \E power \in Power : MapWrite(f, power)

CallStep(t) ==
  \/ \E which \in 1 .. 2 : HookGetid(t, which)
  \/ \E ptrs \in Pointers : HookGetresid(t, ptrs)
  \/ GetresidLoop(t) \/ GetresidFault(t)
  \/ \E id \in Arg : HookSetid(t, id)
  \/ \E a \in Arg \X Arg : HookSetreid(t, a)
  \/ \E a \in Arg \X Arg \X Arg : HookSetresid(t, a)

Next ==
  \/ \E t \in Caller, n \in Ns : UnshareUserns(t, n)
  \/ \E t \in Task, n \in Ns : UsernsInstall(t, n)
  \/ \E f \in File : FileStep(f)
  \/ InstallExtents \/ InstallCount
  \/ \E t \in Caller : CallStep(t)

Spec == Init /\ [][Next]_vars

(***************************************************************************)
(* Properties                                                              *)
(***************************************************************************)
\* Types; and no task ever has (u32)-1 among its ids or is shown it, mapped or not
\* (vns_from_kuid_munged() never fails).
TypeOK ==
  /\ nsOf \in [Task -> AnyNs] /\ parent \in [AnyNs -> AnyNs \cup {NULL}]
  /\ cred \in [Task -> (Id \ {NoId}) \X (Id \ {NoId}) \X (Id \ {NoId})]
  /\ nr \in [AnyNs -> 0 .. MaxExtents] /\ setgroups \in [AnyNs -> BOOLEAN]
  /\ \A t \in Caller : call[t] # Idle => call[t].i \in 1 .. 3 /\ call[t].buf \in [1 .. 3 -> Id]
  /\ \A t \in Caller :
       /\ ret[t].op = "get" => ret[t].val \in Id \ {NoId}
       /\ ret[t].op = "getres" => \A i \in 1 .. 3 : ret[t].buf[ret[t].ptrs[i]] \in Id \ {NoId}

\* At every moment, a reader without a lock finds in both directions exactly the
\* pairs that the accepted text asked for: linear or binary search, sorted or not,
\* before, during and after the installation; so no two ids share a kernel id.
LookupRight ==
  \A n \in Ns : \A i, k \in Id \ {NoId} :
    /\ MakeKid(n, i) = k <=> <<i, k>> \in rel[n]
    /\ MapIdUp(n, k) = i <=> <<i, k>> \in rel[n]

\* What a getter returns is the caller's id as its namespace maps it, or the overflow
\* id when there is no mapping or the map appeared during the call.  For getres*id()
\* with three different addresses, for each of the three.
Exact(t, k, v) ==
  IF nsOf[t] = InitNs THEN v = k
  ELSE IF \E i \in Id : <<i, k>> \in rel[nsOf[t]] THEN <<v, k>> \in rel[nsOf[t]] ELSE v = OverflowId

GettersRight ==
  \A t \in Caller :
    /\ ret[t].op = "get" =>
         Exact(t, cred[t][ret[t].which], ret[t].val) \/ (ret[t].val = OverflowId /\ ret[t].early)
    /\ (ret[t].op = "getres" /\ Cardinality({ret[t].ptrs[i] : i \in 1 .. 3}) = 3) =>
      \A i \in 1 .. 3 : LET v == ret[t].buf[ret[t].ptrs[i]]
                        IN Exact(t, cred[t][i], v) \/ (v = OverflowId /\ ret[t].early)

\* A namespace whose gid map was written by the unprivileged rule never has
\* USERNS_SETGROUPS_ALLOWED set, whatever is written to gid_map and setgroups
\* before or after.  This is about the flag: no hook of setgroups(2) asks for it.
SetgroupsSafe == kind = "gid" => \A n \in lone : ~setgroups[n]

\* A map that readers can see never changes again, whoever writes what; in
\* particular the clean-up after a refused write does not touch it.
MapStable ==
  [][\A n \in AnyNs : nr[n] # 0 =>
       nr'[n] = nr[n] /\ ext'[n] = ext[n] /\ rev'[n] = rev[n]]_<<nr, ext, rev>>

\* Whatever a task in a namespace asks of set*id(), privileged or not: if the call
\* succeeds, each id becomes what the namespace maps the argument to, and an argument -1 leaves its id alone.  (Looked at once per credentials and
\* map: between two calls, with no file open.)
SettersRight ==
  \A t \in Caller :
    (nsOf[t] # InitNs /\ ret[t] = Idle /\ call[t] = Idle /\ \A f \in File : file[f] = NULL) =>
      \A priv \in BOOLEAN, a \in Id \X Id \X Id :
        LET Right(new, i) == IF a[i] = NoId THEN new[i] = cred[t][i]
                             ELSE <<a[i], new[i]>> \in rel[nsOf[t]]
            res == SetresidResult(t, a, priv)
            re  == SetreidResult(t, <<a[1], a[2]>>, priv)
            one == SetidResult(t, a[2], priv)
        IN /\ one # NULL => a[2] # NoId /\ Right(one, 2)
           /\ res # NULL => \A i \in 1 .. 3 : Right(res, i)
           /\ re # NULL  => \A i \in 1 .. 2 : Right(re, i)
=============================================================================
