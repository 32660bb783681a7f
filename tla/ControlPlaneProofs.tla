------------------------- MODULE ControlPlaneProofs -------------------------
(***************************************************************************)
(* Proofs about the control plane, for any number of writers, unload       *)
(* threads and reload threads.                                             *)
(*                                                                         *)
(* Part 1 needs no assumption: types, the exclusion that the lifecycle     *)
(* states provide, and that rmmod is launched with the subsystem down.     *)
(* Part 2 is about the quiesce flag, which hot reload and ./resources      *)
(* share without looking at the lifecycle states: who may clear it under   *)
(* an unload, for every behaviour, and that it is given back, for those in *)
(* which no graceful unload reads it while one of these two has it.        *)
(***************************************************************************)
EXTENDS ControlPlane, FiniteSetTheorems, TLAPS

-----------------------------------------------------------------------------
(***************************************************************************)
(* The inductive invariant.                                                *)
(***************************************************************************)
WriterPC == InInit \cup InExit \cup
  {"out", "open", "loadall", "initend", "loadallend", "prequiesce", "exited",
   "settle", "spawn", "hotspawn", "resdrain"}
UnloaderPC == InExit \cup
  {"none", "created", "quiesce", "unloadall", "exited", "umount", "wait",
   "launch", "resume", "abort", "clear", "putexit", "put", "last"}
ReloaderPC ==
  {"none", "created", "quiesce", "wait", "umount", "launch", "resume",
   "failmark", "putexit", "put", "last"}

\* Where each kind of actor can be.
PcOK ==
  /\ \A w \in Writer : pc[w] \in WriterPC
  /\ \A u \in Unloader : pc[u] \in UnloaderPC
  /\ \A r \in Reloader : pc[r] \in ReloaderPC

\* Writers and unload threads that carry out no lifecycle request.
Idle == {"out", "open", "hotspawn", "resdrain", "none", "put", "last"}
Party == Writer \cup Unloader

\* At most one writer or unload thread carries out a lifecycle request.
OneOwner ==
  \A a, b \in Party : pc[a] \notin Idle /\ pc[b] \notin Idle => a = b

\* The request in progress can be read off the lifecycle states.
Loads(a) == pc[a] \in {"init", "initend"}
Unloads(a) == pc[a] \in InExit \cup {"prequiesce", "exited", "settle"}
LoadsAll(a) ==
  pc[a] \in {"loadall", "loadallend"} \/ (Loads(a) /\ op[a] = "loadall")
UnloadsAll(a) ==
  pc[a] = "spawn" \/ (a \in Unloader /\ pc[a] \notin Idle)
Marked(a) ==
  /\ Loads(a) => state = "loading"
  /\ Unloads(a) => state = "unloading"
  /\ LoadsAll(a) => global_state = "loading"
  /\ UnloadsAll(a) => /\ global_state = "unloading"
                      /\ in_progress \/ pc[a] = "putexit"
OwnerMarked == \A a \in Party : Marked(a)

\* A lifecycle state that is no transition is the truth.
StateTrue == mod = "live" /\ ~Busy(state) => state = Stable

\* Where an unload thread knows that the subsystem is down.
Down(u) ==
  /\ pc[u] \in {"exitend", "launch", "clear", "putexit"} => ~enabled
  /\ pc[u] = "exited" /\ ok[u] => ~enabled
  /\ pc[u] \in {"umount", "wait"} /\ lvl[u] # "soft" => ~enabled
AllDown == \A u \in Unloader : Down(u)

\* Once the module is freed there is nobody left to open a control file.
Gone ==
  mod = "freed" =>
    /\ mounts = 0 /\ InFlight = 0 /\ ~enabled
    /\ \A w \in Writer : pc[w] = "out"

Typed == TypeOK /\ PcOK
IInv == Typed /\ OneOwner /\ OwnerMarked /\ StateTrue /\ AllDown /\ Gone

-----------------------------------------------------------------------------
(***************************************************************************)
(* Part 1. Types.                                                          *)
(***************************************************************************)
\* Types are kept by user space, hooked calls, rmmod and insmod.
LEMMA TypeEnvironment ==
  ASSUME Typed, Environment
  PROVE  Typed'
<1> USE ControlAssumption DEF Typed, TypeOK, PcOK, kernVars, lifeVars,
      flagVars, localVars, userVars, Level, PC, WriterPC, UnloaderPC,
      ReloaderPC, InInit, InExit, Actor, Thread
<1>1. CASE Mount
  BY <1>1 DEF Mount
<1>2. CASE Umount
  BY <1>2 DEF Umount
<1>3. CASE \E k \in CallKind : CallEnter(k)
  BY <1>3 DEF CallEnter, CallKind
<1>4. CASE \E k \in CallKind : CallReturn(k)
  BY <1>4 DEF CallReturn, CallKind
<1>5. CASE LaunchedRmmod
  <2>1. rmmod' \in BOOLEAN /\ enabled' \in BOOLEAN /\ mod' \in {"live", "freed"}
    BY <1>5 DEF LaunchedRmmod, DeleteModule, Typed, TypeOK
  <2>2. UNCHANGED <<mounts, calls, quiescing, global_state, state, flagVars, pc,
                    localVars, handoff, hot>>
    BY <1>5 DEF LaunchedRmmod
  <2> QED BY <2>1, <2>2
<1>6. CASE OperatorRmmod
  BY <1>6 DEF OperatorRmmod, DeleteModule
<1>7. CASE HandoffRmmod
  <2>1. enabled' \in BOOLEAN /\ mod' \in {"live", "freed"}
    BY <1>7 DEF HandoffRmmod, DeleteModule, Typed, TypeOK
  <2>2. handoff' \in 0..HandoffTries
    BY <1>7 DEF HandoffRmmod, Typed, TypeOK
  <2>3. UNCHANGED <<mounts, calls, quiescing, global_state, state, flagVars, pc,
                    localVars, rmmod, hot>>
    BY <1>7 DEF HandoffRmmod
  <2> QED BY <2>1, <2>2, <2>3
<1>8. CASE Insmod
  BY <1>8 DEF Insmod
<1> QED BY <1>1, <1>2, <1>3, <1>4, <1>5, <1>6, <1>7, <1>8 DEF Environment

\* Types are kept by a request of a writer.
LEMMA TypeRequest ==
  ASSUME Typed, NEW w \in Writer, Request(w)
  PROVE  Typed'
<1> USE ControlAssumption DEF Typed, TypeOK, PcOK, kernVars, lifeVars,
      flagVars, localVars, userVars, Level, PC, WriterPC, UnloaderPC,
      ReloaderPC, InInit, InExit, Actor, Thread
<1>1. CASE Open(w)
  BY <1>1 DEF Open, Goto
<1>2. CASE Close(w)
  BY <1>2 DEF Close, Goto
<1>3. CASE ModuleLoad(w)
  BY <1>3 DEF ModuleLoad, Goto
<1>4. CASE LoadAll(w)
  BY <1>4 DEF LoadAll, Goto
<1>5. CASE \E r \in {"unload", "force"} : ModuleUnload(w, r)
  BY <1>5 DEF ModuleUnload, Goto
<1>6. CASE \E l \in Level : ControlUnload(w, l)
  BY <1>6 DEF ControlUnload, Goto
<1>7. CASE \E l \in Level : Escalate(w, l)
  BY <1>7 DEF Escalate, Above
<1>8. CASE HotTrigger(w)
  BY <1>8 DEF HotTrigger, Goto
<1>9. CASE ResDeleteMount(w)
  BY <1>9 DEF ResDeleteMount, LazyUmount
<1>10. CASE ResDeleteHook(w)
  BY <1>10 DEF ResDeleteHook, Goto
<1> QED BY <1>1, <1>2, <1>3, <1>4, <1>5, <1>6, <1>7, <1>8, <1>9, <1>10 DEF Request

\* Types are kept by an accepted request.
LEMMA TypeWriterStep ==
  ASSUME Typed, NEW w \in Writer, WriterStep(w)
  PROVE  Typed'
<1> USE ControlAssumption DEF Typed, TypeOK, PcOK, kernVars, lifeVars,
      flagVars, localVars, userVars, Level, PC, WriterPC, UnloaderPC,
      ReloaderPC, InInit, InExit, Actor, Thread
<1>1. CASE LoadAllModule(w)
  BY <1>1 DEF LoadAllModule, Goto
<1>2. CASE ModInit(w)
  BY <1>2 DEF ModInit, Goto
<1>3. CASE InitEnd(w)
  BY <1>3 DEF InitEnd, Goto, Stable
<1>4. CASE LoadAllEnd(w)
  BY <1>4 DEF LoadAllEnd, Goto
<1>5. CASE ForceQuiesce(w)
  BY <1>5 DEF ForceQuiesce, Goto
<1>6. CASE ForceResume(w)
  <2>1. quiescing' \in BOOLEAN
    BY <1>6 DEF ForceResume
  <2>2. /\ pc' = [pc EXCEPT ![w] = "settle"]
        /\ UNCHANGED <<kernVars, lifeVars, flagVars, localVars, userVars, hot>>
    BY <1>6 DEF ForceResume, Goto
  <2> QED BY <2>1, <2>2
<1>7. CASE WriterSettle(w)
  BY <1>7 DEF WriterSettle, Goto, Stable, Forget
<1>8. CASE SpawnFail(w)
  BY <1>8 DEF SpawnFail, Goto
<1>9. CASE HotSpawnFail(w)
  BY <1>9 DEF HotSpawnFail, Goto
<1>10. CASE ResDeleteDone(w)
  <2>1. quiescing' \in BOOLEAN
    BY <1>10 DEF ResDeleteDone
  <2>2. /\ pc' = [pc EXCEPT ![w] = "open"]
        /\ UNCHANGED <<kernVars, lifeVars, flagVars, localVars, userVars, hot>>
    BY <1>10 DEF ResDeleteDone, Goto
  <2> QED BY <2>1, <2>2
<1>11. CASE \E u \in Unloader : KthreadRun(w, u, "spawn")
  BY <1>11 DEF KthreadRun
<1>12. CASE \E r \in Reloader : KthreadRun(w, r, "hotspawn")
  BY <1>12 DEF KthreadRun
<1> QED BY <1>1, <1>2, <1>3, <1>4, <1>5, <1>6, <1>7, <1>8, <1>9, <1>10, <1>11,
  <1>12 DEF WriterStep

\* Types are kept by vendor_kernel_exit().
LEMMA TypeExitStep ==
  ASSUME Typed, NEW a \in Writer \cup Unloader, ExitStep(a)
  PROVE  Typed'
<1> USE ControlAssumption DEF Typed, TypeOK, PcOK, kernVars, lifeVars,
      flagVars, localVars, userVars, Level, PC, WriterPC, UnloaderPC,
      ReloaderPC, InInit, InExit, Actor, Thread
<1>1. CASE ExitGates(a)
  <2>1. was' \in [Actor -> BOOLEAN] /\ ok' \in [Actor -> BOOLEAN]
    <3> HIDE DEF PcOK, PC, WriterPC, UnloaderPC, kernVars, lifeVars, flagVars,
          localVars, userVars
    <3> QED BY <1>1 DEF ExitGates
  <2>2. /\ \E to \in {"exited", "exitquiesce"} : pc' = [pc EXCEPT ![a] = to]
        /\ UNCHANGED <<kernVars, quiescing, lifeVars, flagVars, op, lvl, cont,
                       userVars, hot>>
    BY <1>1 DEF ExitGates, Goto
  <2> QED BY <2>1, <2>2
<1>2. CASE ExitQuiesce(a)
  BY <1>2 DEF ExitQuiesce, Goto
<1>3. CASE ExitDrained(a)
  BY <1>3 DEF ExitDrained, Goto
<1>4. CASE ExitRefuse(a)
  BY <1>4 DEF ExitRefuse, Goto, RestoreQuiesce
<1>5. CASE ExitCommit(a)
  <2>1. enabled' \in BOOLEAN
    BY <1>5 DEF ExitCommit
  <2>2. /\ pc' = [pc EXCEPT ![a] = "exitend"]
        /\ UNCHANGED <<kernVars, quiescing, global_state, state, flagVars, localVars,
                       userVars, hot>>
    BY <1>5 DEF ExitCommit, Goto
  <2> QED BY <2>1, <2>2
<1>6. CASE ExitEnd(a)
  BY <1>6 DEF ExitEnd, Goto, RestoreQuiesce
<1> QED BY <1>1, <1>2, <1>3, <1>4, <1>5, <1>6 DEF ExitStep

\* Types are kept by the unload thread.
LEMMA TypeUnloaderStep ==
  ASSUME Typed, NEW u \in Unloader, UnloaderStep(u)
  PROVE  Typed'
<1> USE ControlAssumption DEF Typed, TypeOK, PcOK, kernVars, lifeVars,
      flagVars, localVars, userVars, Level, PC, WriterPC, UnloaderPC,
      ReloaderPC, InInit, InExit, Actor, Thread
<1>1. CASE UnloadStart(u)
  BY <1>1 DEF UnloadStart, Goto
<1>2. CASE UnloadQuiesce(u)
  BY <1>2 DEF UnloadQuiesce, Goto, BeginUnloadAll
<1>3. CASE UnloadAllNow(u)
  <2>1. ok' \in [Actor -> BOOLEAN]
    <3> HIDE DEF PcOK, PC, WriterPC, UnloaderPC, kernVars, lifeVars, flagVars,
          localVars, userVars
    <3> QED BY <1>3 DEF UnloadAllNow, Forget
  <2>2. /\ \E to \in {cont[u], "exit"} : pc' = [pc EXCEPT ![u] = to]
        /\ op' = op \/ op' = [op EXCEPT ![u] = "none"]
        /\ state' \in {state, "unloading"}
        /\ UNCHANGED <<kernVars, quiescing, global_state, enabled, flagVars, was,
                       lvl, cont, userVars, hot>>
    BY <1>3 DEF UnloadAllNow, Goto, Forget
  <2> QED BY <2>1, <2>2
<1>4. CASE UnloaderSettle(u)
  BY <1>4 DEF UnloaderSettle, Goto, Stable, Forget
<1>5. CASE AutoUmount(u)
  BY <1>5 DEF AutoUmount, Goto, LazyUmount
<1>6. CASE WaitEscalate(u)
  BY <1>6 DEF WaitEscalate, Goto, BeginUnloadAll, Above
<1>7. CASE WaitTimeout(u)
  BY <1>7 DEF WaitTimeout, Goto
<1>8. CASE WaitDrained(u)
  BY <1>8 DEF WaitDrained, Goto, BeginUnloadAll
<1>9. CASE RunRmmod(u)
  <2>1. rmmod' \in BOOLEAN
    BY <1>9 DEF RunRmmod, Typed, TypeOK
  <2>2. /\ \E to \in {"clear", "resume"} : pc' = [pc EXCEPT ![u] = to]
        /\ UNCHANGED <<kernVars, quiescing, lifeVars, flagVars, localVars,
                       handoff, hot>>
    BY <1>9 DEF RunRmmod, Goto
  <2> QED BY <2>1, <2>2
<1>10. CASE UnloadResume(u)
  <2>1. quiescing' \in BOOLEAN
    BY <1>10 DEF UnloadResume
  <2>2. /\ pc' = [pc EXCEPT ![u] = "abort"]
        /\ UNCHANGED <<kernVars, lifeVars, flagVars, localVars, userVars, hot>>
    BY <1>10 DEF UnloadResume, Goto
  <2> QED BY <2>1, <2>2
<1>11. CASE UnloadAbort(u)
  BY <1>11 DEF UnloadAbort, Goto
<1>12. CASE UnloadClear(u)
  BY <1>12 DEF UnloadClear, Goto
<1> QED BY <1>1, <1>2, <1>3, <1>4, <1>5, <1>6, <1>7, <1>8, <1>9, <1>10, <1>11,
  <1>12 DEF UnloaderStep

\* Types are kept by the reload thread.
LEMMA TypeReloaderStep ==
  ASSUME Typed, NEW r \in Reloader, ReloaderStep(r)
  PROVE  Typed'
<1> USE ControlAssumption DEF Typed, TypeOK, PcOK, kernVars, lifeVars,
      flagVars, localVars, userVars, Level, PC, WriterPC, UnloaderPC,
      ReloaderPC, InInit, InExit, Actor, Thread
<1>1. CASE HotStart(r)
  BY <1>1 DEF HotStart, Goto
<1>2. CASE HotQuiesce(r)
  BY <1>2 DEF HotQuiesce, Goto
<1>3. CASE HotDrain(r)
  BY <1>3 DEF HotDrain, Goto
<1>4. CASE HotUmount(r)
  BY <1>4 DEF HotUmount, Goto, LazyUmount
<1>5. CASE HotLaunch(r)
  BY <1>5 DEF HotLaunch, Goto
<1>6. CASE HotResume(r)
  <2>1. quiescing' \in BOOLEAN
    BY <1>6 DEF HotResume
  <2>2. /\ pc' = [pc EXCEPT ![r] = "failmark"]
        /\ UNCHANGED <<kernVars, lifeVars, flagVars, localVars, userVars, hot>>
    BY <1>6 DEF HotResume, Goto
  <2> QED BY <2>1, <2>2
<1>7. CASE HotFail(r)
  BY <1>7 DEF HotFail, Goto
<1> QED BY <1>1, <1>2, <1>3, <1>4, <1>5, <1>6, <1>7 DEF ReloaderStep

\* Types are kept by a thread ending.
LEMMA TypeThreadEnd ==
  ASSUME Typed, NEW t \in Thread, ThreadEnd(t)
  PROVE  Typed'
<1> USE ControlAssumption DEF Typed, TypeOK, PcOK, kernVars, lifeVars,
      flagVars, localVars, userVars, Level, PC, WriterPC, UnloaderPC,
      ReloaderPC, InInit, InExit, Actor, Thread
<1>1. CASE PutAndExit(t)
  BY <1>1 DEF PutAndExit, Goto
<1>2. CASE Put(t)
  BY <1>2 DEF Put, Goto
<1>3. CASE ThreadReturn(t)
  BY <1>3 DEF ThreadReturn, Goto
<1> QED BY <1>1, <1>2, <1>3 DEF ThreadEnd

\* Every step keeps the types.
LEMMA TypeNext ==
  ASSUME Typed, [Next]_vars
  PROVE  Typed'
<1>1. CASE Environment
  BY <1>1, TypeEnvironment
<1>2. CASE \E w \in Writer : Request(w)
  BY <1>2, TypeRequest
<1>3. CASE \E w \in Writer : WriterStep(w)
  BY <1>3, TypeWriterStep
<1>4. CASE \E a \in Writer \cup Unloader : ExitStep(a)
  BY <1>4, TypeExitStep
<1>5. CASE \E u \in Unloader : UnloaderStep(u)
  BY <1>5, TypeUnloaderStep
<1>6. CASE \E r \in Reloader : ReloaderStep(r)
  BY <1>6, TypeReloaderStep
<1>7. CASE \E t \in Thread : ThreadEnd(t)
  BY <1>7, TypeThreadEnd
<1>8. CASE UNCHANGED vars
  BY <1>8 DEF Typed, TypeOK, PcOK, vars, kernVars, lifeVars, flagVars,
    localVars, userVars
<1> QED BY <1>1, <1>2, <1>3, <1>4, <1>5, <1>6, <1>7, <1>8 DEF Next

-----------------------------------------------------------------------------
(***************************************************************************)
(* Part 1. The lifecycle states.                                           *)
(***************************************************************************)
\* A reference count of zero means no mount, no call and no holder.
LEMMA NoRefs ==
  ASSUME Typed, Refs = 0
  PROVE  mounts = 0 /\ InFlight = 0 /\ \A a \in Actor : ~Holds(a)
<1> DEFINE H == {a \in Actor : Holds(a)}
<1>1. IsFiniteSet(Actor)
  BY ControlAssumption, FS_Union DEF Actor
<1>2. IsFiniteSet(H) /\ Cardinality(H) \in Nat
  BY <1>1, FS_Subset, FS_CardinalityType
<1>3. mounts \in Nat /\ InFlight \in Nat
  BY ControlAssumption DEF Typed, TypeOK, InFlight, CallKind
<1>4. mounts + InFlight + Cardinality(H) = 0
  BY DEF Refs
<1>5. mounts = 0 /\ InFlight = 0 /\ Cardinality(H) = 0
  <2>1. \A x, y, z \in Nat : x + y + z = 0 => x = 0 /\ y = 0 /\ z = 0
    OBVIOUS
  <2> QED BY <1>2, <1>3, <1>4, <2>1
<1>6. H = {}
  BY <1>2, <1>5, FS_EmptySet
<1> QED BY <1>5, <1>6

\* delete_module(2) changes nothing, or frees a module that nobody uses.
LEMMA Deleted ==
  ASSUME Typed, DeleteModule
  PROVE  \/ UNCHANGED <<mod, enabled>>
         \/ /\ mod = "live" /\ mod' = "freed" /\ enabled' = FALSE
            /\ mounts = 0 /\ InFlight = 0
            /\ \A w \in Writer : pc[w] = "out"
            /\ \A u \in Unloader : pc[u] \in {"none", "created", "last"}
<1>1. CASE mod = "live" /\ Refs = 0
  <2>1. /\ mounts = 0 /\ InFlight = 0
        /\ \A a \in Actor : pc[a] \in {"out", "none", "created", "last"}
    BY <1>1, NoRefs DEF Holds
  <2>2. /\ \A w \in Writer : pc[w] = "out"
        /\ \A u \in Unloader : pc[u] \in {"none", "created", "last"}
    BY <2>1 DEF Typed, PcOK, WriterPC, UnloaderPC, InInit, InExit, Actor
  <2> QED BY <1>1, <2>1, <2>2 DEF DeleteModule
<1>2. CASE ~(mod = "live" /\ Refs = 0)
  BY <1>2 DEF DeleteModule
<1> QED BY <1>1, <1>2

\* rmmod disturbs no part of the invariant: it needs every owner gone.

LEMMA StepDelete ==
  ASSUME IInv, DeleteModule, Typed',
         UNCHANGED <<mounts, calls, global_state, state, flagVars, pc, localVars>>
  PROVE  (OneOwner /\ OwnerMarked /\ StateTrue /\ AllDown /\ Gone)'
<1>1. CASE UNCHANGED <<mod, enabled>>
  BY <1>1 DEF IInv, OneOwner, OwnerMarked, Marked, Loads, Unloads, LoadsAll,
     UnloadsAll, StateTrue, Stable, Busy, AllDown, Down, Gone, InFlight, flagVars, localVars
<1>2. CASE ~ UNCHANGED <<mod, enabled>>
  <2>1. /\ mod = "live" /\ mod' = "freed" /\ enabled' = FALSE
            /\ mounts = 0 /\ InFlight = 0
            /\ \A w \in Writer : pc[w] = "out"
            /\ \A u \in Unloader : pc[u] \in {"none", "created", "last"}
    BY <1>2, Deleted DEF IInv
  <2> QED BY <2>1 DEF IInv, OneOwner, OwnerMarked, Marked, Loads, Unloads, LoadsAll,
     UnloadsAll, StateTrue, Stable, Busy, AllDown, Down, Gone, InFlight, flagVars, localVars
<1> QED BY <1>1, <1>2

\* The lifecycle invariant under user space, hooked calls, rmmod and
\* insmod: they change a lifecycle state only in rmmod and insmod, with no
\* owner left.
LEMMA StepEnvironment ==
  ASSUME IInv, Typed', Environment
  PROVE  (OneOwner /\ OwnerMarked /\ StateTrue /\ AllDown /\ Gone)'
<1> USE ControlAssumption DEF IInv, OneOwner, OwnerMarked, Marked, Loads,
      Unloads, LoadsAll, UnloadsAll, StateTrue, Stable, Busy, AllDown, Down,
      Gone, Idle, Party, InExit, InInit, Typed, TypeOK, PcOK, WriterPC,
      UnloaderPC, Actor, Thread, InFlight, kernVars, lifeVars, flagVars,
      localVars, userVars
<1>1. CASE Mount
  BY <1>1 DEF Mount
<1>2. CASE Umount
  BY <1>2 DEF Umount
<1>3. CASE \E k \in CallKind : CallEnter(k)
  BY <1>3 DEF CallEnter, CallKind
<1>4. CASE \E k \in CallKind : CallReturn(k)
  BY <1>4 DEF CallReturn, CallKind
<1>5. CASE LaunchedRmmod
  <2> HIDE DEF IInv, OneOwner, OwnerMarked, StateTrue, AllDown, Gone
  <2> QED BY <1>5, StepDelete DEF LaunchedRmmod
<1>6. CASE OperatorRmmod
  <2> HIDE DEF IInv, OneOwner, OwnerMarked, StateTrue, AllDown, Gone
  <2> QED BY <1>6, StepDelete DEF OperatorRmmod
<1>7. CASE HandoffRmmod
  <2> HIDE DEF IInv, OneOwner, OwnerMarked, StateTrue, AllDown, Gone
  <2> QED BY <1>7, StepDelete DEF HandoffRmmod
<1>8. CASE Insmod
  BY <1>8 DEF Insmod
<1> QED BY <1>1, <1>2, <1>3, <1>4, <1>5, <1>6, <1>7, <1>8 DEF Environment

\* The lifecycle invariant under a request of a writer: a request becomes
\* the owner only when both lifecycle states are idle, so when there is no
\* other.
LEMMA StepRequest ==
  ASSUME IInv, Typed', NEW w \in Writer, Request(w)
  PROVE  (OneOwner /\ OwnerMarked /\ StateTrue /\ AllDown /\ Gone)'
<1> USE ControlAssumption DEF IInv, OneOwner, OwnerMarked, Marked, Loads,
      Unloads, LoadsAll, UnloadsAll, StateTrue, Stable, Busy, AllDown, Down,
      Gone, Idle, Party, InExit, InInit, Typed, TypeOK, PcOK, WriterPC,
      UnloaderPC, Actor, Thread, InFlight, kernVars, lifeVars, flagVars,
      localVars, userVars
<1>1. CASE Open(w)
  BY <1>1 DEF Open, Goto
<1>2. CASE Close(w)
  BY <1>2 DEF Close, Goto
<1>3. CASE ModuleLoad(w)
  BY <1>3 DEF ModuleLoad, Goto, ControlIdle
<1>4. CASE LoadAll(w)
  BY <1>4 DEF LoadAll, Goto, ControlIdle
<1>5. CASE \E r \in {"unload", "force"} : ModuleUnload(w, r)
  BY <1>5 DEF ModuleUnload, Goto, ControlIdle
<1>6. CASE \E l \in Level : ControlUnload(w, l)
  BY <1>6 DEF ControlUnload, Goto, ControlIdle
<1>7. CASE \E l \in Level : Escalate(w, l)
  BY <1>7 DEF Escalate, Above, Level
<1>8. CASE HotTrigger(w)
  BY <1>8 DEF HotTrigger, Goto
<1>9. CASE ResDeleteMount(w)
  BY <1>9 DEF ResDeleteMount, LazyUmount
<1>10. CASE ResDeleteHook(w)
  BY <1>10 DEF ResDeleteHook, Goto
<1> QED BY <1>1, <1>2, <1>3, <1>4, <1>5, <1>6, <1>7, <1>8, <1>9, <1>10 DEF Request

\* The lifecycle invariant under an accepted request: only the owner moves,
\* and what it leaves is marked.
LEMMA StepWriterStep ==
  ASSUME IInv, Typed', NEW w \in Writer, WriterStep(w)
  PROVE  (OneOwner /\ OwnerMarked /\ StateTrue /\ AllDown /\ Gone)'
<1> USE ControlAssumption DEF IInv, OneOwner, OwnerMarked, Marked, Loads,
      Unloads, LoadsAll, UnloadsAll, StateTrue, Stable, Busy, AllDown, Down,
      Gone, Idle, Party, InExit, InInit, Typed, TypeOK, PcOK, WriterPC,
      UnloaderPC, Actor, Thread, InFlight, kernVars, lifeVars, flagVars,
      localVars, userVars
<1>1. CASE LoadAllModule(w)
  BY <1>1 DEF LoadAllModule, Goto
<1>2. CASE ModInit(w)
  BY <1>2 DEF ModInit, Goto
<1>3. CASE InitEnd(w)
  BY <1>3 DEF InitEnd, Goto
<1>4. CASE LoadAllEnd(w)
  BY <1>4 DEF LoadAllEnd, Goto
<1>5. CASE ForceQuiesce(w)
  BY <1>5 DEF ForceQuiesce, Goto
<1>6. CASE ForceResume(w)
  BY <1>6 DEF ForceResume, Goto
<1>7. CASE WriterSettle(w)
  BY <1>7 DEF WriterSettle, Goto, Forget
<1>8. CASE SpawnFail(w)
  BY <1>8 DEF SpawnFail, Goto
<1>9. CASE HotSpawnFail(w)
  BY <1>9 DEF HotSpawnFail, Goto
<1>10. CASE ResDeleteDone(w)
  BY <1>10 DEF ResDeleteDone, Goto
<1>11. CASE \E u \in Unloader : KthreadRun(w, u, "spawn")
  BY <1>11 DEF KthreadRun
<1>12. CASE \E r \in Reloader : KthreadRun(w, r, "hotspawn")
  BY <1>12 DEF KthreadRun
<1> QED BY <1>1, <1>2, <1>3, <1>4, <1>5, <1>6, <1>7, <1>8, <1>9, <1>10, <1>11,
  <1>12 DEF WriterStep

\* The lifecycle invariant under vendor_kernel_exit(): the subsystem is
\* taken down by the owner only.
LEMMA StepExitStep ==
  ASSUME IInv, Typed', NEW a \in Writer \cup Unloader, ExitStep(a)
  PROVE  (OneOwner /\ OwnerMarked /\ StateTrue /\ AllDown /\ Gone)'
<1> USE ControlAssumption DEF IInv, OneOwner, OwnerMarked, Marked, Loads,
      Unloads, LoadsAll, UnloadsAll, StateTrue, Stable, Busy, AllDown, Down,
      Gone, Idle, Party, InExit, InInit, Typed, TypeOK, PcOK, WriterPC,
      UnloaderPC, Actor, Thread, InFlight, kernVars, lifeVars, flagVars,
      localVars, userVars
<1>1. CASE ExitGates(a)
  BY <1>1 DEF ExitGates, Goto
<1>2. CASE ExitQuiesce(a)
  BY <1>2 DEF ExitQuiesce, Goto
<1>3. CASE ExitDrained(a)
  BY <1>3 DEF ExitDrained, Goto
<1>4. CASE ExitRefuse(a)
  BY <1>4 DEF ExitRefuse, Goto, RestoreQuiesce
<1>5. CASE ExitCommit(a)
  BY <1>5 DEF ExitCommit, Goto
<1>6. CASE ExitEnd(a)
  BY <1>6 DEF ExitEnd, Goto, RestoreQuiesce
<1> QED BY <1>1, <1>2, <1>3, <1>4, <1>5, <1>6 DEF ExitStep

\* The lifecycle invariant under the unload thread: the unload thread is
\* the owner until it has put the states back.
LEMMA StepUnloaderStep ==
  ASSUME IInv, Typed', NEW u \in Unloader, UnloaderStep(u)
  PROVE  (OneOwner /\ OwnerMarked /\ StateTrue /\ AllDown /\ Gone)'
<1> USE ControlAssumption DEF IInv, OneOwner, OwnerMarked, Marked, Loads,
      Unloads, LoadsAll, UnloadsAll, StateTrue, Stable, Busy, AllDown, Down,
      Gone, Idle, Party, InExit, InInit, Typed, TypeOK, PcOK, WriterPC,
      UnloaderPC, Actor, Thread, InFlight, kernVars, lifeVars, flagVars,
      localVars, userVars
<1>1. CASE UnloadStart(u)
  BY <1>1 DEF UnloadStart, Goto
<1>2. CASE UnloadQuiesce(u)
  BY <1>2 DEF UnloadQuiesce, Goto, BeginUnloadAll
<1>3. CASE UnloadAllNow(u)
  BY <1>3 DEF UnloadAllNow, Goto, Forget
<1>4. CASE UnloaderSettle(u)
  BY <1>4 DEF UnloaderSettle, Goto, Forget
<1>5. CASE AutoUmount(u)
  BY <1>5 DEF AutoUmount, Goto, LazyUmount
<1>6. CASE WaitEscalate(u)
  BY <1>6 DEF WaitEscalate, Goto, BeginUnloadAll, Above, Level
<1>7. CASE WaitTimeout(u)
  BY <1>7 DEF WaitTimeout, Goto
<1>8. CASE WaitDrained(u)
  BY <1>8 DEF WaitDrained, Goto, BeginUnloadAll
<1>9. CASE RunRmmod(u)
  BY <1>9 DEF RunRmmod, Goto
<1>10. CASE UnloadResume(u)
  BY <1>10 DEF UnloadResume, Goto
<1>11. CASE UnloadAbort(u)
  BY <1>11 DEF UnloadAbort, Goto
<1>12. CASE UnloadClear(u)
  BY <1>12 DEF UnloadClear, Goto
<1> QED BY <1>1, <1>2, <1>3, <1>4, <1>5, <1>6, <1>7, <1>8, <1>9, <1>10, <1>11,
  <1>12 DEF UnloaderStep

\* The lifecycle invariant under the reload thread: hot reload touches no
\* lifecycle state.
LEMMA StepReloaderStep ==
  ASSUME IInv, Typed', NEW r \in Reloader, ReloaderStep(r)
  PROVE  (OneOwner /\ OwnerMarked /\ StateTrue /\ AllDown /\ Gone)'
<1> USE ControlAssumption DEF IInv, OneOwner, OwnerMarked, Marked, Loads,
      Unloads, LoadsAll, UnloadsAll, StateTrue, Stable, Busy, AllDown, Down,
      Gone, Idle, Party, InExit, InInit, Typed, TypeOK, PcOK, WriterPC,
      UnloaderPC, Actor, Thread, InFlight, kernVars, lifeVars, flagVars,
      localVars, userVars
<1>1. CASE HotStart(r)
  BY <1>1 DEF HotStart, Goto
<1>2. CASE HotQuiesce(r)
  BY <1>2 DEF HotQuiesce, Goto
<1>3. CASE HotDrain(r)
  BY <1>3 DEF HotDrain, Goto
<1>4. CASE HotUmount(r)
  BY <1>4 DEF HotUmount, Goto, LazyUmount
<1>5. CASE HotLaunch(r)
  BY <1>5 DEF HotLaunch, Goto
<1>6. CASE HotResume(r)
  BY <1>6 DEF HotResume, Goto
<1>7. CASE HotFail(r)
  BY <1>7 DEF HotFail, Goto
<1> QED BY <1>1, <1>2, <1>3, <1>4, <1>5, <1>6, <1>7 DEF ReloaderStep

\* The lifecycle invariant under a thread ending: a thread ends without
\* being the owner, or leaves the states as they are.
LEMMA StepThreadEnd ==
  ASSUME IInv, Typed', NEW t \in Thread, ThreadEnd(t)
  PROVE  (OneOwner /\ OwnerMarked /\ StateTrue /\ AllDown /\ Gone)'
<1> USE ControlAssumption DEF IInv, OneOwner, OwnerMarked, Marked, Loads,
      Unloads, LoadsAll, UnloadsAll, StateTrue, Stable, Busy, AllDown, Down,
      Gone, Idle, Party, InExit, InInit, Typed, TypeOK, PcOK, WriterPC,
      UnloaderPC, Actor, Thread, InFlight, kernVars, lifeVars, flagVars,
      localVars, userVars
<1>1. CASE PutAndExit(t)
  BY <1>1 DEF PutAndExit, Goto
<1>2. CASE Put(t)
  BY <1>2 DEF Put, Goto
<1>3. CASE ThreadReturn(t)
  BY <1>3 DEF ThreadReturn, Goto
<1> QED BY <1>1, <1>2, <1>3 DEF ThreadEnd

\* Every step keeps the lifecycle invariant.
LEMMA StepNext ==
  ASSUME IInv, [Next]_vars
  PROVE  IInv'
<1>0. Typed'
  BY TypeNext DEF IInv
<1> SUFFICES (OneOwner /\ OwnerMarked /\ StateTrue /\ AllDown /\ Gone)'
  BY <1>0 DEF IInv
<1>1. CASE Environment
  BY <1>1, <1>0, StepEnvironment
<1>2. CASE \E w \in Writer : Request(w)
  BY <1>2, <1>0, StepRequest
<1>3. CASE \E w \in Writer : WriterStep(w)
  BY <1>3, <1>0, StepWriterStep
<1>4. CASE \E a \in Writer \cup Unloader : ExitStep(a)
  BY <1>4, <1>0, StepExitStep
<1>5. CASE \E u \in Unloader : UnloaderStep(u)
  BY <1>5, <1>0, StepUnloaderStep
<1>6. CASE \E r \in Reloader : ReloaderStep(r)
  BY <1>6, <1>0, StepReloaderStep
<1>7. CASE \E t \in Thread : ThreadEnd(t)
  BY <1>7, <1>0, StepThreadEnd
<1>8. CASE UNCHANGED vars
  BY <1>8 DEF IInv, Typed, TypeOK, PcOK, OneOwner, OwnerMarked, Marked, Loads,
    Unloads, LoadsAll, UnloadsAll, StateTrue, Stable, AllDown, Down, Gone, InFlight, vars,
    kernVars, lifeVars, flagVars, localVars, userVars
<1> QED BY <1>1, <1>2, <1>3, <1>4, <1>5, <1>6, <1>7, <1>8 DEF Next

\* The module is loaded with no request under way.
LEMMA InitIInv == Init => IInv
<1> USE ControlAssumption
<1>1. Init => TypeOK
  <2> SUFFICES ASSUME Init PROVE TypeOK
    OBVIOUS
  <2>1. /\ mounts \in 0..MaxMounts /\ calls \in [CallKind -> 0..MaxCalls]
        /\ handoff \in 0..HandoffTries
    BY DEF Init
  <2>2. pc \in [Actor -> PC] /\ lvl \in [Unloader -> Level]
    BY DEF Init, PC, Level
  <2>3. was \in [Actor -> BOOLEAN] /\ ok \in [Actor -> BOOLEAN]
    BY DEF Init
  <2>4. quiescing \in BOOLEAN /\ enabled \in BOOLEAN /\ in_progress \in BOOLEAN
        /\ rmmod \in BOOLEAN
    BY DEF Init
  <2> QED BY <2>1, <2>2, <2>3, <2>4 DEF Init, TypeOK, Level
<1>2. Init => PcOK
  BY DEF Init, PcOK, WriterPC, UnloaderPC, ReloaderPC, Actor
<1>3. Init => OneOwner /\ OwnerMarked /\ StateTrue /\ AllDown /\ Gone
  BY DEF Init, OneOwner, OwnerMarked, Marked, Loads, Unloads, LoadsAll,
    UnloadsAll, StateTrue, Stable, AllDown, Down, Gone, Idle, Party, InExit, Actor
<1> QED BY <1>1, <1>2, <1>3 DEF IInv, Typed

\* IInv is an invariant.
LEMMA Inductive == Spec => []IInv
BY InitIInv, StepNext, PTL DEF Spec

\* Type correctness: the counters of mounts, calls and hand-off attempts stay
\* in their ranges and every actor is somewhere in its code, whatever the
\* number of writers and threads.
THEOREM TypeCorrect == Spec => []TypeOK
<1>1. IInv => TypeOK
  BY DEF IInv, Typed
<1> QED BY <1>1, Inductive, PTL

\* lkm4ctr_unload_lock is dropped while vendor_kernel_init() and
\* vendor_kernel_exit() run; the lifecycle states set under it still let at
\* most one of them run at a time, and a state that is no transition is what
\* the subsystem is.
THEOREM LifecycleCorrect == Spec => []LifecycleExact
<1>1. IInv => LifecycleSerialized
  BY DEF IInv, LifecycleSerialized, OneOwner, Idle, Party, Typed, PcOK,
    ReloaderPC, InInit, InExit, Actor
<1>2. IInv => StateReported
  BY DEF IInv, StateReported, StateTrue, OwnerMarked, Marked, Loads, Unloads,
    Party, Busy, Typed, PcOK, ReloaderPC, InInit, InExit, Actor
<1> QED BY <1>1, <1>2, Inductive, PTL DEF LifecycleExact

\* lkm4ctr_safe_unload_fn() launches rmmod only with the subsystem down, by
\* any mixture of graceful, forced and escalated requests.
THEOREM LaunchCorrect == Spec => []LaunchUnloaded
<1>1. IInv => LaunchUnloaded
  BY DEF IInv, AllDown, Down, LaunchUnloaded
<1> QED BY <1>1, Inductive, PTL

-----------------------------------------------------------------------------
(***************************************************************************)
(* Part 2. Who releases the hooks under an unload thread.                  *)
(***************************************************************************)
\* A step of a party that is no unload thread and has no lifecycle request
\* leaves the flag alone while an unload thread drains, or is a release that
\* DrainQuiesced names.
LEMMA DrainStep ==
  ASSUME IInv, [Next]_vars, NEW u \in Unloader, Draining(u), quiescing, ~quiescing'
  PROVE  SideRelease \/ (pc[u] \in Nested /\ pc'[u] = "exited" /\ ~was[u])
<1> USE ControlAssumption DEF Draining, Nested, IInv, OneOwner, Idle, Party,
      InExit, InInit, Typed, TypeOK, PcOK, Actor
<1>1. CASE Environment
  <2>1. ~Insmod
    BY DEF Insmod, Thread
  <2> QED BY <1>1, <2>1 DEF Environment, Mount, Umount, CallEnter, CallReturn,
        LaunchedRmmod, OperatorRmmod, HandoffRmmod
<1>2. CASE \E w \in Writer : Request(w)
  BY <1>2 DEF Request, Open, Close, ModuleLoad, LoadAll, ModuleUnload,
    ControlUnload, Escalate, HotTrigger, ResDeleteMount, ResDeleteHook
<1>3. CASE \E w \in Writer : WriterStep(w)
  <2>1. PICK w \in Writer : WriterStep(w)
    BY <1>3
  <2>2. CASE ResDeleteDone(w)
    BY <2>2 DEF ResDeleteDone, SideRelease
  <2>3. ~ForceResume(w)
    BY DEF ForceResume, Goto
  <2> QED BY <2>1, <2>2, <2>3 DEF WriterStep, LoadAllModule, ModInit, InitEnd,
        LoadAllEnd, ForceQuiesce, WriterSettle, SpawnFail, HotSpawnFail, KthreadRun
<1>4. CASE \E a \in Writer \cup Unloader : ExitStep(a)
  <2>1. PICK a \in Writer \cup Unloader : ExitStep(a)
    BY <1>4
  <2>2. ~ExitGates(a) /\ ~ExitQuiesce(a) /\ ~ExitDrained(a) /\ ~ExitCommit(a)
    BY DEF ExitGates, ExitQuiesce, ExitDrained, ExitCommit
  <2>3. ExitRefuse(a) \/ ExitEnd(a)
    BY <2>1, <2>2 DEF ExitStep
  <2>4. pc[a] \in Nested /\ pc'[a] = "exited" /\ ~was[a]
    BY <2>3 DEF ExitRefuse, ExitEnd, RestoreQuiesce, Goto
  <2>5. a = u
    BY <2>4
  <2> QED BY <2>4, <2>5
<1>5. CASE \E v \in Unloader : UnloaderStep(v)
  <2>1. PICK v \in Unloader : UnloaderStep(v)
    BY <1>5
  <2>2. ~UnloadResume(v)
    BY DEF UnloadResume, Goto
  <2> QED BY <2>1, <2>2 DEF UnloaderStep, UnloadStart, UnloadQuiesce, UnloadAllNow,
        UnloaderSettle, AutoUmount, WaitEscalate, WaitTimeout, WaitDrained,
        RunRmmod, UnloadAbort, UnloadClear
<1>6. CASE \E r \in Reloader : ReloaderStep(r)
  <2>1. PICK r \in Reloader : ReloaderStep(r)
    BY <1>6
  <2>2. CASE HotResume(r)
    BY <2>2 DEF HotResume, SideRelease
  <2> QED BY <2>1, <2>2 DEF ReloaderStep, HotStart, HotQuiesce, HotDrain,
        HotUmount, HotLaunch, HotFail
<1>7. CASE \E t \in Thread : ThreadEnd(t)
  BY <1>7 DEF ThreadEnd, PutAndExit, Put, ThreadReturn
<1>8. CASE UNCHANGED vars
  BY <1>8 DEF vars
<1> QED BY <1>1, <1>2, <1>3, <1>4, <1>5, <1>6, <1>7, <1>8 DEF Next

\* While an unload thread waits for the module's references to drain nobody
\* releases the hooks but the end of a ./resources deletion, a hot reload that
\* gives up, and a nested stop that found them released by one of these: no
\* other request of any writer, no other thread, and no nested
\* vendor_kernel_exit() that found them quiesced.
THEOREM DrainCorrect == Spec => DrainQuiesced
<1>1. IInv /\ [Next]_vars =>
        [\A u \in Unloader :
           Draining(u) /\ quiescing /\ ~quiescing' =>
             SideRelease \/ (pc[u] \in Nested /\ pc'[u] = "exited" /\ ~was[u])]_vars
  BY DrainStep
<1> QED BY <1>1, Inductive, PTL DEF Spec, DrainQuiesced

-----------------------------------------------------------------------------
(***************************************************************************)
(* Part 2. Every request gives the hooks back.                             *)
(***************************************************************************)
\* A hot reload, from its request to the hand-off or to its failure.
HotPC == {"created", "quiesce", "wait", "umount", "launch", "resume", "failmark"}
InReload(a) ==
  (a \in Writer /\ pc[a] = "hotspawn") \/ (a \in Reloader /\ pc[a] \in HotPC)

\* At most one reload is under way, and hot shows it.
OneReload ==
  \A a, b \in Writer \cup Reloader : InReload(a) /\ InReload(b) => a = b
ReloadMarked == \A a \in Writer \cup Reloader : InReload(a) => hot = "running"

\* A launched rmmod leaves the module unloading, with nobody in a request.
Lingering == global_state = "unloading" /\ ~in_progress
LingeringAlone == Lingering => \A a \in Party : pc[a] \in Idle \cup {"putexit"}

\* What a writer in vendor_kernel_exit() has been asked for; a graceful unload
\* found the hooks running.
Asked ==
  \A w \in Writer :
    /\ pc[w] \in InExit \cup {"exited"} => op[w] \in {"unload", "force"}
    /\ pc[w] = "prequiesce" => op[w] = "force"
    /\ op[w] = "unload" /\ pc[w] \in Nested \cup {"exitquiesce"} => ~was[w]

\* Who has set the flag and will clear it, or keeps it for a module that is to
\* go.
Claims(a) ==
  \/ a \in Unloader /\ (Draining(a) \/ pc[a] \in {"resume", "clear"})
  \/ a \in Writer /\ op[a] = "force" /\ pc[a] \in InExit \cup {"exited"}
  \/ a \in Writer /\ op[a] = "unload" /\ pc[a] \in Nested
  \/ a \in Writer /\ pc[a] = "resdrain"
ReloadClaims ==
  /\ hot = "running"
  /\ \A w \in Writer : pc[w] # "hotspawn"
  /\ \A r \in Reloader : pc[r] \notin {"created", "quiesce", "failmark"}
Claimed ==
  mod = "live" /\ quiescing =>
    ReloadClaims \/ Lingering \/ \E a \in Party : Claims(a)

Flagged == OneReload /\ ReloadMarked /\ LingeringAlone /\ Asked /\ Claimed
QInv == IInv /\ Flagged

\* The flag under user space, hooked calls, rmmod and insmod: a new instance
\* starts with the hooks running.
LEMMA QuietEnvironment ==
  ASSUME QInv, IInv', Environment
  PROVE  Flagged'
<1> USE ControlAssumption DEF QInv, Flagged, OneReload, ReloadMarked, InReload,
      HotPC, Lingering, LingeringAlone, Asked, Claims, ReloadClaims, Claimed,
      Draining, Nested, IInv, OneOwner, OwnerMarked, Marked, Loads, Unloads,
      LoadsAll, UnloadsAll, Busy, Gone, Idle, Party, InExit, InInit, Typed,
      TypeOK, PcOK, WriterPC, UnloaderPC, ReloaderPC, Actor, Thread, kernVars,
      lifeVars, flagVars, localVars, userVars
<1>1. CASE Mount
  BY <1>1 DEF Mount
<1>2. CASE Umount
  BY <1>2 DEF Umount
<1>3. CASE \E k \in CallKind : CallEnter(k)
  BY <1>3 DEF CallEnter, CallKind
<1>4. CASE \E k \in CallKind : CallReturn(k)
  BY <1>4 DEF CallReturn, CallKind
<1>5. CASE LaunchedRmmod
  <2>1. /\ mod' = mod \/ mod' = "freed"
        /\ UNCHANGED <<quiescing, global_state, in_progress, pc, op, was, hot>>
    BY <1>5, Deleted DEF LaunchedRmmod
  <2> QED BY <2>1
<1>6. CASE OperatorRmmod
  <2>1. /\ mod' = mod \/ mod' = "freed"
        /\ UNCHANGED <<quiescing, global_state, in_progress, pc, op, was, hot>>
    BY <1>6, Deleted DEF OperatorRmmod
  <2> QED BY <2>1
<1>7. CASE HandoffRmmod
  <2>1. /\ mod' = mod \/ mod' = "freed"
        /\ UNCHANGED <<quiescing, global_state, in_progress, pc, op, was, hot>>
    BY <1>7, Deleted DEF HandoffRmmod
  <2> QED BY <2>1
<1>8. CASE Insmod
  BY <1>8 DEF Insmod
<1> QED BY <1>1, <1>2, <1>3, <1>4, <1>5, <1>6, <1>7, <1>8 DEF Environment

\* The flag under a request of a writer: it claims the flag as it sets it, and
\* a lifecycle request or a reload begins when no other one is under way.
LEMMA QuietRequest ==
  ASSUME QInv, IInv', NEW w \in Writer, Request(w)
  PROVE  Flagged'
<1> USE ControlAssumption DEF QInv, Flagged, OneReload, ReloadMarked, InReload,
      HotPC, Lingering, LingeringAlone, Asked, Claims, ReloadClaims, Claimed,
      Draining, Nested, IInv, OneOwner, OwnerMarked, Marked, Loads, Unloads,
      LoadsAll, UnloadsAll, Busy, Gone, Idle, Party, InExit, InInit, Typed,
      TypeOK, PcOK, WriterPC, UnloaderPC, ReloaderPC, Actor, Thread, kernVars,
      lifeVars, flagVars, localVars, userVars
<1>1. CASE Open(w)
  BY <1>1 DEF Open, Goto
<1>2. CASE Close(w)
  BY <1>2 DEF Close, Goto
<1>3. CASE ModuleLoad(w)
  BY <1>3 DEF ModuleLoad, Goto, ControlIdle
<1>4. CASE LoadAll(w)
  BY <1>4 DEF LoadAll, Goto, ControlIdle
<1>5. CASE \E r \in {"unload", "force"} : ModuleUnload(w, r)
  BY <1>5 DEF ModuleUnload, Goto, ControlIdle
<1>6. CASE \E l \in Level : ControlUnload(w, l)
  BY <1>6 DEF ControlUnload, Goto, ControlIdle
<1>7. CASE \E l \in Level : Escalate(w, l)
  BY <1>7 DEF Escalate, Above, Level
<1>8. CASE HotTrigger(w)
  BY <1>8 DEF HotTrigger, Goto
<1>9. CASE ResDeleteMount(w)
  BY <1>9 DEF ResDeleteMount, LazyUmount
<1>10. CASE ResDeleteHook(w)
  BY <1>10 DEF ResDeleteHook, Goto
<1> QED BY <1>1, <1>2, <1>3, <1>4, <1>5, <1>6, <1>7, <1>8, <1>9, <1>10 DEF Request

\* The flag under an accepted request: who stops claiming it clears it.
LEMMA QuietWriterStep ==
  ASSUME QInv, IInv', NEW w \in Writer, WriterStep(w)
  PROVE  Flagged'
<1> USE ControlAssumption DEF QInv, Flagged, OneReload, ReloadMarked, InReload,
      HotPC, Lingering, LingeringAlone, Asked, Claims, ReloadClaims, Claimed,
      Draining, Nested, IInv, OneOwner, OwnerMarked, Marked, Loads, Unloads,
      LoadsAll, UnloadsAll, Busy, Gone, Idle, Party, InExit, InInit, Typed,
      TypeOK, PcOK, WriterPC, UnloaderPC, ReloaderPC, Actor, Thread, kernVars,
      lifeVars, flagVars, localVars, userVars
<1>1. CASE LoadAllModule(w)
  BY <1>1 DEF LoadAllModule, Goto
<1>2. CASE ModInit(w)
  BY <1>2 DEF ModInit, Goto
<1>3. CASE InitEnd(w)
  BY <1>3 DEF InitEnd, Goto, Stable
<1>4. CASE LoadAllEnd(w)
  BY <1>4 DEF LoadAllEnd, Goto
<1>5. CASE ForceQuiesce(w)
  BY <1>5 DEF ForceQuiesce, Goto
<1>6. CASE ForceResume(w)
  BY <1>6 DEF ForceResume, Goto
<1>7. CASE WriterSettle(w)
  BY <1>7 DEF WriterSettle, Goto, Stable, Forget
<1>8. CASE SpawnFail(w)
  BY <1>8 DEF SpawnFail, Goto
<1>9. CASE HotSpawnFail(w)
  BY <1>9 DEF HotSpawnFail, Goto
<1>10. CASE ResDeleteDone(w)
  BY <1>10 DEF ResDeleteDone, Goto
<1>11. CASE \E u \in Unloader : KthreadRun(w, u, "spawn")
  BY <1>11 DEF KthreadRun
<1>12. CASE \E r \in Reloader : KthreadRun(w, r, "hotspawn")
  BY <1>12 DEF KthreadRun
<1> QED BY <1>1, <1>2, <1>3, <1>4, <1>5, <1>6, <1>7, <1>8, <1>9, <1>10, <1>11,
  <1>12 DEF WriterStep

\* The flag under vendor_kernel_exit(): a graceful unload, apart from the other
\* parties, finds the hooks running and leaves them so.
LEMMA QuietExitStep ==
  ASSUME QInv, IInv', Apart, NEW a \in Writer \cup Unloader, ExitStep(a)
  PROVE  Flagged'
<1> USE ControlAssumption DEF QInv, Flagged, OneReload, ReloadMarked, InReload,
      HotPC, Lingering, LingeringAlone, Asked, Claims, ReloadClaims, Claimed,
      Draining, Nested, IInv, OneOwner, OwnerMarked, Marked, Loads, Unloads,
      LoadsAll, UnloadsAll, Busy, Gone, Idle, Party, InExit, InInit, Typed,
      TypeOK, PcOK, WriterPC, UnloaderPC, ReloaderPC, Actor, Thread, kernVars,
      lifeVars, flagVars, localVars, userVars
<1>1. CASE ExitGates(a)
  <2>1. a \in Writer /\ op[a] = "unload" => mod = "live"
    BY <1>1 DEF ExitGates, Goto
  <2>2. a \in Writer /\ op[a] = "unload" => ~quiescing
    BY <1>1, <2>1 DEF ExitGates, Goto, Apart, Side
  <2>3. /\ pc[a] = "exit"
        /\ \/ pc' = [pc EXCEPT ![a] = "exited"] /\ was' = was
           \/ /\ pc' = [pc EXCEPT ![a] = "exitquiesce"]
              /\ was' = [was EXCEPT ![a] = quiescing]
        /\ UNCHANGED <<mod, quiescing, global_state, in_progress, op, hot>>
    BY <1>1 DEF ExitGates, Goto
  <2> QED BY <2>2, <2>3
<1>2. CASE ExitQuiesce(a)
  BY <1>2 DEF ExitQuiesce, Goto
<1>3. CASE ExitDrained(a)
  BY <1>3 DEF ExitDrained, Goto
<1>4. CASE ExitRefuse(a)
  BY <1>4 DEF ExitRefuse, Goto, RestoreQuiesce
<1>5. CASE ExitCommit(a)
  BY <1>5 DEF ExitCommit, Goto
<1>6. CASE ExitEnd(a)
  BY <1>6 DEF ExitEnd, Goto, RestoreQuiesce
<1> QED BY <1>1, <1>2, <1>3, <1>4, <1>5, <1>6 DEF ExitStep

\* The flag under the unload thread, which claims it until it resumes the hooks
\* or has launched rmmod.
LEMMA QuietUnloaderStep ==
  ASSUME QInv, IInv', NEW u \in Unloader, UnloaderStep(u)
  PROVE  Flagged'
<1> USE ControlAssumption DEF QInv, Flagged, OneReload, ReloadMarked, InReload,
      HotPC, Lingering, LingeringAlone, Asked, Claims, ReloadClaims, Claimed,
      Draining, Nested, IInv, OneOwner, OwnerMarked, Marked, Loads, Unloads,
      LoadsAll, UnloadsAll, Busy, Gone, Idle, Party, InExit, InInit, Typed,
      TypeOK, PcOK, WriterPC, UnloaderPC, ReloaderPC, Actor, Thread, kernVars,
      lifeVars, flagVars, localVars, userVars
<1>1. CASE UnloadStart(u)
  BY <1>1 DEF UnloadStart, Goto
<1>2. CASE UnloadQuiesce(u)
  BY <1>2 DEF UnloadQuiesce, Goto, BeginUnloadAll
<1>3. CASE UnloadAllNow(u)
  BY <1>3 DEF UnloadAllNow, Goto, Forget
<1>4. CASE UnloaderSettle(u)
  BY <1>4 DEF UnloaderSettle, Goto, Stable, Forget
<1>5. CASE AutoUmount(u)
  BY <1>5 DEF AutoUmount, Goto, LazyUmount
<1>6. CASE WaitEscalate(u)
  BY <1>6 DEF WaitEscalate, Goto, BeginUnloadAll, Above, Level
<1>7. CASE WaitTimeout(u)
  BY <1>7 DEF WaitTimeout, Goto
<1>8. CASE WaitDrained(u)
  BY <1>8 DEF WaitDrained, Goto, BeginUnloadAll
<1>9. CASE RunRmmod(u)
  BY <1>9 DEF RunRmmod, Goto
<1>10. CASE UnloadResume(u)
  BY <1>10 DEF UnloadResume, Goto
<1>11. CASE UnloadAbort(u)
  BY <1>11 DEF UnloadAbort, Goto
<1>12. CASE UnloadClear(u)
  BY <1>12 DEF UnloadClear, Goto
<1> QED BY <1>1, <1>2, <1>3, <1>4, <1>5, <1>6, <1>7, <1>8, <1>9, <1>10, <1>11,
  <1>12 DEF UnloaderStep

\* The flag under the reload thread, the only one, which clears it before it
\* reports its failure.
LEMMA QuietReloaderStep ==
  ASSUME QInv, IInv', NEW r \in Reloader, ReloaderStep(r)
  PROVE  Flagged'
<1> USE ControlAssumption DEF QInv, Flagged, OneReload, ReloadMarked, InReload,
      HotPC, Lingering, LingeringAlone, Asked, Claims, ReloadClaims, Claimed,
      Draining, Nested, IInv, OneOwner, OwnerMarked, Marked, Loads, Unloads,
      LoadsAll, UnloadsAll, Busy, Gone, Idle, Party, InExit, InInit, Typed,
      TypeOK, PcOK, WriterPC, UnloaderPC, ReloaderPC, Actor, Thread, kernVars,
      lifeVars, flagVars, localVars, userVars
<1>1. CASE HotStart(r)
  BY <1>1 DEF HotStart, Goto
<1>2. CASE HotQuiesce(r)
  BY <1>2 DEF HotQuiesce, Goto
<1>3. CASE HotDrain(r)
  BY <1>3 DEF HotDrain, Goto
<1>4. CASE HotUmount(r)
  BY <1>4 DEF HotUmount, Goto, LazyUmount
<1>5. CASE HotLaunch(r)
  BY <1>5 DEF HotLaunch, Goto
<1>6. CASE HotResume(r)
  BY <1>6 DEF HotResume, Goto
<1>7. CASE HotFail(r)
  BY <1>7 DEF HotFail, Goto
<1> QED BY <1>1, <1>2, <1>3, <1>4, <1>5, <1>6, <1>7 DEF ReloaderStep

\* The flag under a thread ending: it claims nothing.
LEMMA QuietThreadEnd ==
  ASSUME QInv, IInv', NEW t \in Thread, ThreadEnd(t)
  PROVE  Flagged'
<1> USE ControlAssumption DEF QInv, Flagged, OneReload, ReloadMarked, InReload,
      HotPC, Lingering, LingeringAlone, Asked, Claims, ReloadClaims, Claimed,
      Draining, Nested, IInv, OneOwner, OwnerMarked, Marked, Loads, Unloads,
      LoadsAll, UnloadsAll, Busy, Gone, Idle, Party, InExit, InInit, Typed,
      TypeOK, PcOK, WriterPC, UnloaderPC, ReloaderPC, Actor, Thread, kernVars,
      lifeVars, flagVars, localVars, userVars
<1>1. CASE PutAndExit(t)
  BY <1>1 DEF PutAndExit, Goto
<1>2. CASE Put(t)
  BY <1>2 DEF Put, Goto
<1>3. CASE ThreadReturn(t)
  BY <1>3 DEF ThreadReturn, Goto
<1> QED BY <1>1, <1>2, <1>3 DEF ThreadEnd

\* Every step of a behaviour that keeps apart keeps the invariant of the flag.
LEMMA QuietNext ==
  ASSUME QInv, Apart, [Next]_vars
  PROVE  QInv'
<1>0. IInv'
  BY StepNext DEF QInv
<1> SUFFICES Flagged'
  BY <1>0 DEF QInv
<1>1. CASE Environment
  BY <1>1, <1>0, QuietEnvironment
<1>2. CASE \E w \in Writer : Request(w)
  BY <1>2, <1>0, QuietRequest
<1>3. CASE \E w \in Writer : WriterStep(w)
  BY <1>3, <1>0, QuietWriterStep
<1>4. CASE \E a \in Writer \cup Unloader : ExitStep(a)
  BY <1>4, <1>0, QuietExitStep
<1>5. CASE \E u \in Unloader : UnloaderStep(u)
  BY <1>5, <1>0, QuietUnloaderStep
<1>6. CASE \E r \in Reloader : ReloaderStep(r)
  BY <1>6, <1>0, QuietReloaderStep
<1>7. CASE \E t \in Thread : ThreadEnd(t)
  BY <1>7, <1>0, QuietThreadEnd
<1>8. CASE UNCHANGED vars
  BY <1>8 DEF QInv, Flagged, OneReload, ReloadMarked, InReload, Lingering,
    LingeringAlone, Asked, Claims, ReloadClaims, Claimed, Draining, vars,
    kernVars, lifeVars, flagVars, localVars, userVars
<1> QED BY <1>1, <1>2, <1>3, <1>4, <1>5, <1>6, <1>7, <1>8 DEF Next

\* Hooks are quiesced only while the lifecycle states, a hot reload or a
\* deletion show the request that wanted it: every refused, failed, aborted or
\* finished one gives them back.  Hot reloads and deletions come at any time,
\* except while a graceful unload of the subsystem is about to read
\* was_quiescing.
THEOREM QuiesceCorrect == Spec /\ []Apart => []QuiesceOwned
<1>1. Init => QInv
  BY InitIInv, ControlAssumption DEF Init, QInv, Flagged, OneReload,
    ReloadMarked, InReload, HotPC, Lingering, LingeringAlone, Asked, Claimed,
    Nested, InExit, Idle, Party, Actor
<1>2. QInv /\ Apart /\ [Next]_vars => QInv'
  BY QuietNext
<1>3. QInv => QuiesceOwned
  BY DEF QInv, Flagged, Claimed, Claims, ReloadClaims, Lingering, Draining,
    Nested, QuiesceOwned, Side, IInv, OwnerMarked, Marked, Unloads, UnloadsAll,
    Busy, Idle, Party, InExit
<1> QED BY <1>1, <1>2, <1>3, PTL DEF Spec
=============================================================================
