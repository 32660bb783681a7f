-------------------------- MODULE HookEngineProofs --------------------------
(***************************************************************************)
(* Proofs about the hook engine, for every set of hooks and of calls.      *)
(*                                                                         *)
(* Part 1 (no assumption on module_init): types, the accounting of the     *)
(* in-flight counter and of the module reference count, and the quiesce    *)
(* barrier.  Part 2 (module_init does not fail once hooks are live): the   *)
(* module's text is never freed under a call.  Part 3: the engine          *)
(* implements ModuleLifetime.                                              *)
(***************************************************************************)
EXTENDS HookEngine, FiniteSetTheorems, TLAPS

USE HookAssumption

-----------------------------------------------------------------------------
(***************************************************************************)
(* Counting the calls that are in a set of states.                         *)
(***************************************************************************)
In(f, S) == {c \in Call : f[c] \in S}

\* The calls in a set of states are finitely many.
LEMMA InFinite ==
  ASSUME NEW f, NEW S
  PROVE  IsFiniteSet(In(f, S)) /\ Cardinality(In(f, S)) \in Nat
BY FS_Subset, FS_CardinalityType DEF In

\* One call moves from one state to another: the count of a set of states
\* grows by one, shrinks by one or stays.
LEMMA InMove ==
  ASSUME NEW c \in Call, NEW to, NEW S, pc \in [Call -> PC],
         pc' = [pc EXCEPT ![c] = to]
  PROVE  /\ pc[c] \notin S /\ to \in S =>
              Cardinality(In(pc', S)) = Cardinality(In(pc, S)) + 1
         /\ pc[c] \in S /\ to \notin S =>
              Cardinality(In(pc', S)) = Cardinality(In(pc, S)) - 1
         /\ (pc[c] \in S <=> to \in S) =>
              Cardinality(In(pc', S)) = Cardinality(In(pc, S))
<1>1. CASE pc[c] \notin S /\ to \in S
  <2>1. In(pc', S) = In(pc, S) \cup {c} /\ c \notin In(pc, S)
    BY <1>1 DEF In
  <2>2. Cardinality(In(pc, S) \cup {c}) = Cardinality(In(pc, S)) + 1
    BY <2>1, InFinite, FS_AddElement
  <2> QED BY <1>1, <2>1, <2>2
<1>2. CASE pc[c] \in S /\ to \notin S
  <2>1. In(pc', S) = In(pc, S) \ {c} /\ c \in In(pc, S)
    BY <1>2 DEF In
  <2>2. Cardinality(In(pc, S) \ {c}) = Cardinality(In(pc, S)) - 1
    BY <2>1, InFinite, FS_RemoveElement
  <2> QED BY <1>2, <2>1, <2>2
<1>3. CASE pc[c] \in S <=> to \in S
  <2>1. In(pc', S) = In(pc, S)
    BY <1>3 DEF In
  <2> QED BY <1>3, <2>1
<1> QED BY <1>1, <1>2, <1>3

\* CallsIn of the specification, in terms of In.
LEMMA CallsInIsIn ==
  /\ CallsIn(Counted) = In(pc, Counted) /\ CallsIn(Holding) = In(pc, Holding)
  /\ CallsIn(Counted)' = In(pc', Counted) /\ CallsIn(Holding)' = In(pc', Holding)
BY DEF CallsIn, In

-----------------------------------------------------------------------------
(***************************************************************************)
(* Part 1.                                                                 *)
(***************************************************************************)

\* The quiesce lock is held by exactly the call between RedirectLock and
\* RedirectCount, and an ordinary call only gets through an open gate.
LockInv ==
  /\ \A c \in Call : pc[c] \in {"locked", "got"} <=> qlock = c
  /\ \A c \in Call : pc[c] = "got" /\ at[c] \notin Exempt => ~quiescing

IAcc == TypeOK /\ Accounting /\ LockInv

\* Before module_init every counter is zero.
LEMMA InitIAcc == Init => IAcc
<1> SUFFICES ASSUME Init PROVE IAcc
  OBVIOUS
<1>1. TypeOK
  BY DEF Init, TypeOK, ModState, Op, PC, InThunk, InRet
<1>2. LockInv
  BY DEF Init, LockInv
<1>3. In(pc, Counted) = {} /\ In(pc, Holding) = {}
  BY DEF Init, In, Counted, Holding
<1>4. Accounting
  BY <1>3, CallsInIsIn, FS_EmptySet DEF Init, Accounting
<1> QED BY <1>1, <1>2, <1>4 DEF IAcc

\* Every step of a redirected call keeps the counters backed.
LEMMA CallStepIAcc ==
  ASSUME IAcc, NEW c \in Call, CallStep(c)
  PROVE  IAcc'
<1> DEFINE nC == Cardinality(In(pc, Counted))
           nH == Cardinality(In(pc, Holding))
<1>0. /\ nC \in Nat /\ nH \in Nat
      /\ inflight = nC + orphans /\ refcnt = nH + orphans + pins
  BY InFinite, CallsInIsIn DEF IAcc, Accounting
<1>m. ASSUME NEW to \in PC, pc' = [pc EXCEPT ![c] = to]
      PROVE  /\ pc[c] \notin Counted /\ to \in Counted => Cardinality(In(pc', Counted)) = nC + 1
             /\ pc[c] \in Counted /\ to \notin Counted => Cardinality(In(pc', Counted)) = nC - 1
             /\ (pc[c] \in Counted <=> to \in Counted) => Cardinality(In(pc', Counted)) = nC
             /\ pc[c] \notin Holding /\ to \in Holding => Cardinality(In(pc', Holding)) = nH + 1
             /\ pc[c] \in Holding /\ to \notin Holding => Cardinality(In(pc', Holding)) = nH - 1
             /\ (pc[c] \in Holding <=> to \in Holding) => Cardinality(In(pc', Holding)) = nH
  BY <1>m, InMove DEF IAcc, TypeOK
<1>f. Cardinality(In(pc', Counted)) \in Nat /\ Cardinality(In(pc', Holding)) \in Nat
  BY InFinite
<1>a. ASSUME /\ inflight' = Cardinality(In(pc', Counted)) + orphans'
             /\ refcnt' = Cardinality(In(pc', Holding)) + orphans' + pins'
      PROVE  Accounting'
  BY <1>a, CallsInIsIn DEF Accounting
<1>t. ASSUME NEW from \in PC, NEW to \in PC, Step(c, from, to)
      PROVE  /\ pc[c] = from /\ pc' = [pc EXCEPT ![c] = to]
             /\ pc' \in [Call -> PC] /\ pc'[c] = to
             /\ \A d \in Call : d # c => pc'[d] = pc[d]
  BY <1>t DEF Step, IAcc, TypeOK
<1>p. /\ "out" \in PC /\ "thunk" \in PC /\ "locked" \in PC /\ "got" \in PC
      /\ "counted" \in PC /\ "func" \in PC /\ "missed" \in PC /\ "dec" \in PC /\ "tail" \in PC
  BY DEF PC, InThunk, InRet
<1> HIDE DEF nC, nH
<1>1. ASSUME NEW h \in Hook, HookFires(c, h) PROVE IAcc'
  <2>1. Accounting'
    BY <1>1, <1>0, <1>m, <1>a, <1>t, <1>p DEF HookFires, modVars, Counted, Holding
  <2>2. TypeOK' /\ LockInv'
    BY <1>1, <1>t, <1>p DEF IAcc, TypeOK, LockInv, HookFires, modVars, seqVars
  <2> QED BY <2>1, <2>2 DEF IAcc
<1>2. ASSUME RedirectLock(c) PROVE IAcc'
  <2>1. Accounting'
    BY <1>2, <1>0, <1>m, <1>a, <1>t, <1>p DEF RedirectLock, modVars, Counted, Holding
  <2>2. TypeOK' /\ LockInv'
    BY <1>2, <1>t, <1>p DEF IAcc, TypeOK, LockInv, RedirectLock, modVars, seqVars
  <2> QED BY <2>1, <2>2 DEF IAcc
<1>3. ASSUME RedirectGet(c) PROVE IAcc'
  <2>1. Accounting'
    BY <1>3, <1>0, <1>m, <1>a, <1>t, <1>p DEF RedirectGet, Counted, Holding, IAcc, TypeOK
  <2>2. TypeOK' /\ LockInv'
    BY <1>3, <1>t, <1>p DEF IAcc, TypeOK, LockInv, RedirectGet, Admitted, seqVars
  <2> QED BY <2>1, <2>2 DEF IAcc
<1>4. ASSUME RedirectRefuse(c) PROVE IAcc'
  <2>1. Accounting'
    BY <1>4, <1>0, <1>m, <1>a, <1>t, <1>p DEF RedirectRefuse, modVars, Counted, Holding
  <2>2. TypeOK' /\ LockInv'
    BY <1>4, <1>t, <1>p DEF IAcc, TypeOK, LockInv, RedirectRefuse, modVars, seqVars
  <2> QED BY <2>1, <2>2 DEF IAcc
<1>5. ASSUME RedirectCount(c) PROVE IAcc'
  <2>1. Accounting'
    BY <1>5, <1>0, <1>m, <1>a, <1>t, <1>p DEF RedirectCount, modVars, Counted, Holding, IAcc, TypeOK
  <2>2. TypeOK' /\ LockInv'
    BY <1>5, <1>t, <1>p DEF IAcc, TypeOK, LockInv, RedirectCount, modVars, seqVars
  <2> QED BY <2>1, <2>2 DEF IAcc
<1>6. ASSUME EnterFunction(c) PROVE IAcc'
  <2>1. Accounting'
    BY <1>6, <1>0, <1>m, <1>a, <1>t, <1>p DEF EnterFunction, modVars, Counted, Holding
  <2>2. TypeOK' /\ LockInv'
    BY <1>6, <1>t, <1>p DEF IAcc, TypeOK, LockInv, EnterFunction, modVars, seqVars
  <2> QED BY <2>1, <2>2 DEF IAcc
<1>7. ASSUME RetprobeRet(c) PROVE IAcc'
  <2>1. Accounting' /\ inflight' \in Nat
    BY <1>7, <1>0, <1>m, <1>a, <1>f, <1>t, <1>p DEF RetprobeRet, modVars, Counted, Holding, IAcc, TypeOK
  <2>2. TypeOK' /\ LockInv'
    BY <1>7, <1>t, <1>p, <2>1 DEF IAcc, TypeOK, LockInv, RetprobeRet, modVars, seqVars
  <2> QED BY <2>1, <2>2 DEF IAcc
<1>8. ASSUME RetprobePut(c) PROVE IAcc'
  <2>1. Accounting' /\ refcnt' \in Nat
    BY <1>8, <1>0, <1>m, <1>a, <1>f, <1>t, <1>p DEF RetprobePut, Counted, Holding, IAcc, TypeOK
  <2>2. TypeOK' /\ LockInv'
    BY <1>8, <1>t, <1>p, <2>1 DEF IAcc, TypeOK, LockInv, RetprobePut, seqVars
  <2> QED BY <2>1, <2>2 DEF IAcc
<1>9. ASSUME RetprobeLeave(c) PROVE IAcc'
  <2>1. Accounting'
    BY <1>9, <1>0, <1>m, <1>a, <1>t, <1>p DEF RetprobeLeave, modVars, Counted, Holding
  <2>2. TypeOK' /\ LockInv'
    BY <1>9, <1>t, <1>p DEF IAcc, TypeOK, LockInv, RetprobeLeave, modVars, seqVars
  <2> QED BY <2>1, <2>2 DEF IAcc
<1>10. ASSUME EndUnaccounted(c) PROVE IAcc'
  <2>1. Accounting'
    BY <1>10, <1>0, <1>m, <1>a, <1>t, <1>p DEF EndUnaccounted, modVars, Counted, Holding, IAcc, TypeOK
  <2>2. TypeOK' /\ LockInv'
    BY <1>10, <1>t, <1>p DEF IAcc, TypeOK, LockInv, EndUnaccounted, modVars, seqVars
  <2> QED BY <2>1, <2>2 DEF IAcc
<1> QED BY <1>1, <1>2, <1>3, <1>4, <1>5, <1>6, <1>7, <1>8, <1>9, <1>10 DEF CallStep

\* Installing, removing and freeing touch neither counter; a new module
\* starts at zero with no call inside.
LEMMA SequencerIAcc ==
  ASSUME IAcc, Sequencer
  PROVE  IAcc'
<1>k. ASSUME UNCHANGED <<refcnt, pins, quiescing, qlock, pc, at, inflight, orphans>>
      PROVE  Accounting' /\ LockInv'
  <2>1. LockInv'
    BY <1>k DEF IAcc, LockInv
  <2>2. Accounting'
    BY <1>k DEF IAcc, Accounting, CallsIn
  <2> QED BY <2>1, <2>2
<1> USE DEF ModState, Op
<1>1. CASE InstallAll
  BY <1>1, <1>k DEF InstallAll, IAcc, TypeOK, modVars, callVars
<1>2. CASE InstallDone
  BY <1>2, <1>k DEF InstallDone, IAcc, TypeOK, modVars, callVars
<1>3. CASE InstallReject
  BY <1>3, <1>k DEF InstallReject, IAcc, TypeOK, modVars, callVars
<1>4. CASE RemoveAll
  BY <1>4, <1>k DEF RemoveAll, IAcc, TypeOK, modVars, callVars
<1>5. CASE RemoveDone
  BY <1>5, <1>k DEF RemoveDone, IAcc, TypeOK, modVars, callVars
<1>6. CASE Free
  BY <1>6, <1>k DEF Free, IAcc, TypeOK, modVars, callVars
<1>7. CASE DeleteModule
  BY <1>7, <1>k DEF DeleteModule, IAcc, TypeOK, modVars, callVars
<1>8. CASE Insmod
  <2>1. TypeOK'
    BY <1>8 DEF Insmod, IAcc, TypeOK, seqVars
  <2>2. LockInv'
    BY <1>8 DEF Insmod, IAcc, TypeOK, LockInv, CallsIn, PC, InThunk, InRet
  <2>3. In(pc', Counted) = {} /\ In(pc', Holding) = {}
    BY <1>8 DEF Insmod, In, Counted, Holding, CallsIn, PC, InThunk, InRet
  <2>4. Accounting'
    BY <1>8, <2>3, CallsInIsIn, FS_EmptySet DEF Insmod, Accounting
  <2> QED BY <2>1, <2>2, <2>4 DEF IAcc
<1>9. ASSUME NEW h \in Hook, RetprobeInstall(h) PROVE IAcc'
  BY <1>9, <1>k DEF RetprobeInstall, IAcc, TypeOK, modVars, callVars
<1>10. ASSUME NEW h \in Hook, ForwardInstall(h) PROVE IAcc'
  BY <1>10, <1>k DEF ForwardInstall, IAcc, TypeOK, modVars, callVars
<1>11. ASSUME NEW h \in Hook, SkipMissing(h) PROVE IAcc'
  BY <1>11, <1>k DEF SkipMissing, IAcc, TypeOK, modVars, callVars
<1>12. ASSUME NEW h \in Hook, InstallFail(h) PROVE IAcc'
  BY <1>12, <1>k DEF InstallFail, IAcc, TypeOK, modVars, callVars
<1>13. ASSUME NEW h \in Hook, Disarm(h) PROVE IAcc'
  BY <1>13, <1>k DEF Disarm, IAcc, TypeOK, modVars, callVars
<1>14. ASSUME NEW h \in Hook, Removed(h) PROVE IAcc'
  BY <1>14, <1>k DEF Removed, IAcc, TypeOK, modVars, callVars
<1>15. ASSUME NEW h \in Hook, RetprobeRemove(h) PROVE IAcc'
  BY <1>15, <1>k DEF RetprobeRemove, IAcc, TypeOK, modVars, callVars
<1> QED
  BY <1>1, <1>2, <1>3, <1>4, <1>5, <1>6, <1>7, <1>8, <1>9, <1>10, <1>11, <1>12,
     <1>13, <1>14, <1>15 DEF Sequencer

\* IAcc is inductive.
LEMMA NextIAcc ==
  ASSUME IAcc, [Next]_vars
  PROVE  IAcc'
<1>1. CASE \E c \in Call : CallStep(c)
  BY <1>1, CallStepIAcc
<1>2. CASE Sequencer
  BY <1>2, SequencerIAcc
<1>3. ASSUME NEW b \in BOOLEAN, Quiesce(b) PROVE IAcc'
  <2>1. TypeOK' /\ LockInv'
    BY <1>3 DEF Quiesce, IAcc, TypeOK, LockInv, modVars, seqVars, callVars
  <2>2. Accounting'
    BY <1>3 DEF Quiesce, IAcc, Accounting, CallsIn, modVars, callVars
  <2> QED BY <2>1, <2>2 DEF IAcc
<1>c. Cardinality(In(pc, Holding)) \in Nat
  BY InFinite
<1>4. CASE Pin
  <2>1. TypeOK' /\ LockInv'
    BY <1>4 DEF Pin, IAcc, TypeOK, LockInv, seqVars, callVars
  <2>2. Accounting'
    <3>1. In(pc', Holding) = In(pc, Holding) /\ In(pc', Counted) = In(pc, Counted)
      BY <1>4 DEF Pin, callVars
    <3> QED BY <1>4, <1>c, <3>1, CallsInIsIn DEF Pin, IAcc, TypeOK, Accounting, callVars
  <2> QED BY <2>1, <2>2 DEF IAcc
<1>5. CASE Unpin
  <2>2. Accounting' /\ pins' \in Nat /\ refcnt' \in Nat
    <3>1. In(pc', Holding) = In(pc, Holding) /\ In(pc', Counted) = In(pc, Counted)
      BY <1>5 DEF Unpin, callVars
    <3> QED BY <1>5, <1>c, <3>1, CallsInIsIn DEF Unpin, IAcc, TypeOK, Accounting, callVars
  <2>1. TypeOK' /\ LockInv'
    BY <1>5, <2>2 DEF Unpin, IAcc, TypeOK, LockInv, seqVars, callVars
  <2> QED BY <2>1, <2>2 DEF IAcc
<1>6. CASE UNCHANGED vars
  <2>1. TypeOK' /\ LockInv'
    BY <1>6 DEF vars, IAcc, TypeOK, LockInv, modVars, seqVars, callVars
  <2>2. Accounting'
    BY <1>6 DEF vars, IAcc, Accounting, CallsIn, modVars, callVars
  <2> QED BY <2>1, <2>2 DEF IAcc
<1> QED BY <1>1, <1>2, <1>3, <1>4, <1>5, <1>6 DEF Next

\* The inductive invariant holds in every reachable state, whether or not
\* module_init may fail.
LEMMA AlwaysIAcc == Spec => []IAcc
BY InitIAcc, NextIAcc, PTL DEF Spec

\* Type correctness: in particular neither the module reference count nor
\* the in-flight counter of the hook engine ever becomes negative.
THEOREM TypeCorrect == Spec => []TypeOK
<1>1. IAcc => TypeOK
  BY DEF IAcc
<1> QED BY <1>1, AlwaysIAcc, PTL

\* The in-flight counter and the module reference count are backed call by call
\* in every reachable state, for every set of hooks and of calls and whether or
\* not module_init may fail.
THEOREM AccountingCorrect == Spec => []Accounting
<1>1. IAcc => Accounting
  BY DEF IAcc
<1> QED BY <1>1, AlwaysIAcc, PTL

\* shadow_hook_quiesce(true) is a barrier: once the in-flight counter has
\* dropped to zero no ordinary call is inside a replacement function, nor on
\* its way in (the polls of vendor_kernel_exit() rely on it).
THEOREM QuiesceBarrier == Spec => []QuiescedDrained
<1>1. IAcc => QuiescedDrained
  <2> SUFFICES ASSUME IAcc, quiescing, inflight = 0, NEW c \in Call,
                      pc[c] \in {"got", "counted", "func", "missed"}
               PROVE  at[c] \in Exempt
    BY DEF QuiescedDrained
  <2>1. CASE pc[c] = "got"
    BY <2>1 DEF IAcc, LockInv
  <2>2. CASE pc[c] # "got"
    <3>1. c \in In(pc, Counted)
      BY <2>2 DEF In, Counted
    <3>2. Cardinality(In(pc, Counted)) \in Nat /\ IsFiniteSet(In(pc, Counted))
      BY InFinite
    <3>3. Cardinality(In(pc, Counted)) # 0
      BY <3>1, <3>2, FS_EmptySet
    <3> QED BY <3>2, <3>3, CallsInIsIn DEF IAcc, Accounting, TypeOK
  <2> QED BY <2>1, <2>2
<1> QED BY <1>1, AlwaysIAcc, PTL

-----------------------------------------------------------------------------
(***************************************************************************)
(* Part 2.  module_init does not fail once hooks are live.                 *)
(***************************************************************************)

\* What the sequencer is doing agrees with the state of the module.
SeqInv ==
  /\ mod = "coming" => op \in {"idle", "install"} /\ (op = "idle" => ~active)
  /\ mod = "going" => op \in {"remove", "teardown"} /\ refcnt = 0
  /\ mod = "freed" => op = "idle" /\ ~active
  /\ op = "teardown" => mod = "going" /\ ~active
  /\ op = "install" => active
  /\ op # "install" => fresh = {}
  /\ fresh \subseteq todo

\* Which forward probes are registered.
ProbeInv ==
  /\ op \in {"idle", "teardown"} /\ ~active => \A h \in Hook : fwd[h] = "off"
  /\ op = "install" => \A h \in todo : fwd[h] = "off"
  /\ op = "remove" => \A h \in Hook \ todo : fwd[h] = "off"
  /\ \A c \in Call : pc[c] \in InThunk => fwd[at[c]] # "off"

\* Which return probes are registered.
RetInv ==
  /\ \A c \in Call :
       /\ pc[c] \in {"got", "counted", "func", "dec"} =>
            retprobe[at[c]] /\ at[c] \notin fresh
       /\ op = "teardown" /\ at[c] \notin todo => pc[c] \notin InRet
       /\ mod = "freed" => pc[c] = "out"

ISafe == SeqInv /\ ProbeInv /\ RetInv

\* A zero reference count rules out every call that holds a reference, and
\* every other pin.
LEMMA ZeroRefs ==
  ASSUME IAcc, refcnt = 0
  PROVE  pins = 0 /\ \A c \in Call : pc[c] \notin Holding
<1>1. Cardinality(In(pc, Holding)) \in Nat /\ IsFiniteSet(In(pc, Holding))
  BY InFinite
<1>2. Cardinality(In(pc, Holding)) = 0 /\ pins = 0
  BY <1>1, CallsInIsIn DEF IAcc, TypeOK, Accounting
<1>3. In(pc, Holding) = {}
  BY <1>1, <1>2, FS_EmptySet
<1> QED BY <1>2, <1>3 DEF In

\* A module being loaded has no probe registered.
LEMMA InitISafe == Init => ISafe
BY DEF Init, ISafe, SeqInv, ProbeInv, RetInv, InThunk, InRet

\* A call enters a replacement only through a registered forward probe.
LEMMA CallStepISafe ==
  ASSUME IAcc, ISafe, NEW c \in Call, CallStep(c)
  PROVE  ISafe'
<1>g. mod = "going" => \A d \in Call : pc[d] \notin Holding
  BY ZeroRefs DEF ISafe, SeqInv
<1>t. ASSUME NEW from, NEW to, Step(c, from, to)
      PROVE  /\ pc[c] = from /\ pc'[c] = to
             /\ \A d \in Call : d # c => pc'[d] = pc[d]
  BY <1>t DEF Step, IAcc, TypeOK
<1>y. /\ at \in [Call -> Hook] /\ fwd \in [Hook -> {"off", "on", "draining"}]
      /\ refcnt \in Nat /\ mod \in ModState
  BY DEF IAcc, TypeOK
<1> USE DEF InThunk, InRet
<1>1. ASSUME NEW h \in Hook, HookFires(c, h) PROVE ISafe'
  <2>1. at'[c] = h /\ \A d \in Call : d # c => at'[d] = at[d]
    BY <1>1, <1>y DEF HookFires
  <2>2. pc[c] = "out" /\ pc'[c] = "thunk" /\ \A d \in Call : d # c => pc'[d] = pc[d]
    BY <1>1, <1>t DEF HookFires
  <2>3. mod # "freed"
    BY <1>1, <1>y DEF HookFires, ISafe, SeqInv, ProbeInv
  <2>4. SeqInv'
    BY <1>1 DEF HookFires, ISafe, SeqInv, modVars, seqVars
  <2>5. ProbeInv'
    BY <1>1, <2>1, <2>2 DEF HookFires, ISafe, ProbeInv, seqVars
  <2>6. RetInv'
    BY <1>1, <2>1, <2>2, <2>3 DEF HookFires, ISafe, RetInv, modVars, seqVars
  <2> QED BY <2>4, <2>5, <2>6 DEF ISafe
<1>2. CASE RedirectLock(c)
  <2>1. SeqInv'
    BY <1>2 DEF RedirectLock, ISafe, SeqInv, modVars, seqVars
  <2>2. ProbeInv' /\ RetInv'
    BY <1>2, <1>t DEF RedirectLock, ISafe, ProbeInv, RetInv, modVars, seqVars
  <2> QED BY <2>1, <2>2 DEF ISafe
<1>3. CASE RedirectGet(c)
  <2>1. mod # "going" /\ retprobe[at[c]] /\ fwd[at[c]] # "off"
    BY <1>3, <1>t DEF RedirectGet, Admitted, ModuleIsLive, ISafe, ProbeInv
  <2>2. SeqInv'
    BY <1>3, <2>1 DEF RedirectGet, ISafe, SeqInv, seqVars
  <2>3. at[c] \notin fresh
    BY <2>1 DEF ISafe, SeqInv, ProbeInv
  <2>4. ProbeInv' /\ RetInv'
    BY <1>3, <1>t, <2>1, <2>3 DEF RedirectGet, ISafe, ProbeInv, RetInv, seqVars
  <2> QED BY <2>2, <2>4 DEF ISafe
<1>4. CASE RedirectRefuse(c)
  <2>1. SeqInv'
    BY <1>4 DEF RedirectRefuse, ISafe, SeqInv, modVars, seqVars
  <2>2. ProbeInv' /\ RetInv'
    BY <1>4, <1>t DEF RedirectRefuse, ISafe, ProbeInv, RetInv, modVars, seqVars
  <2> QED BY <2>1, <2>2 DEF ISafe
<1>5. CASE RedirectCount(c)
  <2>1. SeqInv'
    BY <1>5 DEF RedirectCount, ISafe, SeqInv, modVars, seqVars
  <2>2. ProbeInv' /\ RetInv'
    BY <1>5, <1>t DEF RedirectCount, ISafe, ProbeInv, RetInv, modVars, seqVars
  <2> QED BY <2>1, <2>2 DEF ISafe
<1>6. CASE EnterFunction(c)
  <2>1. SeqInv'
    BY <1>6 DEF EnterFunction, ISafe, SeqInv, modVars, seqVars
  <2>2. ProbeInv' /\ RetInv'
    BY <1>6, <1>t DEF EnterFunction, ISafe, ProbeInv, RetInv, modVars, seqVars
  <2> QED BY <2>1, <2>2 DEF ISafe
<1>7. CASE RetprobeRet(c)
  <2>1. SeqInv'
    BY <1>7 DEF RetprobeRet, ISafe, SeqInv, modVars, seqVars
  <2>2. op # "teardown"
    BY <1>7, <1>t, <1>g DEF RetprobeRet, ISafe, SeqInv, Holding
  <2>3. ProbeInv' /\ RetInv'
    BY <1>7, <1>t, <2>2 DEF RetprobeRet, ISafe, ProbeInv, RetInv, modVars, seqVars
  <2> QED BY <2>1, <2>3 DEF ISafe
<1>8. CASE RetprobePut(c)
  <2>1. mod # "going"
    BY <1>8, <1>t, <1>g DEF RetprobePut, Holding
  <2>2. SeqInv'
    BY <1>8, <2>1 DEF RetprobePut, ISafe, SeqInv, seqVars
  <2>3. ProbeInv' /\ RetInv'
    BY <1>8, <1>t DEF RetprobePut, ISafe, ProbeInv, RetInv, seqVars
  <2> QED BY <2>2, <2>3 DEF ISafe
<1>9. CASE RetprobeLeave(c)
  <2>1. SeqInv'
    BY <1>9 DEF RetprobeLeave, ISafe, SeqInv, modVars, seqVars
  <2>2. ProbeInv' /\ RetInv'
    BY <1>9, <1>t DEF RetprobeLeave, ISafe, ProbeInv, RetInv, modVars, seqVars
  <2> QED BY <2>1, <2>2 DEF ISafe
<1>10. CASE EndUnaccounted(c)
  <2>1. SeqInv'
    BY <1>10 DEF EndUnaccounted, ISafe, SeqInv, modVars, seqVars
  <2>2. ProbeInv' /\ RetInv'
    BY <1>10, <1>t DEF EndUnaccounted, ISafe, ProbeInv, RetInv, modVars, seqVars
  <2> QED BY <2>1, <2>2 DEF ISafe
<1> QED BY <1>1, <1>2, <1>3, <1>4, <1>5, <1>6, <1>7, <1>8, <1>9, <1>10 DEF CallStep

\* The sequencer frees nothing that a call still needs.
LEMMA SequencerISafe ==
  ASSUME InitMayFail = FALSE, IAcc, ISafe, Sequencer
  PROVE  ISafe'
<1>g. refcnt = 0 => \A d \in Call : pc[d] \notin Holding
  BY ZeroRefs
<1>y. TypeOK
  BY DEF IAcc
<1> USE DEF InThunk, InRet
<1> USE <1>y DEF TypeOK, ISafe, SeqInv, ProbeInv, RetInv
<1>1. CASE InstallAll
  BY <1>1 DEF InstallAll, ModuleIsLive, modVars, callVars
<1>2. CASE InstallDone
  BY <1>2 DEF InstallDone, callVars
<1>3. CASE InstallReject
  BY <1>3 DEF InstallReject, modVars, callVars
<1>4. CASE RemoveAll
  BY <1>4 DEF RemoveAll, modVars, callVars
<1>5. CASE RemoveDone
  BY <1>5 DEF RemoveDone, ModState, modVars, callVars
<1>6. CASE Free
  <2>1. \A d \in Call : pc[d] = "out"
    BY <1>6, <1>g DEF Free, Holding, PC
  <2> QED BY <1>6, <2>1 DEF Free, callVars
<1>7. CASE DeleteModule
  BY <1>7 DEF DeleteModule, callVars
<1>8. CASE Insmod
  BY <1>8 DEF Insmod, seqVars
<1>9. ASSUME NEW h \in Hook, RetprobeInstall(h) PROVE ISafe'
  BY <1>9 DEF RetprobeInstall, Installing, modVars, callVars
<1>10. ASSUME NEW h \in Hook, ForwardInstall(h) PROVE ISafe'
  BY <1>10 DEF ForwardInstall, Installing, modVars, callVars
<1>11. ASSUME NEW h \in Hook, SkipMissing(h) PROVE ISafe'
  BY <1>11 DEF SkipMissing, Installing, modVars, callVars
<1>12. ASSUME NEW h \in Hook, InstallFail(h) PROVE ISafe'
  BY <1>12 DEF InstallFail, Installing, modVars, callVars
<1>13. ASSUME NEW h \in Hook, Disarm(h) PROVE ISafe'
  BY <1>13 DEF Disarm, modVars, callVars
<1>14. ASSUME NEW h \in Hook, Removed(h) PROVE ISafe'
  BY <1>14 DEF Removed, CallsAt, modVars, callVars
<1>15. ASSUME NEW h \in Hook, RetprobeRemove(h) PROVE ISafe'
  BY <1>15, <1>g DEF RetprobeRemove, CallsAt, Holding, modVars, callVars
<1> QED
  BY <1>1, <1>2, <1>3, <1>4, <1>5, <1>6, <1>7, <1>8, <1>9, <1>10, <1>11, <1>12,
     <1>13, <1>14, <1>15 DEF Sequencer

\* ISafe is inductive relative to IAcc.
LEMMA NextISafe ==
  ASSUME InitMayFail = FALSE, IAcc, ISafe, [Next]_vars
  PROVE  ISafe'
<1>1. CASE \E c \in Call : CallStep(c)
  BY <1>1, CallStepISafe
<1>2. CASE Sequencer
  BY <1>2, SequencerISafe
<1>3. CASE \E b \in BOOLEAN : Quiesce(b)
  BY <1>3 DEF Quiesce, ISafe, SeqInv, ProbeInv, RetInv, modVars, seqVars, callVars
<1>4. CASE Pin
  BY <1>4 DEF Pin, ModuleIsLive, ISafe, SeqInv, ProbeInv, RetInv, seqVars, callVars
<1>5. CASE Unpin
  <2>1. refcnt # 0
    BY <1>5, ZeroRefs DEF Unpin
  <2> QED BY <1>5, <2>1 DEF Unpin, ISafe, SeqInv, ProbeInv, RetInv, seqVars, callVars
<1>6. CASE UNCHANGED vars
  BY <1>6 DEF vars, ISafe, SeqInv, ProbeInv, RetInv, modVars, seqVars, callVars
<1> QED BY <1>1, <1>2, <1>3, <1>4, <1>5, <1>6 DEF Next

\* Both invariants hold in every reachable state of an engine whose
\* module_init does not fail after its hooks went live.
LEMMA AlwaysISafe ==
  ASSUME InitMayFail = FALSE
  PROVE  Spec => [](IAcc /\ ISafe)
<1>1. Init => IAcc /\ ISafe
  BY InitIAcc, InitISafe
<1>2. IAcc /\ ISafe /\ [Next]_vars => IAcc' /\ ISafe'
  BY NextIAcc, NextISafe
<1> QED BY <1>1, <1>2, PTL DEF Spec

\* The memory of the module is never freed while a CPU executes its text,
\* be it a probe handler or a replacement (rmmod safety, shadow_hook.h).
THEOREM TextSafety ==
  ASSUME InitMayFail = FALSE
  PROVE  Spec => []NoTextAfterFree
<1>1. IAcc /\ ISafe => NoTextAfterFree
  BY DEF ISafe, RetInv, NoTextAfterFree, CallsIn
<1> QED BY <1>1, AlwaysISafe, PTL

\* The return probe of a hook outlives every tracked call through the hook, across
\* any sequence of removals and (failed) installations (shadow_hook_remove()).
THEOREM RetprobeSafety ==
  ASSUME InitMayFail = FALSE
  PROVE  Spec => []RetprobeOutlivesCalls
<1>1. IAcc /\ ISafe => RetprobeOutlivesCalls
  BY DEF ISafe, RetInv, RetprobeOutlivesCalls
<1> QED BY <1>1, AlwaysISafe, PTL

\* shadow_hook_teardown_all_retprobes() runs only when nothing references the
\* module any more.
THEOREM TeardownSafety ==
  ASSUME InitMayFail = FALSE
  PROVE  Spec => []TeardownAtZeroRefs
<1>1. IAcc /\ ISafe => TeardownAtZeroRefs
  BY DEF ISafe, SeqInv, TeardownAtZeroRefs
<1> QED BY <1>1, AlwaysISafe, PTL

-----------------------------------------------------------------------------
(***************************************************************************)
(* Part 3.  The engine implements ModuleLifetime.                          *)
(***************************************************************************)
Inside == {c \in Call : pc[c] # "out"}

\* A step that moves one call within the module is a stutter of ModuleLifetime, one
\* that moves it in or out is an Enter or a Leave.
LEMMA MoveLifetime ==
  ASSUME TypeOK, NEW c \in Call, NEW to \in PC, pc' = [pc EXCEPT ![c] = to],
         UNCHANGED mod, pc[c] = "out" => mod # "freed"
  PROVE  [Lifetime!Next]_(Lifetime!vars)
<1>1. Inside' = IF to = "out" THEN Inside \ {c} ELSE Inside \cup {c}
  BY DEF TypeOK, Inside
<1>2. CASE pc[c] = "out" /\ to # "out"
  <2>1. Lifetime!Enter(c)
    BY <1>1, <1>2 DEF Lifetime!Enter, Inside
  <2> QED BY <2>1 DEF Lifetime!Next
<1>3. CASE pc[c] # "out" /\ to = "out"
  <2>1. Lifetime!Leave(c)
    BY <1>1, <1>3 DEF Lifetime!Leave, Inside
  <2> QED BY <2>1 DEF Lifetime!Next
<1>4. CASE (pc[c] = "out") = (to = "out")
  <2>1. Inside' = Inside
    BY <1>1, <1>4 DEF Inside
  <2> QED BY <2>1 DEF Lifetime!vars, Inside
<1> QED BY <1>2, <1>3, <1>4

\* Every step of a call is allowed by ModuleLifetime: only HookFires enters, and
\* it needs a registered forward probe, of which a freed module has none.
LEMMA CallStepLifetime ==
  ASSUME IAcc, ISafe, NEW c \in Call, CallStep(c)
  PROVE  [Lifetime!Next]_(Lifetime!vars)
<1>y. TypeOK
  BY DEF IAcc
<1>1. ASSUME NEW h \in Hook, HookFires(c, h) PROVE [Lifetime!Next]_(Lifetime!vars)
  <2>1. mod # "freed"
    BY <1>1 DEF HookFires, ISafe, SeqInv, ProbeInv
  <2>2. pc' = [pc EXCEPT ![c] = "thunk"] /\ UNCHANGED mod /\ "thunk" \in PC
    BY <1>1 DEF HookFires, Step, modVars, PC, InThunk
  <2> QED BY <1>y, <2>1, <2>2, MoveLifetime
<1>2. ASSUME ~\E h \in Hook : HookFires(c, h) PROVE [Lifetime!Next]_(Lifetime!vars)
  <2>1. PICK to \in PC : pc' = [pc EXCEPT ![c] = to]
    BY <1>2 DEF CallStep, RedirectLock, RedirectGet, RedirectRefuse, RedirectCount,
       EnterFunction, RetprobeRet, RetprobePut, RetprobeLeave, EndUnaccounted, Step,
       PC, InThunk, InRet
  <2>2. UNCHANGED mod /\ pc[c] # "out"
    BY <1>2 DEF CallStep, RedirectLock, RedirectGet, RedirectRefuse, RedirectCount,
       EnterFunction, RetprobeRet, RetprobePut, RetprobeLeave, EndUnaccounted, Step, modVars
  <2> QED BY <1>y, <2>1, <2>2, MoveLifetime
<1> QED BY <1>1, <1>2

\* The sequencer moves no call; it frees the text only after the last one left.
LEMMA SequencerLifetime ==
  ASSUME IAcc, ISafe, ISafe', Sequencer
  PROVE  [Lifetime!Next]_(Lifetime!vars)
<1>0. UNCHANGED pc
  BY DEF Sequencer, InstallAll, InstallDone, InstallReject, RemoveAll, RemoveDone, Free,
     DeleteModule, Insmod, RetprobeInstall, ForwardInstall, SkipMissing, InstallFail, Disarm,
     Removed, RetprobeRemove, callVars
<1>1. CASE Free
  <2>1. mod # "freed" /\ mod' = "freed"
    BY <1>1 DEF Free, ISafe, SeqInv
  <2>2. \A c \in Call : pc[c] = "out"
    BY <1>0, <2>1 DEF ISafe, RetInv
  <2>3. Lifetime!Free
    BY <1>0, <2>1, <2>2 DEF Lifetime!Free
  <2> QED BY <2>3 DEF Lifetime!Next
<1>2. CASE Insmod
  <2>1. mod = "freed" /\ mod' # "freed" /\ \A c \in Call : pc[c] = "out"
    BY <1>2 DEF Insmod, ISafe, RetInv
  <2>2. Lifetime!Load
    BY <1>0, <2>1 DEF Lifetime!Load
  <2> QED BY <2>2 DEF Lifetime!Next
<1>3. CASE ~Free /\ ~Insmod
  <2>1. mod = "freed" <=> mod' = "freed"
    BY <1>3 DEF Sequencer, InstallAll, InstallDone, InstallReject, RemoveAll, RemoveDone,
       DeleteModule, RetprobeInstall, ForwardInstall, SkipMissing, InstallFail, Disarm,
       Removed, RetprobeRemove, modVars, ISafe, SeqInv
  <2> QED BY <1>0, <2>1 DEF Lifetime!vars
<1> QED BY <1>1, <1>2, <1>3

\* The hook engine implements ModuleLifetime: for every set of hooks and calls,
\* text is entered only while it is loaded and freed only while nobody is in it -
\* provided module_init does not fail after its hooks went live.
THEOREM LifetimeRefinement ==
  ASSUME InitMayFail = FALSE
  PROVE  Spec => ImplementsLifetime
<1>1. Init => Lifetime!Init
  BY DEF Init, Lifetime!Init
<1>2. Init => IAcc /\ ISafe
  BY InitIAcc, InitISafe
<1>3. IAcc /\ ISafe /\ [Next]_vars => IAcc' /\ ISafe'
  BY NextIAcc, NextISafe
<1>4. IAcc /\ ISafe /\ [Next]_vars => [Lifetime!Next]_(Lifetime!vars)
  <2> SUFFICES ASSUME IAcc, ISafe, [Next]_vars
               PROVE  [Lifetime!Next]_(Lifetime!vars)
    OBVIOUS
  <2>1. CASE \E c \in Call : CallStep(c)
    BY <2>1, CallStepLifetime
  <2>2. CASE Sequencer
    BY <2>2, <1>3, SequencerLifetime
  <2>3. CASE ~(\E c \in Call : CallStep(c)) /\ ~Sequencer
    <3>1. UNCHANGED <<mod, pc>>
      BY <2>3 DEF Next, Quiesce, Pin, Unpin, vars, modVars, callVars
    <3> QED BY <3>1 DEF Lifetime!vars
  <2> QED BY <2>1, <2>2, <2>3
<1> QED BY <1>1, <1>2, <1>3, <1>4, PTL DEF Spec, ImplementsLifetime, Lifetime!Spec
=============================================================================
