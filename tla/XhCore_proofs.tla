---------------------------- MODULE XhCore_proofs ----------------------------
(***************************************************************************)
(* What XhCore guarantees for every set of threads, infos and files, and   *)
(* however the application overlaps its calls.                             *)
(*                                                                         *)
(* The inductive invariant adds to the types who owns the two mutexes:     *)
(* core_mutex belongs to the caller inside a critical section,             *)
(* refresh_mutex to the thread inside refresh_impl.  One lemma per group   *)
(* of actions shows that it is kept, with one step per action.             *)
(***************************************************************************)
EXTENDS XhCore, TLAPS

\* The line being worked on names a file once its header is being checked.
CurKnown ==
  \A t \in Threads : pc[t] \in ArmPC \cup GuardedPC \cup {"imp_find"} => cur \in Libs

\* core_mutex is held exactly inside the critical sections of lines 500-527,
\* 533-552 and 606-645.
CoreOwner == \A t \in Callers : pc[t] \in HoldCorePC <=> core_mutex = t

\* refresh_mutex is held exactly while refresh_impl runs (lines 488, 575).
RefreshOwner == \A t \in Threads : pc[t] \in ImplPC <=> refresh_mutex = t

IInv == TypeOK /\ CurKnown /\ EnvLive /\ CoreOwner /\ RefreshOwner

-----------------------------------------------------------------------------
\* The statics start in the invariant.
LEMMA InitIInv == Init => IInv
<1> SUFFICES ASSUME Init PROVE IInv
  OBVIOUS
<1>1. PCTypeOK /\ CallTypeOK
  BY ThreadsAssumption, ModeAssumption
     DEF Init, SegvInit, PCTypeOK, CallTypeOK, CallerPC, WorkerPC, Threads
<1>2. SharedTypeOK /\ SegvTypeOK
  BY ModeAssumption DEF Init, SegvInit, SharedTypeOK, SegvTypeOK, Dispositions
<1>3. CurKnown /\ EnvLive /\ CoreOwner /\ RefreshOwner
  BY ThreadsAssumption
     DEF Init, SegvInit, CurKnown, EnvLive, CoreOwner, RefreshOwner, HoldCorePC, ImplPC,
         ArmPC, GuardedPC, Threads
<1> QED
  BY <1>1, <1>2, <1>3 DEF IInv, TypeOK

\* register and ignore take core_mutex for one step.
LEMMA RegisterKeeps ==
  ASSUME IInv, NEW t \in Callers, Register(t) PROVE IInv'
<1> USE DEF IInv, TypeOK, Threads, life, async, locks, data, local, guard, segv, hist, call
<1>1. CASE RegCheck(t)
  <2> USE <1>1 DEF RegCheck, Return, Returned, Goto
  <2>1. PCTypeOK' /\ CallTypeOK'
    BY ThreadsAssumption
       DEF PCTypeOK, CallTypeOK, CallerPC, WorkerPC, HoldCorePC, ImplPC, ArmPC, GuardedPC
  <2>2. SharedTypeOK'
    BY DEF CurKnown, SharedTypeOK
  <2>3. SegvTypeOK'
    BY ModeAssumption DEF SegvTypeOK, Dispositions
  <2>4. CurKnown' /\ EnvLive'
    BY ThreadsAssumption DEF PCTypeOK, SharedTypeOK, SegvTypeOK, CurKnown, EnvLive,
       CallerPC, WorkerPC, HoldCorePC, ImplPC, ArmPC, GuardedPC
  <2>5. CoreOwner' /\ RefreshOwner'
    BY ThreadsAssumption DEF PCTypeOK, SharedTypeOK, CoreOwner, RefreshOwner,
       CallerPC, WorkerPC, HoldCorePC, ImplPC, ArmPC, GuardedPC
  <2> QED
    BY <2>1, <2>2, <2>3, <2>4, <2>5
<1>2. CASE RegInsert(t)
  <2> USE <1>2 DEF RegInsert, CoreFree, Free, Return, Returned, Goto
  <2>1. PCTypeOK' /\ CallTypeOK'
    BY ThreadsAssumption
       DEF PCTypeOK, CallTypeOK, CallerPC, WorkerPC, HoldCorePC, ImplPC, ArmPC, GuardedPC
  <2>2. SharedTypeOK'
    BY DEF CurKnown, SharedTypeOK
  <2>3. SegvTypeOK'
    BY ModeAssumption DEF SegvTypeOK, Dispositions
  <2>4. CurKnown' /\ EnvLive'
    BY ThreadsAssumption DEF PCTypeOK, SharedTypeOK, SegvTypeOK, CurKnown, EnvLive,
       CallerPC, WorkerPC, HoldCorePC, ImplPC, ArmPC, GuardedPC
  <2>5. CoreOwner' /\ RefreshOwner'
    BY ThreadsAssumption DEF PCTypeOK, SharedTypeOK, CoreOwner, RefreshOwner,
       CallerPC, WorkerPC, HoldCorePC, ImplPC, ArmPC, GuardedPC
  <2> QED
    BY <2>1, <2>2, <2>3, <2>4, <2>5
<1> QED
  BY <1>1, <1>2 DEF Register

\* The once-initialisers leave core_mutex as they found it.
LEMMA RefreshKeeps ==
  ASSUME IInv, NEW t \in Callers, Refresh(t) PROVE IInv'
<1> USE DEF IInv, TypeOK, Threads, life, async, locks, data, local, guard, segv, hist, call
<1>1. CASE OnceTest(t)
  <2> USE <1>1 DEF OnceTest, Goto
  <2>1. PCTypeOK' /\ CallTypeOK'
    BY ThreadsAssumption
       DEF PCTypeOK, CallTypeOK, CallerPC, WorkerPC, HoldCorePC, ImplPC, ArmPC, GuardedPC
  <2>2. SharedTypeOK'
    BY DEF CurKnown, SharedTypeOK
  <2>3. SegvTypeOK'
    BY ModeAssumption DEF SegvTypeOK, Dispositions
  <2>4. CurKnown' /\ EnvLive'
    BY ThreadsAssumption DEF PCTypeOK, SharedTypeOK, SegvTypeOK, CurKnown, EnvLive,
       CallerPC, WorkerPC, HoldCorePC, ImplPC, ArmPC, GuardedPC
  <2>5. CoreOwner' /\ RefreshOwner'
    BY ThreadsAssumption DEF PCTypeOK, SharedTypeOK, CoreOwner, RefreshOwner,
       CallerPC, WorkerPC, HoldCorePC, ImplPC, ArmPC, GuardedPC
  <2> QED
    BY <2>1, <2>2, <2>3, <2>4, <2>5
<1>2. CASE OnceLock(t)
  <2> USE <1>2 DEF OnceLock, CoreFree, Free, Goto
  <2>1. PCTypeOK' /\ CallTypeOK'
    BY ThreadsAssumption
       DEF PCTypeOK, CallTypeOK, CallerPC, WorkerPC, HoldCorePC, ImplPC, ArmPC, GuardedPC
  <2>2. SharedTypeOK'
    BY DEF CurKnown, SharedTypeOK
  <2>3. SegvTypeOK'
    BY ModeAssumption DEF SegvTypeOK, Dispositions
  <2>4. CurKnown' /\ EnvLive'
    BY ThreadsAssumption DEF PCTypeOK, SharedTypeOK, SegvTypeOK, CurKnown, EnvLive,
       CallerPC, WorkerPC, HoldCorePC, ImplPC, ArmPC, GuardedPC
  <2>5. CoreOwner' /\ RefreshOwner'
    BY ThreadsAssumption DEF PCTypeOK, SharedTypeOK, CoreOwner, RefreshOwner,
       CallerPC, WorkerPC, HoldCorePC, ImplPC, ArmPC, GuardedPC
  <2> QED
    BY <2>1, <2>2, <2>3, <2>4, <2>5
<1>3. CASE OnceSig(t)
  <2> USE <1>3 DEF OnceSig, AddSigsegvHandler, Goto
  <2>1. PCTypeOK' /\ CallTypeOK'
    BY ThreadsAssumption
       DEF PCTypeOK, CallTypeOK, CallerPC, WorkerPC, HoldCorePC, ImplPC, ArmPC, GuardedPC
  <2>2. SharedTypeOK'
    BY DEF CurKnown, SharedTypeOK
  <2>3. SegvTypeOK'
    <3>1. resethand' \in BOOLEAN
      BY ModeAssumption DEF SegvTypeOK
    <3>2. /\ act_old' \in Dispositions /\ disposition' \in Dispositions
          /\ spent' \in BOOLEAN /\ installed' \in BOOLEAN
      BY DEF SegvTypeOK, Dispositions
    <3>3. UNCHANGED <<sigsegv_enable, flag, env, own, switched, left, proc>>
      OBVIOUS
    <3> QED
      BY <3>1, <3>2, <3>3 DEF SegvTypeOK
  <2>4. CurKnown' /\ EnvLive'
    BY ThreadsAssumption DEF PCTypeOK, SharedTypeOK, SegvTypeOK, CurKnown, EnvLive,
       CallerPC, WorkerPC, HoldCorePC, ImplPC, ArmPC, GuardedPC
  <2>5. CoreOwner' /\ RefreshOwner'
    BY ThreadsAssumption DEF PCTypeOK, SharedTypeOK, CoreOwner, RefreshOwner,
       CallerPC, WorkerPC, HoldCorePC, ImplPC, ArmPC, GuardedPC
  <2> QED
    BY <2>1, <2>2, <2>3, <2>4, <2>5
<1>4. CASE OnceOk(t)
  <2> USE <1>4 DEF OnceOk, Goto
  <2>1. PCTypeOK' /\ CallTypeOK'
    BY ThreadsAssumption
       DEF PCTypeOK, CallTypeOK, CallerPC, WorkerPC, HoldCorePC, ImplPC, ArmPC, GuardedPC
  <2>2. SharedTypeOK'
    BY DEF CurKnown, SharedTypeOK
  <2>3. SegvTypeOK'
    BY ModeAssumption DEF SegvTypeOK, Dispositions
  <2>4. CurKnown' /\ EnvLive'
    BY ThreadsAssumption DEF PCTypeOK, SharedTypeOK, SegvTypeOK, CurKnown, EnvLive,
       CallerPC, WorkerPC, HoldCorePC, ImplPC, ArmPC, GuardedPC
  <2>5. CoreOwner' /\ RefreshOwner'
    BY ThreadsAssumption DEF PCTypeOK, SharedTypeOK, CoreOwner, RefreshOwner,
       CallerPC, WorkerPC, HoldCorePC, ImplPC, ArmPC, GuardedPC
  <2> QED
    BY <2>1, <2>2, <2>3, <2>4, <2>5
<1>5. CASE RefreshOk(t)
  <2> USE <1>5 DEF RefreshOk, Return, Returned, Goto
  <2>1. PCTypeOK' /\ CallTypeOK'
    BY ThreadsAssumption
       DEF PCTypeOK, CallTypeOK, CallerPC, WorkerPC, HoldCorePC, ImplPC, ArmPC, GuardedPC
  <2>2. SharedTypeOK'
    BY DEF CurKnown, SharedTypeOK
  <2>3. SegvTypeOK'
    BY ModeAssumption DEF SegvTypeOK, Dispositions
  <2>4. CurKnown' /\ EnvLive'
    BY ThreadsAssumption DEF PCTypeOK, SharedTypeOK, SegvTypeOK, CurKnown, EnvLive,
       CallerPC, WorkerPC, HoldCorePC, ImplPC, ArmPC, GuardedPC
  <2>5. CoreOwner' /\ RefreshOwner'
    BY ThreadsAssumption DEF PCTypeOK, SharedTypeOK, CoreOwner, RefreshOwner,
       CallerPC, WorkerPC, HoldCorePC, ImplPC, ArmPC, GuardedPC
  <2> QED
    BY <2>1, <2>2, <2>3, <2>4, <2>5
<1>6. CASE AsyncTest(t)
  <2> USE <1>6 DEF AsyncTest, Goto
  <2>1. PCTypeOK' /\ CallTypeOK'
    BY ThreadsAssumption
       DEF PCTypeOK, CallTypeOK, CallerPC, WorkerPC, HoldCorePC, ImplPC, ArmPC, GuardedPC
  <2>2. SharedTypeOK'
    BY DEF CurKnown, SharedTypeOK
  <2>3. SegvTypeOK'
    BY ModeAssumption DEF SegvTypeOK, Dispositions
  <2>4. CurKnown' /\ EnvLive'
    BY ThreadsAssumption DEF PCTypeOK, SharedTypeOK, SegvTypeOK, CurKnown, EnvLive,
       CallerPC, WorkerPC, HoldCorePC, ImplPC, ArmPC, GuardedPC
  <2>5. CoreOwner' /\ RefreshOwner'
    BY ThreadsAssumption DEF PCTypeOK, SharedTypeOK, CoreOwner, RefreshOwner,
       CallerPC, WorkerPC, HoldCorePC, ImplPC, ArmPC, GuardedPC
  <2> QED
    BY <2>1, <2>2, <2>3, <2>4, <2>5
<1>7. CASE AsyncLock(t)
  <2> USE <1>7 DEF AsyncLock, CoreFree, Free, Goto
  <2>1. PCTypeOK' /\ CallTypeOK'
    BY ThreadsAssumption
       DEF PCTypeOK, CallTypeOK, CallerPC, WorkerPC, HoldCorePC, ImplPC, ArmPC, GuardedPC
  <2>2. SharedTypeOK'
    BY DEF CurKnown, SharedTypeOK
  <2>3. SegvTypeOK'
    BY ModeAssumption DEF SegvTypeOK, Dispositions
  <2>4. CurKnown' /\ EnvLive'
    BY ThreadsAssumption DEF PCTypeOK, SharedTypeOK, SegvTypeOK, CurKnown, EnvLive,
       CallerPC, WorkerPC, HoldCorePC, ImplPC, ArmPC, GuardedPC
  <2>5. CoreOwner' /\ RefreshOwner'
    BY ThreadsAssumption DEF PCTypeOK, SharedTypeOK, CoreOwner, RefreshOwner,
       CallerPC, WorkerPC, HoldCorePC, ImplPC, ArmPC, GuardedPC
  <2> QED
    BY <2>1, <2>2, <2>3, <2>4, <2>5
<1>8. CASE AsyncCreate(t)
  <2> USE <1>8 DEF AsyncCreate, Goto
  <2>1. PCTypeOK' /\ CallTypeOK'
    BY ThreadsAssumption
       DEF PCTypeOK, CallTypeOK, CallerPC, WorkerPC, HoldCorePC, ImplPC, ArmPC, GuardedPC
  <2>2. SharedTypeOK'
    BY DEF CurKnown, SharedTypeOK
  <2>3. SegvTypeOK'
    BY ModeAssumption DEF SegvTypeOK, Dispositions
  <2>4. CurKnown' /\ EnvLive'
    BY ThreadsAssumption DEF PCTypeOK, SharedTypeOK, SegvTypeOK, CurKnown, EnvLive,
       CallerPC, WorkerPC, HoldCorePC, ImplPC, ArmPC, GuardedPC
  <2>5. CoreOwner' /\ RefreshOwner'
    BY ThreadsAssumption DEF PCTypeOK, SharedTypeOK, CoreOwner, RefreshOwner,
       CallerPC, WorkerPC, HoldCorePC, ImplPC, ArmPC, GuardedPC
  <2> QED
    BY <2>1, <2>2, <2>3, <2>4, <2>5
<1>9. CASE AsyncOk(t)
  <2> USE <1>9 DEF AsyncOk, Goto
  <2>1. PCTypeOK' /\ CallTypeOK'
    BY ThreadsAssumption
       DEF PCTypeOK, CallTypeOK, CallerPC, WorkerPC, HoldCorePC, ImplPC, ArmPC, GuardedPC
  <2>2. SharedTypeOK'
    BY DEF CurKnown, SharedTypeOK
  <2>3. SegvTypeOK'
    BY ModeAssumption DEF SegvTypeOK, Dispositions
  <2>4. CurKnown' /\ EnvLive'
    BY ThreadsAssumption DEF PCTypeOK, SharedTypeOK, SegvTypeOK, CurKnown, EnvLive,
       CallerPC, WorkerPC, HoldCorePC, ImplPC, ArmPC, GuardedPC
  <2>5. CoreOwner' /\ RefreshOwner'
    BY ThreadsAssumption DEF PCTypeOK, SharedTypeOK, CoreOwner, RefreshOwner,
       CallerPC, WorkerPC, HoldCorePC, ImplPC, ArmPC, GuardedPC
  <2> QED
    BY <2>1, <2>2, <2>3, <2>4, <2>5
<1>10. CASE RefreshAsyncOk(t)
  <2> USE <1>10 DEF RefreshAsyncOk, Return, Returned, Goto
  <2>1. PCTypeOK' /\ CallTypeOK'
    BY ThreadsAssumption
       DEF PCTypeOK, CallTypeOK, CallerPC, WorkerPC, HoldCorePC, ImplPC, ArmPC, GuardedPC
  <2>2. SharedTypeOK'
    BY DEF CurKnown, SharedTypeOK
  <2>3. SegvTypeOK'
    BY ModeAssumption DEF SegvTypeOK, Dispositions
  <2>4. CurKnown' /\ EnvLive'
    BY ThreadsAssumption DEF PCTypeOK, SharedTypeOK, SegvTypeOK, CurKnown, EnvLive,
       CallerPC, WorkerPC, HoldCorePC, ImplPC, ArmPC, GuardedPC
  <2>5. CoreOwner' /\ RefreshOwner'
    BY ThreadsAssumption DEF PCTypeOK, SharedTypeOK, CoreOwner, RefreshOwner,
       CallerPC, WorkerPC, HoldCorePC, ImplPC, ArmPC, GuardedPC
  <2> QED
    BY <2>1, <2>2, <2>3, <2>4, <2>5
<1>11. CASE Request(t)
  <2> USE <1>11 DEF Request, CoreFree, Free, SignalAndGoto, Waiting, Returned,
           Goto
  <2>1. PCTypeOK' /\ CallTypeOK'
    BY ThreadsAssumption
       DEF PCTypeOK, CallTypeOK, CallerPC, WorkerPC, HoldCorePC, ImplPC, ArmPC, GuardedPC
  <2>2. SharedTypeOK'
    BY DEF CurKnown, SharedTypeOK
  <2>3. SegvTypeOK'
    BY ModeAssumption DEF SegvTypeOK, Dispositions
  <2>4. CurKnown' /\ EnvLive'
    BY ThreadsAssumption DEF PCTypeOK, SharedTypeOK, SegvTypeOK, CurKnown, EnvLive,
       CallerPC, WorkerPC, HoldCorePC, ImplPC, ArmPC, GuardedPC
  <2>5. CoreOwner' /\ RefreshOwner'
    BY ThreadsAssumption DEF PCTypeOK, SharedTypeOK, CoreOwner, RefreshOwner,
       CallerPC, WorkerPC, HoldCorePC, ImplPC, ArmPC, GuardedPC
  <2> QED
    BY <2>1, <2>2, <2>3, <2>4, <2>5
<1>12. CASE SyncLock(t)
  <2> USE <1>12 DEF SyncLock, RefreshFree, Free, Goto
  <2>1. PCTypeOK' /\ CallTypeOK'
    BY ThreadsAssumption
       DEF PCTypeOK, CallTypeOK, CallerPC, WorkerPC, HoldCorePC, ImplPC, ArmPC, GuardedPC
  <2>2. SharedTypeOK'
    BY DEF CurKnown, SharedTypeOK
  <2>3. SegvTypeOK'
    BY ModeAssumption DEF SegvTypeOK, Dispositions
  <2>4. CurKnown' /\ EnvLive'
    BY ThreadsAssumption DEF PCTypeOK, SharedTypeOK, SegvTypeOK, CurKnown, EnvLive,
       CallerPC, WorkerPC, HoldCorePC, ImplPC, ArmPC, GuardedPC
  <2>5. CoreOwner' /\ RefreshOwner'
    BY ThreadsAssumption DEF PCTypeOK, SharedTypeOK, CoreOwner, RefreshOwner,
       CallerPC, WorkerPC, HoldCorePC, ImplPC, ArmPC, GuardedPC
  <2> QED
    BY <2>1, <2>2, <2>3, <2>4, <2>5
<1> QED
  BY <1>1, <1>2, <1>3, <1>4, <1>5, <1>6, <1>7, <1>8, <1>9, <1>10, <1>11, <1>12
     DEF Refresh

\* refresh_impl sets the flag before the environment and clears it whenever it
\* leaves a guarded region.
LEMMA RefreshImplKeeps ==
  ASSUME IInv, NEW t \in Threads, RefreshImpl(t) PROVE IInv'
<1> USE DEF IInv, TypeOK, Threads, life, async, locks, data, local, guard, segv, hist, call
<1>1. CASE ImpOpen(t)
  <2> USE <1>1 DEF ImpOpen, LeaveImpl, Return, Returned, Goto
  <2>1. PCTypeOK' /\ CallTypeOK'
    BY ThreadsAssumption
       DEF PCTypeOK, CallTypeOK, CallerPC, WorkerPC, HoldCorePC, ImplPC, ArmPC, GuardedPC
  <2>2. SharedTypeOK'
    BY DEF CurKnown, SharedTypeOK
  <2>3. SegvTypeOK'
    BY ModeAssumption DEF SegvTypeOK, Dispositions
  <2>4. CurKnown' /\ EnvLive'
    BY ThreadsAssumption DEF PCTypeOK, SharedTypeOK, SegvTypeOK, CurKnown, EnvLive,
       RefreshOwner, CallerPC, WorkerPC, HoldCorePC, ImplPC, ArmPC, GuardedPC
  <2>5. CoreOwner' /\ RefreshOwner'
    BY ThreadsAssumption DEF PCTypeOK, SharedTypeOK, CoreOwner, RefreshOwner,
       CallerPC, WorkerPC, HoldCorePC, ImplPC, ArmPC, GuardedPC
  <2> QED
    BY <2>1, <2>2, <2>3, <2>4, <2>5
<1>2. CASE ImpLine(t)
  <2> USE <1>2 DEF ImpLine, EnterGuarded, Goto
  <2>1. PCTypeOK' /\ CallTypeOK'
    BY ThreadsAssumption
       DEF PCTypeOK, CallTypeOK, CallerPC, WorkerPC, HoldCorePC, ImplPC, ArmPC, GuardedPC
  <2>2. SharedTypeOK'
    BY DEF CurKnown, SharedTypeOK
  <2>3. SegvTypeOK'
    <3>1. UNCHANGED <<segv, env, proc>> /\ flag' \in BOOLEAN
      BY DEF SegvTypeOK
    <3> QED
      BY <3>1 DEF SegvTypeOK
  <2>4. CurKnown' /\ EnvLive'
    BY ThreadsAssumption DEF PCTypeOK, SharedTypeOK, SegvTypeOK, CurKnown, EnvLive,
       RefreshOwner, CallerPC, WorkerPC, HoldCorePC, ImplPC, ArmPC, GuardedPC
  <2>5. CoreOwner' /\ RefreshOwner'
    BY ThreadsAssumption DEF PCTypeOK, SharedTypeOK, CoreOwner, RefreshOwner,
       CallerPC, WorkerPC, HoldCorePC, ImplPC, ArmPC, GuardedPC
  <2> QED
    BY <2>1, <2>2, <2>3, <2>4, <2>5
<1>3. CASE ImpCheck(t)
  <2> USE <1>3 DEF ImpCheck, LeaveGuarded, Goto
  <2>1. PCTypeOK' /\ CallTypeOK'
    BY ThreadsAssumption
       DEF PCTypeOK, CallTypeOK, CallerPC, WorkerPC, HoldCorePC, ImplPC, ArmPC, GuardedPC
  <2>2. SharedTypeOK'
    BY DEF CurKnown, SharedTypeOK
  <2>3. SegvTypeOK'
    <3>1. UNCHANGED <<segv, env, proc>> /\ flag' \in BOOLEAN
      BY DEF SegvTypeOK
    <3> QED
      BY <3>1 DEF SegvTypeOK
  <2>4. CurKnown' /\ EnvLive'
    BY ThreadsAssumption DEF PCTypeOK, SharedTypeOK, SegvTypeOK, CurKnown, EnvLive,
       RefreshOwner, CallerPC, WorkerPC, HoldCorePC, ImplPC, ArmPC, GuardedPC
  <2>5. CoreOwner' /\ RefreshOwner'
    BY ThreadsAssumption DEF PCTypeOK, SharedTypeOK, CoreOwner, RefreshOwner,
       CallerPC, WorkerPC, HoldCorePC, ImplPC, ArmPC, GuardedPC
  <2> QED
    BY <2>1, <2>2, <2>3, <2>4, <2>5
<1>4. CASE ImpFind(t)
  <2> USE <1>4 DEF ImpFind, HookCur, EnterGuarded, Goto
  <2>1. PCTypeOK' /\ CallTypeOK'
    BY ThreadsAssumption
       DEF PCTypeOK, CallTypeOK, CallerPC, WorkerPC, HoldCorePC, ImplPC, ArmPC, GuardedPC
  <2>2. SharedTypeOK'
    BY DEF CurKnown, SharedTypeOK
  <2>3. SegvTypeOK'
    <3>1. flag' \in BOOLEAN
      BY DEF SegvTypeOK
    <3>2. env' = env /\ segv' = segv /\ proc' = proc
      BY Zenon
    <3> QED
      BY <3>1, <3>2 DEF SegvTypeOK
  <2>4. CurKnown' /\ EnvLive'
    BY ThreadsAssumption DEF PCTypeOK, SharedTypeOK, SegvTypeOK, CurKnown, EnvLive,
       RefreshOwner, CallerPC, WorkerPC, HoldCorePC, ImplPC, ArmPC, GuardedPC
  <2>5. CoreOwner' /\ RefreshOwner'
    BY ThreadsAssumption DEF PCTypeOK, SharedTypeOK, CoreOwner, RefreshOwner,
       CallerPC, WorkerPC, HoldCorePC, ImplPC, ArmPC, GuardedPC
  <2> QED
    BY <2>1, <2>2, <2>3, <2>4, <2>5
<1>5. CASE ImpHook(t)
  <2> USE <1>5 DEF ImpHook, LeaveGuarded, Goto
  <2>1. PCTypeOK' /\ CallTypeOK'
    BY ThreadsAssumption
       DEF PCTypeOK, CallTypeOK, CallerPC, WorkerPC, HoldCorePC, ImplPC, ArmPC, GuardedPC
  <2>2. SharedTypeOK'
    BY DEF CurKnown, SharedTypeOK
  <2>3. SegvTypeOK'
    <3>1. UNCHANGED <<segv, env, proc>> /\ flag' \in BOOLEAN
      BY DEF SegvTypeOK
    <3> QED
      BY <3>1 DEF SegvTypeOK
  <2>4. CurKnown' /\ EnvLive'
    BY ThreadsAssumption DEF PCTypeOK, SharedTypeOK, SegvTypeOK, CurKnown, EnvLive,
       RefreshOwner, CallerPC, WorkerPC, HoldCorePC, ImplPC, ArmPC, GuardedPC
  <2>5. CoreOwner' /\ RefreshOwner'
    BY ThreadsAssumption DEF PCTypeOK, SharedTypeOK, CoreOwner, RefreshOwner,
       CallerPC, WorkerPC, HoldCorePC, ImplPC, ArmPC, GuardedPC
  <2> QED
    BY <2>1, <2>2, <2>3, <2>4, <2>5
<1>6. CASE ImpDone(t)
  <2> USE <1>6 DEF ImpDone, LeaveImpl, Return, Returned, Goto
  <2>1. PCTypeOK' /\ CallTypeOK'
    BY ThreadsAssumption
       DEF PCTypeOK, CallTypeOK, CallerPC, WorkerPC, HoldCorePC, ImplPC, ArmPC, GuardedPC
  <2>2. SharedTypeOK'
    BY DEF CurKnown, SharedTypeOK
  <2>3. SegvTypeOK'
    BY ModeAssumption DEF SegvTypeOK, Dispositions
  <2>4. CurKnown' /\ EnvLive'
    BY ThreadsAssumption DEF PCTypeOK, SharedTypeOK, SegvTypeOK, CurKnown, EnvLive,
       RefreshOwner, CallerPC, WorkerPC, HoldCorePC, ImplPC, ArmPC, GuardedPC
  <2>5. CoreOwner' /\ RefreshOwner'
    BY ThreadsAssumption DEF PCTypeOK, SharedTypeOK, CoreOwner, RefreshOwner,
       CallerPC, WorkerPC, HoldCorePC, ImplPC, ArmPC, GuardedPC
  <2> QED
    BY <2>1, <2>2, <2>3, <2>4, <2>5
<1>7. CASE ImpArm(t)
  <2> USE <1>7 DEF ImpArm, Goto
  <2>1. PCTypeOK' /\ CallTypeOK'
    BY ThreadsAssumption
       DEF PCTypeOK, CallTypeOK, CallerPC, WorkerPC, HoldCorePC, ImplPC, ArmPC, GuardedPC
  <2>2. SharedTypeOK'
    BY DEF CurKnown, SharedTypeOK
  <2>3. SegvTypeOK'
    BY ModeAssumption DEF SegvTypeOK, Dispositions
  <2>4. CurKnown' /\ EnvLive'
    BY ThreadsAssumption DEF PCTypeOK, SharedTypeOK, SegvTypeOK, CurKnown, EnvLive,
       RefreshOwner, CallerPC, WorkerPC, HoldCorePC, ImplPC, ArmPC, GuardedPC
  <2>5. CoreOwner' /\ RefreshOwner'
    BY ThreadsAssumption DEF PCTypeOK, SharedTypeOK, CoreOwner, RefreshOwner,
       CallerPC, WorkerPC, HoldCorePC, ImplPC, ArmPC, GuardedPC
  <2> QED
    BY <2>1, <2>2, <2>3, <2>4, <2>5
<1> QED
  BY <1>1, <1>2, <1>3, <1>4, <1>5, <1>6, <1>7 DEF RefreshImpl

\* The refresh thread enters refresh_impl with refresh_mutex only.
LEMMA RefreshThreadKeeps ==
  ASSUME IInv, NEW t \in Workers, RefreshThread(t) PROVE IInv'
<1> USE DEF IInv, TypeOK, Threads, life, async, locks, data, local, guard, segv, hist, call
<1>1. CASE WWhile(t)
  <2> USE <1>1 DEF WWhile, Goto
  <2>1. PCTypeOK' /\ CallTypeOK'
    BY ThreadsAssumption
       DEF PCTypeOK, CallTypeOK, CallerPC, WorkerPC, HoldCorePC, ImplPC, ArmPC, GuardedPC
  <2>2. SharedTypeOK'
    BY DEF CurKnown, SharedTypeOK
  <2>3. SegvTypeOK'
    BY ModeAssumption DEF SegvTypeOK, Dispositions
  <2>4. CurKnown' /\ EnvLive'
    BY ThreadsAssumption DEF PCTypeOK, SharedTypeOK, SegvTypeOK, CurKnown, EnvLive,
       CallerPC, WorkerPC, HoldCorePC, ImplPC, ArmPC, GuardedPC
  <2>5. CoreOwner' /\ RefreshOwner'
    BY ThreadsAssumption DEF PCTypeOK, SharedTypeOK, CoreOwner, RefreshOwner,
       CallerPC, WorkerPC, HoldCorePC, ImplPC, ArmPC, GuardedPC
  <2> QED
    BY <2>1, <2>2, <2>3, <2>4, <2>5
<1>2. CASE WLock(t)
  <2> USE <1>2 DEF WLock, CoreFree, Free, Goto
  <2>1. PCTypeOK' /\ CallTypeOK'
    BY ThreadsAssumption
       DEF PCTypeOK, CallTypeOK, CallerPC, WorkerPC, HoldCorePC, ImplPC, ArmPC, GuardedPC
  <2>2. SharedTypeOK'
    BY DEF CurKnown, SharedTypeOK
  <2>3. SegvTypeOK'
    BY ModeAssumption DEF SegvTypeOK, Dispositions
  <2>4. CurKnown' /\ EnvLive'
    BY ThreadsAssumption DEF PCTypeOK, SharedTypeOK, SegvTypeOK, CurKnown, EnvLive,
       CallerPC, WorkerPC, HoldCorePC, ImplPC, ArmPC, GuardedPC
  <2>5. CoreOwner' /\ RefreshOwner'
    BY ThreadsAssumption DEF PCTypeOK, SharedTypeOK, CoreOwner, RefreshOwner,
       CallerPC, WorkerPC, HoldCorePC, ImplPC, ArmPC, GuardedPC
  <2> QED
    BY <2>1, <2>2, <2>3, <2>4, <2>5
<1>3. CASE WRefresh(t)
  <2> USE <1>3 DEF WRefresh, RefreshFree, Free, Goto
  <2>1. PCTypeOK' /\ CallTypeOK'
    BY ThreadsAssumption
       DEF PCTypeOK, CallTypeOK, CallerPC, WorkerPC, HoldCorePC, ImplPC, ArmPC, GuardedPC
  <2>2. SharedTypeOK'
    BY DEF CurKnown, SharedTypeOK
  <2>3. SegvTypeOK'
    BY ModeAssumption DEF SegvTypeOK, Dispositions
  <2>4. CurKnown' /\ EnvLive'
    BY ThreadsAssumption DEF PCTypeOK, SharedTypeOK, SegvTypeOK, CurKnown, EnvLive,
       CallerPC, WorkerPC, HoldCorePC, ImplPC, ArmPC, GuardedPC
  <2>5. CoreOwner' /\ RefreshOwner'
    BY ThreadsAssumption DEF PCTypeOK, SharedTypeOK, CoreOwner, RefreshOwner,
       CallerPC, WorkerPC, HoldCorePC, ImplPC, ArmPC, GuardedPC
  <2> QED
    BY <2>1, <2>2, <2>3, <2>4, <2>5
<1> QED
  BY <1>1, <1>2, <1>3 DEF RefreshThread

\* clear holds core_mutex only around its last step.
LEMMA ClearKeeps ==
  ASSUME IInv, NEW t \in Callers, Clear(t) PROVE IInv'
<1> USE DEF IInv, TypeOK, Threads, life, async, locks, data, local, guard, segv, hist, call
<1>1. CASE ClearTest(t)
  <2> USE <1>1 DEF ClearTest, Goto
  <2>1. PCTypeOK' /\ CallTypeOK'
    BY ThreadsAssumption
       DEF PCTypeOK, CallTypeOK, CallerPC, WorkerPC, HoldCorePC, ImplPC, ArmPC, GuardedPC
  <2>2. SharedTypeOK'
    BY DEF CurKnown, SharedTypeOK
  <2>3. SegvTypeOK'
    BY ModeAssumption DEF SegvTypeOK, Dispositions
  <2>4. CurKnown' /\ EnvLive'
    BY ThreadsAssumption DEF PCTypeOK, SharedTypeOK, SegvTypeOK, CurKnown, EnvLive,
       CallerPC, WorkerPC, HoldCorePC, ImplPC, ArmPC, GuardedPC
  <2>5. CoreOwner' /\ RefreshOwner'
    BY ThreadsAssumption DEF PCTypeOK, SharedTypeOK, CoreOwner, RefreshOwner,
       CallerPC, WorkerPC, HoldCorePC, ImplPC, ArmPC, GuardedPC
  <2> QED
    BY <2>1, <2>2, <2>3, <2>4, <2>5
<1>2. CASE ClearStop(t)
  <2> USE <1>2 DEF ClearStop, CoreFree, Free, SignalAndGoto, Waiting, Goto
  <2>1. PCTypeOK' /\ CallTypeOK'
    BY ThreadsAssumption
       DEF PCTypeOK, CallTypeOK, CallerPC, WorkerPC, HoldCorePC, ImplPC, ArmPC, GuardedPC
  <2>2. SharedTypeOK'
    BY DEF CurKnown, SharedTypeOK
  <2>3. SegvTypeOK'
    BY ModeAssumption DEF SegvTypeOK, Dispositions
  <2>4. CurKnown' /\ EnvLive'
    BY ThreadsAssumption DEF PCTypeOK, SharedTypeOK, SegvTypeOK, CurKnown, EnvLive,
       CallerPC, WorkerPC, HoldCorePC, ImplPC, ArmPC, GuardedPC
  <2>5. CoreOwner' /\ RefreshOwner'
    BY ThreadsAssumption DEF PCTypeOK, SharedTypeOK, CoreOwner, RefreshOwner,
       CallerPC, WorkerPC, HoldCorePC, ImplPC, ArmPC, GuardedPC
  <2> QED
    BY <2>1, <2>2, <2>3, <2>4, <2>5
<1>3. CASE ClearJoin(t)
  <2> USE <1>3 DEF ClearJoin, Goto
  <2>1. PCTypeOK' /\ CallTypeOK'
    BY ThreadsAssumption
       DEF PCTypeOK, CallTypeOK, CallerPC, WorkerPC, HoldCorePC, ImplPC, ArmPC, GuardedPC
  <2>2. SharedTypeOK'
    BY DEF CurKnown, SharedTypeOK
  <2>3. SegvTypeOK'
    BY ModeAssumption DEF SegvTypeOK, Dispositions
  <2>4. CurKnown' /\ EnvLive'
    BY ThreadsAssumption DEF PCTypeOK, SharedTypeOK, SegvTypeOK, CurKnown, EnvLive,
       CallerPC, WorkerPC, HoldCorePC, ImplPC, ArmPC, GuardedPC
  <2>5. CoreOwner' /\ RefreshOwner'
    BY ThreadsAssumption DEF PCTypeOK, SharedTypeOK, CoreOwner, RefreshOwner,
       CallerPC, WorkerPC, HoldCorePC, ImplPC, ArmPC, GuardedPC
  <2> QED
    BY <2>1, <2>2, <2>3, <2>4, <2>5
<1>4. CASE ClearAsync(t)
  <2> USE <1>4 DEF ClearAsync, Goto
  <2>1. PCTypeOK' /\ CallTypeOK'
    BY ThreadsAssumption
       DEF PCTypeOK, CallTypeOK, CallerPC, WorkerPC, HoldCorePC, ImplPC, ArmPC, GuardedPC
  <2>2. SharedTypeOK'
    BY DEF CurKnown, SharedTypeOK
  <2>3. SegvTypeOK'
    BY ModeAssumption DEF SegvTypeOK, Dispositions
  <2>4. CurKnown' /\ EnvLive'
    BY ThreadsAssumption DEF PCTypeOK, SharedTypeOK, SegvTypeOK, CurKnown, EnvLive,
       CallerPC, WorkerPC, HoldCorePC, ImplPC, ArmPC, GuardedPC
  <2>5. CoreOwner' /\ RefreshOwner'
    BY ThreadsAssumption DEF PCTypeOK, SharedTypeOK, CoreOwner, RefreshOwner,
       CallerPC, WorkerPC, HoldCorePC, ImplPC, ArmPC, GuardedPC
  <2> QED
    BY <2>1, <2>2, <2>3, <2>4, <2>5
<1>5. CASE ClearSig(t)
  <2> USE <1>5 DEF ClearSig, Goto
  <2>1. PCTypeOK' /\ CallTypeOK'
    BY ThreadsAssumption
       DEF PCTypeOK, CallTypeOK, CallerPC, WorkerPC, HoldCorePC, ImplPC, ArmPC, GuardedPC
  <2>2. SharedTypeOK'
    BY DEF CurKnown, SharedTypeOK
  <2>3. SegvTypeOK'
    <3>1. disposition' \in Dispositions /\ spent' \in BOOLEAN /\ left' \in BOOLEAN
          /\ installed' \in BOOLEAN
      BY DEF SegvTypeOK
    <3>2. UNCHANGED <<sigsegv_enable, act_old, flag, env, resethand, own, switched, proc>>
      OBVIOUS
    <3> QED
      BY <3>1, <3>2 DEF SegvTypeOK
  <2>4. CurKnown' /\ EnvLive'
    BY ThreadsAssumption DEF PCTypeOK, SharedTypeOK, SegvTypeOK, CurKnown, EnvLive,
       CallerPC, WorkerPC, HoldCorePC, ImplPC, ArmPC, GuardedPC
  <2>5. CoreOwner' /\ RefreshOwner'
    BY ThreadsAssumption DEF PCTypeOK, SharedTypeOK, CoreOwner, RefreshOwner,
       CallerPC, WorkerPC, HoldCorePC, ImplPC, ArmPC, GuardedPC
  <2> QED
    BY <2>1, <2>2, <2>3, <2>4, <2>5
<1>6. CASE ClearOk(t)
  <2> USE <1>6 DEF ClearOk, Goto
  <2>1. PCTypeOK' /\ CallTypeOK'
    BY ThreadsAssumption
       DEF PCTypeOK, CallTypeOK, CallerPC, WorkerPC, HoldCorePC, ImplPC, ArmPC, GuardedPC
  <2>2. SharedTypeOK'
    BY DEF CurKnown, SharedTypeOK
  <2>3. SegvTypeOK'
    BY ModeAssumption DEF SegvTypeOK, Dispositions
  <2>4. CurKnown' /\ EnvLive'
    BY ThreadsAssumption DEF PCTypeOK, SharedTypeOK, SegvTypeOK, CurKnown, EnvLive,
       CallerPC, WorkerPC, HoldCorePC, ImplPC, ArmPC, GuardedPC
  <2>5. CoreOwner' /\ RefreshOwner'
    BY ThreadsAssumption DEF PCTypeOK, SharedTypeOK, CoreOwner, RefreshOwner,
       CallerPC, WorkerPC, HoldCorePC, ImplPC, ArmPC, GuardedPC
  <2> QED
    BY <2>1, <2>2, <2>3, <2>4, <2>5
<1>7. CASE ClearInited(t)
  <2> USE <1>7 DEF ClearInited, Goto
  <2>1. PCTypeOK' /\ CallTypeOK'
    BY ThreadsAssumption
       DEF PCTypeOK, CallTypeOK, CallerPC, WorkerPC, HoldCorePC, ImplPC, ArmPC, GuardedPC
  <2>2. SharedTypeOK'
    BY DEF CurKnown, SharedTypeOK
  <2>3. SegvTypeOK'
    BY ModeAssumption DEF SegvTypeOK, Dispositions
  <2>4. CurKnown' /\ EnvLive'
    BY ThreadsAssumption DEF PCTypeOK, SharedTypeOK, SegvTypeOK, CurKnown, EnvLive,
       CallerPC, WorkerPC, HoldCorePC, ImplPC, ArmPC, GuardedPC
  <2>5. CoreOwner' /\ RefreshOwner'
    BY ThreadsAssumption DEF PCTypeOK, SharedTypeOK, CoreOwner, RefreshOwner,
       CallerPC, WorkerPC, HoldCorePC, ImplPC, ArmPC, GuardedPC
  <2> QED
    BY <2>1, <2>2, <2>3, <2>4, <2>5
<1>8. CASE ClearLock(t)
  <2> USE <1>8 DEF ClearLock, CoreFree, Free, Goto
  <2>1. PCTypeOK' /\ CallTypeOK'
    BY ThreadsAssumption
       DEF PCTypeOK, CallTypeOK, CallerPC, WorkerPC, HoldCorePC, ImplPC, ArmPC, GuardedPC
  <2>2. SharedTypeOK'
    BY DEF CurKnown, SharedTypeOK
  <2>3. SegvTypeOK'
    BY ModeAssumption DEF SegvTypeOK, Dispositions
  <2>4. CurKnown' /\ EnvLive'
    BY ThreadsAssumption DEF PCTypeOK, SharedTypeOK, SegvTypeOK, CurKnown, EnvLive,
       CallerPC, WorkerPC, HoldCorePC, ImplPC, ArmPC, GuardedPC
  <2>5. CoreOwner' /\ RefreshOwner'
    BY ThreadsAssumption DEF PCTypeOK, SharedTypeOK, CoreOwner, RefreshOwner,
       CallerPC, WorkerPC, HoldCorePC, ImplPC, ArmPC, GuardedPC
  <2> QED
    BY <2>1, <2>2, <2>3, <2>4, <2>5
<1>9. CASE ClearFree(t)
  <2> USE <1>9 DEF ClearFree, RefreshFree, Free, Return, Returned, Goto
  <2>1. PCTypeOK' /\ CallTypeOK'
    BY ThreadsAssumption
       DEF PCTypeOK, CallTypeOK, CallerPC, WorkerPC, HoldCorePC, ImplPC, ArmPC, GuardedPC
  <2>2. SharedTypeOK'
    BY DEF CurKnown, SharedTypeOK
  <2>3. SegvTypeOK'
    BY ModeAssumption DEF SegvTypeOK, Dispositions
  <2>4. CurKnown' /\ EnvLive'
    BY ThreadsAssumption DEF PCTypeOK, SharedTypeOK, SegvTypeOK, CurKnown, EnvLive,
       CallerPC, WorkerPC, HoldCorePC, ImplPC, ArmPC, GuardedPC
  <2>5. CoreOwner' /\ RefreshOwner'
    BY ThreadsAssumption DEF PCTypeOK, SharedTypeOK, CoreOwner, RefreshOwner,
       CallerPC, WorkerPC, HoldCorePC, ImplPC, ArmPC, GuardedPC
  <2> QED
    BY <2>1, <2>2, <2>3, <2>4, <2>5
<1> QED
  BY <1>1, <1>2, <1>3, <1>4, <1>5, <1>6, <1>7, <1>8, <1>9 DEF Clear

\* A call begins: only the thread that makes it moves.
LEMMA BeginKeeps ==
  ASSUME IInv, NEW t \in Callers, NEW o \in Ops, Begin(t, o) PROVE IInv'
<1> USE DEF IInv, TypeOK, Threads, life, async, locks, data, local, guard, segv, hist, Begin,
            MayBegin, Goto
<1>1. FirstStep(o) \in {"reg_check", "once_test", "clear_test"}
  BY DEF FirstStep, Ops
<1>2. PCTypeOK'
  BY <1>1, ThreadsAssumption DEF PCTypeOK, CallerPC
<1>3. CallTypeOK'
  <2>1. calls' \in 0..MaxCalls
    BY ModeAssumption DEF CallTypeOK
  <2>2. op' \in [Callers -> Ops \cup {"none"}]
        /\ ret' \in [Callers -> {"none", "ok", "failed"}]
    BY DEF CallTypeOK
  <2> QED
    BY <2>1, <2>2 DEF CallTypeOK
<1>4. SharedTypeOK' /\ SegvTypeOK'
  BY DEF SharedTypeOK, SegvTypeOK
<1>5. CurKnown' /\ EnvLive'
  BY <1>1, ThreadsAssumption
     DEF PCTypeOK, SegvTypeOK, CurKnown, EnvLive, ArmPC, GuardedPC
<1>6. CoreOwner' /\ RefreshOwner'
  BY <1>1, ThreadsAssumption
     DEF PCTypeOK, CoreOwner, RefreshOwner, HoldCorePC, ImplPC, ArmPC, GuardedPC
<1> QED
  BY <1>2, <1>3, <1>4, <1>5, <1>6

\* The protection is toggled.
LEMMA ProtectKeeps ==
  ASSUME IInv, NEW t \in Callers, NEW on \in BOOLEAN, Protect(t, on) PROVE IInv'
<1> USE DEF IInv, TypeOK, Threads, life, async, locks, data, local, guard,
            segv, hist, call, Protect, MayBegin
<1>1. PCTypeOK' /\ CallTypeOK'
  <2>1. PCTypeOK'
    BY DEF PCTypeOK, CallerPC, WorkerPC, HoldCorePC
  <2>2. calls' \in 0..MaxCalls
    BY ModeAssumption DEF CallTypeOK
  <2>3. op' \in [Callers -> Ops \cup {"none"}]
        /\ ret' \in [Callers -> {"none", "ok", "failed"}]
    BY DEF CallTypeOK
  <2> QED
    BY <2>1, <2>2, <2>3 DEF CallTypeOK
<1>2. SharedTypeOK'
  BY DEF CurKnown, SharedTypeOK
<1>3. SegvTypeOK'
  BY ModeAssumption DEF SegvTypeOK, Dispositions
<1>4. CurKnown' /\ EnvLive'
  BY ThreadsAssumption DEF PCTypeOK, SharedTypeOK, SegvTypeOK, CurKnown, EnvLive,
     CallerPC, WorkerPC, HoldCorePC, ImplPC, ArmPC, GuardedPC
<1>5. CoreOwner' /\ RefreshOwner'
  BY ThreadsAssumption DEF PCTypeOK, SharedTypeOK, CoreOwner, RefreshOwner,
     CallerPC, WorkerPC, HoldCorePC, ImplPC, ArmPC, GuardedPC
<1> QED
  BY <1>1, <1>2, <1>3, <1>4, <1>5

\* A wait returns early.
LEMMA SpuriousKeeps ==
  ASSUME IInv, NEW t \in Workers, SpuriousWakeup(t) PROVE IInv'
<1> USE DEF IInv, TypeOK, Threads, life, async, locks, data, local, guard,
            segv, hist, call, SpuriousWakeup, Goto
<1>1. PCTypeOK' /\ CallTypeOK'
  BY ThreadsAssumption
     DEF PCTypeOK, CallTypeOK, CallerPC, WorkerPC, HoldCorePC, ImplPC, ArmPC, GuardedPC
<1>2. SharedTypeOK'
  BY DEF CurKnown, SharedTypeOK
<1>3. SegvTypeOK'
  BY ModeAssumption DEF SegvTypeOK, Dispositions
<1>4. CurKnown' /\ EnvLive'
  BY ThreadsAssumption DEF PCTypeOK, SharedTypeOK, SegvTypeOK, CurKnown, EnvLive,
     CallerPC, WorkerPC, HoldCorePC, ImplPC, ArmPC, GuardedPC
<1>5. CoreOwner' /\ RefreshOwner'
  BY ThreadsAssumption DEF PCTypeOK, SharedTypeOK, CoreOwner, RefreshOwner,
     CallerPC, WorkerPC, HoldCorePC, ImplPC, ArmPC, GuardedPC
<1> QED
  BY <1>1, <1>2, <1>3, <1>4, <1>5

\* The handler jumps out of the guarded region and clears the flag.
LEMMA FaultKeeps ==
  ASSUME IInv, NEW t \in Threads, Fault(t) PROVE IInv'
<1> USE DEF IInv, TypeOK, Threads, life, async, locks, data, local, guard,
            segv, hist, call, Fault, Entered, LeaveGuarded, Goto
<1>1. PCTypeOK' /\ CallTypeOK'
  BY ThreadsAssumption
     DEF PCTypeOK, CallTypeOK, CallerPC, WorkerPC, HoldCorePC, ImplPC, ArmPC, GuardedPC
<1>2. SharedTypeOK'
  BY DEF CurKnown, SharedTypeOK
<1>3. SegvTypeOK'
  BY ModeAssumption DEF SegvTypeOK, Dispositions
<1>4. CurKnown' /\ EnvLive'
  BY ThreadsAssumption DEF PCTypeOK, SharedTypeOK, SegvTypeOK, CurKnown, EnvLive,
     CallerPC, WorkerPC, HoldCorePC, ImplPC, ArmPC, GuardedPC
<1>5. CoreOwner' /\ RefreshOwner'
  BY ThreadsAssumption DEF PCTypeOK, SharedTypeOK, CoreOwner, RefreshOwner,
     CallerPC, WorkerPC, HoldCorePC, ImplPC, ArmPC, GuardedPC
<1> QED
  BY <1>1, <1>2, <1>3, <1>4, <1>5

\* A fault elsewhere touches the disposition only.
LEMMA AppSegvKeeps ==
  ASSUME IInv, AppSegv PROVE IInv'
<1> USE DEF IInv, TypeOK, Threads, life, async, locks, data, local, guard,
            segv, hist, call, AppSegv
<1>1. PCTypeOK' /\ CallTypeOK'
  BY ThreadsAssumption
     DEF PCTypeOK, CallTypeOK, CallerPC, WorkerPC, HoldCorePC, ImplPC, ArmPC, GuardedPC
<1>2. SharedTypeOK'
  BY DEF CurKnown, SharedTypeOK
<1>3. SegvTypeOK'
  BY ModeAssumption DEF SegvTypeOK, Dispositions
<1>4. CurKnown' /\ EnvLive'
  BY ThreadsAssumption DEF PCTypeOK, SharedTypeOK, SegvTypeOK, CurKnown, EnvLive,
     CallerPC, WorkerPC, HoldCorePC, ImplPC, ArmPC, GuardedPC
<1>5. CoreOwner' /\ RefreshOwner'
  BY ThreadsAssumption DEF PCTypeOK, SharedTypeOK, CoreOwner, RefreshOwner,
     CallerPC, WorkerPC, HoldCorePC, ImplPC, ArmPC, GuardedPC
<1> QED
  BY <1>1, <1>2, <1>3, <1>4, <1>5

\* Every step keeps the invariant.
LEMMA NextIInv == IInv /\ [Next]_vars => IInv'
<1> SUFFICES ASSUME IInv, [Next]_vars PROVE IInv'
  OBVIOUS
<1>1. CASE UNCHANGED vars
  BY <1>1 DEF vars, life, async, locks, data, local, guard, segv, hist, call, IInv, TypeOK,
     PCTypeOK, CallTypeOK, SharedTypeOK, SegvTypeOK, CurKnown, EnvLive, CoreOwner,
     RefreshOwner
<1>2. ASSUME NEW t \in Callers, NEW o \in Ops, Begin(t, o) PROVE IInv'
  BY <1>2, BeginKeeps
<1>3. ASSUME NEW t \in Callers, NEW on \in BOOLEAN, Protect(t, on) PROVE IInv'
  BY <1>3, ProtectKeeps
<1>4. ASSUME NEW t \in Callers, CallerStep(t) PROVE IInv'
  BY <1>4, RegisterKeeps, RefreshKeeps, RefreshImplKeeps, ClearKeeps
     DEF CallerStep, Threads
<1>5. ASSUME NEW w \in Workers, WorkerStep(w) \/ SpuriousWakeup(w) PROVE IInv'
  BY <1>5, RefreshThreadKeeps, RefreshImplKeeps, SpuriousKeeps DEF WorkerStep, Threads
<1>6. ASSUME NEW t \in Threads, Fault(t) PROVE IInv'
  BY <1>6, FaultKeeps
<1>7. CASE AppSegv
  BY <1>7, AppSegvKeeps
<1> QED
  BY <1>1, <1>2, <1>3, <1>4, <1>5, <1>6, <1>7 DEF Next, Rest

\* The inductive invariant holds in every reachable state.
THEOREM Inductive == Spec => []IInv
<1>1. Init => IInv
  BY InitIInv
<1>2. IInv /\ [Next]_vars => IInv'
  BY NextIInv
<1> QED
  BY <1>1, <1>2, PTL DEF Spec

-----------------------------------------------------------------------------
\* Every variable keeps its type, for any threads, infos and files.
THEOREM TypeCorrect == Spec => []TypeOK
<1>1. IInv => TypeOK
  BY DEF IInv
<1> QED
  BY <1>1, Inductive, PTL

\* refresh_impl runs in one thread at a time: refresh_mutex has one owner.
THEOREM RefreshesExclude == Spec => []OneRefresher
<1>1. IInv => OneRefresher
  BY DEF IInv, RefreshOwner, OneRefresher, InImpl
<1> QED
  BY <1>1, Inductive, PTL

\* A fault of guarded code finds in sigsegv_env the frame that called sigsetjmp
\* for it; the environment is an older one only before sigsetjmp.
THEOREM JumpsAreSafe == Spec => []EnvLive
<1>1. IInv => EnvLive
  BY DEF IInv
<1> QED
  BY <1>1, Inductive, PTL

\* What one step may do to the queues and the tree while t runs refresh_impl.
WalkSafe ==
  \A t \in Threads : InImpl(t) =>
    info \subseteq info' /\ (pc'[t] = pc[t] => map_info' = map_info)

\* Only the thread in refresh_impl takes items out of the tree, and it moves on
\* when it does; clear needs refresh_mutex, which that thread owns.
LEMMA NextWalkSafe == IInv /\ [Next]_vars => WalkSafe
<1> SUFFICES ASSUME IInv, [Next]_vars, NEW t \in Threads, InImpl(t)
             PROVE info \subseteq info' /\ (pc'[t] = pc[t] => map_info' = map_info)
  BY DEF WalkSafe
<1>1. refresh_mutex = t
  BY DEF IInv, RefreshOwner, InImpl
<1>2. CASE info' = info /\ map_info' = map_info
  BY <1>2
<1>3. ASSUME NEW u \in Callers, RegInsert(u)
      PROVE info \subseteq info' /\ map_info' = map_info
  BY <1>3 DEF RegInsert
<1>4. ASSUME NEW u \in Callers, ClearFree(u) PROVE FALSE
  BY <1>1, <1>4, ThreadsAssumption DEF ClearFree, RefreshFree, Free
<1>5. ASSUME NEW u \in Threads, ImpFind(u) \/ ImpDone(u)
      PROVE info' = info /\ pc'[t] # pc[t]
  <2>1. u = t
    BY <1>1, <1>5 DEF ImpFind, ImpDone, IInv, RefreshOwner, ImplPC
  <2> QED
    BY <1>5, <2>1 DEF ImpFind, ImpDone, HookCur, EnterGuarded, LeaveImpl, Return, Goto,
       IInv, TypeOK, PCTypeOK
<1>6. ASSUME NEW u \in Threads, RefreshImpl(u), ~ImpFind(u), ~ImpDone(u)
      PROVE info' = info /\ map_info' = map_info
  BY <1>6 DEF RefreshImpl, ImpOpen, ImpLine, ImpArm, ImpCheck, ImpHook, data
<1>7. ASSUME NEW u \in Callers, Register(u), ~RegInsert(u)
      PROVE info' = info /\ map_info' = map_info
  BY <1>7 DEF Register, RegCheck, data
<1>8. ASSUME NEW u \in Callers, Refresh(u)
      PROVE info' = info /\ map_info' = map_info
  BY <1>8 DEF Refresh, OnceTest, OnceLock, OnceSig, OnceOk, RefreshOk, AsyncTest,
     AsyncLock, AsyncCreate, AsyncOk, RefreshAsyncOk, Request, SyncLock, data
<1>9. ASSUME NEW u \in Callers, Clear(u), ~ClearFree(u)
      PROVE info' = info /\ map_info' = map_info
  BY <1>9 DEF Clear, ClearTest, ClearStop, ClearJoin, ClearAsync, ClearSig, ClearOk,
     ClearInited, ClearLock, data
<1>10. ASSUME NEW u \in Workers, RefreshThread(u) \/ SpuriousWakeup(u)
       PROVE info' = info /\ map_info' = map_info
  BY <1>10 DEF RefreshThread, WWhile, WLock, WRefresh, SpuriousWakeup, data
<1>11. ASSUME NEW u \in Callers, NEW o \in Ops, Begin(u, o)
       PROVE info' = info /\ map_info' = map_info
  BY <1>11 DEF Begin, data
<1>12. ASSUME NEW u \in Callers, NEW on \in BOOLEAN, Protect(u, on)
       PROVE info' = info /\ map_info' = map_info
  BY <1>12 DEF Protect, data
<1>13. ASSUME NEW u \in Threads, Fault(u)
       PROVE info' = info /\ map_info' = map_info
  BY <1>13 DEF Fault, data
<1>14. CASE AppSegv
  BY <1>2, <1>14 DEF AppSegv, data
<1>15. CASE UNCHANGED vars
  BY <1>2, <1>15 DEF vars, data
<1>16. ASSUME NEW u \in Callers, CallerStep(u)
       PROVE info \subseteq info' /\ (pc'[t] = pc[t] => map_info' = map_info)
  BY <1>3, <1>4, <1>5, <1>6, <1>7, <1>8, <1>9, <1>16 DEF CallerStep, Threads
<1>17. ASSUME NEW u \in Workers, WorkerStep(u) \/ SpuriousWakeup(u)
       PROVE info \subseteq info' /\ (pc'[t] = pc[t] => map_info' = map_info)
  BY <1>5, <1>6, <1>10, <1>17 DEF WorkerStep, Threads
<1> QED
  BY <1>11, <1>12, <1>13, <1>14, <1>15, <1>16, <1>17
     DEF Next, Rest

\* No thread frees what a running refresh walks.
THEOREM WalksAreSafe == Spec => NoUseAfterFree
<1>1. IInv /\ [Next]_vars => WalkSafe
  BY NextWalkSafe
<1> QED
  BY <1>1, Inductive, PTL DEF Spec, NoUseAfterFree, WalkSafe
=============================================================================
