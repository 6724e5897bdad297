--------------------------- MODULE XhSession_proofs ---------------------------
(***************************************************************************)
(* XhCore implements XhSession for every set of threads, infos and files,  *)
(* and however the application overlaps its calls.                         *)
(*                                                                         *)
(* Two facts are needed beside the inductive invariant of XhCore_proofs:   *)
(* what call a caller makes says where it is, and a walk that has found a  *)
(* line to hook walks a list that still holds a hook.                      *)
(***************************************************************************)
EXTENDS XhCore_proofs

\* A caller is inside the function it called.
CallAgrees ==
  \A t \in Callers :
    /\ pc[t] = "idle" => op[t] = "none"
    /\ pc[t] \in {"reg_check", "reg_insert"} => op[t] = "register"
    /\ pc[t] \in {"once_test", "once_lock", "once_sig", "once_ok", "refresh_ok"}
         => op[t] \in {"sync", "async"}
    /\ pc[t] \in {"async_test", "async_lock", "async_create", "async_ok",
                  "refresh_async_ok", "request"} => op[t] = "async"
    /\ pc[t] \in {"sync_lock"} \cup ImplPC => op[t] = "sync"
    /\ pc[t] \in {"clear_test", "clear_stop", "clear_join", "clear_async", "clear_sig",
                  "clear_ok", "clear_inited", "clear_lock", "clear_free"}
         => op[t] = "clear"

\* Once a line has matched a hook (line 345) the list keeps it until the walk ends.
ListHeld ==
  \A t \in Threads : pc[t] \in ArmPC \cup GuardedPC \cup {"imp_find"}
                       => info \cap HookInfos # {}

SInv == IInv /\ CallAgrees /\ ListHeld

\* register and ignore return to the application with their call closed.
LEMMA RegisterHolds ==
  ASSUME SInv, NEW t \in Callers, Register(t) PROVE (CallAgrees /\ ListHeld)'
<1> USE ThreadsAssumption DEF SInv, IInv, TypeOK, PCTypeOK, CallTypeOK, Threads, CallerPC,
        WorkerPC, HoldCorePC, ImplPC, ArmPC, GuardedPC, data, call
<1>1. CASE RegCheck(t)
  <2>1. CallAgrees'
    BY <1>1 DEF CallAgrees, RegCheck, Return, Returned, Goto
  <2>2. ListHeld'
    BY <1>1 DEF ListHeld, RegCheck, Return, Returned, Goto
  <2> QED
    BY <2>1, <2>2
<1>2. CASE RegInsert(t)
  <2>1. CallAgrees'
    BY <1>2 DEF CallAgrees, RegInsert, CoreFree, Free, Return, Returned, Goto
  <2>2. ListHeld'
    BY <1>2 DEF ListHeld, RegInsert, CoreFree, Free, Return, Returned, Goto
  <2> QED
    BY <2>1, <2>2
<1> QED
  BY <1>1, <1>2 DEF Register

\* A refresh branches on its call only where the call is a refresh.
LEMMA RefreshHolds ==
  ASSUME SInv, NEW t \in Callers, Refresh(t) PROVE (CallAgrees /\ ListHeld)'
<1> USE ThreadsAssumption DEF SInv, IInv, TypeOK, PCTypeOK, CallTypeOK, Threads, CallerPC,
        WorkerPC, HoldCorePC, ImplPC, ArmPC, GuardedPC, data, call
<1>1. CASE OnceTest(t)
  <2>1. CallAgrees'
    BY <1>1 DEF CallAgrees, OnceTest, Goto
  <2>2. ListHeld'
    BY <1>1 DEF ListHeld, OnceTest, Goto
  <2> QED
    BY <2>1, <2>2
<1>2. CASE OnceLock(t)
  <2>1. CallAgrees'
    BY <1>2 DEF CallAgrees, OnceLock, CoreFree, Free, Goto
  <2>2. ListHeld'
    BY <1>2 DEF ListHeld, OnceLock, CoreFree, Free, Goto
  <2> QED
    BY <2>1, <2>2
<1>3. CASE OnceSig(t)
  <2>1. CallAgrees'
    BY <1>3 DEF CallAgrees, OnceSig, AddSigsegvHandler, Goto
  <2>2. ListHeld'
    BY <1>3 DEF ListHeld, OnceSig, AddSigsegvHandler, Goto
  <2> QED
    BY <2>1, <2>2
<1>4. CASE OnceOk(t)
  <2>1. CallAgrees'
    BY <1>4 DEF CallAgrees, OnceOk, Goto
  <2>2. ListHeld'
    BY <1>4 DEF ListHeld, OnceOk, Goto
  <2> QED
    BY <2>1, <2>2
<1>5. CASE RefreshOk(t)
  <2>1. CallAgrees'
    BY <1>5 DEF CallAgrees, RefreshOk, Return, Returned, Goto
  <2>2. ListHeld'
    BY <1>5 DEF ListHeld, RefreshOk, Return, Returned, Goto
  <2> QED
    BY <2>1, <2>2
<1>6. CASE AsyncTest(t)
  <2>1. CallAgrees'
    BY <1>6 DEF CallAgrees, AsyncTest, Goto
  <2>2. ListHeld'
    BY <1>6 DEF ListHeld, AsyncTest, Goto
  <2> QED
    BY <2>1, <2>2
<1>7. CASE AsyncLock(t)
  <2>1. CallAgrees'
    BY <1>7 DEF CallAgrees, AsyncLock, CoreFree, Free, Goto
  <2>2. ListHeld'
    BY <1>7 DEF ListHeld, AsyncLock, CoreFree, Free, Goto
  <2> QED
    BY <2>1, <2>2
<1>8. CASE AsyncCreate(t)
  <2>1. CallAgrees'
    BY <1>8 DEF CallAgrees, AsyncCreate, Goto
  <2>2. ListHeld'
    BY <1>8 DEF ListHeld, AsyncCreate, Goto
  <2> QED
    BY <2>1, <2>2
<1>9. CASE AsyncOk(t)
  <2>1. CallAgrees'
    BY <1>9 DEF CallAgrees, AsyncOk, Goto
  <2>2. ListHeld'
    BY <1>9 DEF ListHeld, AsyncOk, Goto
  <2> QED
    BY <2>1, <2>2
<1>10. CASE RefreshAsyncOk(t)
  <2>1. CallAgrees'
    BY <1>10 DEF CallAgrees, RefreshAsyncOk, Return, Returned, Goto
  <2>2. ListHeld'
    BY <1>10 DEF ListHeld, RefreshAsyncOk, Return, Returned, Goto
  <2> QED
    BY <2>1, <2>2
<1>11. CASE Request(t)
  <2>1. CallAgrees'
    BY <1>11 DEF CallAgrees, Request, CoreFree, Free, SignalAndGoto, Waiting, Returned, Goto
  <2>2. ListHeld'
    BY <1>11 DEF ListHeld, Request, CoreFree, Free, SignalAndGoto, Waiting, Returned, Goto
  <2> QED
    BY <2>1, <2>2
<1>12. CASE SyncLock(t)
  <2>1. CallAgrees'
    BY <1>12 DEF CallAgrees, SyncLock, RefreshFree, Free, Goto
  <2>2. ListHeld'
    BY <1>12 DEF ListHeld, SyncLock, RefreshFree, Free, Goto
  <2> QED
    BY <2>1, <2>2
<1> QED
  BY <1>1, <1>2, <1>3, <1>4, <1>5, <1>6, <1>7, <1>8, <1>9, <1>10, <1>11, <1>12 DEF Refresh

\* A walk leaves the list alone.
LEMMA RefreshImplHolds ==
  ASSUME SInv, NEW t \in Threads, RefreshImpl(t) PROVE (CallAgrees /\ ListHeld)'
<1> USE ThreadsAssumption DEF SInv, IInv, TypeOK, PCTypeOK, CallTypeOK, Threads, CallerPC,
        WorkerPC, HoldCorePC, ImplPC, ArmPC, GuardedPC, data, call
<1>1. CASE ImpOpen(t)
  <2>1. CallAgrees'
    BY <1>1 DEF CallAgrees, ImpOpen, LeaveImpl, Return, Returned, Goto
  <2>2. ListHeld'
    BY <1>1 DEF ListHeld, RefreshOwner, ImpOpen, LeaveImpl, Return, Returned, Goto
  <2> QED
    BY <2>1, <2>2
<1>2. CASE ImpLine(t)
  <2>1. CallAgrees'
    BY <1>2 DEF CallAgrees, ImpLine, EnterGuarded, Goto
  <2>2. ListHeld'
    BY <1>2 DEF ListHeld, ImpLine, EnterGuarded, Goto
  <2> QED
    BY <2>1, <2>2
<1>3. CASE ImpCheck(t)
  <2>1. CallAgrees'
    BY <1>3 DEF CallAgrees, ImpCheck, LeaveGuarded, Goto
  <2>2. ListHeld'
    BY <1>3 DEF ListHeld, ImpCheck, LeaveGuarded, Goto
  <2> QED
    BY <2>1, <2>2
<1>4. CASE ImpFind(t)
  <2>1. CallAgrees'
    BY <1>4 DEF CallAgrees, ImpFind, HookCur, EnterGuarded, Goto
  <2>2. ListHeld'
    BY <1>4 DEF ListHeld, RefreshOwner, ImpFind, HookCur, EnterGuarded, Goto
  <2> QED
    BY <2>1, <2>2
<1>5. CASE ImpHook(t)
  <2>1. CallAgrees'
    BY <1>5 DEF CallAgrees, ImpHook, LeaveGuarded, Goto
  <2>2. ListHeld'
    BY <1>5 DEF ListHeld, ImpHook, LeaveGuarded, Goto
  <2> QED
    BY <2>1, <2>2
<1>6. CASE ImpDone(t)
  <2>1. CallAgrees'
    BY <1>6 DEF CallAgrees, ImpDone, LeaveImpl, Return, Returned, Goto
  <2>2. ListHeld'
    BY <1>6 DEF ListHeld, RefreshOwner, ImpDone, LeaveImpl, Return, Returned, Goto
  <2> QED
    BY <2>1, <2>2
<1>7. CASE ImpArm(t)
  <2>1. CallAgrees'
    BY <1>7 DEF CallAgrees, ImpArm, Goto
  <2>2. ListHeld'
    BY <1>7 DEF ListHeld, ImpArm, Goto
  <2> QED
    BY <2>1, <2>2
<1> QED
  BY <1>1, <1>2, <1>3, <1>4, <1>5, <1>6, <1>7
     DEF RefreshImpl

\* The refresh thread makes no calls.
LEMMA RefreshThreadHolds ==
  ASSUME SInv, NEW t \in Workers, RefreshThread(t) PROVE (CallAgrees /\ ListHeld)'
<1> USE ThreadsAssumption DEF SInv, IInv, TypeOK, PCTypeOK, CallTypeOK, Threads, CallerPC,
        WorkerPC, HoldCorePC, ImplPC, ArmPC, GuardedPC, data, call
<1>1. CASE WWhile(t)
  <2>1. CallAgrees'
    BY <1>1 DEF CallAgrees, WWhile, Goto
  <2>2. ListHeld'
    BY <1>1 DEF ListHeld, WWhile, Goto
  <2> QED
    BY <2>1, <2>2
<1>2. CASE WLock(t)
  <2>1. CallAgrees'
    BY <1>2 DEF CallAgrees, WLock, CoreFree, Free, Goto
  <2>2. ListHeld'
    BY <1>2 DEF ListHeld, WLock, CoreFree, Free, Goto
  <2> QED
    BY <2>1, <2>2
<1>3. CASE WRefresh(t)
  <2>1. CallAgrees'
    BY <1>3 DEF CallAgrees, WRefresh, RefreshFree, Free, Goto
  <2>2. ListHeld'
    BY <1>3 DEF ListHeld, WRefresh, RefreshFree, Free, Goto
  <2> QED
    BY <2>1, <2>2
<1> QED
  BY <1>1, <1>2, <1>3 DEF RefreshThread

\* clear empties the list only when nobody walks it.
LEMMA ClearHolds ==
  ASSUME SInv, NEW t \in Callers, Clear(t) PROVE (CallAgrees /\ ListHeld)'
<1> USE ThreadsAssumption DEF SInv, IInv, TypeOK, PCTypeOK, CallTypeOK, Threads, CallerPC,
        WorkerPC, HoldCorePC, ImplPC, ArmPC, GuardedPC, data, call
<1>1. CASE ClearTest(t)
  <2>1. CallAgrees'
    BY <1>1 DEF CallAgrees, ClearTest, Goto
  <2>2. ListHeld'
    BY <1>1 DEF ListHeld, ClearTest, Goto
  <2> QED
    BY <2>1, <2>2
<1>2. CASE ClearStop(t)
  <2>1. CallAgrees'
    BY <1>2 DEF CallAgrees, ClearStop, CoreFree, Free, SignalAndGoto, Waiting, Goto
  <2>2. ListHeld'
    BY <1>2 DEF ListHeld, ClearStop, CoreFree, Free, SignalAndGoto, Waiting, Goto
  <2> QED
    BY <2>1, <2>2
<1>3. CASE ClearJoin(t)
  <2>1. CallAgrees'
    BY <1>3 DEF CallAgrees, ClearJoin, Goto
  <2>2. ListHeld'
    BY <1>3 DEF ListHeld, ClearJoin, Goto
  <2> QED
    BY <2>1, <2>2
<1>4. CASE ClearAsync(t)
  <2>1. CallAgrees'
    BY <1>4 DEF CallAgrees, ClearAsync, Goto
  <2>2. ListHeld'
    BY <1>4 DEF ListHeld, ClearAsync, Goto
  <2> QED
    BY <2>1, <2>2
<1>5. CASE ClearSig(t)
  <2>1. CallAgrees'
    BY <1>5 DEF CallAgrees, ClearSig, Goto
  <2>2. ListHeld'
    BY <1>5 DEF ListHeld, ClearSig, Goto
  <2> QED
    BY <2>1, <2>2
<1>6. CASE ClearOk(t)
  <2>1. CallAgrees'
    BY <1>6 DEF CallAgrees, ClearOk, Goto
  <2>2. ListHeld'
    BY <1>6 DEF ListHeld, ClearOk, Goto
  <2> QED
    BY <2>1, <2>2
<1>7. CASE ClearInited(t)
  <2>1. CallAgrees'
    BY <1>7 DEF CallAgrees, ClearInited, Goto
  <2>2. ListHeld'
    BY <1>7 DEF ListHeld, ClearInited, Goto
  <2> QED
    BY <2>1, <2>2
<1>8. CASE ClearLock(t)
  <2>1. CallAgrees'
    BY <1>8 DEF CallAgrees, ClearLock, CoreFree, Free, Goto
  <2>2. ListHeld'
    BY <1>8 DEF ListHeld, ClearLock, CoreFree, Free, Goto
  <2> QED
    BY <2>1, <2>2
<1>9. CASE ClearFree(t)
  <2>1. CallAgrees'
    BY <1>9 DEF CallAgrees, ClearFree, RefreshFree, Free, Return, Returned, Goto
  <2>2. ListHeld'
    BY <1>9 DEF ListHeld, RefreshOwner, ClearFree, RefreshFree, Free, Return, Returned, Goto
  <2> QED
    BY <2>1, <2>2
<1> QED
  BY <1>1, <1>2, <1>3, <1>4, <1>5, <1>6, <1>7, <1>8, <1>9 DEF Clear

\* The other steps: a call begins, and steps that change neither calls nor list.
LEMMA OthersHold ==
  ASSUME SInv,
         \/ \E t \in Callers, o \in Ops : Begin(t, o)
         \/ \E t \in Callers, on \in BOOLEAN : Protect(t, on)
         \/ \E w \in Workers : SpuriousWakeup(w)
         \/ \E t \in Threads : Fault(t)
         \/ AppSegv
  PROVE  (CallAgrees /\ ListHeld)'
<1> USE ThreadsAssumption DEF SInv, IInv, TypeOK, PCTypeOK, CallTypeOK, Threads, CallerPC,
        WorkerPC, HoldCorePC, ImplPC, ArmPC, GuardedPC, data, call
<1>1. ASSUME NEW t \in Callers, NEW o \in Ops, Begin(t, o) PROVE (CallAgrees /\ ListHeld)'
  BY <1>1 DEF CallAgrees, ListHeld, Begin, MayBegin, FirstStep, Ops, Goto
<1>2. ASSUME NEW t \in Callers, NEW on \in BOOLEAN, Protect(t, on)
      PROVE  (CallAgrees /\ ListHeld)'
  BY <1>2 DEF CallAgrees, ListHeld, Protect
<1>3. ASSUME NEW w \in Workers, SpuriousWakeup(w) PROVE (CallAgrees /\ ListHeld)'
  BY <1>3 DEF CallAgrees, ListHeld, SpuriousWakeup, Goto
<1>4. ASSUME NEW t \in Threads, Fault(t) PROVE (CallAgrees /\ ListHeld)'
  BY <1>4 DEF CallAgrees, ListHeld, Fault, LeaveGuarded, Goto
<1>5. CASE AppSegv
  BY <1>5 DEF CallAgrees, ListHeld, AppSegv
<1> QED
  BY <1>1, <1>2, <1>3, <1>4, <1>5

\* At the start no call is open.
LEMMA InitSInv == Init => SInv
BY InitIInv, ThreadsAssumption
   DEF Init, SegvInit, SInv, CallAgrees, ListHeld, Threads, ImplPC, ArmPC, GuardedPC

\* No step of xh_core, or of its environment, breaks the invariant.
LEMMA NextSInv == SInv /\ [Next]_vars => SInv'
<1> SUFFICES ASSUME SInv, [Next]_vars PROVE (CallAgrees /\ ListHeld)'
  BY NextIInv DEF SInv
<1>1. CASE UNCHANGED vars \/ Rest
  BY <1>1 DEF SInv, CallAgrees, ListHeld, Rest, vars, call, data
<1>2. ASSUME NEW t \in Callers, CallerStep(t) PROVE (CallAgrees /\ ListHeld)'
  BY <1>2, RegisterHolds, RefreshHolds, RefreshImplHolds, ClearHolds
     DEF CallerStep, Threads
<1>3. ASSUME NEW w \in Workers, WorkerStep(w) PROVE (CallAgrees /\ ListHeld)'
  BY <1>3, RefreshThreadHolds, RefreshImplHolds DEF WorkerStep, Threads
<1> QED
  BY <1>1, <1>2, <1>3, OthersHold DEF Next

-----------------------------------------------------------------------------
\* Inside the loop over the lines of maps.
Inside == ImplPC \ {"imp_open"}

\* A thread that moves outside the loop, not to or from the wait for
\* refresh_mutex, changes nothing the session knows by.
LEMMA OutsideHidden ==
  ASSUME SInv, NEW t \in Threads, NEW l, Goto(t, l), pc[t] \notin Inside, l \notin Inside,
         pc[t] # "w_refresh", l # "w_refresh", UNCHANGED <<map_info, refreshed>>
  PROVE  UNCHANGED <<Known, Taken>>
<1>1. UNCHANGED Walking
  BY DEF SInv, IInv, TypeOK, PCTypeOK, Goto, Walking, Inside
<1>2. UNCHANGED Taken
  BY DEF SInv, IInv, TypeOK, PCTypeOK, Goto, Taken, Threads
<1> QED
  BY <1>1, <1>2 DEF Known

\* The same for pthread_cond_signal, which may move a waiting thread as well.
LEMMA SignalHidden ==
  ASSUME SInv, NEW t \in Callers, NEW l, SignalAndGoto(t, l), pc[t] \notin Inside,
         l \notin Inside \cup {"w_refresh"}, UNCHANGED <<map_info, refreshed>>
  PROVE  UNCHANGED <<Known, Taken>>
<1> USE ThreadsAssumption DEF SInv, IInv, TypeOK, PCTypeOK, Threads, CallerPC, HoldCorePC,
        ImplPC, ArmPC, GuardedPC, SignalAndGoto, Waiting, Goto, Inside
<1>1. UNCHANGED Walking
  BY DEF Walking
<1>2. UNCHANGED Taken
  BY DEF Taken
<1> QED
  BY <1>1, <1>2 DEF Known

\* A thread that stays inside the loop.
LEMMA InsideHidden ==
  ASSUME SInv, NEW t \in Threads, NEW l, Goto(t, l), pc[t] \in Inside, l \in Inside
  PROVE  /\ Walking /\ Walking' /\ UNCHANGED Taken
         /\ refresh_mutex = t
<1> USE DEF SInv, IInv, TypeOK, PCTypeOK, Threads, Goto, Inside
<1>1. Walking /\ Walking'
  BY DEF Walking
<1>2. UNCHANGED Taken
  BY DEF Taken, ImplPC, ArmPC, GuardedPC
<1>3. refresh_mutex = t
  BY DEF RefreshOwner
<1> QED
  BY <1>1, <1>2, <1>3

\* A step of XhCore is a step of the session, or one it does not see.
Simulated == Session!Next \/ UNCHANGED Session!vars

\* xh_core_register (lines 127-176): accepted in the step that inserts, else refused.
LEMMA RegisterSimulated ==
  ASSUME SInv, NEW t \in Callers, Register(t) PROVE Simulated
<1> USE ThreadsAssumption DEF Threads, data, local, call, life, async, locks
<1>1. CASE RegCheck(t) /\ Goto(t, "reg_insert") /\ UNCHANGED call
  <2>1. UNCHANGED <<Known, Taken>>
    BY <1>1, OutsideHidden DEF RegCheck, Inside, ImplPC, ArmPC, GuardedPC
  <2> QED
    BY <1>1, <2>1 DEF Simulated, Session!vars, RegCheck
<1>2. CASE RegCheck(t) /\ Return(t, "failed")
  <2>1. UNCHANGED <<Known, Taken>>
    BY <1>2, OutsideHidden DEF RegCheck, Return, Inside, ImplPC, ArmPC, GuardedPC
  <2>2. Session!Refuse(t)
    BY <1>2, <2>1 DEF SInv, CallAgrees, RegCheck, Return, Returned, Session!Refuse,
       Session!Answer
  <2> QED
    BY <2>2 DEF Simulated, Session!Next
<1>3. CASE RegInsert(t)
  <2>1. UNCHANGED <<Known, Taken>>
    BY <1>3, OutsideHidden DEF RegInsert, Return, Inside, ImplPC, ArmPC, GuardedPC
  <2>2. Session!Accept(t)
    BY <1>3, <2>1 DEF SInv, CallAgrees, RegInsert, Return, Returned, Session!Accept,
       Session!Answer
  <2> QED
    BY <2>2 DEF Simulated, Session!Next
<1> QED
  BY <1>1, <1>2, <1>3 DEF Register, RegCheck

\* The once-initialisers are hidden but for the two ok flags they set.
LEMMA OnceSimulated ==
  ASSUME SInv, NEW t \in Callers,
         \/ OnceTest(t) \/ OnceLock(t) \/ OnceSig(t) \/ OnceOk(t)
         \/ AsyncTest(t) \/ AsyncLock(t) \/ AsyncCreate(t) \/ AsyncOk(t)
  PROVE  Simulated
<1> USE ThreadsAssumption DEF Threads, data, local, call, life, async, locks
<1>1. CASE OnceTest(t) \/ OnceLock(t) \/ OnceSig(t) \/ AsyncTest(t) \/ AsyncLock(t)
  <2>1. UNCHANGED <<Known, Taken>>
    BY <1>1, OutsideHidden
       DEF OnceTest, OnceLock, OnceSig, AsyncTest, AsyncLock, Inside, ImplPC, ArmPC, GuardedPC
  <2> QED
    BY <1>1, <2>1
       DEF Simulated, Session!vars, OnceTest, OnceLock, OnceSig, AsyncTest, AsyncLock
<1>2. CASE OnceOk(t)
  <2>1. UNCHANGED <<Known, Taken>>
    BY <1>2, OutsideHidden DEF OnceOk, Inside, ImplPC, ArmPC, GuardedPC
  <2>2. Session!Open(t)
    BY <1>2, <2>1 DEF SInv, CallAgrees, OnceOk, Session!Open
  <2> QED
    BY <2>2 DEF Simulated, Session!Next
<1>3. CASE AsyncOk(t)
  <2>1. UNCHANGED <<Known, Taken>>
    BY <1>3, OutsideHidden DEF AsyncOk, Inside, ImplPC, ArmPC, GuardedPC
  <2>2. Session!Serve(t)
    BY <1>3, <2>1 DEF SInv, CallAgrees, AsyncOk, Session!Serve
  <2> QED
    BY <2>2 DEF Simulated, Session!Next
<1>4. CASE AsyncCreate(t)
  <2>1. UNCHANGED Walking
    BY <1>4 DEF SInv, IInv, TypeOK, PCTypeOK, AsyncCreate, Goto, Walking, ImplPC,
       ArmPC, GuardedPC
  <2>2. UNCHANGED Taken
    BY <1>4 DEF SInv, IInv, TypeOK, PCTypeOK, AsyncCreate, Goto, Taken
  <2> QED
    BY <1>4, <2>1, <2>2 DEF Simulated, Session!vars, Known, AsyncCreate
<1> QED
  BY <1>1, <1>2, <1>3, <1>4

\* What a refresh answers at once, or the walk it begins.
LEMMA RefreshSimulated ==
  ASSUME SInv, NEW t \in Callers, Refresh(t) PROVE Simulated
<1> USE ThreadsAssumption DEF Threads, data, local, call, life, async, locks
<1>1. CASE RefreshOk(t) \/ RefreshAsyncOk(t)
  <2>1. UNCHANGED <<Known, Taken>>
    BY <1>1, OutsideHidden
       DEF RefreshOk, RefreshAsyncOk, Return, Inside, ImplPC, ArmPC, GuardedPC
  <2>2. CASE UNCHANGED call
    BY <1>1, <2>1, <2>2 DEF Simulated, Session!vars, RefreshOk, RefreshAsyncOk
  <2>3. CASE Return(t, "failed")
    <3>1. Session!Refuse(t)
      BY <1>1, <2>1, <2>3
         DEF SInv, CallAgrees, RefreshOk, RefreshAsyncOk, Return, Returned, Goto, IInv,
             TypeOK, CallTypeOK, PCTypeOK, Session!Refuse, Session!Answer
    <3> QED
      BY <3>1 DEF Simulated, Session!Next
  <2> QED
    BY <1>1, <2>2, <2>3 DEF RefreshOk, RefreshAsyncOk
<1>2. CASE Request(t)
  <2>1. UNCHANGED <<Known, Taken>>
    BY <1>2, SignalHidden DEF Request, Inside, ImplPC, ArmPC, GuardedPC
  <2>2. Session!Ask(t)
    BY <1>2, <2>1 DEF SInv, CallAgrees, Request, Returned, Session!Ask, Session!Answer
  <2> QED
    BY <2>2 DEF Simulated, Session!Next
<1>3. CASE SyncLock(t)
  <2>1. UNCHANGED <<Known, Taken>>
    BY <1>3, OutsideHidden DEF SyncLock, Inside, ImplPC, ArmPC, GuardedPC
  <2>2. t \notin Taken
    BY <1>3 DEF Taken
  <2>3. Session!StartWalk(t)
    BY <1>3, <2>1, <2>2
       DEF SInv, CallAgrees, SyncLock, RefreshFree, Free, Session!StartWalk
  <2> QED
    BY <2>3 DEF Simulated, Session!Next
<1> QED
  BY <1>1, <1>2, <1>3, OnceSimulated DEF Refresh

\* A walk ends with the lock given back and its call answered.
LEMMA LeaveIsEndWalk ==
  ASSUME SInv, NEW t \in Threads, pc[t] \in ImplPC, LeaveImpl(t),
         Known' \subseteq Known, UNCHANGED <<info, seen, thread_do, init_ok, async_init_ok>>
  PROVE  Simulated
<1> USE ThreadsAssumption DEF SInv, IInv, TypeOK, PCTypeOK, Threads, LeaveImpl, Goto, call
<1>1. refresh_mutex = t
  BY DEF RefreshOwner
<1>2. UNCHANGED Taken
  BY DEF Taken, Return, ImplPC, ArmPC, GuardedPC
<1>3. Session!EndWalk(t)
  BY <1>1, <1>2 DEF Return, Returned, Session!EndWalk, Session!Answer
<1> QED
  BY <1>3 DEF Simulated, Session!Next

\* When the walker leaves, nobody walks.
LEMMA LeaveStopsWalking ==
  ASSUME SInv, NEW t \in Threads, pc[t] \in ImplPC, LeaveImpl(t) PROVE ~Walking'
BY ThreadsAssumption
   DEF SInv, IInv, TypeOK, PCTypeOK, RefreshOwner, Threads, LeaveImpl, Return, Goto,
       Walking, ImplPC, ArmPC, GuardedPC

\* A walk hooks files, forgets files at its end, and does nothing else.
LEMMA RefreshImplSimulated ==
  ASSUME SInv, NEW t \in Threads, RefreshImpl(t) PROVE Simulated
<1> USE ThreadsAssumption DEF Threads, data, local, life, async, locks
<1>1. CASE ImpOpen(t)
  <2>1. CASE LeaveImpl(t) /\ UNCHANGED <<scan, refreshed>>
    <3>1. ~Walking /\ ~Walking'
      BY <1>1, <2>1, LeaveStopsWalking
         DEF SInv, IInv, RefreshOwner, ImpOpen, Walking, ImplPC, ArmPC, GuardedPC
    <3> QED
      BY <1>1, <2>1, <3>1, LeaveIsEndWalk DEF ImpOpen, Known, ImplPC
  <2>2. CASE refreshed' = {} /\ Goto(t, "imp_line") /\ UNCHANGED <<refresh_mutex, call>>
    <3>1. ~Walking
      BY <1>1 DEF SInv, IInv, RefreshOwner, ImpOpen, Walking, ImplPC, ArmPC, GuardedPC
    <3>2. UNCHANGED Known
      BY <1>1, <2>2, <3>1 DEF ImpOpen, Known
    <3>3. UNCHANGED Taken
      BY <1>1, <2>2 DEF SInv, IInv, TypeOK, PCTypeOK, ImpOpen, Goto, Taken
    <3> QED
      BY <1>1, <2>2, <3>2, <3>3 DEF Simulated, Session!vars, ImpOpen, call
  <2> QED
    BY <1>1, <2>1, <2>2 DEF ImpOpen
<1>2. CASE ImpLine(t) \/ ImpArm(t) \/ ImpCheck(t) \/ ImpHook(t)
  <2>1. pc[t] \in Inside /\ \E l \in Inside : Goto(t, l)
    BY <1>2 DEF SInv, IInv, TypeOK, PCTypeOK, ImpLine, EnterGuarded, ImpArm, ImpCheck,
       ImpHook, Goto, Inside, ImplPC, ArmPC, GuardedPC
  <2>2. UNCHANGED <<Known, Taken>>
    BY <1>2, <2>1, InsideHidden DEF ImpLine, ImpArm, ImpCheck, ImpHook, Known
  <2> QED
    BY <1>2, <2>2 DEF Simulated, Session!vars, ImpLine, ImpArm, ImpCheck, ImpHook, call
<1>3. CASE ImpFind(t)
  <2>1. pc[t] \in Inside /\ \E l \in Inside : Goto(t, l)
    BY <1>3 DEF ImpFind, HookCur, EnterGuarded, Inside, ImplPC, ArmPC, GuardedPC
  <2>2. Walking /\ Walking' /\ UNCHANGED Taken /\ refresh_mutex = t
    BY <2>1, InsideHidden
  <2>3. CASE HookCur(t) /\ refreshed' = refreshed \cup {cur}
             /\ map_info' \in {map_info, map_info \ {cur}}
    <3>1. Known' = Known \cup {cur}
      BY <2>2, <2>3 DEF Known
    <3>2. cur \in Libs /\ info \cap HookInfos # {}
      BY <1>3 DEF SInv, IInv, CurKnown, ListHeld, ImpFind
    <3>3. Session!Apply(t, cur)
      BY <1>3, <2>2, <2>3, <3>1, <3>2 DEF Session!Apply, ImpFind, HookCur, call
    <3> QED
      BY <3>2, <3>3 DEF Simulated, Session!Next
  <2>4. CASE seen' = seen /\ map_info' \cup refreshed' = map_info \cup refreshed
    <3>1. UNCHANGED Known
      BY <2>2, <2>4 DEF Known
    <3> QED
      BY <1>3, <2>2, <2>4, <3>1 DEF Simulated, Session!vars, ImpFind, call
  <2> QED
    BY <1>3, <2>3, <2>4 DEF ImpFind
<1>4. CASE ImpDone(t)
  <2>1. Walking /\ ~Walking'
    BY <1>4, LeaveStopsWalking DEF ImpDone, Walking, ImplPC
  <2>2. Known' \subseteq Known
    BY <1>4, <2>1 DEF ImpDone, Known
  <2> QED
    BY <1>4, <2>2, LeaveIsEndWalk DEF ImpDone, ImplPC
<1> QED
  BY <1>1, <1>2, <1>3, <1>4 DEF RefreshImpl

\* The refresh thread takes a request, then walks for it.
LEMMA RefreshThreadSimulated ==
  ASSUME SInv, NEW w \in Workers, RefreshThread(w) \/ SpuriousWakeup(w) PROVE Simulated
<1> USE ThreadsAssumption DEF Threads, data, local, call, life, async, locks
<1>1. CASE \/ WWhile(w) \/ SpuriousWakeup(w)
           \/ WLock(w) /\ UNCHANGED thread_do /\ ~Goto(w, "w_refresh")
  <2>1. UNCHANGED <<Known, Taken>>
    BY <1>1, OutsideHidden DEF WWhile, SpuriousWakeup, WLock, Inside, ImplPC, ArmPC, GuardedPC
  <2> QED
    BY <1>1, <2>1 DEF Simulated, Session!vars, WWhile, SpuriousWakeup, WLock
<1>2. CASE WLock(w) /\ thread_do /\ thread_do' = FALSE /\ Goto(w, "w_refresh")
  <2>1. UNCHANGED Walking
    BY <1>2 DEF SInv, IInv, TypeOK, PCTypeOK, WLock, Goto, Walking, ImplPC, ArmPC, GuardedPC
  <2>2. Taken' = Taken \cup {w}
    BY <1>2 DEF SInv, IInv, TypeOK, PCTypeOK, Goto, Taken
  <2>3. Session!Take(w)
    BY <1>2, <2>1, <2>2 DEF WLock, Known, Session!Take
  <2> QED
    BY <2>3 DEF Simulated, Session!Next
<1>3. CASE WRefresh(w)
  <2>1. UNCHANGED Walking
    BY <1>3 DEF SInv, IInv, TypeOK, PCTypeOK, WRefresh, Goto, Walking, ImplPC, ArmPC, GuardedPC
  <2>2. w \in Taken /\ Taken' = Taken \ {w}
    BY <1>3 DEF SInv, IInv, TypeOK, PCTypeOK, WRefresh, Goto, Taken
  <2>3. Session!StartWalk(w)
    BY <1>3, <2>1, <2>2 DEF WRefresh, RefreshFree, Free, Known, Session!StartWalk
  <2> QED
    BY <2>3 DEF Simulated, Session!Next
<1> QED
  BY <1>1, <1>2, <1>3 DEF RefreshThread, WLock, Goto, SInv, IInv, TypeOK, PCTypeOK

\* clear lowers the two ok flags and empties the list; the rest is hidden.
LEMMA ClearSimulated ==
  ASSUME SInv, NEW t \in Callers, Clear(t) PROVE Simulated
<1> USE ThreadsAssumption DEF Threads, data, local, call, life, async, locks
<1>1. CASE ClearTest(t) \/ ClearAsync(t) \/ ClearSig(t) \/ ClearInited(t) \/ ClearLock(t)
  <2>1. UNCHANGED <<Known, Taken>>
    BY <1>1, OutsideHidden DEF ClearTest, ClearAsync, ClearSig, ClearInited, ClearLock,
       Inside, ImplPC, ArmPC, GuardedPC
  <2> QED
    BY <1>1, <2>1 DEF Simulated, Session!vars, ClearTest, ClearAsync, ClearSig, ClearInited,
       ClearLock
<1>2. CASE ClearStop(t)
  <2>1. UNCHANGED <<Known, Taken>>
    BY <1>2, SignalHidden DEF ClearStop, Inside, ImplPC, ArmPC, GuardedPC
  <2> QED
    BY <1>2, <2>1 DEF Simulated, Session!vars, ClearStop
<1>3. CASE ClearJoin(t)
  <2>1. UNCHANGED Walking
    BY <1>3 DEF SInv, IInv, TypeOK, PCTypeOK, ClearJoin, Goto, Walking, ImplPC, ArmPC, GuardedPC
  <2>2. UNCHANGED Taken
    BY <1>3 DEF SInv, IInv, TypeOK, PCTypeOK, ClearJoin, Goto, Taken
  <2>3. CASE async_init_ok' = FALSE
    <3>1. Session!Stop(t)
      BY <1>3, <2>1, <2>2, <2>3 DEF SInv, CallAgrees, ClearJoin, Known, Session!Stop
    <3> QED
      BY <3>1 DEF Simulated, Session!Next
  <2>4. CASE UNCHANGED async_init_ok
    BY <1>3, <2>1, <2>2, <2>4 DEF Simulated, Session!vars, ClearJoin, Known
  <2> QED
    BY <1>3, <2>3, <2>4 DEF ClearJoin
<1>4. CASE ClearOk(t)
  <2>1. UNCHANGED <<Known, Taken>>
    BY <1>4, OutsideHidden DEF ClearOk, Inside, ImplPC, ArmPC, GuardedPC
  <2>2. Session!Close(t)
    BY <1>4, <2>1 DEF SInv, CallAgrees, ClearOk, Session!Close
  <2> QED
    BY <2>2 DEF Simulated, Session!Next
<1>5. CASE ClearFree(t)
  <2>1. ~Walking /\ ~Walking'
    BY <1>5 DEF SInv, IInv, TypeOK, PCTypeOK, RefreshOwner, ClearFree, RefreshFree, Free,
       Return, Goto, Walking, ImplPC, ArmPC, GuardedPC
  <2>2. UNCHANGED Taken
    BY <1>5 DEF SInv, IInv, TypeOK, PCTypeOK, ClearFree, Return, Goto, Taken
  <2>3. Session!Erase(t)
    BY <1>5, <2>1, <2>2 DEF SInv, CallAgrees, ClearFree, RefreshFree, Free, Return, Returned,
       Known, Session!Erase, Session!Answer
  <2> QED
    BY <2>3 DEF Simulated, Session!Next
<1> QED
  BY <1>1, <1>2, <1>3, <1>4, <1>5 DEF Clear

\* A call begins; the protection and its handler are not part of the session.
LEMMA OthersSimulated ==
  ASSUME SInv,
         \/ \E t \in Callers, o \in Ops : Begin(t, o)
         \/ \E t \in Callers, on \in BOOLEAN : Protect(t, on)
         \/ \E t \in Threads : Fault(t)
         \/ AppSegv
  PROVE  Simulated
<1> USE ThreadsAssumption DEF Threads, data, local, call, life, async, locks
<1>1. ASSUME NEW t \in Callers, NEW o \in Ops, Begin(t, o) PROVE Simulated
  <2>1. FirstStep(o) \in {"reg_check", "once_test", "clear_test"} /\ pc[t] = "idle"
    BY <1>1 DEF Begin, MayBegin, FirstStep, Ops
  <2>2. UNCHANGED <<Known, Taken>>
    BY <1>1, <2>1, OutsideHidden DEF Begin, Inside, ImplPC, ArmPC, GuardedPC
  <2>3. Session!Call(t, o) /\ o \in {"register", "sync", "async", "clear"}
    BY <1>1, <2>1, <2>2 DEF SInv, CallAgrees, Begin, Ops, Session!Call
  <2> QED
    BY <2>3 DEF Simulated, Session!Next
<1>2. ASSUME NEW t \in Callers, NEW on \in BOOLEAN, Protect(t, on) PROVE Simulated
  BY <1>2 DEF Simulated, Session!vars, Protect, Known, Walking, Taken
<1>3. ASSUME NEW t \in Threads, Fault(t) PROVE Simulated
  <2>1. CASE Goto(t, "imp_line")
    <3>1. pc[t] \in Inside /\ "imp_line" \in Inside
      BY <1>3 DEF Fault, Inside, ImplPC, ArmPC, GuardedPC
    <3>2. UNCHANGED <<Known, Taken>>
      BY <1>3, <2>1, <3>1, InsideHidden DEF Fault, Known
    <3> QED
      BY <1>3, <3>2 DEF Simulated, Session!vars, Fault
  <2>2. CASE UNCHANGED pc
    BY <1>3, <2>2 DEF Simulated, Session!vars, Fault, Known, Walking, Taken
  <2> QED
    BY <1>3, <2>1, <2>2 DEF Fault
<1>4. CASE AppSegv
  BY <1>4 DEF Simulated, Session!vars, AppSegv, Known, Walking, Taken
<1> QED
  BY <1>1, <1>2, <1>3, <1>4

\* The initial states map to the session's.
LEMMA InitSimulated == Init => Session!Init
BY ThreadsAssumption
   DEF Init, SegvInit, Session!Init, Known, Walking, Taken, Threads, ImplPC, ArmPC, GuardedPC

\* Every step maps to a step of the session or a stutter.
LEMMA NextSimulated == SInv /\ [Next]_vars => Simulated
<1> SUFFICES ASSUME SInv, [Next]_vars PROVE Simulated
  OBVIOUS
<1>1. CASE UNCHANGED vars \/ Rest
  BY <1>1 DEF Simulated, Session!vars, Rest, vars, life, async, locks, data, local, call,
     Known, Walking, Taken
<1>2. ASSUME NEW t \in Callers, CallerStep(t) PROVE Simulated
  BY <1>2, RegisterSimulated, RefreshSimulated, RefreshImplSimulated, ClearSimulated
     DEF CallerStep, Threads
<1>3. ASSUME NEW w \in Workers, WorkerStep(w) \/ SpuriousWakeup(w) PROVE Simulated
  BY <1>3, RefreshThreadSimulated, RefreshImplSimulated DEF WorkerStep, Threads
<1> QED
  BY <1>1, <1>2, <1>3, OthersSimulated DEF Next

-----------------------------------------------------------------------------
\* For every set of threads, infos and files, however the calls overlap, the code
\* of xh_core.c keeps the promises of XhSession: a synchronous refresh answers ok
\* only after its own walk, an asynchronous one is walked for by a refresh thread
\* that took it, walks exclude each other and clear, files are hooked only with
\* the list as it then is, and a refresh is refused only while not ready.
THEOREM ImplementsSession == Spec => SessionSpec
<1>1. Spec => []SInv
  BY InitSInv, NextSInv, PTL DEF Spec
<1>2. SInv /\ [Next]_vars => [Session!Next]_(Session!vars)
  BY NextSimulated DEF Simulated
<1> QED
  BY <1>1, <1>2, InitSimulated, PTL DEF Spec, SessionSpec, Session!Spec
===============================================================================
