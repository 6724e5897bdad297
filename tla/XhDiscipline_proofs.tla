------------------------- MODULE XhDiscipline_proofs -------------------------
(***************************************************************************)
(* What XhCore guarantees an application that registers its hooks before   *)
(* it refreshes, as the log messages of lines 147 and 187 ask, and calls   *)
(* clear on its own, which nothing in the repository says and clear's      *)
(* unlocked resets need.  When it switches the protection is its own       *)
(* affair, and so is what raises SIGSEGV.                                  *)
(*                                                                         *)
(* DInv says, for each place a call can be at, what the four flags, the    *)
(* refresh thread and the tree are.  ShieldInv adds the SIGSEGV handler.   *)
(***************************************************************************)
EXTENDS XhSession_proofs

\* The calls the application keeps apart.
Discipline ==
  /\ \A o \in Ops : {"clear", o} \in KeepApart
  /\ {"register", "sync"} \in KeepApart /\ {"register", "async"} \in KeepApart

\* clear runs alone, register does not overlap a refresh.
CallsApart ==
  \A t, u \in Callers : t # u =>
    /\ op[t] = "clear" => op[u] = "none"
    /\ op[t] = "register" => op[u] \notin {"sync", "async"}

AsyncPC == {"async_test", "async_lock", "async_create", "async_ok", "refresh_async_ok",
            "request"}

\* The flags, at every place of a call.
Flags ==
  /\ init_ok => inited
  /\ async_init_ok => async_inited /\ init_ok
  /\ \A t \in Callers :
       /\ pc[t] = "reg_insert" => ~inited
       /\ pc[t] \in {"once_sig", "once_ok"} => inited /\ ~init_ok
       /\ pc[t] \in AsyncPC \cup {"sync_lock"} \cup ImplPC => init_ok
       /\ pc[t] \in {"async_create", "async_ok"} => async_inited /\ ~async_init_ok
       /\ pc[t] \in {"clear_stop", "clear_join"} => async_init_ok
       /\ pc[t] \in {"clear_async", "clear_sig", "clear_ok", "clear_inited", "clear_lock",
                     "clear_free"} => ~async_init_ok
       /\ pc[t] \in {"clear_sig", "clear_ok", "clear_inited", "clear_lock", "clear_free"}
            => ~async_inited
       /\ pc[t] \in {"clear_inited", "clear_lock", "clear_free"} => ~init_ok
       /\ pc[t] \in {"clear_lock", "clear_free"} => ~inited

\* There is a refresh thread from pthread_create to pthread_join.
Served == async_init_ok \/ \E t \in Callers : pc[t] = "async_ok"

Thread ==
  /\ \A w \in Workers : pc[w] # "w_none" => w = refresh_tid /\ Served
  /\ Served => refresh_tid \in Workers /\ pc[refresh_tid] # "w_none"
  /\ thread_running => Served \/ \E t \in Callers : pc[t] = "async_create"
  /\ \A t \in Callers : pc[t] = "clear_join" => ~thread_running
  /\ NoLostWakeup

\* A map item exists only after a first refresh, and was hooked with all the infos.
Late ==
  /\ map_info # {} => inited \/ \E t \in Callers : pc[t] \in {"clear_lock", "clear_free"}
  /\ \A l \in map_info : info \subseteq seen[l]
  /\ Walking => \A l \in refreshed : info \subseteq seen[l]

DInv == SInv /\ CallsApart /\ Flags /\ Thread /\ Late

\* The session whose handler clear has not put back yet.
Opened ==
  /\ init_ok \/ \E t \in Callers : pc[t] = "once_ok"
  /\ \A t \in Callers : pc[t] # "clear_ok"

\* Until a clear meets the protection other than the refresh that opened its session
\* did, the handler is xhook's, or was taken away, only in sessions that installed it,
\* and act_old then holds the application's; elsewhere the application's is installed.
Kept ==
  ~left =>
    /\ disposition = "xhook" \/ spent => installed
    /\ installed => act_old = own
    /\ disposition \in {"xhook", own} \/ spent

\* Until the protection is switched in an open session, what the session found on is on,
\* and a refresh arms the flag where, and only where, the handler is installed.
Armed ==
  ~switched =>
    /\ ~left /\ (Opened => installed = sigsegv_enable)
    /\ installed => disposition = "xhook" \/ spent
    /\ \A t \in Threads : pc[t] \in ArmPC \cup GuardedPC => flag = sigsegv_enable

Shield == (installed => Opened) /\ Kept /\ Armed /\ FaultsContained

ShieldInv == DInv /\ Shield

-----------------------------------------------------------------------------
\* refresh_impl runs only after a refresh has initialised the library.
LEMMA ImplInited ==
  ASSUME DInv, NEW t \in Threads, pc[t] \in ImplPC PROVE init_ok /\ inited
<1>1. CASE t \in Callers
  BY <1>1 DEF DInv, Flags
<1>2. CASE t \in Workers
  <2>1. Served
    BY <1>2 DEF DInv, Thread, ImplPC, ArmPC, GuardedPC
  <2> QED
    BY <2>1 DEF DInv, Served, Flags, AsyncPC
<1> QED
  BY <1>1, <1>2 DEF Threads

\* register and ignore put an info in only before the first refresh.
LEMMA RegisterDisciplined ==
  ASSUME DInv, NEW t \in Callers, Register(t)
  PROVE  (CallsApart /\ Flags /\ Thread /\ Late)'
<1> USE ThreadsAssumption DEF DInv, SInv, IInv, TypeOK, PCTypeOK, CallTypeOK, SharedTypeOK,
        SegvTypeOK, Threads, CallerPC, WorkerPC, HoldCorePC, ImplPC, ArmPC, GuardedPC, life,
        async, locks, data, local, guard, segv, hist, call
<1>1. CASE RegCheck(t)
  <2>1. CallsApart'
    BY <1>1 DEF CallsApart, CallAgrees, RegCheck, Return, Returned, Goto
  <2>2. Flags'
    BY <1>1 DEF Flags, CallsApart, CallAgrees, CoreOwner, AsyncPC, RegCheck, Return,
       Returned, Goto
  <2>3. Thread'
    BY <1>1 DEF Thread, Served, NoLostWakeup, Flags, CallsApart, CallAgrees,
       CoreOwner, AsyncPC, RegCheck, Return, Returned, Goto
  <2>4. Late'
    BY <1>1 DEF Late, Walking, Flags, CallsApart, CallAgrees, CoreOwner, RefreshOwner,
       CurKnown, AsyncPC, RegCheck, Return, Returned, Goto
  <2> QED
    BY <2>1, <2>2, <2>3, <2>4
<1>2. CASE RegInsert(t)
  <2>1. CallsApart'
    BY <1>2 DEF CallsApart, CallAgrees, RegInsert, CoreFree, Free, Return, Returned,
       Goto
  <2>2. Flags'
    BY <1>2 DEF Flags, CallsApart, CallAgrees, CoreOwner, AsyncPC, RegInsert,
       CoreFree, Free, Return, Returned, Goto
  <2>3. Thread'
    BY <1>2 DEF Thread, Served, NoLostWakeup, Flags, CallsApart, CallAgrees,
       CoreOwner, AsyncPC, RegInsert, CoreFree, Free, Return, Returned, Goto
  <2>4. Late'
    <3>1. op[t] = "register" /\ ~inited
      BY <1>2 DEF RegInsert, Flags, CallAgrees
    <3>2. map_info = {}
      BY <3>1 DEF Late, CallsApart, CallAgrees
    <3>3. ~Walking
      BY <3>1, ImplInited DEF Walking, ImplPC
    <3>4. map_info' = {} /\ ~Walking'
      BY <1>2, <3>2, <3>3 DEF RegInsert, Walking, Return, Goto
    <3> QED
      BY <3>4 DEF Late
  <2> QED
    BY <2>1, <2>2, <2>3, <2>4
<1> QED
  BY <1>1, <1>2 DEF Register

\* The once-initialisers set a flag when what it stands for is there.
LEMMA RefreshDisciplined ==
  ASSUME DInv, NEW t \in Callers, Refresh(t)
  PROVE  (CallsApart /\ Flags /\ Thread /\ Late)'
<1> USE ThreadsAssumption DEF DInv, SInv, IInv, TypeOK, PCTypeOK, CallTypeOK, SharedTypeOK,
        SegvTypeOK, Threads, CallerPC, WorkerPC, HoldCorePC, ImplPC, ArmPC, GuardedPC, life,
        async, locks, data, local, guard, segv, hist, call
<1>1. CASE OnceTest(t)
  <2>1. CallsApart'
    BY <1>1 DEF CallsApart, CallAgrees, OnceTest, Goto
  <2>2. Flags'
    BY <1>1 DEF Flags, CallsApart, CallAgrees, CoreOwner, AsyncPC, OnceTest, Goto
  <2>3. Thread'
    BY <1>1 DEF Thread, Served, NoLostWakeup, Flags, CallsApart, CallAgrees,
       CoreOwner, AsyncPC, OnceTest, Goto
  <2>4. Late'
    BY <1>1 DEF Late, Walking, Flags, CallsApart, CallAgrees, CoreOwner, RefreshOwner,
       CurKnown, AsyncPC, OnceTest, Goto
  <2> QED
    BY <2>1, <2>2, <2>3, <2>4
<1>2. CASE OnceLock(t)
  <2>1. CallsApart'
    BY <1>2 DEF CallsApart, CallAgrees, OnceLock, CoreFree, Free, Goto
  <2>2. Flags'
    BY <1>2 DEF Flags, CallsApart, CallAgrees, CoreOwner, AsyncPC, OnceLock, CoreFree,
       Free, Goto
  <2>3. Thread'
    BY <1>2 DEF Thread, Served, NoLostWakeup, Flags, CallsApart, CallAgrees,
       CoreOwner, AsyncPC, OnceLock, CoreFree, Free, Goto
  <2>4. Late'
    BY <1>2 DEF Late, Walking, Flags, CallsApart, CallAgrees, CoreOwner, RefreshOwner,
       CurKnown, AsyncPC, OnceLock, CoreFree, Free, Goto
  <2> QED
    BY <2>1, <2>2, <2>3, <2>4
<1>3. CASE OnceSig(t)
  <2>1. CallsApart'
    BY <1>3 DEF CallsApart, CallAgrees, OnceSig, AddSigsegvHandler, Goto
  <2>2. Flags'
    BY <1>3 DEF Flags, CallsApart, CallAgrees, CoreOwner, AsyncPC, OnceSig,
       AddSigsegvHandler, Goto
  <2>3. Thread'
    BY <1>3 DEF Thread, Served, NoLostWakeup, Flags, CallsApart, CallAgrees,
       CoreOwner, AsyncPC, OnceSig, AddSigsegvHandler, Goto
  <2>4. Late'
    BY <1>3 DEF Late, Walking, Flags, CallsApart, CallAgrees, CoreOwner, RefreshOwner,
       CurKnown, AsyncPC, OnceSig, AddSigsegvHandler, Goto
  <2> QED
    BY <2>1, <2>2, <2>3, <2>4
<1>4. CASE OnceOk(t)
  <2>1. CallsApart'
    BY <1>4 DEF CallsApart, CallAgrees, OnceOk, Goto
  <2>2. Flags'
    BY <1>4 DEF Flags, CallsApart, CallAgrees, CoreOwner, AsyncPC, OnceOk, Goto
  <2>3. Thread'
    BY <1>4 DEF Thread, Served, NoLostWakeup, Flags, CallsApart, CallAgrees,
       CoreOwner, AsyncPC, OnceOk, Goto
  <2>4. Late'
    BY <1>4 DEF Late, Walking, Flags, CallsApart, CallAgrees, CoreOwner, RefreshOwner,
       CurKnown, AsyncPC, OnceOk, Goto
  <2> QED
    BY <2>1, <2>2, <2>3, <2>4
<1>5. CASE RefreshOk(t)
  <2>1. CallsApart'
    BY <1>5 DEF CallsApart, CallAgrees, RefreshOk, Return, Returned, Goto
  <2>2. Flags'
    BY <1>5 DEF Flags, CallsApart, CallAgrees, CoreOwner, AsyncPC, RefreshOk, Return,
       Returned, Goto
  <2>3. Thread'
    BY <1>5 DEF Thread, Served, NoLostWakeup, Flags, CallsApart, CallAgrees,
       CoreOwner, AsyncPC, RefreshOk, Return, Returned, Goto
  <2>4. Late'
    BY <1>5 DEF Late, Walking, Flags, CallsApart, CallAgrees, CoreOwner, RefreshOwner,
       CurKnown, AsyncPC, RefreshOk, Return, Returned, Goto
  <2> QED
    BY <2>1, <2>2, <2>3, <2>4
<1>6. CASE AsyncTest(t)
  <2>1. CallsApart'
    BY <1>6 DEF CallsApart, CallAgrees, AsyncTest, Goto
  <2>2. Flags'
    BY <1>6 DEF Flags, CallsApart, CallAgrees, CoreOwner, AsyncPC, AsyncTest, Goto
  <2>3. Thread'
    BY <1>6 DEF Thread, Served, NoLostWakeup, Flags, CallsApart, CallAgrees,
       CoreOwner, AsyncPC, AsyncTest, Goto
  <2>4. Late'
    BY <1>6 DEF Late, Walking, Flags, CallsApart, CallAgrees, CoreOwner, RefreshOwner,
       CurKnown, AsyncPC, AsyncTest, Goto
  <2> QED
    BY <2>1, <2>2, <2>3, <2>4
<1>7. CASE AsyncLock(t)
  <2>1. CallsApart'
    BY <1>7 DEF CallsApart, CallAgrees, AsyncLock, CoreFree, Free, Goto
  <2>2. Flags'
    BY <1>7 DEF Flags, CallsApart, CallAgrees, CoreOwner, AsyncPC, AsyncLock,
       CoreFree, Free, Goto
  <2>3. Thread'
    BY <1>7 DEF Thread, Served, NoLostWakeup, Flags, CallsApart, CallAgrees,
       CoreOwner, AsyncPC, AsyncLock, CoreFree, Free, Goto
  <2>4. Late'
    BY <1>7 DEF Late, Walking, Flags, CallsApart, CallAgrees, CoreOwner, RefreshOwner,
       CurKnown, AsyncPC, AsyncLock, CoreFree, Free, Goto
  <2> QED
    BY <2>1, <2>2, <2>3, <2>4
<1>8. CASE AsyncCreate(t)
  <2>1. CallsApart'
    BY <1>8 DEF CallsApart, CallAgrees, AsyncCreate, Goto
  <2>2. Flags'
    BY <1>8 DEF Flags, CallsApart, CallAgrees, CoreOwner, AsyncPC, AsyncCreate, Goto
  <2>3. Thread'
    BY <1>8 DEF Thread, Served, NoLostWakeup, Flags, CallsApart, CallAgrees,
       CoreOwner, AsyncPC, AsyncCreate, Goto
  <2>4. Late'
    BY <1>8 DEF Late, Walking, Flags, CallsApart, CallAgrees, CoreOwner, RefreshOwner,
       CurKnown, AsyncPC, AsyncCreate, Goto
  <2> QED
    BY <2>1, <2>2, <2>3, <2>4
<1>9. CASE AsyncOk(t)
  <2>1. CallsApart'
    BY <1>9 DEF CallsApart, CallAgrees, AsyncOk, Goto
  <2>2. Flags'
    BY <1>9 DEF Flags, CallsApart, CallAgrees, CoreOwner, AsyncPC, AsyncOk, Goto
  <2>3. Thread'
    BY <1>9 DEF Thread, Served, NoLostWakeup, Flags, CallsApart, CallAgrees,
       CoreOwner, AsyncPC, AsyncOk, Goto
  <2>4. Late'
    BY <1>9 DEF Late, Walking, Flags, CallsApart, CallAgrees, CoreOwner, RefreshOwner,
       CurKnown, AsyncPC, AsyncOk, Goto
  <2> QED
    BY <2>1, <2>2, <2>3, <2>4
<1>10. CASE RefreshAsyncOk(t)
  <2>1. CallsApart'
    BY <1>10 DEF CallsApart, CallAgrees, RefreshAsyncOk, Return, Returned, Goto
  <2>2. Flags'
    BY <1>10 DEF Flags, CallsApart, CallAgrees, CoreOwner, AsyncPC, RefreshAsyncOk,
       Return, Returned, Goto
  <2>3. Thread'
    BY <1>10 DEF Thread, Served, NoLostWakeup, Flags, CallsApart, CallAgrees,
       CoreOwner, AsyncPC, RefreshAsyncOk, Return, Returned, Goto
  <2>4. Late'
    BY <1>10 DEF Late, Walking, Flags, CallsApart, CallAgrees, CoreOwner,
       RefreshOwner, CurKnown, AsyncPC, RefreshAsyncOk, Return, Returned, Goto
  <2> QED
    BY <2>1, <2>2, <2>3, <2>4
<1>11. CASE Request(t)
  <2>1. CallsApart'
    BY <1>11 DEF CallsApart, CallAgrees, Request, CoreFree, Free, SignalAndGoto,
       Waiting, Returned, Goto
  <2>2. Flags'
    BY <1>11 DEF Flags, CallsApart, CallAgrees, CoreOwner, AsyncPC, Request, CoreFree,
       Free, SignalAndGoto, Waiting, Returned, Goto
  <2>3. Thread'
    BY <1>11 DEF Thread, Served, NoLostWakeup, Flags, CallsApart, CallAgrees,
       CoreOwner, AsyncPC, Request, CoreFree, Free, SignalAndGoto, Waiting, Returned,
       Goto
  <2>4. Late'
    BY <1>11 DEF Late, Walking, Flags, CallsApart, CallAgrees, CoreOwner,
       RefreshOwner, CurKnown, AsyncPC, Request, CoreFree, Free, SignalAndGoto,
       Waiting, Returned, Goto
  <2> QED
    BY <2>1, <2>2, <2>3, <2>4
<1>12. CASE SyncLock(t)
  <2>1. CallsApart'
    BY <1>12 DEF CallsApart, CallAgrees, SyncLock, RefreshFree, Free, Goto
  <2>2. Flags'
    BY <1>12 DEF Flags, CallsApart, CallAgrees, CoreOwner, AsyncPC, SyncLock,
       RefreshFree, Free, Goto
  <2>3. Thread'
    BY <1>12 DEF Thread, Served, NoLostWakeup, Flags, CallsApart, CallAgrees,
       CoreOwner, AsyncPC, SyncLock, RefreshFree, Free, Goto
  <2>4. Late'
    BY <1>12 DEF Late, Walking, Flags, CallsApart, CallAgrees, CoreOwner,
       RefreshOwner, CurKnown, AsyncPC, SyncLock, RefreshFree, Free, Goto
  <2> QED
    BY <2>1, <2>2, <2>3, <2>4
<1> QED
  BY <1>1, <1>2, <1>3, <1>4, <1>5, <1>6, <1>7, <1>8, <1>9, <1>10, <1>11, <1>12 DEF
     Refresh

\* A walk hooks every item with all the infos of the queues.
LEMMA RefreshImplDisciplined ==
  ASSUME DInv, NEW t \in Threads, RefreshImpl(t)
  PROVE  (CallsApart /\ Flags /\ Thread /\ Late)'
<1> USE ThreadsAssumption DEF DInv, SInv, IInv, TypeOK, PCTypeOK, CallTypeOK, SharedTypeOK,
        SegvTypeOK, Threads, CallerPC, WorkerPC, HoldCorePC, ImplPC, ArmPC, GuardedPC, life,
        async, locks, data, local, guard, segv, hist, call
<1>1. CASE ImpOpen(t)
  <2>1. CallsApart'
    BY <1>1 DEF CallsApart, CallAgrees, ImpOpen, LeaveImpl, Return, Returned, Goto
  <2>2. Flags'
    BY <1>1 DEF Flags, CallsApart, CallAgrees, CoreOwner, AsyncPC, ImpOpen, LeaveImpl,
       Return, Returned, Goto
  <2>3. Thread'
    BY <1>1 DEF Thread, Served, NoLostWakeup, Flags, CallsApart, CallAgrees,
       CoreOwner, AsyncPC, ImpOpen, LeaveImpl, Return, Returned, Goto
  <2>4. Late'
    BY <1>1 DEF Late, Walking, Flags, CallsApart, CallAgrees, CoreOwner, RefreshOwner,
       CurKnown, AsyncPC, ImpOpen, LeaveImpl, Return, Returned, Goto
  <2> QED
    BY <2>1, <2>2, <2>3, <2>4
<1>2. CASE ImpLine(t)
  <2>1. CallsApart'
    BY <1>2 DEF CallsApart, CallAgrees, ImpLine, EnterGuarded, Goto
  <2>2. Flags'
    BY <1>2 DEF Flags, CallsApart, CallAgrees, CoreOwner, AsyncPC, ImpLine,
       EnterGuarded, Goto
  <2>3. Thread'
    BY <1>2 DEF Thread, Served, NoLostWakeup, Flags, CallsApart, CallAgrees,
       CoreOwner, AsyncPC, ImpLine, EnterGuarded, Goto
  <2>4. Late'
    BY <1>2 DEF Late, Walking, Flags, CallsApart, CallAgrees, CoreOwner, RefreshOwner,
       CurKnown, AsyncPC, ImpLine, EnterGuarded, Goto
  <2> QED
    BY <2>1, <2>2, <2>3, <2>4
<1>3. CASE ImpCheck(t)
  <2>1. CallsApart'
    BY <1>3 DEF CallsApart, CallAgrees, ImpCheck, LeaveGuarded, Goto
  <2>2. Flags'
    BY <1>3 DEF Flags, CallsApart, CallAgrees, CoreOwner, AsyncPC, ImpCheck,
       LeaveGuarded, Goto
  <2>3. Thread'
    BY <1>3 DEF Thread, Served, NoLostWakeup, Flags, CallsApart, CallAgrees,
       CoreOwner, AsyncPC, ImpCheck, LeaveGuarded, Goto
  <2>4. Late'
    BY <1>3 DEF Late, Walking, Flags, CallsApart, CallAgrees, CoreOwner, RefreshOwner,
       CurKnown, AsyncPC, ImpCheck, LeaveGuarded, Goto
  <2> QED
    BY <2>1, <2>2, <2>3, <2>4
<1>4. CASE ImpFind(t)
  <2>1. CallsApart'
    BY <1>4 DEF CallsApart, CallAgrees, ImpFind, HookCur, EnterGuarded, Goto
  <2>2. Flags'
    BY <1>4 DEF Flags, CallsApart, CallAgrees, CoreOwner, AsyncPC, ImpFind, HookCur,
       EnterGuarded, Goto
  <2>3. Thread'
    BY <1>4 DEF Thread, Served, NoLostWakeup, Flags, CallsApart, CallAgrees,
       CoreOwner, AsyncPC, ImpFind, HookCur, EnterGuarded, Goto
  <2>4. Late'
    BY <1>4 DEF Late, Walking, Flags, CallsApart, CallAgrees, CoreOwner, RefreshOwner,
       CurKnown, AsyncPC, ImpFind, HookCur, EnterGuarded, Goto
  <2> QED
    BY <2>1, <2>2, <2>3, <2>4
<1>5. CASE ImpHook(t)
  <2>1. CallsApart'
    BY <1>5 DEF CallsApart, CallAgrees, ImpHook, LeaveGuarded, Goto
  <2>2. Flags'
    BY <1>5 DEF Flags, CallsApart, CallAgrees, CoreOwner, AsyncPC, ImpHook,
       LeaveGuarded, Goto
  <2>3. Thread'
    BY <1>5 DEF Thread, Served, NoLostWakeup, Flags, CallsApart, CallAgrees,
       CoreOwner, AsyncPC, ImpHook, LeaveGuarded, Goto
  <2>4. Late'
    BY <1>5 DEF Late, Walking, Flags, CallsApart, CallAgrees, CoreOwner, RefreshOwner,
       CurKnown, AsyncPC, ImpHook, LeaveGuarded, Goto
  <2> QED
    BY <2>1, <2>2, <2>3, <2>4
<1>6. CASE ImpDone(t)
  <2>1. CallsApart'
    BY <1>6 DEF CallsApart, CallAgrees, ImpDone, LeaveImpl, Return, Returned, Goto
  <2>2. Flags'
    BY <1>6 DEF Flags, CallsApart, CallAgrees, CoreOwner, AsyncPC, ImpDone, LeaveImpl,
       Return, Returned, Goto
  <2>3. Thread'
    BY <1>6 DEF Thread, Served, NoLostWakeup, Flags, CallsApart, CallAgrees,
       CoreOwner, AsyncPC, ImpDone, LeaveImpl, Return, Returned, Goto
  <2>4. Late'
    <3>1. inited /\ Walking
      BY <1>6, ImplInited DEF ImpDone, Walking
    <3>2. map_info' = refreshed /\ refreshed' = refreshed /\ info' = info /\ seen' = seen
          /\ inited' = inited
      BY <1>6 DEF ImpDone
    <3> QED
      BY <3>1, <3>2 DEF Late
  <2> QED
    BY <2>1, <2>2, <2>3, <2>4
<1>7. CASE ImpArm(t)
  <2>1. CallsApart'
    BY <1>7 DEF CallsApart, CallAgrees, ImpArm, Goto
  <2>2. Flags'
    BY <1>7 DEF Flags, CallsApart, CallAgrees, CoreOwner, AsyncPC, ImpArm, Goto
  <2>3. Thread'
    BY <1>7 DEF Thread, Served, NoLostWakeup, Flags, CallsApart, CallAgrees,
       CoreOwner, AsyncPC, ImpArm, Goto
  <2>4. Late'
    BY <1>7 DEF Late, Walking, Flags, CallsApart, CallAgrees, CoreOwner, RefreshOwner,
       CurKnown, AsyncPC, ImpArm, Goto
  <2> QED
    BY <2>1, <2>2, <2>3, <2>4
<1> QED
  BY <1>1, <1>2, <1>3, <1>4, <1>5, <1>6, <1>7 DEF RefreshImpl

\* The refresh thread sleeps only with nothing to do.
LEMMA RefreshThreadDisciplined ==
  ASSUME DInv, NEW t \in Workers, RefreshThread(t)
  PROVE  (CallsApart /\ Flags /\ Thread /\ Late)'
<1> USE ThreadsAssumption DEF DInv, SInv, IInv, TypeOK, PCTypeOK, CallTypeOK, SharedTypeOK,
        SegvTypeOK, Threads, CallerPC, WorkerPC, HoldCorePC, ImplPC, ArmPC, GuardedPC, life,
        async, locks, data, local, guard, segv, hist, call
<1>1. CASE WWhile(t)
  <2>1. CallsApart'
    BY <1>1 DEF CallsApart, CallAgrees, WWhile, Goto
  <2>2. Flags'
    BY <1>1 DEF Flags, CallsApart, CallAgrees, CoreOwner, AsyncPC, WWhile, Goto
  <2>3. Thread'
    BY <1>1 DEF Thread, Served, NoLostWakeup, Flags, CallsApart, CallAgrees,
       CoreOwner, AsyncPC, WWhile, Goto
  <2>4. Late'
    BY <1>1 DEF Late, Walking, Flags, CallsApart, CallAgrees, CoreOwner, RefreshOwner,
       CurKnown, AsyncPC, WWhile, Goto
  <2> QED
    BY <2>1, <2>2, <2>3, <2>4
<1>2. CASE WLock(t)
  <2>1. CallsApart'
    BY <1>2 DEF CallsApart, CallAgrees, WLock, CoreFree, Free, Goto
  <2>2. Flags'
    BY <1>2 DEF Flags, CallsApart, CallAgrees, CoreOwner, AsyncPC, WLock, CoreFree,
       Free, Goto
  <2>3. Thread'
    BY <1>2 DEF Thread, Served, NoLostWakeup, Flags, CallsApart, CallAgrees,
       CoreOwner, AsyncPC, WLock, CoreFree, Free, Goto
  <2>4. Late'
    BY <1>2 DEF Late, Walking, Flags, CallsApart, CallAgrees, CoreOwner, RefreshOwner,
       CurKnown, AsyncPC, WLock, CoreFree, Free, Goto
  <2> QED
    BY <2>1, <2>2, <2>3, <2>4
<1>3. CASE WRefresh(t)
  <2>1. CallsApart'
    BY <1>3 DEF CallsApart, CallAgrees, WRefresh, RefreshFree, Free, Goto
  <2>2. Flags'
    BY <1>3 DEF Flags, CallsApart, CallAgrees, CoreOwner, AsyncPC, WRefresh,
       RefreshFree, Free, Goto
  <2>3. Thread'
    BY <1>3 DEF Thread, Served, NoLostWakeup, Flags, CallsApart, CallAgrees,
       CoreOwner, AsyncPC, WRefresh, RefreshFree, Free, Goto
  <2>4. Late'
    BY <1>3 DEF Late, Walking, Flags, CallsApart, CallAgrees, CoreOwner, RefreshOwner,
       CurKnown, AsyncPC, WRefresh, RefreshFree, Free, Goto
  <2> QED
    BY <2>1, <2>2, <2>3, <2>4
<1> QED
  BY <1>1, <1>2, <1>3 DEF RefreshThread

\* clear takes down, alone, what the once-initialisers set up, in reverse.
LEMMA ClearDisciplined ==
  ASSUME DInv, NEW t \in Callers, Clear(t)
  PROVE  (CallsApart /\ Flags /\ Thread /\ Late)'
<1> USE ThreadsAssumption DEF DInv, SInv, IInv, TypeOK, PCTypeOK, CallTypeOK, SharedTypeOK,
        SegvTypeOK, Threads, CallerPC, WorkerPC, HoldCorePC, ImplPC, ArmPC, GuardedPC, life,
        async, locks, data, local, guard, segv, hist, call
<1>1. CASE ClearTest(t)
  <2>1. CallsApart'
    BY <1>1 DEF CallsApart, CallAgrees, ClearTest, Goto
  <2>2. Flags'
    BY <1>1 DEF Flags, CallsApart, CallAgrees, CoreOwner, AsyncPC, ClearTest, Goto
  <2>3. Thread'
    BY <1>1 DEF Thread, Served, NoLostWakeup, Flags, CallsApart, CallAgrees,
       CoreOwner, AsyncPC, ClearTest, Goto
  <2>4. Late'
    BY <1>1 DEF Late, Walking, Flags, CallsApart, CallAgrees, CoreOwner, RefreshOwner,
       CurKnown, AsyncPC, ClearTest, Goto
  <2> QED
    BY <2>1, <2>2, <2>3, <2>4
<1>2. CASE ClearStop(t)
  <2>1. CallsApart'
    BY <1>2 DEF CallsApart, CallAgrees, ClearStop, CoreFree, Free, SignalAndGoto,
       Waiting, Goto
  <2>2. Flags'
    BY <1>2 DEF Flags, CallsApart, CallAgrees, CoreOwner, AsyncPC, ClearStop,
       CoreFree, Free, SignalAndGoto, Waiting, Goto
  <2>3. Thread'
    BY <1>2 DEF Thread, Served, NoLostWakeup, Flags, CallsApart, CallAgrees,
       CoreOwner, AsyncPC, ClearStop, CoreFree, Free, SignalAndGoto, Waiting, Goto
  <2>4. Late'
    BY <1>2 DEF Late, Walking, Flags, CallsApart, CallAgrees, CoreOwner, RefreshOwner,
       CurKnown, AsyncPC, ClearStop, CoreFree, Free, SignalAndGoto, Waiting, Goto
  <2> QED
    BY <2>1, <2>2, <2>3, <2>4
<1>3. CASE ClearJoin(t)
  <2>1. CallsApart'
    BY <1>3 DEF CallsApart, CallAgrees, ClearJoin, Goto
  <2>2. Flags'
    BY <1>3 DEF Flags, CallsApart, CallAgrees, CoreOwner, AsyncPC, ClearJoin, Goto
  <2>3. Thread'
    <3>1. pc[t] = "clear_join" /\ async_init_ok /\ op[t] = "clear"
      BY <1>3 DEF ClearJoin, Flags, CallAgrees
    <3>2. refresh_tid \in Workers /\ pc[refresh_tid] # "w_none" /\ t # refresh_tid
      BY <3>1 DEF Thread, Served
    <3>3. /\ pc' = [pc EXCEPT ![t] = "clear_async", ![refresh_tid] = "w_none"]
          /\ ~async_init_ok' /\ UNCHANGED async
      BY <1>3, <3>2 DEF ClearJoin
    <3>4. \A u \in Callers : u # t => pc[u] = "idle"
      BY <3>1 DEF CallsApart, CallAgrees
    <3>5. \A w \in Workers : pc'[w] = "w_none"
      BY <3>2, <3>3 DEF Thread
    <3>6. \A u \in Callers : pc'[u] \in {"idle", "clear_async"}
      BY <3>2, <3>3, <3>4
    <3>7. ~Served'
      BY <3>3, <3>6 DEF Served
    <3>8. ~thread_running'
      BY <1>3, <3>1, <3>3 DEF Thread
    <3> QED
      BY <3>5, <3>7, <3>8 DEF Thread, NoLostWakeup
  <2>4. Late'
    BY <1>3 DEF Late, Walking, Flags, CallsApart, CallAgrees, CoreOwner, RefreshOwner,
       CurKnown, AsyncPC, ClearJoin, Goto
  <2> QED
    BY <2>1, <2>2, <2>3, <2>4
<1>4. CASE ClearAsync(t)
  <2>1. CallsApart'
    BY <1>4 DEF CallsApart, CallAgrees, ClearAsync, Goto
  <2>2. Flags'
    BY <1>4 DEF Flags, CallsApart, CallAgrees, CoreOwner, AsyncPC, ClearAsync, Goto
  <2>3. Thread'
    BY <1>4 DEF Thread, Served, NoLostWakeup, Flags, CallsApart, CallAgrees,
       CoreOwner, AsyncPC, ClearAsync, Goto
  <2>4. Late'
    BY <1>4 DEF Late, Walking, Flags, CallsApart, CallAgrees, CoreOwner, RefreshOwner,
       CurKnown, AsyncPC, ClearAsync, Goto
  <2> QED
    BY <2>1, <2>2, <2>3, <2>4
<1>5. CASE ClearSig(t)
  <2>1. CallsApart'
    BY <1>5 DEF CallsApart, CallAgrees, ClearSig, Goto
  <2>2. Flags'
    BY <1>5 DEF Flags, CallsApart, CallAgrees, CoreOwner, AsyncPC, ClearSig, Goto
  <2>3. Thread'
    BY <1>5 DEF Thread, Served, NoLostWakeup, Flags, CallsApart, CallAgrees,
       CoreOwner, AsyncPC, ClearSig, Goto
  <2>4. Late'
    BY <1>5 DEF Late, Walking, Flags, CallsApart, CallAgrees, CoreOwner, RefreshOwner,
       CurKnown, AsyncPC, ClearSig, Goto
  <2> QED
    BY <2>1, <2>2, <2>3, <2>4
<1>6. CASE ClearOk(t)
  <2>1. CallsApart'
    BY <1>6 DEF CallsApart, CallAgrees, ClearOk, Goto
  <2>2. Flags'
    BY <1>6 DEF Flags, CallsApart, CallAgrees, CoreOwner, AsyncPC, ClearOk, Goto
  <2>3. Thread'
    BY <1>6 DEF Thread, Served, NoLostWakeup, Flags, CallsApart, CallAgrees,
       CoreOwner, AsyncPC, ClearOk, Goto
  <2>4. Late'
    BY <1>6 DEF Late, Walking, Flags, CallsApart, CallAgrees, CoreOwner, RefreshOwner,
       CurKnown, AsyncPC, ClearOk, Goto
  <2> QED
    BY <2>1, <2>2, <2>3, <2>4
<1>7. CASE ClearInited(t)
  <2>1. CallsApart'
    BY <1>7 DEF CallsApart, CallAgrees, ClearInited, Goto
  <2>2. Flags'
    BY <1>7 DEF Flags, CallsApart, CallAgrees, CoreOwner, AsyncPC, ClearInited, Goto
  <2>3. Thread'
    BY <1>7 DEF Thread, Served, NoLostWakeup, Flags, CallsApart, CallAgrees,
       CoreOwner, AsyncPC, ClearInited, Goto
  <2>4. Late'
    BY <1>7 DEF Late, Walking, Flags, CallsApart, CallAgrees, CoreOwner, RefreshOwner,
       CurKnown, AsyncPC, ClearInited, Goto
  <2> QED
    BY <2>1, <2>2, <2>3, <2>4
<1>8. CASE ClearLock(t)
  <2>1. CallsApart'
    BY <1>8 DEF CallsApart, CallAgrees, ClearLock, CoreFree, Free, Goto
  <2>2. Flags'
    BY <1>8 DEF Flags, CallsApart, CallAgrees, CoreOwner, AsyncPC, ClearLock,
       CoreFree, Free, Goto
  <2>3. Thread'
    BY <1>8 DEF Thread, Served, NoLostWakeup, Flags, CallsApart, CallAgrees,
       CoreOwner, AsyncPC, ClearLock, CoreFree, Free, Goto
  <2>4. Late'
    BY <1>8 DEF Late, Walking, Flags, CallsApart, CallAgrees, CoreOwner, RefreshOwner,
       CurKnown, AsyncPC, ClearLock, CoreFree, Free, Goto
  <2> QED
    BY <2>1, <2>2, <2>3, <2>4
<1>9. CASE ClearFree(t)
  <2>1. CallsApart'
    BY <1>9 DEF CallsApart, CallAgrees, ClearFree, RefreshFree, Free, Return,
       Returned, Goto
  <2>2. Flags'
    BY <1>9 DEF Flags, CallsApart, CallAgrees, CoreOwner, AsyncPC, ClearFree,
       RefreshFree, Free, Return, Returned, Goto
  <2>3. Thread'
    BY <1>9 DEF Thread, Served, NoLostWakeup, Flags, CallsApart, CallAgrees,
       CoreOwner, AsyncPC, ClearFree, RefreshFree, Free, Return, Returned, Goto
  <2>4. Late'
    BY <1>9 DEF Late, Walking, Flags, CallsApart, CallAgrees, CoreOwner, RefreshOwner,
       CurKnown, AsyncPC, ClearFree, RefreshFree, Free, Return, Returned, Goto
  <2> QED
    BY <2>1, <2>2, <2>3, <2>4
<1> QED
  BY <1>1, <1>2, <1>3, <1>4, <1>5, <1>6, <1>7, <1>8, <1>9 DEF Clear

\* A call begins only beside calls it may overlap.
LEMMA OthersDisciplined ==
  ASSUME Discipline, DInv,
         \/ \E t \in Callers, o \in Ops : Begin(t, o)
         \/ \E t \in Callers, on \in BOOLEAN : Protect(t, on)
         \/ \E w \in Workers : SpuriousWakeup(w)
         \/ \E t \in Threads : Fault(t)
         \/ AppSegv
  PROVE  (CallsApart /\ Flags /\ Thread /\ Late)'
<1> USE ThreadsAssumption DEF DInv, SInv, IInv, TypeOK, PCTypeOK, CallTypeOK, SharedTypeOK,
        SegvTypeOK, Threads, CallerPC, WorkerPC, HoldCorePC, ImplPC, ArmPC, GuardedPC, life,
        async, locks, data, local, guard, segv, hist, call
<1>1. ASSUME NEW t \in Callers, NEW o \in Ops, Begin(t, o)
      PROVE  (CallsApart /\ Flags /\ Thread /\ Late)'
  <2>1. \A u \in Callers \ {t} : op[u] # "none" => {o, op[u]} \notin KeepApart
    BY <1>1 DEF Begin, MayBegin, CallAgrees
  <2>2. \A u \in Callers \ {t} : op[u] # "none" => o # "clear" /\ op[u] # "clear"
    <3> SUFFICES ASSUME NEW u \in Callers \ {t}, op[u] \in Ops
                 PROVE  o # "clear" /\ op[u] # "clear"
      OBVIOUS
    <3>1. {"clear", op[u]} \in KeepApart /\ {"clear", o} \in KeepApart
      BY DEF Discipline
    <3>2. {o, "clear"} = {"clear", o}
      OBVIOUS
    <3>3. {o, op[u]} \notin KeepApart
      BY <2>1 DEF Ops
    <3> QED
      BY <3>1, <3>2, <3>3
  <2>3. \A u \in Callers \ {t} :
          /\ o = "register" => op[u] \notin {"sync", "async"}
          /\ op[u] = "register" => o \notin {"sync", "async"}
    <3> SUFFICES ASSUME NEW u \in Callers \ {t}
                 PROVE  /\ o = "register" => op[u] \notin {"sync", "async"}
                        /\ op[u] = "register" => o \notin {"sync", "async"}
      OBVIOUS
    <3>1. \A x : {x, "register"} = {"register", x}
      OBVIOUS
    <3> QED
      BY <2>1, <3>1 DEF Discipline
  <2>4. /\ op' = [op EXCEPT ![t] = o] /\ op[t] = "none" /\ pc[t] = "idle"
        /\ pc' = [pc EXCEPT ![t] = FirstStep(o)]
    BY <1>1 DEF Begin, MayBegin, Goto, CallAgrees
  <2>5. CallsApart'
    BY <2>2, <2>3, <2>4 DEF CallsApart
  <2>6. FirstStep(o) \in {"reg_check", "once_test", "clear_test"}
    BY <1>1 DEF Begin, FirstStep, Ops
  <2>7. Flags'
    BY <1>1, <2>4, <2>6 DEF Flags, AsyncPC, Begin
  <2>8. Thread'
    BY <1>1, <2>4, <2>6 DEF Thread, Served, NoLostWakeup, Begin
  <2>9. Late'
    BY <1>1, <2>4, <2>6 DEF Late, Walking, Begin
  <2> QED
    BY <2>5, <2>7, <2>8, <2>9
<1>2. ASSUME NEW t \in Callers, NEW on \in BOOLEAN, Protect(t, on)
      PROVE  (CallsApart /\ Flags /\ Thread /\ Late)'
  <2>1. CallsApart' /\ Flags'
    BY <1>2 DEF CallsApart, Flags, AsyncPC, Protect
  <2>2. Thread' /\ Late'
    BY <1>2 DEF Thread, Served, NoLostWakeup, Late, Walking, Protect
  <2> QED
    BY <2>1, <2>2
<1>3. ASSUME NEW w \in Workers, SpuriousWakeup(w)
      PROVE  (CallsApart /\ Flags /\ Thread /\ Late)'
  <2>1. CallsApart' /\ Flags'
    BY <1>3 DEF CallsApart, Flags, AsyncPC, SpuriousWakeup, Goto
  <2>2. Thread'
    BY <1>3 DEF Thread, Served, NoLostWakeup, SpuriousWakeup, Goto
  <2>3. Late'
    BY <1>3 DEF Late, Walking, SpuriousWakeup, Goto
  <2> QED
    BY <2>1, <2>2, <2>3
<1>4. ASSUME NEW t \in Threads, Fault(t)
      PROVE  (CallsApart /\ Flags /\ Thread /\ Late)'
  <2>1. CallsApart' /\ Flags'
    BY <1>4 DEF CallsApart, Flags, AsyncPC, Fault, Goto
  <2>2. Thread'
    BY <1>4 DEF Thread, Served, NoLostWakeup, Fault, Goto
  <2>3. Late'
    BY <1>4 DEF Late, Walking, Fault, Goto
  <2> QED
    BY <2>1, <2>2, <2>3
<1>5. CASE AppSegv
  BY <1>5 DEF CallsApart, Flags, AsyncPC, Thread, Served, NoLostWakeup, Late, Walking,
     AppSegv
<1> QED
  BY <1>1, <1>2, <1>3, <1>4, <1>5

\* The statics start in the invariant.
LEMMA InitDInv == Init => DInv
<1> SUFFICES ASSUME Init PROVE DInv
  OBVIOUS
<1>1. \A t \in Callers : pc[t] = "idle" /\ op[t] = "none"
  BY DEF Init, SegvInit, Threads
<1>2. \A w \in Workers : pc[w] = "w_none"
  BY ThreadsAssumption DEF Init, SegvInit, Threads
<1>3. CallsApart /\ Flags
  BY <1>1 DEF Init, SegvInit, CallsApart, Flags, AsyncPC, ImplPC, ArmPC, GuardedPC
<1>4. Thread
  BY <1>1, <1>2 DEF Init, SegvInit, Thread, Served, NoLostWakeup
<1>5. Late
  BY DEF Init, SegvInit, Late
<1> QED
  BY <1>3, <1>4, <1>5, InitSInv DEF DInv

\* DInv is inductive for an application that keeps the discipline.
LEMMA NextDInv == ASSUME Discipline, DInv, [Next]_vars PROVE DInv'
<1> SUFFICES (CallsApart /\ Flags /\ Thread /\ Late)'
  BY NextSInv DEF DInv
<1>1. CASE UNCHANGED vars \/ Rest
  <2>1. UNCHANGED vars
    BY <1>1 DEF Rest
  <2>2. CallsApart' /\ Flags'
    BY <2>1 DEF DInv, CallsApart, Flags, AsyncPC, vars, life, call
  <2>3. Thread'
    BY <2>1 DEF DInv, Thread, Served, NoLostWakeup, vars, life, async
  <2>4. Late'
    BY <2>1 DEF DInv, Late, Walking, vars, life, data, local
  <2> QED
    BY <2>2, <2>3, <2>4
<1>2. ASSUME NEW t \in Callers, CallerStep(t)
      PROVE  (CallsApart /\ Flags /\ Thread /\ Late)'
  BY <1>2, RegisterDisciplined, RefreshDisciplined, RefreshImplDisciplined,
     ClearDisciplined DEF CallerStep, Threads
<1>3. ASSUME NEW w \in Workers, WorkerStep(w)
      PROVE  (CallsApart /\ Flags /\ Thread /\ Late)'
  BY <1>3, RefreshThreadDisciplined, RefreshImplDisciplined DEF WorkerStep, Threads
<1> QED
  BY <1>1, <1>2, <1>3, OthersDisciplined DEF Next

\* ... and holds in every reachable state.
LEMMA DInvAlways == ASSUME Discipline PROVE Spec => []DInv
<1>1. Init => DInv
  BY InitDInv
<1>2. DInv /\ [Next]_vars => DInv'
  BY NextDInv
<1> QED
  BY <1>1, <1>2, PTL DEF Spec

\* The refresh thread is the one refresh_tid names: clear leaves none behind.
THEOREM WorkersAreNamed == ASSUME Discipline PROVE Spec => []OneWorker
<1>1. DInv => OneWorker
  BY DEF DInv, Thread, OneWorker
<1> QED
  BY <1>1, DInvAlways, PTL

\* No wakeup is lost.
THEOREM WakeupsArrive == ASSUME Discipline PROVE Spec => []NoLostWakeup
<1>1. DInv => NoLostWakeup
  BY DEF DInv, Thread
<1> QED
  BY <1>1, DInvAlways, PTL

\* No item misses an info that was accepted.
THEOREM InfosAreApplied == ASSUME Discipline PROVE Spec => []NoLateHook
<1>1. DInv => NoLateHook
  BY DEF DInv, Late, NoLateHook
<1> QED
  BY <1>1, DInvAlways, PTL

\* Where clear frees the queues nobody else is in the library.
LEMMA ClearedState ==
  ASSUME DInv, NEW t \in Callers, pc[t] = "clear_free"
  PROVE  /\ ~inited /\ ~init_ok /\ ~async_inited /\ ~async_init_ok /\ ~thread_running
         /\ (\A w \in Workers : pc[w] = "w_none") /\ ~flag
<1>1. op[t] = "clear" /\ \A u \in Callers : u # t => pc[u] = "idle"
  BY DEF DInv, SInv, IInv, TypeOK, PCTypeOK, CallTypeOK, CallsApart, CallAgrees, CallerPC,
     HoldCorePC, ImplPC, ArmPC, GuardedPC
<1>2. ~inited /\ ~init_ok /\ ~async_inited /\ ~async_init_ok
  BY DEF DInv, Flags
<1>3. ~Served
  BY <1>1, <1>2 DEF Served
<1>4. ~thread_running /\ \A w \in Workers : pc[w] = "w_none"
  BY <1>1, <1>3 DEF DInv, Thread
<1>5. ~flag
  BY <1>2, ImplInited DEF DInv, SInv, IInv, EnvLive, ImplPC, Threads
<1> QED
  BY <1>2, <1>4, <1>5

\* Only clear's last step leaves it.
LEMMA ClearReturns ==
  ASSUME DInv, [Next]_vars, NEW t \in Callers, pc[t] = "clear_free", pc'[t] = "idle"
  PROVE  ClearFree(t)
<1> USE ThreadsAssumption DEF DInv, SInv, IInv, TypeOK, PCTypeOK, Threads, CallerPC, WorkerPC,
        HoldCorePC, ImplPC, ArmPC, GuardedPC
<1>1. pc' # pc
  OBVIOUS
<1>2. ASSUME NEW u \in Callers, CallerStep(u), u # t PROVE FALSE
  <2>1. pc[u] = "idle" /\ op[t] = "clear"
    BY <1>2 DEF CallsApart, CallAgrees, CallTypeOK
  <2> QED
    BY <1>2, <2>1 DEF CallerStep, Register, RegCheck, RegInsert, Refresh, OnceTest, OnceLock,
       OnceSig, OnceOk, RefreshOk, AsyncTest, AsyncLock, AsyncCreate, AsyncOk,
       RefreshAsyncOk, Request, SyncLock, RefreshImpl, ImpOpen, ImpLine, ImpArm, ImpCheck,
       ImpFind, ImpHook, ImpDone, Clear, ClearTest, ClearStop, ClearJoin, ClearAsync,
       ClearSig, ClearOk, ClearInited, ClearLock, ClearFree
<1>3. ASSUME CallerStep(t) PROVE ClearFree(t)
  BY <1>3 DEF CallerStep, Register, RegCheck, RegInsert, Refresh, OnceTest, OnceLock,
       OnceSig, OnceOk, RefreshOk, AsyncTest, AsyncLock, AsyncCreate, AsyncOk,
       RefreshAsyncOk, Request, SyncLock, RefreshImpl, ImpOpen, ImpLine, ImpArm, ImpCheck,
       ImpFind, ImpHook, ImpDone, Clear, ClearTest, ClearStop, ClearJoin, ClearAsync,
       ClearSig, ClearOk, ClearInited, ClearLock
<1>4. \A w \in Workers : pc[w] = "w_none"
  BY ClearedState
<1>5. ASSUME NEW w \in Workers, WorkerStep(w) \/ SpuriousWakeup(w) PROVE FALSE
  BY <1>4, <1>5 DEF WorkerStep, SpuriousWakeup, RefreshThread, WWhile, WLock, WRefresh,
     RefreshImpl, ImpOpen, ImpLine, ImpArm, ImpCheck, ImpFind, ImpHook, ImpDone
<1>6. ASSUME NEW u \in Threads, Fault(u) PROVE FALSE
  BY <1>6, ImplInited, ClearedState DEF Fault
<1>7. ASSUME NEW u \in Callers, NEW o \in Ops, Begin(u, o) PROVE FALSE
  BY <1>7 DEF Begin, MayBegin, FirstStep, Goto, Ops
<1>8. ASSUME NEW u \in Callers, NEW on \in BOOLEAN, Protect(u, on) PROVE FALSE
  BY <1>1, <1>8 DEF Protect
<1>9. ASSUME AppSegv \/ Rest \/ UNCHANGED vars PROVE FALSE
  BY <1>1, <1>9 DEF AppSegv, Rest, vars
<1> QED
  BY <1>2, <1>3, <1>5, <1>6, <1>7, <1>8, <1>9 DEF Next

-----------------------------------------------------------------------------
(***************************************************************************)
(* The SIGSEGV protection.                                                 *)
(***************************************************************************)
\* The places where a step can matter to the protection.
ShieldPC == {"once_ok", "clear_ok"} \cup ArmPC \cup GuardedPC

\* A step that leaves the protection alone and moves no thread to or from the
\* places that matter to it.
LEMMA Unshielded ==
  ASSUME ShieldInv, UNCHANGED <<init_ok, flag, segv, proc>>,
         \A u \in Threads : pc'[u] = pc[u] \/ (pc[u] \notin ShieldPC /\ pc'[u] \notin ShieldPC)
  PROVE  Shield'
<1>1. \A u \in Threads : pc'[u] \in ArmPC \cup GuardedPC => pc[u] \in ArmPC \cup GuardedPC
  BY DEF ShieldPC
<1>2. Opened' <=> Opened
  BY DEF Opened, ShieldPC, Threads
<1> QED
  BY <1>1, <1>2 DEF ShieldInv, Shield, Kept, Armed, FaultsContained, segv, hist

\* A session and a clear exclude each other.
LEMMA ClearAlone ==
  ASSUME DInv, NEW t \in Callers, op[t] = "clear"
  PROVE  \A u \in Callers : u # t => pc[u] = "idle"
BY DEF DInv, SInv, IInv, TypeOK, PCTypeOK, CallTypeOK, CallsApart, CallAgrees, CallerPC,
       HoldCorePC, ImplPC, ArmPC, GuardedPC

\* While a refresh runs its session is open.
LEMMA ImplOpened ==
  ASSUME DInv, NEW t \in Threads, pc[t] \in ImplPC PROVE Opened /\ inited
<1>1. init_ok /\ inited
  BY ImplInited
<1>2. ASSUME NEW u \in Callers, pc[u] = "clear_ok" PROVE FALSE
  <2>1. op[u] = "clear" /\ ~async_init_ok
    BY <1>2 DEF DInv, SInv, CallAgrees, Flags
  <2>2. \A v \in Callers : v # u => pc[v] = "idle"
    BY <2>1, ClearAlone
  <2>3. \A w \in Workers : pc[w] = "w_none"
    BY <1>2, <2>1, <2>2 DEF DInv, Thread, Served
  <2> QED
    BY <1>2, <2>2, <2>3 DEF Threads, ImplPC, ArmPC, GuardedPC
<1> QED
  BY <1>1, <1>2 DEF Opened

\* register and ignore do not touch the protection.
LEMMA RegisterShielded ==
  ASSUME ShieldInv, NEW t \in Callers, Register(t) PROVE Shield'
<1>1. UNCHANGED <<init_ok, flag, segv, proc>>
  BY DEF Register, RegCheck, RegInsert, life, guard
<1>2. /\ pc[t] \in {"reg_check", "reg_insert"}
      /\ \E l \in {"idle", "reg_insert"} : pc' = [pc EXCEPT ![t] = l]
  BY DEF Register, RegCheck, RegInsert, Return, Goto
<1> QED
  BY <1>1, <1>2, Unshielded DEF ShieldPC, ArmPC, GuardedPC, ShieldInv, DInv, SInv, IInv, TypeOK,
     PCTypeOK

\* The handler is installed before init_ok says so, over the application's own.
LEMMA OnceShielded ==
  ASSUME ShieldInv, Up, NEW t \in Callers, OnceSig(t) \/ OnceOk(t) PROVE Shield'
<1> USE ThreadsAssumption DEF ShieldInv, DInv, SInv, IInv, TypeOK, PCTypeOK
<1>1. op[t] \in {"sync", "async"} /\ ~init_ok
  BY DEF OnceSig, OnceOk, CallAgrees, Flags
<1>2. \A u \in Callers : pc[u] # "clear_ok"
  BY <1>1 DEF CallAgrees, CallsApart
<1>3. \A u \in Callers : u # t => pc[u] \notin {"once_sig", "once_ok"}
  BY DEF OnceSig, OnceOk, CoreOwner, HoldCorePC
<1>4. \A u \in Threads : pc[u] \notin ArmPC \cup GuardedPC
  BY <1>1, ImplInited DEF ImplPC
<1>5. CASE OnceSig(t)
  <2>1. ~Opened
    BY <1>1, <1>3, <1>5 DEF Opened, OnceSig
  <2>2. /\ ~installed /\ own # "xhook"
        /\ ~left => disposition = own /\ ~spent
        /\ ~sigsegv_enable => installed = sigsegv_enable
    BY <2>1 DEF Shield, Kept, SegvTypeOK
  <2>3. UNCHANGED <<sigsegv_enable, switched, left, own, init_ok, proc, flag>>
    BY <1>5 DEF OnceSig, AddSigsegvHandler, segv, hist, guard, life
  <2>4. /\ \E l \in {"once_ok", "refresh_ok"} : pc' = [pc EXCEPT ![t] = l]
        /\ \/ UNCHANGED segv /\ (pc'[t] = "once_ok" => ~sigsegv_enable)
           \/ /\ act_old' = disposition /\ disposition' = "xhook" /\ spent' = FALSE
              /\ installed' = TRUE /\ sigsegv_enable /\ pc'[t] = "once_ok"
    <3>1. pc' = [pc EXCEPT ![t] = "once_ok"] => pc'[t] = "once_ok"
      BY DEF Threads
    <3>2. pc' = [pc EXCEPT ![t] = "refresh_ok"] => pc'[t] # "once_ok"
      BY DEF Threads
    <3> QED
      BY <1>5, <3>1, <3>2 DEF OnceSig, AddSigsegvHandler, Goto
  <2>5. \A u \in Threads : pc'[u] \notin ArmPC \cup GuardedPC
    BY <1>4, <2>4 DEF ArmPC, GuardedPC
  <2>6. \A u \in Callers : pc'[u] # "clear_ok" /\ (u # t => pc'[u] # "once_ok")
    BY <1>2, <1>3, <2>4
  <2>7. Opened' <=> pc'[t] = "once_ok"
    BY <1>1, <2>3, <2>6 DEF Opened
  <2>8. FaultsContained'
    BY <2>3 DEF Up, FaultsContained
  <2>9. CASE UNCHANGED segv
    BY <2>1, <2>2, <2>3, <2>4, <2>5, <2>7, <2>8, <2>9 DEF Shield, Kept, Armed, segv, hist
  <2>10. CASE ~UNCHANGED segv
    BY <2>2, <2>3, <2>4, <2>5, <2>7, <2>8, <2>10 DEF Shield, Kept, Armed
  <2> QED
    BY <2>9, <2>10
<1>6. CASE OnceOk(t)
  <2>1. /\ init_ok' = TRUE /\ pc' = [pc EXCEPT ![t] = "refresh_ok"] /\ pc[t] = "once_ok"
        /\ UNCHANGED <<flag, segv, proc>>
    BY <1>6 DEF OnceOk, Goto, guard
  <2>2. \A u \in Threads : pc'[u] \notin ArmPC \cup GuardedPC
    BY <1>4, <2>1 DEF ArmPC, GuardedPC
  <2>3. Opened /\ Opened'
    BY <1>2, <2>1 DEF Opened, Threads
  <2> QED
    BY <2>1, <2>2, <2>3 DEF Shield, Kept, Armed, FaultsContained, Up, segv, hist
<1> QED
  BY <1>5, <1>6

\* The rest of a refresh before the walk does not touch the protection.
LEMMA RefreshShielded ==
  ASSUME ShieldInv, Up, NEW t \in Callers, Refresh(t) PROVE Shield'
<1> USE ThreadsAssumption DEF ShieldInv, DInv, SInv, IInv, TypeOK, PCTypeOK, ShieldPC, ArmPC,
        GuardedPC, Threads
<1>1. CASE OnceTest(t) \/ OnceLock(t) \/ RefreshOk(t) \/ AsyncTest(t) \/ AsyncLock(t)
  <2>1. UNCHANGED <<init_ok, flag, segv, proc>>
    BY <1>1 DEF OnceTest, OnceLock, RefreshOk, AsyncTest, AsyncLock, life, guard
  <2>2. /\ pc[t] \in {"once_test", "once_lock", "refresh_ok", "async_test", "async_lock"}
        /\ \E l \in {"refresh_ok", "once_lock", "once_sig", "idle", "async_test", "sync_lock",
                     "refresh_async_ok", "async_lock", "async_create"} :
             pc' = [pc EXCEPT ![t] = l]
    BY <1>1 DEF OnceTest, OnceLock, RefreshOk, AsyncTest, AsyncLock, Return, Goto
  <2> QED
    BY <2>1, <2>2, Unshielded
<1>2. CASE AsyncOk(t) \/ RefreshAsyncOk(t) \/ SyncLock(t)
  <2>1. UNCHANGED <<init_ok, flag, segv, proc>>
    BY <1>2 DEF AsyncOk, RefreshAsyncOk, SyncLock, life, guard
  <2>2. /\ pc[t] \in {"async_ok", "refresh_async_ok", "sync_lock"}
        /\ \E l \in {"refresh_async_ok", "idle", "request", "imp_open"} :
             pc' = [pc EXCEPT ![t] = l]
    BY <1>2 DEF AsyncOk, RefreshAsyncOk, SyncLock, Return, Goto
  <2> QED
    BY <2>1, <2>2, Unshielded
<1>3. CASE AsyncCreate(t) \/ Request(t)
  <2>1. UNCHANGED <<init_ok, flag, segv, proc>>
    BY <1>3 DEF AsyncCreate, Request, life, guard
  <2>2. pc[t] \in {"async_create", "request"}
        /\ \A u \in Threads : \/ pc'[u] = pc[u]
                              \/ u = t /\ pc'[u] \in {"async_ok", "refresh_async_ok", "idle"}
                              \/ /\ pc[u] \in {"w_none", "w_wait"}
                                 /\ pc'[u] \in {"w_while", "w_lock"}
    BY <1>3 DEF AsyncCreate, Request, SignalAndGoto, Waiting, Goto
  <2> QED
    BY <2>1, <2>2, Unshielded
<1>4. CASE OnceSig(t) \/ OnceOk(t)
  BY <1>4, OnceShielded
<1> QED
  BY <1>1, <1>2, <1>3, <1>4 DEF Refresh

\* The walk sets the flag when the protection is on and clears it when it leaves.
LEMMA RefreshImplShielded ==
  ASSUME ShieldInv, Up, NEW t \in Threads, RefreshImpl(t) PROVE Shield'
<1> USE DEF ShieldInv, DInv, SInv, IInv, TypeOK, PCTypeOK
<1>1. pc[t] \in ImplPC
  BY DEF RefreshImpl, ImpOpen, ImpLine, ImpArm, ImpCheck, ImpFind, ImpHook, ImpDone, ImplPC,
     ArmPC, GuardedPC
<1>2. Opened /\ inited
  BY <1>1, ImplOpened
<1>3. \A u \in Threads : u # t => pc[u] \notin ArmPC \cup GuardedPC
  BY <1>1 DEF RefreshOwner, ImplPC
<1>4. UNCHANGED <<init_ok, segv, proc>>
  BY DEF RefreshImpl, ImpOpen, ImpLine, ImpArm, ImpCheck, ImpFind, ImpHook, ImpDone, life
<1>5. \E l \in ImplPC \cup {"idle", "w_while"} : pc' = [pc EXCEPT ![t] = l]
  BY DEF RefreshImpl, ImpOpen, ImpLine, EnterGuarded, ImpArm, ImpCheck, ImpFind, HookCur,
     ImpHook, ImpDone, LeaveImpl, Return, Goto, ImplPC, ArmPC, GuardedPC
<1>6. ~switched => (pc'[t] \in ArmPC \cup GuardedPC => flag' = sigsegv_enable)
  <2>1. ASSUME ~switched, ImpLine(t) \/ ImpArm(t) \/ ImpFind(t), pc'[t] \in ArmPC \cup GuardedPC
        PROVE  flag' = sigsegv_enable
    <3>1. CASE pc[t] \in ArmPC
      <4>1. flag' = flag
        BY <2>1, <3>1 DEF ImpLine, ImpArm, ImpFind, ArmPC
      <4> QED
        BY <2>1, <3>1, <4>1 DEF Shield, Armed
    <3>2. CASE pc[t] \notin ArmPC
      <4>1. /\ pc[t] \notin ArmPC \cup GuardedPC
            /\ \/ EnterGuarded(t, "check_arm", "imp_check")
               \/ EnterGuarded(t, "hook_arm", "imp_hook")
        BY <2>1, <3>2 DEF ImpLine, ImpArm, ImpFind, HookCur, Goto, ArmPC, GuardedPC
      <4>2. (flag' = TRUE /\ sigsegv_enable) \/ (flag' = flag /\ ~sigsegv_enable)
        BY <4>1 DEF EnterGuarded
      <4>3. ~flag
        BY <1>1, <4>1 DEF EnvLive, RefreshOwner, ImplPC
      <4> QED
        BY <4>2, <4>3 DEF SegvTypeOK
    <3> QED
      BY <3>1, <3>2
  <2>2. ImpOpen(t) \/ ImpCheck(t) \/ ImpHook(t) \/ ImpDone(t)
          => pc'[t] \notin ArmPC \cup GuardedPC
    BY DEF ImpOpen, ImpCheck, ImpHook, ImpDone, LeaveImpl, Return, Goto, ArmPC, GuardedPC
  <2> QED
    BY <2>1, <2>2 DEF RefreshImpl
<1>7. \A u \in Threads : u # t => pc'[u] = pc[u]
  BY <1>5
<1>8. Opened'
  BY <1>1, <1>2, <1>4, <1>5, <1>7, ImplInited DEF Opened, ImplPC, ArmPC, GuardedPC, Threads
<1> QED
  BY <1>2, <1>3, <1>4, <1>6, <1>7, <1>8 DEF Shield, Kept, Armed, FaultsContained, Up, segv,
     hist

\* The refresh thread outside refresh_impl does not touch the protection.
LEMMA RefreshThreadShielded ==
  ASSUME ShieldInv, NEW t \in Workers, RefreshThread(t) \/ SpuriousWakeup(t) PROVE Shield'
<1>1. UNCHANGED <<init_ok, flag, segv, proc>>
  BY DEF RefreshThread, WWhile, WLock, WRefresh, SpuriousWakeup, life, guard
<1>2. /\ pc[t] \in {"w_while", "w_lock", "w_refresh", "w_wait"}
      /\ \E l \in {"w_lock", "w_dead", "w_wait", "w_refresh", "imp_open"} :
           pc' = [pc EXCEPT ![t] = l]
  BY DEF RefreshThread, WWhile, WLock, WRefresh, SpuriousWakeup, Goto
<1> QED
  BY <1>1, <1>2, Unshielded DEF ShieldPC, ArmPC, GuardedPC, ShieldInv, DInv, SInv, IInv, TypeOK,
     PCTypeOK

\* A thread that clear joins is there to be joined.
LEMMA JoinReturns ==
  ASSUME DInv, NEW t \in Callers, ClearJoin(t)
  PROVE  /\ refresh_tid \in Workers /\ pc[refresh_tid] = "w_dead" /\ proc' = proc
         /\ pc' = [pc EXCEPT ![t] = "clear_async", ![refresh_tid] = "w_none"]
<1>1. refresh_tid \in Workers /\ pc[refresh_tid] # "w_none"
  BY DEF ClearJoin, DInv, Flags, Thread, Served
<1> QED
  BY <1>1 DEF ClearJoin

\* clear puts the handler back when no refresh can run.
LEMMA ClearShielded ==
  ASSUME ShieldInv, Up, NEW t \in Callers, Clear(t) PROVE Shield'
<1> USE ThreadsAssumption DEF ShieldInv, DInv, SInv, IInv, TypeOK, PCTypeOK, Threads
<1>1. CASE ClearTest(t) \/ ClearAsync(t) \/ ClearInited(t) \/ ClearLock(t) \/ ClearFree(t)
  <2>1. UNCHANGED <<init_ok, flag, segv, proc>>
    BY <1>1 DEF ClearTest, ClearAsync, ClearInited, ClearLock, ClearFree, life, guard
  <2>2. /\ pc[t] \in {"clear_test", "clear_async", "clear_inited", "clear_lock", "clear_free"}
        /\ \E l \in {"clear_stop", "clear_async", "clear_sig", "clear_lock", "clear_free",
                     "idle"} : pc' = [pc EXCEPT ![t] = l]
    BY <1>1 DEF ClearTest, ClearAsync, ClearInited, ClearLock, ClearFree, Return, Goto
  <2> QED
    BY <2>1, <2>2, Unshielded DEF ShieldPC, ArmPC, GuardedPC
<1>2. CASE ClearStop(t)
  <2>1. UNCHANGED <<init_ok, flag, segv, proc>>
    BY <1>2 DEF ClearStop, life, guard
  <2>2. pc[t] = "clear_stop"
        /\ \A u \in Threads : \/ pc'[u] = pc[u]
                              \/ u = t /\ pc'[u] = "clear_join"
                              \/ pc[u] = "w_wait" /\ pc'[u] = "w_lock"
    BY <1>2 DEF ClearStop, SignalAndGoto, Waiting, Goto
  <2> QED
    BY <2>1, <2>2, Unshielded DEF ShieldPC, ArmPC, GuardedPC
<1>3. CASE ClearJoin(t)
  <2>1. UNCHANGED <<init_ok, flag, segv>>
    BY <1>3 DEF ClearJoin, guard
  <2>2. /\ refresh_tid \in Workers /\ pc[refresh_tid] = "w_dead" /\ proc' = proc
        /\ pc' = [pc EXCEPT ![t] = "clear_async", ![refresh_tid] = "w_none"]
    BY <1>3, JoinReturns
  <2>3. pc[t] = "clear_join"
    BY <1>3 DEF ClearJoin
  <2> QED
    BY <2>1, <2>2, <2>3, Unshielded DEF ShieldPC, ArmPC, GuardedPC
<1>4. CASE ClearSig(t) \/ ClearOk(t)
  <2>1. op[t] = "clear" /\ ~async_init_ok
    BY <1>4 DEF ClearSig, ClearOk, CallAgrees, Flags
  <2>2. \A u \in Callers : u # t => pc[u] = "idle"
    BY <2>1, ClearAlone
  <2>3. \A u \in Threads : u # t => pc[u] \in {"idle", "w_none"}
    BY <1>4, <2>1, <2>2 DEF Thread, Served, ClearSig, ClearOk
  <2>4. \E l \in {"clear_ok", "clear_inited"} :
          /\ pc' = [pc EXCEPT ![t] = l]
          /\ ClearSig(t) => (l = "clear_ok" <=> init_ok)
          /\ ClearOk(t) => l = "clear_inited"
    BY <1>4 DEF ClearSig, ClearOk, Goto, SharedTypeOK
  <2>5. \A u \in Threads : pc'[u] \notin ArmPC \cup GuardedPC
    BY <2>3, <2>4 DEF ArmPC, GuardedPC
  <2>6. ~Opened'
    BY <1>4, <2>3, <2>4 DEF Opened, ClearSig, ClearOk, life
  <2>7. FaultsContained'
    BY <1>4 DEF Up, FaultsContained, ClearSig, ClearOk
  <2>8. CASE ClearSig(t)
    <3>1. Opened <=> init_ok
      BY <2>3, <2>8 DEF Opened, ClearSig
    <3>2. /\ UNCHANGED <<sigsegv_enable, own, switched>> /\ installed' = FALSE
          /\ left' = (left \/ (init_ok /\ sigsegv_enable # installed))
          /\ \/ init_ok /\ sigsegv_enable /\ disposition' = act_old /\ spent' = FALSE
             \/ ~(init_ok /\ sigsegv_enable) /\ UNCHANGED <<disposition, spent>>
      BY <2>8 DEF ClearSig
    <3>3. ~left' => disposition' = own /\ ~spent' /\ own # "xhook"
      BY <3>1, <3>2 DEF Shield, Kept, SegvTypeOK
    <3>4. ~switched' => ~left'
      BY <3>1, <3>2 DEF Shield, Armed
    <3> QED
      BY <2>5, <2>6, <2>7, <3>2, <3>3, <3>4 DEF Shield, Kept, Armed
  <2>9. CASE ClearOk(t)
    <3>1. ~Opened
      BY <2>9 DEF Opened, ClearOk
    <3>2. UNCHANGED segv
      BY <2>9 DEF ClearOk
    <3> QED
      BY <2>5, <2>6, <2>7, <3>1, <3>2 DEF Shield, Kept, Armed, segv, hist
  <2> QED
    BY <1>4, <2>8, <2>9
<1> QED
  BY <1>1, <1>2, <1>3, <1>4 DEF Clear

\* A fault in guarded code with the flag set is caught by its own sigsetjmp; with
\* the protection on and not switched the flag is set.
LEMMA FaultShielded ==
  ASSUME ShieldInv, Up, NEW t \in Threads, Fault(t) PROVE Shield'
<1> USE DEF ShieldInv, DInv, SInv, IInv, TypeOK, PCTypeOK
<1>1. pc[t] \in GuardedPC /\ pc[t] \in ImplPC
  BY DEF Fault, ImplPC
<1>2. Opened /\ inited
  BY <1>1, ImplOpened
<1>3. flag => env = t
  BY <1>1 DEF EnvLive, RefreshOwner, ImplPC, ArmPC, GuardedPC
<1>4. UNCHANGED <<init_ok, sigsegv_enable, act_old, own, switched, installed, left>>
  BY DEF Fault, life
<1>5. /\ ~switched => flag = sigsegv_enable /\ installed = sigsegv_enable
      /\ ~left /\ disposition = "xhook" => installed /\ act_old = own
      /\ own # "xhook" /\ (~switched => ~left)
  BY <1>1, <1>2 DEF Shield, Kept, Armed, SegvTypeOK
<1>6. CASE disposition = "xhook" /\ flag
  <2>1. /\ flag' = FALSE /\ pc' = [pc EXCEPT ![t] = "imp_line"] /\ proc' = proc
        /\ \/ disposition' = "xhook" /\ spent' = spent
           \/ spent' = TRUE
    BY <1>3, <1>6 DEF Fault, Entered, LeaveGuarded, Goto, SegvTypeOK
  <2>2. \A u \in Threads : pc'[u] \notin ArmPC \cup GuardedPC
    BY <1>1, <2>1 DEF RefreshOwner, ImplPC, ArmPC, GuardedPC
  <2>3. Opened'
    BY <1>2, <1>4, <2>1, <1>1, ImplInited DEF Opened, Threads
  <2>4. FaultsContained'
    BY <2>1 DEF Up, FaultsContained
  <2> QED
    BY <1>2, <1>4, <1>5, <1>6, <2>1, <2>2, <2>3, <2>4 DEF Shield, Kept, Armed
<1>7. CASE disposition = "xhook" /\ ~flag
  <2>1. switched
    BY <1>5, <1>7 DEF Shield, Kept, SegvTypeOK
  <2>2. /\ disposition' = act_old /\ UNCHANGED <<flag, pc, spent>>
        /\ proc' = IF act_old = "xhook" THEN "looping" ELSE proc
    BY <1>7 DEF Fault, guard
  <2>3. FaultsContained'
    BY <1>4, <1>5, <1>7, <2>2 DEF Up, FaultsContained
  <2>4. Opened'
    BY <1>2, <1>4, <2>2 DEF Opened
  <2> QED
    BY <1>4, <1>5, <1>7, <2>1, <2>2, <2>3, <2>4 DEF Shield, Kept, Armed
<1>8. CASE disposition # "xhook"
  <2>1. proc' = "crashed" /\ UNCHANGED <<disposition, flag, pc, spent>>
    BY <1>8 DEF Fault, guard
  <2>2. ~switched => ~sigsegv_enable \/ spent
    BY <1>2, <1>5, <1>8 DEF Shield, Armed
  <2>3. Opened'
    BY <1>2, <1>4, <2>1 DEF Opened
  <2>4. FaultsContained'
    BY <1>4, <2>1, <2>2 DEF FaultsContained
  <2> QED
    BY <1>2, <1>4, <1>8, <2>1, <2>3, <2>4 DEF Shield, Kept, Armed
<1> QED
  BY <1>6, <1>7, <1>8

\* SIGSEGV of other code takes the handler away or leaps; a switch of the
\* protection in an open session is recorded, and outside one nothing is installed.
LEMMA OthersShielded ==
  ASSUME ShieldInv, Up,
         \/ \E t \in Callers, o \in Ops : Begin(t, o)
         \/ \E t \in Callers, on \in BOOLEAN : Protect(t, on)
         \/ AppSegv
  PROVE  Shield'
<1> USE DEF ShieldInv, DInv, SInv, IInv, TypeOK, PCTypeOK
<1>1. ASSUME NEW t \in Callers, NEW o \in Ops, Begin(t, o) PROVE Shield'
  <2>1. FirstStep(o) \in {"reg_check", "once_test", "clear_test"}
    BY <1>1 DEF Begin, FirstStep, Ops
  <2>2. pc[t] = "idle" /\ pc' = [pc EXCEPT ![t] = FirstStep(o)]
    BY <1>1 DEF Begin, MayBegin, Goto
  <2>3. UNCHANGED <<init_ok, flag, segv, proc>>
    BY <1>1 DEF Begin, life, guard
  <2> QED
    BY <2>1, <2>2, <2>3, Unshielded DEF ShieldPC, ArmPC, GuardedPC
<1>2. ASSUME NEW t \in Callers, NEW on \in BOOLEAN, Protect(t, on) PROVE Shield'
  <2>1. /\ switched' = (switched \/ inited)
        /\ UNCHANGED <<init_ok, flag, act_old, disposition, own, spent, installed, left, proc,
                       pc>>
    BY <1>2 DEF Protect, life, guard
  <2>2. FaultsContained'
    BY <2>1 DEF Up, FaultsContained
  <2>3. Opened' <=> Opened
    BY <2>1 DEF Opened
  <2>4. Kept'
    BY <2>1 DEF Shield, Kept
  <2>5. CASE inited
    BY <2>1, <2>2, <2>3, <2>4, <2>5 DEF Shield, Armed
  <2>6. CASE ~inited
    <3>1. (\A u \in Threads : pc[u] \notin ArmPC \cup GuardedPC) /\ ~Opened
      BY <2>6, ImplInited DEF Opened, Flags, ImplPC
    <3> QED
      BY <2>1, <2>2, <2>3, <2>4, <2>6, <3>1 DEF Shield, Armed
  <2> QED
    BY <2>5, <2>6
<1>3. CASE AppSegv
  <2>1. UNCHANGED <<init_ok, flag, sigsegv_enable, act_old, own, switched, installed, left, pc>>
    BY <1>3 DEF AppSegv, life, guard
  <2>2. own # "xhook" /\ (~left => act_old = own /\ installed)
    BY <1>3 DEF AppSegv, Shield, Kept, SegvTypeOK
  <2>3. \/ proc' = "stolen" /\ UNCHANGED <<disposition, spent>>
        \/ /\ spent' = TRUE /\ disposition' = act_old
           /\ proc' = proc \/ (act_old = "xhook" /\ proc' = "looping")
    BY <1>3 DEF AppSegv
  <2>4. FaultsContained'
    BY <2>1, <2>2, <2>3 DEF Up, FaultsContained
  <2>5. Opened' <=> Opened
    BY <2>1 DEF Opened
  <2>6. Kept'
    BY <2>1, <2>2, <2>3 DEF Shield, Kept
  <2>7. Armed'
    BY <2>1, <2>3, <2>5 DEF Shield, Armed
  <2> QED
    BY <2>1, <2>4, <2>5, <2>6, <2>7 DEF Shield
<1> QED
  BY <1>1, <1>2, <1>3

\* ShieldInv is inductive.
LEMMA NextShieldInv == ASSUME Discipline, ShieldInv, [Next]_vars PROVE ShieldInv'
<1> SUFFICES Shield'
  BY NextDInv DEF ShieldInv
<1>1. CASE UNCHANGED vars \/ Rest
  <2>1. UNCHANGED <<init_ok, flag, segv, proc, pc>>
    BY <1>1 DEF Rest, vars, life, guard
  <2> QED
    BY <2>1, Unshielded
<1>2. ASSUME Up, NEW t \in Callers, CallerStep(t) PROVE Shield'
  BY <1>2, RegisterShielded, RefreshShielded, RefreshImplShielded, ClearShielded
     DEF CallerStep, Threads
<1>3. ASSUME Up, NEW w \in Workers, WorkerStep(w) \/ SpuriousWakeup(w) PROVE Shield'
  BY <1>3, RefreshThreadShielded, RefreshImplShielded DEF WorkerStep, Threads
<1> QED
  BY <1>1, <1>2, <1>3, FaultShielded, OthersShielded DEF Next

\* ... and holds in every reachable state.
LEMMA ShieldInvAlways == ASSUME Discipline PROVE Spec => []ShieldInv
<1>1. Init => ShieldInv
  <2> SUFFICES ASSUME Init PROVE Shield
    BY InitDInv DEF ShieldInv
  <2>1. \A t \in Threads : pc[t] \in {"idle", "w_none"}
    BY DEF Init
  <2>2. ~Opened
    BY <2>1 DEF Init, Opened, Threads
  <2>3. disposition = own /\ disposition # "xhook" /\ ~spent /\ proc = "up"
        /\ ~installed /\ ~left
    BY ModeAssumption DEF Init, SegvInit
  <2> QED
    BY <2>1, <2>2, <2>3 DEF Shield, Kept, Armed, FaultsContained, ArmPC, GuardedPC
<1>2. ShieldInv /\ [Next]_vars => ShieldInv'
  BY NextShieldInv
<1> QED
  BY <1>1, <1>2, PTL DEF Spec

\* No fault in the code a refresh runs jumps to a foreign frame; none stops the
\* process but with the protection off, the handler taken away or the protection
\* switched in an open session, and none loops unless a clear left the handler.
THEOREM FaultsAreContained == ASSUME Discipline PROVE Spec => []FaultsContained
<1>1. ShieldInv => FaultsContained
  BY DEF ShieldInv, Shield
<1> QED
  BY <1>1, ShieldInvAlways, PTL

\* While the flag is set the handler is xhook's, taken away or switched apart.
THEOREM GuardIsArmed == ASSUME Discipline PROVE Spec => []GuardArmed
<1>1. ShieldInv => GuardArmed
  <2> SUFFICES ASSUME ShieldInv, flag, ~spent, ~switched PROVE disposition = "xhook"
    BY DEF GuardArmed
  <2>1. PICK t \in Threads : pc[t] \in ArmPC \cup GuardedPC
    BY DEF ShieldInv, DInv, SInv, IInv, EnvLive
  <2>2. Opened
    BY <2>1, ImplOpened DEF ShieldInv, ImplPC
  <2>3. sigsegv_enable
    BY <2>1 DEF ShieldInv, Shield, Armed
  <2> QED
    BY <2>2, <2>3 DEF ShieldInv, Shield, Armed
<1> QED
  BY <1>1, ShieldInvAlways, PTL

\* What clear will put back, or has put back, is the application's own handler,
\* over any number of sessions, until a clear meets the protection other than the
\* refresh that opened its session did.
THEOREM HandlerComesBack == ASSUME Discipline PROVE Spec => []HandlerRestorable
<1>1. ShieldInv => HandlerRestorable
  BY DEF ShieldInv, Shield, Kept, HandlerRestorable
<1> QED
  BY <1>1, ShieldInvAlways, PTL

\* When clear returns the session is over: but for the request flag, everything a
\* refresh set up is taken down, however many refreshes ran before.
THEOREM ClearsAll == ASSUME Discipline PROVE Spec => ClearEndsSession
<1> DEFINE Cleared ==
      \A t \in Callers : pc[t] = "clear_free" /\ pc'[t] = "idle" =>
        /\ ~inited' /\ ~init_ok' /\ ~async_inited' /\ ~async_init_ok'
        /\ ~thread_running' /\ \A w \in Workers : pc'[w] = "w_none"
        /\ core_mutex' = NoThread /\ refresh_mutex' = NoThread
        /\ ~flag' /\ (~left' => disposition' = own')
        /\ info' = {} /\ map_info' = {}
<1>1. ShieldInv /\ [Next]_vars => Cleared
  <2> SUFFICES ASSUME ShieldInv, [Next]_vars, NEW t \in Callers,
                      pc[t] = "clear_free", pc'[t] = "idle"
               PROVE  /\ ~inited' /\ ~init_ok' /\ ~async_inited' /\ ~async_init_ok'
                      /\ ~thread_running' /\ \A w \in Workers : pc'[w] = "w_none"
                      /\ core_mutex' = NoThread /\ refresh_mutex' = NoThread
                      /\ ~flag' /\ (~left' => disposition' = own')
                      /\ info' = {} /\ map_info' = {}
    OBVIOUS
  <2>1. ClearFree(t)
    BY ClearReturns DEF ShieldInv
  <2>2. /\ UNCHANGED <<life, async, guard, segv>> /\ info' = {} /\ map_info' = {}
        /\ core_mutex' = NoThread /\ refresh_mutex' = NoThread
        /\ pc' = [pc EXCEPT ![t] = "idle"]
    BY <2>1 DEF ClearFree, RefreshFree, Free, Return, Goto
  <2>3. \A w \in Workers : pc'[w] = pc[w]
    BY <2>2, ThreadsAssumption DEF ShieldInv, DInv, SInv, IInv, TypeOK, PCTypeOK, Threads
  <2>4. ~Opened
    <3>1. \A u \in Callers : pc[u] # "once_ok"
      BY ClearAlone DEF ShieldInv, DInv, SInv, CallAgrees
    <3> QED
      BY <3>1, ClearedState DEF ShieldInv, Opened
  <2>5. ~left => disposition = own
    BY <2>4 DEF ShieldInv, Shield, Kept
  <2> QED
    BY <2>2, <2>3, <2>5, ClearedState DEF ShieldInv, life, async, guard, segv, hist
<1> QED
  BY <1>1, ShieldInvAlways, PTL DEF Spec, ClearEndsSession
=============================================================================
