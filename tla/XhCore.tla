------------------------------- MODULE XhCore -------------------------------
(***************************************************************************)
(* The concurrent API of src/cpp/xhook/xh_core.c: register, ignore,        *)
(* refresh (sync and async), clear and enable_sigsegv_protection, the      *)
(* asynchronous refresh thread, the two mutexes, the condition variable    *)
(* and the process-wide SIGSEGV protection.                                *)
(*                                                                         *)
(* A step is one unlocked access to shared state, or one critical section  *)
(* whose effect nobody else can see halfway.  What a refresh does to one   *)
(* line of /proc/self/maps is modelled in full by XhRefresh; here it is    *)
(* the visits to guarded code and the map items it leaves.                 *)
(***************************************************************************)
EXTENDS Naturals, FiniteSets

CONSTANTS
  Callers,        \* application threads that call the API
  Workers,        \* identities for the threads pthread_create can return
  Infos,          \* the hook_infos and ignore_infos the application submits
  HookInfos,      \* those of Infos that are hook_infos
  Libs,           \* the mapped files a refresh may find
  KeepApart,      \* pairs {o, p} of calls the application never overlaps
  OwnHandlers,    \* what the application may have installed for SIGSEGV
  AppFaults,      \* does application code raise SIGSEGV of its own?
  StackGarbage,   \* values the uninitialised SA_RESETHAND bit of sa_flags takes
  MaxCalls,       \* bound: the number of API calls of a behaviour
  NoThread, NoLib

Threads == Callers \cup Workers
Ops     == {"register", "sync", "async", "clear", "protect"}

ASSUME ThreadsAssumption ==
  /\ Callers \cap Workers = {}
  /\ NoThread \notin Threads
ASSUME DataAssumption == Infos # {} /\ HookInfos \subseteq Infos /\ NoLib \notin Libs
ASSUME ModeAssumption ==
  /\ AppFaults \in BOOLEAN /\ OwnHandlers \subseteq {"app", "default"}
  /\ StackGarbage \subseteq BOOLEAN /\ StackGarbage # {}
  /\ MaxCalls \in Nat

VARIABLES
  inited, init_ok, async_inited, async_init_ok,  \* the four volatile flags
  thread_running, thread_do, refresh_tid,        \* the refresh thread's control
  core_mutex, refresh_mutex,                     \* the owner, or NoThread
  info, map_info,                                \* the two queues; the map tree
  refreshed, scan, cur,                          \* locals of refresh_impl
  seen,            \* seen[l]: the queues the last hook of l walked
  sigsegv_enable, act_old, flag, env,            \* the statics of lines 87-90
  disposition,     \* whose SIGSEGV handler the kernel runs
  resethand,       \* was the handler installed with SA_RESETHAND?
  own,             \* history: the handler the application had at the start
  spent,           \* history: has the handler installed been taken away, not by clear?
  switched,        \* history: was the protection changed while a session was open?
  installed,       \* history: did the refresh that opened the session install it?
  left,            \* history: has a clear found the protection other than that refresh?
  proc,            \* "up", or how the process stopped making sense
  pc, op, ret,     \* where each thread is, its call, the last call's result
  calls            \* API calls begun

life  == <<inited, init_ok, async_inited, async_init_ok>>
async == <<thread_running, thread_do, refresh_tid>>
locks == <<core_mutex, refresh_mutex>>
data  == <<info, map_info>>
local == <<refreshed, scan, cur, seen>>
guard == <<flag, env>>
hist  == <<own, spent, switched, installed, left>>
segv  == <<sigsegv_enable, act_old, disposition, resethand, hist>>
call  == <<op, ret, calls>>
vars  == <<life, async, locks, data, local, guard, segv, proc, pc, call>>

(***************************************************************************)
(* Labels.                                                                 *)
(***************************************************************************)
ArmPC      == {"check_arm", "hook_arm"}           \* between flag = 1 and sigsetjmp
GuardedPC  == {"imp_check", "imp_hook"}           \* between sigsetjmp and flag = 0
ImplPC     == ArmPC \cup GuardedPC \cup {"imp_open", "imp_line", "imp_find"}
HoldCorePC == {"once_sig", "once_ok", "async_create", "async_ok", "clear_free"}
CallerPC   == {"idle", "reg_check", "reg_insert", "once_test", "once_lock",
               "refresh_ok", "async_test", "async_lock", "refresh_async_ok",
               "request", "sync_lock", "clear_test", "clear_stop", "clear_join",
               "clear_async", "clear_sig", "clear_ok", "clear_inited", "clear_lock"}
              \cup HoldCorePC \cup ImplPC
WorkerPC   == {"w_none", "w_while", "w_lock", "w_wait", "w_refresh", "w_dead"}
              \cup ImplPC

Dispositions == {"app", "default", "xhook"}

PCTypeOK ==
  /\ pc \in [Threads -> CallerPC \cup WorkerPC]
  /\ \A t \in Callers : pc[t] \in CallerPC
  /\ \A w \in Workers : pc[w] \in WorkerPC

CallTypeOK ==
  /\ op \in [Callers -> Ops \cup {"none"}]
  /\ ret \in [Callers -> {"none", "ok", "failed"}]
  /\ calls \in 0..MaxCalls

SharedTypeOK ==
  /\ inited \in BOOLEAN /\ init_ok \in BOOLEAN
  /\ async_inited \in BOOLEAN /\ async_init_ok \in BOOLEAN
  /\ thread_running \in BOOLEAN /\ thread_do \in BOOLEAN
  /\ refresh_tid \in Workers \cup {NoThread}
  /\ core_mutex \in Callers \cup {NoThread}
  /\ refresh_mutex \in Threads \cup {NoThread}
  /\ info \subseteq Infos /\ map_info \subseteq Libs
  /\ refreshed \subseteq Libs /\ scan \subseteq Libs /\ cur \in Libs \cup {NoLib}
  /\ seen \in [Libs -> SUBSET Infos]

SegvTypeOK ==
  /\ sigsegv_enable \in BOOLEAN /\ flag \in BOOLEAN /\ resethand \in BOOLEAN
  /\ act_old \in Dispositions /\ disposition \in Dispositions
  /\ env \in Threads \cup {NoThread}
  /\ own \in Dispositions \ {"xhook"} /\ spent \in BOOLEAN /\ switched \in BOOLEAN
  /\ installed \in BOOLEAN /\ left \in BOOLEAN
  /\ proc \in {"up", "crashed", "looping", "wild", "stolen"}

TypeOK == PCTypeOK /\ CallTypeOK /\ SharedTypeOK /\ SegvTypeOK

\* The statics of the protection; act_old is all zero, which is SIG_DFL.
SegvInit ==
  /\ sigsegv_enable = TRUE /\ act_old = "default" /\ flag = FALSE /\ env = NoThread
  /\ disposition \in OwnHandlers /\ resethand = FALSE
  /\ own = disposition /\ spent = FALSE /\ switched = FALSE
  /\ installed = FALSE /\ left = FALSE

\* The other statics start at zero.
Init ==
  /\ inited = FALSE /\ init_ok = FALSE
  /\ async_inited = FALSE /\ async_init_ok = FALSE
  /\ thread_running = FALSE /\ thread_do = FALSE /\ refresh_tid = NoThread
  /\ core_mutex = NoThread /\ refresh_mutex = NoThread
  /\ info = {} /\ map_info = {}
  /\ refreshed = {} /\ scan = {} /\ cur = NoLib /\ seen = [l \in Libs |-> {}]
  /\ SegvInit /\ proc = "up"
  /\ pc = [t \in Threads |-> IF t \in Callers THEN "idle" ELSE "w_none"]
  /\ op = [t \in Callers |-> "none"] /\ ret = [t \in Callers |-> "none"]
  /\ calls = 0

-----------------------------------------------------------------------------
(***************************************************************************)
(* Control helpers.                                                        *)
(***************************************************************************)
Goto(t, l) == pc' = [pc EXCEPT ![t] = l]

Returned(t, r) ==
  /\ op'  = [op EXCEPT ![t] = "none"]
  /\ ret' = [ret EXCEPT ![t] = r]
  /\ UNCHANGED calls

Return(t, r) == Goto(t, "idle") /\ Returned(t, r)

Waiting == {w \in Workers : pc[w] = "w_wait"}

\* pthread_cond_signal wakes one waiter, if there is one; t moves on to l.
SignalAndGoto(t, l) ==
  \/ Waiting = {} /\ Goto(t, l)
  \/ \E w \in Waiting : pc' = [pc EXCEPT ![t] = l, ![w] = "w_lock"]

Free(mutex) == mutex = NoThread
CoreFree    == Free(core_mutex)
RefreshFree == Free(refresh_mutex)

FirstStep(o) == CASE o = "register" -> "reg_check"
                  [] o \in {"sync", "async"} -> "once_test"
                  [] o = "clear" -> "clear_test"

MayBegin(t, o) ==
  /\ pc[t] = "idle" /\ calls < MaxCalls
  /\ \A u \in Callers \ {t} : pc[u] # "idle" => {o, op[u]} \notin KeepApart

Begin(t, o) ==
  /\ o # "protect" /\ MayBegin(t, o)
  /\ Goto(t, FirstStep(o))
  /\ op' = [op EXCEPT ![t] = o] /\ ret' = [ret EXCEPT ![t] = "none"]
  /\ calls' = calls + 1
  /\ UNCHANGED <<life, async, locks, data, local, guard, segv, proc>>

\* xh_core_enable_sigsegv_protection: one unlocked store.
Protect(t, on) ==
  /\ MayBegin(t, "protect") /\ on # sigsegv_enable
  /\ sigsegv_enable' = on /\ switched' = (switched \/ inited)
  /\ calls' = calls + 1
  /\ UNCHANGED <<life, async, locks, data, local, guard, act_old, disposition,
                 resethand, own, spent, installed, left, proc, pc, op, ret>>

-----------------------------------------------------------------------------
(***************************************************************************)
(* xh_core_register and xh_core_ignore.                                    *)
(***************************************************************************)
\* Mutant: the test of inited is gone.
RegCheckUntested(t) ==
  /\ pc[t] = "reg_check" /\ Goto(t, "reg_insert")
  /\ UNCHANGED <<life, async, locks, data, local, guard, segv, proc, call>>

\* The unlocked test of inited, then regcomp, malloc and strdup, which may fail.
RegCheck(t) ==
  /\ pc[t] = "reg_check"
  /\ \/ ~inited /\ Goto(t, "reg_insert") /\ UNCHANGED call
     \/ Return(t, "failed")
  /\ UNCHANGED <<life, async, locks, data, local, guard, segv, proc>>

RegInsert(t) ==
  /\ pc[t] = "reg_insert" /\ CoreFree
  /\ \E i \in Infos : info' = info \cup {i}
  /\ Return(t, "ok")
  /\ UNCHANGED <<life, async, locks, map_info, local, guard, segv, proc>>

-----------------------------------------------------------------------------
(***************************************************************************)
(* xh_core_refresh: the two once-initialisers, then the request.           *)
(***************************************************************************)
OnceTest(t) ==
  /\ pc[t] = "once_test"
  /\ Goto(t, IF inited THEN "refresh_ok" ELSE "once_lock")
  /\ UNCHANGED <<life, async, locks, data, local, guard, segv, proc, call>>

OnceLock(t) ==
  /\ pc[t] = "once_lock" /\ CoreFree
  /\ \/ inited /\ Goto(t, "refresh_ok") /\ UNCHANGED <<inited, core_mutex>>
     \/ ~inited /\ inited' = TRUE /\ core_mutex' = t /\ Goto(t, "once_sig")
  /\ UNCHANGED <<init_ok, async_inited, async_init_ok, async, refresh_mutex, data,
                 local, guard, segv, proc, call>>

\* xh_core_add_sigsegv_handler.  act is an uninitialised local of which only
\* sa_mask and sa_handler are written: its SA_RESETHAND bit is arbitrary.
AddSigsegvHandler ==
  /\ act_old' = disposition /\ disposition' = "xhook"
  /\ resethand' \in StackGarbage
  /\ installed' = TRUE /\ spent' = FALSE
  /\ UNCHANGED <<sigsegv_enable, own, switched, left>>

OnceSig(t) ==
  /\ pc[t] = "once_sig"
  /\ \/ ~sigsegv_enable /\ Goto(t, "once_ok") /\ UNCHANGED <<segv, core_mutex>>
     \/ sigsegv_enable /\ AddSigsegvHandler /\ Goto(t, "once_ok") /\ UNCHANGED core_mutex
     \/ \* sigaction fails: goto end
        sigsegv_enable /\ core_mutex' = NoThread /\ Goto(t, "refresh_ok") /\ UNCHANGED segv
  /\ UNCHANGED <<life, async, refresh_mutex, data, local, guard, proc, call>>

OnceOk(t) ==
  /\ pc[t] = "once_ok"
  /\ init_ok' = TRUE /\ core_mutex' = NoThread /\ Goto(t, "refresh_ok")
  /\ UNCHANGED <<inited, async_inited, async_init_ok, async, refresh_mutex, data,
                 local, guard, segv, proc, call>>

RefreshOk(t) ==
  /\ pc[t] = "refresh_ok"
  /\ \/ ~init_ok /\ Return(t, "failed")
     \/ init_ok /\ Goto(t, IF op[t] = "async" THEN "async_test" ELSE "sync_lock")
                /\ UNCHANGED call
  /\ UNCHANGED <<life, async, locks, data, local, guard, segv, proc>>

AsyncTest(t) ==
  /\ pc[t] = "async_test"
  /\ Goto(t, IF async_inited THEN "refresh_async_ok" ELSE "async_lock")
  /\ UNCHANGED <<life, async, locks, data, local, guard, segv, proc, call>>

AsyncLock(t) ==
  /\ pc[t] = "async_lock" /\ CoreFree
  /\ \/ /\ async_inited /\ Goto(t, "refresh_async_ok")
        /\ UNCHANGED <<async_inited, core_mutex, thread_running>>
     \/ /\ ~async_inited /\ async_inited' = TRUE /\ core_mutex' = t
        /\ thread_running' = TRUE /\ Goto(t, "async_create")
  /\ UNCHANGED <<inited, init_ok, async_init_ok, thread_do, refresh_tid,
                 refresh_mutex, data, local, guard, segv, proc, call>>

AsyncCreate(t) ==
  /\ pc[t] = "async_create"
  /\ \/ \E w \in Workers :
          /\ pc[w] = "w_none"
          /\ pc' = [pc EXCEPT ![t] = "async_ok", ![w] = "w_while"]
          /\ refresh_tid' = w
          /\ UNCHANGED <<thread_running, core_mutex>>
     \/ \* pthread_create fails
        /\ thread_running' = FALSE /\ core_mutex' = NoThread
        /\ Goto(t, "refresh_async_ok") /\ UNCHANGED refresh_tid
  /\ UNCHANGED <<life, thread_do, refresh_mutex, data, local, guard, segv, proc, call>>

AsyncOk(t) ==
  /\ pc[t] = "async_ok"
  /\ async_init_ok' = TRUE /\ core_mutex' = NoThread /\ Goto(t, "refresh_async_ok")
  /\ UNCHANGED <<inited, init_ok, async_inited, async, refresh_mutex, data, local,
                 guard, segv, proc, call>>

RefreshAsyncOk(t) ==
  /\ pc[t] = "refresh_async_ok"
  /\ \/ ~async_init_ok /\ Return(t, "failed")
     \/ async_init_ok /\ Goto(t, "request") /\ UNCHANGED call
  /\ UNCHANGED <<life, async, locks, data, local, guard, segv, proc>>

\* Mutant: the request is not signalled.
RequestUnsignalled(t) ==
  /\ pc[t] = "request" /\ CoreFree
  /\ thread_do' = TRUE /\ Return(t, "ok")
  /\ UNCHANGED <<life, thread_running, refresh_tid, locks, data, local, guard, segv, proc>>

Request(t) ==
  /\ pc[t] = "request" /\ CoreFree
  /\ thread_do' = TRUE /\ SignalAndGoto(t, "idle") /\ Returned(t, "ok")
  /\ UNCHANGED <<life, thread_running, refresh_tid, locks, data, local, guard, segv, proc>>

SyncLock(t) ==
  /\ pc[t] = "sync_lock" /\ RefreshFree
  /\ refresh_mutex' = t /\ Goto(t, "imp_open")
  /\ UNCHANGED <<life, async, core_mutex, data, local, guard, segv, proc, call>>

-----------------------------------------------------------------------------
(***************************************************************************)
(* xh_core_refresh_impl, run by a caller (sync) or by the refresh thread.  *)
(***************************************************************************)
\* unlock refresh_mutex; a caller returns 0, the refresh thread loops.
LeaveImpl(t) ==
  /\ refresh_mutex' = NoThread
  /\ \/ t \in Callers /\ Return(t, "ok")
     \/ t \in Workers /\ Goto(t, "w_while") /\ UNCHANGED call

ImpOpen(t) ==
  /\ pc[t] = "imp_open"
  /\ \/ \* the files mapped now
        /\ scan' \in SUBSET Libs /\ refreshed' = {} /\ Goto(t, "imp_line")
        /\ UNCHANGED <<refresh_mutex, call>>
     \/ \* fopen fails: the old map_info is kept
        LeaveImpl(t) /\ UNCHANGED <<scan, refreshed>>
  /\ UNCHANGED <<life, async, core_mutex, data, cur, seen, guard, segv, proc>>

\* With the protection on, sigsegv_flag = 1 and then sigsetjmp; off, neither.
EnterGuarded(t, arm, body) ==
  /\ UNCHANGED env
  /\ \/ sigsegv_enable /\ flag' = TRUE /\ Goto(t, arm)
     \/ ~sigsegv_enable /\ Goto(t, body) /\ UNCHANGED flag

\* sigsetjmp.
ImpArm(t) ==
  /\ pc[t] \in ArmPC
  /\ env' = t /\ Goto(t, IF pc[t] = "check_arm" THEN "imp_check" ELSE "imp_hook")
  /\ UNCHANGED <<life, async, locks, data, local, flag, segv, proc, call>>

\* Mutant: sigsegv_flag is left set.
LeaveGuardedArmed == UNCHANGED guard

LeaveGuarded == flag' = FALSE /\ UNCHANGED env

\* Mutant: the search key is not set to the line's pathname.
ImpLineStaleKey(t) ==
  /\ pc[t] = "imp_line"
  /\ \E l \in scan :
       /\ scan' = scan \ {l} /\ info \cap HookInfos # {}
       /\ EnterGuarded(t, "check_arm", "imp_check") /\ UNCHANGED cur
  /\ UNCHANGED <<life, async, locks, data, refreshed, seen, segv, proc, call>>

\* One line of maps: no registered hook matches it, or its header is checked.
ImpLine(t) ==
  /\ pc[t] = "imp_line"
  /\ \E l \in scan :
       /\ scan' = scan \ {l}
       /\ \/ UNCHANGED <<cur, guard, pc>>
          \/ /\ info \cap HookInfos # {}
             /\ cur' = l /\ EnterGuarded(t, "check_arm", "imp_check")
  /\ UNCHANGED <<life, async, locks, data, refreshed, seen, segv, proc, call>>

ImpCheck(t) ==
  /\ pc[t] = "imp_check"
  /\ LeaveGuarded
  /\ \/ Goto(t, "imp_find")
     \/ Goto(t, "imp_line")   \* not an ELF header
  /\ UNCHANGED <<life, async, locks, data, local, segv, proc, call>>

\* Mutant: xh_core_hook does not set sigsegv_flag.
HookCurUnguarded(t) ==
  /\ seen' = [seen EXCEPT ![cur] = info]
  /\ UNCHANGED guard /\ Goto(t, "imp_hook")

HookCur(t) ==
  /\ seen' = [seen EXCEPT ![cur] = info]
  /\ EnterGuarded(t, "hook_arm", "imp_hook")

\* A known item moves to the new tree and is hooked again only if its base
\* address changed; an unknown one is created and hooked.
ImpFind(t) ==
  /\ pc[t] = "imp_find"
  /\ \/ /\ cur \in map_info
        /\ map_info' = map_info \ {cur} /\ refreshed' = refreshed \cup {cur}
        /\ \/ HookCur(t)
           \/ Goto(t, "imp_line") /\ UNCHANGED <<seen, guard>>
     \/ /\ cur \notin map_info
        /\ refreshed' = refreshed \cup {cur} /\ HookCur(t)
        /\ UNCHANGED map_info
     \/ \* malloc or strdup fails
        /\ cur \notin map_info /\ Goto(t, "imp_line")
        /\ UNCHANGED <<map_info, refreshed, seen, guard>>
  /\ UNCHANGED <<life, async, locks, info, scan, cur, segv, proc, call>>

ImpHook(t) ==
  /\ pc[t] = "imp_hook"
  /\ LeaveGuarded /\ Goto(t, "imp_line")
  /\ UNCHANGED <<life, async, locks, data, local, segv, proc, call>>

\* End of file: what is left of the old tree is freed and the new one saved.
ImpDone(t) ==
  /\ pc[t] = "imp_line" /\ scan = {}
  /\ map_info' = refreshed /\ LeaveImpl(t)
  /\ UNCHANGED <<life, async, core_mutex, info, local, guard, segv, proc>>

-----------------------------------------------------------------------------
(***************************************************************************)
(* xh_core_refresh_thread_func.                                            *)
(***************************************************************************)
WWhile(w) ==
  /\ pc[w] = "w_while"
  /\ Goto(w, IF thread_running THEN "w_lock" ELSE "w_dead")
  /\ UNCHANGED <<life, async, locks, data, local, guard, segv, proc, call>>

\* Lock, or wake up with the lock, and test the loop condition.
WLock(w) ==
  /\ pc[w] = "w_lock" /\ CoreFree
  /\ \/ ~thread_running /\ Goto(w, "w_dead") /\ UNCHANGED thread_do
     \/ thread_running /\ ~thread_do /\ Goto(w, "w_wait") /\ UNCHANGED thread_do
     \/ thread_running /\ thread_do /\ thread_do' = FALSE /\ Goto(w, "w_refresh")
  /\ UNCHANGED <<life, thread_running, refresh_tid, locks, data, local, guard, segv,
                 proc, call>>

\* Mutant: the refresh thread does not wait for refresh_mutex.
WRefreshUnlocked(w) ==
  /\ pc[w] = "w_refresh" /\ Goto(w, "imp_open")
  /\ UNCHANGED <<life, async, locks, data, local, guard, segv, proc, call>>

WRefresh(w) ==
  /\ pc[w] = "w_refresh" /\ RefreshFree
  /\ refresh_mutex' = w /\ Goto(w, "imp_open")
  /\ UNCHANGED <<life, async, core_mutex, data, local, guard, segv, proc, call>>

\* pthread_cond_wait may return without a signal.
SpuriousWakeup(w) ==
  /\ pc[w] = "w_wait" /\ Goto(w, "w_lock")
  /\ UNCHANGED <<life, async, locks, data, local, guard, segv, proc, call>>

-----------------------------------------------------------------------------
(***************************************************************************)
(* xh_core_clear.                                                          *)
(***************************************************************************)
ClearTest(t) ==
  /\ pc[t] = "clear_test"
  /\ Goto(t, IF async_init_ok THEN "clear_stop" ELSE "clear_async")
  /\ UNCHANGED <<life, async, locks, data, local, guard, segv, proc, call>>

\* Mutant: the refresh thread is stopped and not joined.
ClearStopNoJoin(t) ==
  /\ pc[t] = "clear_stop" /\ CoreFree
  /\ thread_running' = FALSE /\ SignalAndGoto(t, "clear_async")
  /\ UNCHANGED <<life, thread_do, refresh_tid, locks, data, local, guard, segv,
                 proc, call>>

\* Mutant: the refresh thread is not woken.
ClearStopUnsignalled(t) ==
  /\ pc[t] = "clear_stop" /\ CoreFree
  /\ thread_running' = FALSE /\ Goto(t, "clear_join")
  /\ UNCHANGED <<life, thread_do, refresh_tid, locks, data, local, guard, segv,
                 proc, call>>

ClearStop(t) ==
  /\ pc[t] = "clear_stop" /\ CoreFree
  /\ thread_running' = FALSE /\ SignalAndGoto(t, "clear_join")
  /\ UNCHANGED <<life, thread_do, refresh_tid, locks, data, local, guard, segv,
                 proc, call>>

\* pthread_join waits for the thread refresh_tid names; joining a thread that
\* was joined already is undefined: it returns, or the libc aborts.
ClearJoin(t) ==
  /\ pc[t] = "clear_join"
  /\ \/ /\ pc[refresh_tid] = "w_dead"
        /\ pc' = [pc EXCEPT ![t] = "clear_async", ![refresh_tid] = "w_none"]
        /\ async_init_ok' = FALSE /\ UNCHANGED proc
     \/ /\ pc[refresh_tid] = "w_none"
        /\ Goto(t, "clear_async") /\ async_init_ok' = FALSE /\ UNCHANGED proc
     \/ /\ pc[refresh_tid] = "w_none"
        /\ proc' = "crashed" /\ UNCHANGED <<pc, async_init_ok>>
  /\ UNCHANGED <<inited, init_ok, async_inited, async, locks, data, local, guard,
                 segv, call>>

\* Mutant: async_inited is not reset.
ClearAsyncKept(t) ==
  /\ pc[t] = "clear_async" /\ Goto(t, "clear_sig")
  /\ UNCHANGED <<life, async, locks, data, local, guard, segv, proc, call>>

ClearAsync(t) ==
  /\ pc[t] = "clear_async"
  /\ async_inited' = FALSE /\ Goto(t, "clear_sig")
  /\ UNCHANGED <<inited, init_ok, async_init_ok, async, locks, data, local, guard,
                 segv, proc, call>>

\* Mutant: the signal handler is not unregistered.
ClearSigKept(t) ==
  /\ pc[t] = "clear_sig"
  /\ Goto(t, IF init_ok THEN "clear_ok" ELSE "clear_inited")
  /\ UNCHANGED <<life, async, locks, data, local, guard, segv, proc, call>>

\* xh_core_del_sigsegv_handler, called only when init_ok.
ClearSig(t) ==
  /\ pc[t] = "clear_sig"
  /\ Goto(t, IF init_ok THEN "clear_ok" ELSE "clear_inited")
  /\ \/ init_ok /\ sigsegv_enable /\ disposition' = act_old /\ spent' = FALSE
     \/ ~(init_ok /\ sigsegv_enable) /\ UNCHANGED <<disposition, spent>>
  /\ left' = (left \/ (init_ok /\ sigsegv_enable # installed)) /\ installed' = FALSE
  /\ UNCHANGED <<life, async, locks, data, local, guard, sigsegv_enable, act_old,
                 resethand, own, switched, proc, call>>

ClearOk(t) ==
  /\ pc[t] = "clear_ok"
  /\ init_ok' = FALSE /\ Goto(t, "clear_inited")
  /\ UNCHANGED <<inited, async_inited, async_init_ok, async, locks, data, local,
                 guard, segv, proc, call>>

ClearInited(t) ==
  /\ pc[t] = "clear_inited"
  /\ inited' = FALSE /\ Goto(t, "clear_lock")
  /\ UNCHANGED <<init_ok, async_inited, async_init_ok, async, locks, data, local,
                 guard, segv, proc, call>>

ClearLock(t) ==
  /\ pc[t] = "clear_lock" /\ CoreFree
  /\ core_mutex' = t /\ Goto(t, "clear_free")
  /\ UNCHANGED <<life, async, refresh_mutex, data, local, guard, segv, proc, call>>

\* Mutant: clear does not wait for a running refresh.
ClearFreeUnlocked(t) ==
  /\ pc[t] = "clear_free"
  /\ map_info' = {} /\ info' = {}
  /\ core_mutex' = NoThread /\ Return(t, "ok")
  /\ UNCHANGED <<life, async, refresh_mutex, local, guard, segv, proc>>

\* With both mutexes: free the map items and both queues.
ClearFree(t) ==
  /\ pc[t] = "clear_free" /\ RefreshFree
  /\ map_info' = {} /\ info' = {}
  /\ core_mutex' = NoThread /\ Return(t, "ok")
  /\ UNCHANGED <<life, async, refresh_mutex, local, guard, segv, proc>>

-----------------------------------------------------------------------------
(***************************************************************************)
(* SIGSEGV: xh_core_sigsegv_handler, in the thread that faults.            *)
(***************************************************************************)
\* The disposition while the handler runs.
Entered == IF resethand THEN "default" ELSE disposition

\* The guarded code of t touches a page that is not there.
Fault(t) ==
  /\ pc[t] \in GuardedPC
  /\ \/ \* siglongjmp back to the sigsetjmp of t
        /\ disposition = "xhook" /\ flag /\ env = t
        /\ disposition' = Entered /\ LeaveGuarded /\ Goto(t, "imp_line")
        /\ spent' = (spent \/ resethand) /\ UNCHANGED proc
     \/ \* siglongjmp to another thread's stack
        /\ disposition = "xhook" /\ flag /\ env # t
        /\ proc' = "wild" /\ UNCHANGED <<disposition, guard, pc, spent>>
     \/ \* the old handler is put back and the access faults again
        /\ disposition = "xhook" /\ ~flag
        /\ disposition' = act_old
        /\ proc' = IF act_old = "xhook" THEN "looping" ELSE proc
        /\ UNCHANGED <<guard, pc, spent>>
     \/ /\ disposition # "xhook"
        /\ proc' = "crashed" /\ UNCHANGED <<disposition, guard, pc, spent>>
  /\ UNCHANGED <<life, async, locks, data, local, sigsegv_enable, act_old, resethand,
                 own, switched, installed, left, call>>

\* Other code faults while the handler installed is xhook's: in the guarded
\* region of a refresh it leaps into the refresh's frame, or into the frame an
\* earlier one left behind in sigsegv_env.  An application without a handler of
\* its own ends, as it would without xhook: no step.
AppSegv ==
  /\ AppFaults /\ disposition = "xhook"
  /\ \/ flag /\ proc' = "stolen" /\ UNCHANGED <<disposition, spent>>
     \/ /\ ~flag /\ act_old # "default" /\ disposition' = act_old /\ spent' = TRUE
        /\ proc' = IF act_old = "xhook" THEN "looping" ELSE proc
  /\ UNCHANGED <<life, async, locks, data, local, guard, sigsegv_enable, act_old,
                 resethand, own, switched, installed, left, pc, call>>

-----------------------------------------------------------------------------
Register(t) == RegCheck(t) \/ RegInsert(t)
Refresh(t)  == \/ OnceTest(t) \/ OnceLock(t) \/ OnceSig(t) \/ OnceOk(t) \/ RefreshOk(t)
               \/ AsyncTest(t) \/ AsyncLock(t) \/ AsyncCreate(t) \/ AsyncOk(t)
               \/ RefreshAsyncOk(t) \/ Request(t) \/ SyncLock(t)
RefreshImpl(t) == \/ ImpOpen(t) \/ ImpLine(t) \/ ImpArm(t) \/ ImpCheck(t) \/ ImpFind(t)
                  \/ ImpHook(t) \/ ImpDone(t)
RefreshThread(w) == WWhile(w) \/ WLock(w) \/ WRefresh(w)
Clear(t) == \/ ClearTest(t) \/ ClearStop(t) \/ ClearJoin(t) \/ ClearAsync(t)
            \/ ClearSig(t) \/ ClearOk(t) \/ ClearInited(t) \/ ClearLock(t) \/ ClearFree(t)

CallerStep(t) == Register(t) \/ Refresh(t) \/ RefreshImpl(t) \/ Clear(t)
WorkerStep(w) == RefreshThread(w) \/ RefreshImpl(w)

Up == proc = "up"

\* Every call has returned, no more will be made, and no refresh is running.
Quiet ==
  /\ calls = MaxCalls
  /\ \A t \in Callers : pc[t] = "idle"
  /\ \A w \in Workers : pc[w] \in {"w_none", "w_wait", "w_dead"}

Rest == (~Up \/ Quiet) /\ UNCHANGED vars

Next ==
  \/ Up /\ \/ \E t \in Callers, o \in Ops : Begin(t, o)
           \/ \E t \in Callers, on \in BOOLEAN : Protect(t, on)
           \/ \E t \in Callers : CallerStep(t)
           \/ \E w \in Workers : WorkerStep(w) \/ SpuriousWakeup(w)
           \/ \E t \in Threads : Fault(t)
           \/ AppSegv
  \/ Rest

Spec == Init /\ [][Next]_vars

\* The scheduler runs every thread that can run; nothing makes the application
\* call again, memory fault or a wait return early.
Fairness ==
  /\ \A t \in Callers : WF_vars(Up /\ CallerStep(t))
  /\ \A w \in Workers : WF_vars(Up /\ WorkerStep(w))

FairSpec == Spec /\ Fairness

-----------------------------------------------------------------------------
(***************************************************************************)
(* Safety whatever the application does.                                   *)
(***************************************************************************)
InImpl(t) == pc[t] \in ImplPC

\* refresh_impl never runs in two threads at once, so its work on the map
\* tree and the single sigjmp_buf needs no other protection (lines 488, 575).
OneRefresher == \A t, u \in Threads : InImpl(t) /\ InImpl(u) => t = u

\* sigsegv_flag is set only while one thread is in a guarded region or about to
\* call sigsetjmp for it, and in the region sigsegv_env is the environment of
\* that thread: a fault of the code the region guards never makes siglongjmp
\* (line 96) leave for a frame that has returned or for another thread's.
\* Between lines 233 and 234 the environment is still an older one; only a
\* SIGSEGV of other code can meet it then (AppSegv).
EnvLive ==
  flag => \E t \in Threads : pc[t] \in ArmPC \/ (pc[t] \in GuardedPC /\ env = t)

\* While a refresh walks the queues and the tree, nobody takes an element out
\* of them: clear, the only one that frees, waits for the refresh (line 607).
NoUseAfterFree ==
  [][\A t \in Threads : InImpl(t) =>
       info \subseteq info' /\ (pc'[t] = pc[t] => map_info' = map_info)]_vars

(***************************************************************************)
(* Safety under the discipline of KeepApart.                               *)
(***************************************************************************)
\* A refresh thread that exists and was not joined is the one refresh_tid
\* names: clear never leaves one behind (lines 585-595).
OneWorker == \A w \in Workers : pc[w] # "w_none" => w = refresh_tid

\* The refresh thread never sleeps on a request or on the order to stop.
NoLostWakeup == \A w \in Workers : pc[w] = "w_wait" => thread_running /\ ~thread_do

\* No map item was hooked with fewer infos than the queues now hold: a hook or
\* an ignore is never accepted too late to be applied (lines 145 and 185).
NoLateHook == \A l \in map_info : info \subseteq seen[l]

\* A fault in the code a refresh runs never jumps to a foreign frame, stops the
\* process only with the protection off, after the handler was taken away or
\* after the protection was switched while a session was open, and loops in
\* xhook's handler only if a clear left it installed (lines 85-113, 233, 291).
FaultsContained ==
  /\ proc # "wild"
  /\ proc = "crashed" => ~sigsegv_enable \/ spent \/ switched
  /\ proc = "looping" => left

\* Wherever sigsegv_flag is set xhook's handler is installed, over any number of
\* sessions: but after a SIGSEGV of other code (line 98), after a first fault
\* if the sa_flags of line 102 happened to hold SA_RESETHAND, and where the
\* protection was switched while a session was open (line 655).  The first two
\* last until the next session installs the handler anew.
GuardArmed == flag /\ ~spent /\ ~switched => disposition = "xhook"

\* The handler that clear will put back, or has put back, is the one the
\* application had before the first refresh, over any number of sessions and
\* whenever the protection is switched: until a clear meets the protection on
\* where the refresh that opened the session met it off, or off where it met it
\* on.  Then clear puts back what was never saved, or leaves xhook's handler for
\* the next session to save as the application's (lines 98, 109 and 118).
HandlerRestorable ==
  ~left => /\ disposition = "xhook" => act_old = own
           /\ disposition # "xhook" => disposition = own \/ spent

\* What a clear that returns leaves of the session it ends: no refresh thread,
\* no lock held, no item, no info and, with the exception of HandlerRestorable,
\* the application's handler; register is open and a new session can start.  One
\* flag is not undone, xh_core_refresh_thread_do: a request that the refresh
\* thread had not taken when it was stopped (lines 479-482) stays set.
ClearEndsSession ==
  [][\A t \in Callers : pc[t] = "clear_free" /\ pc'[t] = "idle" =>
       /\ ~inited' /\ ~init_ok' /\ ~async_inited' /\ ~async_init_ok'
       /\ ~thread_running' /\ \A w \in Workers : pc'[w] = "w_none"
       /\ core_mutex' = NoThread /\ refresh_mutex' = NoThread
       /\ ~flag' /\ (~left' => disposition' = own')
       /\ info' = {} /\ map_info' = {}]_vars

(***************************************************************************)
(* Liveness.                                                               *)
(***************************************************************************)
\* Every call returns, clear's join of the refresh thread included.
EveryCallReturns ==
  \A t \in Callers : pc[t] # "idle" ~> pc[t] = "idle" \/ ~Up

\* A request handed to the refresh thread is taken up by a refresh, unless
\* clear stops the thread first.
AsyncRequestServed ==
  (thread_do /\ async_init_ok) ~> (~thread_do \/ ~thread_running \/ ~Up)

-----------------------------------------------------------------------------
(***************************************************************************)
(* What the calls promise, whatever the application does.                  *)
(***************************************************************************)
\* A walk over the lines of /proc/self/maps is in progress.
Walking == \E t \in Threads : pc[t] \in ImplPC \ {"imp_open"}

\* While a walk moves them from one tree to the other, the items are in either.
Known == IF Walking THEN map_info \cup refreshed ELSE map_info

\* The refresh threads between line 479 and line 488.
Taken == {w \in Workers : pc[w] = "w_refresh"}

Session == INSTANCE XhSession WITH
  Clients <- Callers, Servers <- Workers, Nobody <- NoThread,
  hooks <- info, known <- Known, applied <- seen, walker <- refresh_mutex,
  pending <- thread_do, taken <- Taken, ready <- init_ok, serving <- async_init_ok,
  asked <- op, answer <- ret

\* The mutexes, flags and threads of xh_core.c implement the session of
\* XhSession: what an answer means, who may hook a file, when a hook may be
\* forgotten (lines 136-192, 440-489, 496-656).
SessionSpec == Session!Spec
=============================================================================
