# ArtHook: specification and verification

TLA+ modules for the native core of ArtHook (`src/cpp`): the PLT hooking engine
xhook (`xhook/`) and the ART method hook (`art/`). TLC checks them on small
instances; TLAPS proves the safety properties of every state machine among them for
all values of the constants. Line numbers below are those of
`src/cpp/xhook/xh_core.c` unless another file is named.

## 1. Inventory

| Component | State | Operations | Talks to |
|---|---|---|---|
| `xhook.c`, `xh_jni.c` | none | one wrapper per function of xh_core | xh_core |
| `xh_core.c`, session | `inited`, `init_ok`, `async_inited`, `async_init_ok`, two mutexes, a condition, `refresh_thread_running/do/tid`, SIGSEGV statics | register, ignore, refresh(sync/async), clear, enable_sigsegv_protection, the refresh thread, the SIGSEGV handler | xh_elf, kernel, application threads |
| `xh_core.c`, one refresh | queues of `hook_info` and `ignore_info`, the tree of `map_info` items | refresh_impl, hook_impl, check_elf_header | `/proc/self/maps`, xh_elf |
| `xh_elf.c` | `xh_elf_t` of one file, rebuilt by each init | init, hook, replace_function; lookups by SYSV and GNU hash; plain and packed relocation iterators, sleb128 | memory of the loaded file, xh_util |
| `xh_util.c` | page protections | get and set protection, flush | kernel |
| `art/ArtMethod.cpp` | fields of ART's own ArtMethod objects, `hooked_method_map`, `api_level`, `art_prepared`, offsets | Hook, Backup, Clone, InvokeOriginal, DealGCRoot, SetArtPrepared | ART, ScopedSuspendAll |
| `art/ARTSymbol.cpp`, `base/jni_helper.cpp` | `symbol_list`, `bridge_list` and their flags, `get_jnienv_symbol`, filled on first use | GetSymbol, GetBridgeList, CloneObject, GetJniEnv | elf, ART's Runtime |
| `elf/` | one ElfImage per DlOpen, never closed | DlOpen, DlSym: the maps, the section headers, three lookups | `/proc/self/maps`, library files |
| `native-lib.cpp`, `art/native_load.cpp`, `art/hook_module/` | start-up order | static initialiser, JNI_OnLoad, hooks of JNI_CreateJavaVM and Application.onCreate | xhook, ArtMethod |
| `scoped_thread_state_change.cc`, `thread.cpp`, `JitCompiler.cpp`, `base/` | little | helpers | ART |
| `queue.h`, `tree.h` | | vendored macros | |

**What is hard.** Calls of several application threads, the refresh thread and
the signal handler share the statics of xh_core, most of them read outside the
mutexes. Files come and go while a refresh works on them, so any read may fault
and leave hook_impl by `siglongjmp`. Slots are rewritten while other threads call
through them. A method's fields are rewritten while threads may run it, and a
moving collector changes one of them without telling the clones. The list, line
by line, with the properties that watch each, is `hazards` in `PROJECT.json`.

**What makes each component correct.**
- Session: one refresh at a time; siglongjmp only into a live frame; nothing
  freed while it is walked; one refresh thread, no lost wakeup; no hook accepted
  too late; the protection armed while it is needed, and the application's handler
  back after clear; clear leaves no thread, item or info of the session; every call
  returns.
- One refresh: no item lost or freed twice; slots redirected as the queues ask,
  and only so; saved functions lead to the originals.
- Symbols of libart: an address is the linker's whatever table it came from; what is
  there is found; nothing stored goes away while another thread stores; descriptors
  last.
- One file: a symbol is found iff it is there; every relocation of it is found
  under every packing; `*old_func` is right before the slot is; page protections
  come back; no fault of xhook's own making.
- Start-up: no method is hooked before the layout of ArtMethod is known; injection
  before the virtual machine reaches every application.
- One method: no call sees it half hooked; the replacement runs once per call and
  its call of the original gets there; a clone is not used with a stale class.

## 2. Modules

| Module | Models | Extended by |
|---|---|---|
| `XhCore` | the session of xh_core and its threads | `MCXhCore`, `XhCore_proofs` |
| `XhSession` | what the session promises, without locks and program counters | `XhCore` (INSTANCE) |
| `XhRefresh` | what one refresh after another does to files, items, slots | `MCXhRefresh`, `XhRefresh_proofs` |
| `XhPackedReloc` | sleb128 and the packed iterator, as operators | `XhElf` |
| `XhElfLookup` | the two symbol lookups, as operators | `XhElf` |
| `XhElf` | hook_impl on one file: xh_elf_init, xh_elf_hook, replace_function | `XhElfFiles` |
| `XhElfFiles` | no code of its own: what hook_impl reads of a file, as operators on the file, and how a linker writes it | `MCXhElf`, `XhElf_proofs` |
| `ArtHook` | ArtMethod.cpp on one method, with callers and collector | `MCArtHook`, `ArtHook_proofs` |
| `ArtBoot` | start-up of the library in zygote and in applications | `MCArtBoot`, `ArtBoot_proofs` |
| `ProcMaps` | the two readers of `/proc/self/maps` that look for one thing, as operators | `LibArt` |
| `ElfImage` | section headers and lookups of elf_image.cc, as operators | `LibArt` |
| `LibArt` | ARTSymbol.cpp and GetJniEnv: tables filled by threads that race | `LibArtFiles` |
| `LibArtFiles` | no code of its own: what a linker and the runtime guarantee of a phone | `MCLibArt`, `LibArt_proofs` |
| `XhCore_proofs` | proofs about `XhCore` however calls overlap | `XhSession_proofs` |
| `XhSession_proofs` | `XhCore` implements `XhSession` | `XhDiscipline_proofs` |
| `XhDiscipline_proofs` | proofs about `XhCore` under a disciplined application | |
| `XhRefresh_proofs`, `XhElf_proofs`, `ArtHook_proofs`, `ArtBoot_proofs`, `LibArt_proofs` | proofs about the module of that name | |

The three xhook modules look at the same code at three scales. `XhCore` keeps
every thread and lock and lets a refresh find files and faults at will;
`XhRefresh` is what the one thread inside refresh_impl does (that there is one is
`OneRefresher`, proved), with hook_impl's effect on a slot as one step; `XhElf`
opens that step. A fault, anywhere in `XhElf`, is what `XhCore`'s handler and
`XhRefresh`'s `HookAbandoned` turn into an early end of hook_impl.

### XhCore

One atomic step is one access of shared state outside a lock or one critical
section; memory is sequentially consistent (the code declares the flags
`volatile` and publishes them around mutexes). Each label of `pc` is a place
between two such steps: `RegCheck`/`RegInsert` are lines 140-169 and 171-175,
`OnceTest`..`OnceOk` are xh_core_init_once, `AsyncTest`..`AsyncOk`
xh_core_init_async_once, `Request` and `SyncLock` the two ends of refresh,
`ImpOpen`..`ImpDone` refresh_impl, `WWhile`..`WRefresh` the refresh thread,
`ClearTest`..`ClearFree` clear. Setting `sigsegv_flag` (lines 233, 291) and sigsetjmp
(234, 292) are two steps, `EnterGuarded` and `ImpArm`.

- refresh_impl's locals are single variables: only the holder of `refresh_mutex`
  runs it.
- The two queues are one set of infos: the session cares about which are there,
  not about their order, which is `XhRefresh`'s.
- `seen[l]` is a history variable: the infos the last hook of file `l` walked. So are
  `own` (the handler the application started with), `spent` (the handler installed was
  taken away, not by clear), `switched` (the protection was changed in an open
  session), `installed` (the refresh that opened the session installed the handler) and
  `left` (a clear found the protection other than that refresh had).
- The signal handler is `Fault`, a step that is possible whenever guarded code
  runs, and `AppSegv`, a SIGSEGV of other code. A fault that nobody handles
  leaves `proc` at a value other than "up"; "stolen" is a SIGSEGV of other code that
  jumps into the guarded region of a refresh, or, between the flag and sigsetjmp, into
  the frame of an older one. `AppSegv` under an application without a handler of its own
  ends the process, as it would without xhook: there is no step. Where libsigchain is
  present, only faults that ART does not claim get here.
- `Protect` is possible whenever the application may call it, in an open session too.
- sa_flags (line 102) is not initialised: its SA_RESETHAND bit is chosen from
  `StackGarbage` at each sigaction.
- A worker identity is reused only after its join, and a second join of the same
  thread is undefined behaviour: it returns or ends the process.
- `Rest` is a self-loop when the process is gone or every thread is quiet, so
  that deadlock checking stays on and means something.

Discipline is a parameter. `KeepApart` lists pairs of calls an application never
overlaps. `Disciplined` in `MCXhCore` keeps registering apart from refreshing, as the
error logs of lines 147 and 187 ask ("do not register hook after refresh()"), and clear
apart from everything. The latter is an assumption: clear resets the flags without a
lock, and nothing in the repository says whether it may overlap other calls.
Synchronous and asynchronous refreshes overlap freely, and the protection is switched
at any time but during clear.

### XhSession

The session as its callers may think of it: a set of hooks, the files known to be
hooked and what each was hooked with, who walks the mapped files, a pending request,
two flags (`ready`, `serving`) and the call each client waits for with its last
answer. There are no mutexes, once-flags, wakeups or labels. Its actions say what a
call means: an accepted info is in the list when the call answers; a refused call
changes nothing, and a refresh is refused only while the session is not ready for
it; only a walk hooks a file, with the list as it is; at most one thread walks, a
server only for a request it took; a synchronous refresh answers when its own walk
is over; only clear forgets hooks, and never under a walk.

`XhCore` implements it under the mapping `Session` (its last section). `hooks`,
`applied`, `pending`, `ready`, `serving`, `asked` and `answer` are variables of
`XhCore`; `walker` is the owner of `refresh_mutex`; `taken` are the refresh threads
between lines 479 and 488; `known` is the item tree, united with
`map_info_refreshed` while a walk moves items from one to the other. A step on a
once-flag, a condition or a line that hooks nothing maps to a stutter. The mapping
says nothing of liveness: `EveryCallReturns` and `AsyncRequestServed` do.

### XhRefresh

A file is mapped at a base, bases being the order of `/proc/self/maps`. The file
read at the start of a refresh is a snapshot (`snap`), which `Refill` replaces ahead of
the walk, since fgets reads the file piecewise; `Map` and `Unmap` happen at any time,
also while a refresh walks or hooks; `anew` is the history of bases whose library was
mapped anew behind its item's back. `Line` goes to the next line that matters, `Find` looks for the item in the two trees (`Update`,
`Create`), `BeginHook`/`HookNext`/`HookDone` are hook_impl, `Done` is lines
441-457. The trees are sets of items and `items` counts what malloc returned and
free did not take. Regular expressions are sets of paths. Lines 267 and 395-405
turn out to be unreachable and have no action: line 267 because `Match` asked
first, 395-405 because of `OneItemPerPath`.

### XhPackedReloc, XhElfLookup and XhElf

The pure parts are operators over a file's tables and bytes. Widths are
parameters: a byte carries `GroupBits` bits of payload (7 in the code), a word has
`WordBits` bits (32 or 64), a word of the bloom filter `ElfClassBits`. The check
scales them to 3, 8 and 2, where every carry, wrap and sign extension still
happens and files stay small.

`XhElf` runs `MaxCalls` calls of hook_impl on one file chosen from `Images`. One
step is one access of the file's memory that can fault. `Unmap` is possible at
any time. `Protect` and `Restore` may fail as opening the maps file and mprotect
may. A bad address or missing segment is the tag `MALFORMED`. Plain sections are
sequences of words and are read with the stride `is_use_rela` chooses, so that a
wrong stride reads wrong words; an offset that is not a slot counts as a fault.
Left out: page-crossing slots (slots are aligned), the cache flush, the debug
dumps.

### ArtHook

One method on Android M or later. `meth` has the fields Hook writes (class,
native flag, bytecode, interpreter, quick and JNI entry), `clones` the copies, `key` the
entry of `hooked_method_map`. Hook is one step per field written; InvokeOriginal one
step per field read or written, because DealGCRoot stops nobody (its
ScopedSuspendAll is commented out at line 233). The runtime is external and
reduced to what the code relies on: a call goes where the quick entry says, from
the JNI bridge where the JNI entry says, or to the interpreter, which needs
bytecode; on M the interpreter's own calls look at the interpreter entry first
(`EnterInterpreted`), Method.invoke does not; the collector moves a class only while no
thread runs native code that is not a safepoint (the JNI calls of lines 154-161 are one:
the runtime allocates there), and updates the method but not the clones, which it does not
know; SuspendVM waits until every thread is at a safepoint. `crash` is a call
that meets an impossible method.

What the code leaves to its environment is chosen or named. `suspends` says whether
libart exports SuspendVM; where it does not, ScopedSuspendAll only logs (lines 66-70 of
scoped_thread_state_change.cc) and the world goes on. `QuickToInterpreter` and
`InterpreterToCompiled` say which bridges it exports. Three history variables hold what
the properties must tell apart: `tested`, the class that DealGCRoot last saw (line 230);
`raced`, two calls met while one restored a new clone without the lock; `torn`, a call
read the method while Hook wrote it without SuspendVM. `MaxEvents` bounds Hooks, moves
of the class and calls together, in any proportion.

### ArtBoot

Each process has a memory, which fork copies: the statics of two copies of the
library (the one injected into zygote and the one packaged with an application,
each with an `art_prepared`, an `api_level` and an xhook session of its own), where
calls of the two symbols go that the library hooks, and which Java methods are
hooked by whom. A handler (the static initialiser, JNI_CreateJavaVM_Impl,
JNI_OnLoad) is an operator on that memory that makes the code's calls in its
order; the actions are what the system does: inject, create the machine, fork,
load a library. A handler is one step, since each process starts up on one thread.
A copy's xhook session is reduced to `inited`, the only part of `XhCore`'s state
that outlives the calls of these handlers and changes what later ones do (a
second register is refused, `NoLateHook`'s other side); a hooked method is what
`ArtHook` starts from.

`is_zygote` returns by `c_str()` a string that is destroyed at the end of the line
(`native_load.cpp`:89), so in zygote it answers either way, each time anew; no
application is called zygote. Hooking a symbol with xhook has an outcome: it went in,
the symbol was not found (`create_jvm.cpp`:31 returns), or register or refresh failed,
whose result nobody reads. JNI_OnLoad without an environment returns JNI_ERR
(`native_load.cpp`:105-108). The null test of `old_create_jvm` (`create_jvm.cpp`:17) has
no branch: replace_function fills it (`xh_elf.c`:478) before it redirects a slot (481).
Creation of the machine may fail, with or without the hook; then `hook_app_on_create`
(`create_jvm.cpp`:24) calls through a JNIEnv that is not there and zygote stops
(`crashed`). JNI_CreateJavaVM is not called again once there is a machine: app_process
never does, and it would make `HookedWithOffsets` fail for a library injected in
between, whose `art_prepared` stays false while line 24 hooks all the same. `intime` is
the history of an injection whose hook of JNI_CreateJavaVM went in before the call.

### ProcMaps, ElfImage and LibArt

`ProcMaps` reads the lines of `/proc/self/maps` one by one as the code does:
FindExecuteMemoryRange with its stale `mapname` for lines without a path,
xh_util_get_mem_protect with its span that shrinks line by line. `ElfImage` is Parse
(which section wins when there are several) and the lookups by GNU hash, SYSV hash
and a linear search, with the words of the bloom filter counted as Parse counts
them. Hashes are parameters of a file; a word has `WordBits` bits.

`LibArt` composes them with the threads. One step is one store to a table, one test
of a flag or one DlOpen. What DlOpen finds and DlSym returns follows from the phone
alone, so `Init` computes it once (`dlopen`, `dlsym`). Every DlOpen takes a
descriptor, because ElfReader never sets `fp_`; GetBaseOffset may have taken one before
(`native_load.cpp`:47). A null handle or environment is used without a test and stops
the process (`proc`); where the system refuses to open or map the file
(`elf_image.cc`:190-203) that is told apart ("refused"). The members of Runtime and
ClassLinker are external: `LibArtFiles` lists them by name, in the order of Android's
sources, and where the code looks for them is the code's own offsets, so that a wrong
offset shows.

- `Parse` sets `symtab_` only when there is a SHT_SYMTAB section, and nothing else
  does: for an absent symbol in a stripped library the test of `elf_image.cc`:91
  reads what the heap held. `MayReturn` gives null or `Stale`; a step that meets the
  latter ends the process as "stale".
- `phone.at` is where the linker put each name and `phone.told` are the names that
  the files, or the runtime's memory, give away: the two the properties compare the
  tables with. They are written in `MCLibArt` beside the files, not computed from
  what the code reads.

## 3. Runs

| Run | Checks | Expected |
|---|---|---|
| `core_disciplined` | a disciplined application's session: `OneWorker`, `NoLostWakeup`, `NoLateHook`, `FaultsContained`, `HandlerRestorable`, `GuardArmed`, `ClearEndsSession`, and under fairness `EveryCallReturns`, `AsyncRequestServed` | pass |
| `core_overlap` | any overlap of calls, application faults, any sa_flags: `OneRefresher`, `EnvLive`, `NoUseAfterFree`, and that the calls keep the promises of `XhSession` (`SessionSpec`) | pass |
| `refresh` | `OneItemPerPath`, `NoLeak`, `HookedMeansHooked`, `NoOldFuncCycle`, `OnlyAsked` | pass |
| `refresh_skipped` | `PassesOverOnlyUnwanted` with an ignored symbol | violation |
| `refresh_stacked` | `NoOldFuncCycle` with two hooks on one symbol | violation |
| `elf` | `ReadsAsLinked`, `OldIsOriginal`, `HookedExactly`, `PagesRestored`, `FaultsOnlyWhenUnmapped` | pass |
| `elf_no_plt` | `HookedExactly` on a library without DT_PLTREL | violation |
| `art_hook` | `NoHalfHookedCall`, `ReplacementRunsOnce`, `InvokesFreshClass`, `CallsReachOriginal` | pass |
| `art_recloned` | `ReclonedIsOriginal` after the class moved | violation |
| `boot` | `HookedWithOffsets`, `GlobalInjection` | pass |
| `libart` | 32-bit phones: `PointersTrue`, `FoundIfThere`, `CrashesOnlyIfLost`, `PointersStay`, `ProtectExact` | pass |
| `libart_64` | `FoundIfThere` on 64-bit phones | violation |

Every passing run but `core_overlap` also checks a type invariant;
each property has a mutant of the modelled code that it catches (`mutants` in
`PROJECT.json`; the mutated operators stand next to the originals, marked
"Mutant:").

**Bounds.**
- Core: two callers, two worker identities (a leaked worker would be the second),
  one file, a hook and an ignore. `MaxCalls = 4` is enough for register, refresh, clear
  and a refresh of the next session, for a switch of the protection before, in and after
  a session, and for the two callers and the worker to meet. `AppFaults = TRUE` and both
  values of `StackGarbage` in both runs. Callers and workers are symmetric in the run
  without liveness.
- Refresh: two paths, two bases, two symbols, two refreshes, three loads: an item can
  be created, moved, dropped and found again, files come and go between any two steps,
  and clear can come between the refreshes.
- Elf: 146 files that differ in every assignment of two-bit hashes to the
  three symbols (collisions in a bucket, in the filter, in the hash itself), in
  SYSV or GNU tables, REL or RELA, and in packings with groups of one, two and
  four; cut-short packed sections; no symbol table; a section below the file.
  Offsets jump back, so deltas are negative. Three hooks, one of an absent
  symbol, and two calls, since the second meets slots that hold hooks.
- Boot: zygote, two applications, two copies of the library, two attempts to create
  the machine, each hook with three outcomes; the whole state space is 62,164 states.
  `CHECK_DEADLOCK FALSE`: start-up ends.
- ArtHook: two callers and five events, each a Hook, a move of the class or a call, for a
  method that was compiled, interpreted or native, on M and on N, with and without
  SuspendVM.
- LibArt: two threads with three calls each (every pair of lookups overlaps, and a
  lookup repeated without its flag would use up `FdLimit = 7`: three a thread and one),
  `WordBits = 4`, thirteen phones: versions 21 to 28 on both sides of every comparison; libraries with a GNU
  table, a SYSV table or both, with and without `.symtab`, biased or not, with
  hashes that are all the same, that share buckets or that differ; five phones that
  lack something. `ProtectExact` asks for every span of up to six units from every
  address around libart's lines: adjacent lines, a RELRO page, a hole, a shared line.

**Fairness.** `core_disciplined`: weak fairness of each thread's steps; the operating
system schedules runnable threads. Nothing makes an application call, a fault
happen or a wait wake spuriously. Weak fairness of acquiring a mutex suffices
because calls are bounded and the refresh thread refreshes only on request, so no
mutex is contended for ever. `art_hook`: weak fairness of each caller and of
the thread that hooks; nobody has to call or hook.

**What the violations show** (`findings` in `PROJECT.json`).
- `refresh_skipped`: an ignored symbol of the first hook that matches a library
  keeps all hooks out of it (line 377).
- `refresh_stacked`: two hooks on one symbol, cleared and registered again in
  turn, become each other's original (`xh_elf.c`:457).
- `elf_no_plt`: without DT_PLTREL the dynamic relocations are read in the stride
  of REL whatever they are (`xh_elf.c`:826).
- `art_recloned`: the clone made after a move is a copy of the hooked method and
  stays native (`ArtMethod.cpp`:236).
- `libart_64`: a bloom filter of 64-bit words is read in halves (`elf_image.cc`:64);
  symbols that are exported are not found unless another table has them.

**What passing depends on.** The runs make the steps that go wrong, and the properties
name them, as exceptions; the runs and the theorems show that there are no others.
Each hazard says so where it applies.

- `HandlerRestorable`, and the handler in `ClearEndsSession`, until a clear meets the
  protection other than the refresh that opened its session did (`left`): line 118 then
  leaves xhook's handler installed, and the next session saves it as the application's,
  or it puts back an action that was never saved.
- `GuardArmed` until a SIGSEGV of other code (line 98 restores the previous handler for
  good), or the first fault caught where the bits of sa_flags that line 102 leaves as the
  stack had them include SA_RESETHAND (`spent`), and unless the protection was switched
  in an open session (`switched`). `FaultsContained` has the same exceptions.
- `ClearEndsSession` leaves out refresh_thread_do, which nobody resets: a request the
  thread had not taken when it was stopped is served by the next session's thread.
- `HookedMeansHooked` but for a library mapped anew at its item's address (`anew`, line
  408) and for files whose hook_impl was cut short. `OnlyAsked` for libraries that are
  still the one their line named.
- `NoHalfHookedCall`, `ReplacementRunsOnce` and `CallsReachOriginal` until two calls meet
  in DealGCRoot without the lock (`raced`, lines 233-234: the second publishes its clone
  before restoring it); the first and the last also until a call reads what Hook writes
  without SuspendVM (`torn`), and the first but for M without
  artInterpreterToCompiledCodeBridge, where line 113 leaves the interpreter entry as it
  was. `InvokesFreshClass` is about the class at the test of line 230.
- The session's properties in `core_disciplined` need its `KeepApart`; those of
  `core_overlap` need nothing.

The properties of `LibArt` hold for a sequentially consistent memory: the flags are
plain bools and nothing orders them after the pointers they announce. They hold for
libraries whose executable segment is mapped from the start of the file, as those of
the modelled versions are; FindSymbol adds the offset to the start of that mapping.
`CrashesOnlyIfLost` leaves the read of `symtab_` aside, as said above.

## 4. Proofs

Every theorem is about all values of the constants that satisfy the modules' named
ASSUMEs (types of the constants; callers are not workers; hooks have functions of
their own; three descriptors a thread and one). Each run evaluates those of the modules it
extends. What a theorem needs beyond them is in its statement, as a hypothesis.

| Theorem | States, for every instance | Hypotheses |
|---|---|---|
| **XhCore_proofs** | | |
| `TypeCorrect`, `RefreshesExclude`, `JumpsAreSafe` | `TypeOK`, `OneRefresher`, `EnvLive` | none |
| `WalksAreSafe` | `NoUseAfterFree` (action) | none |
| **XhSession_proofs** | | |
| `ImplementsSession` | `SessionSpec`: XhCore implements XhSession | none |
| **XhDiscipline_proofs** | | |
| `WorkersAreNamed`, `WakeupsArrive`, `InfosAreApplied` | `OneWorker`, `NoLostWakeup`, `NoLateHook` | `Discipline` |
| `HandlerComesBack`, `FaultsAreContained`, `GuardIsArmed` | `HandlerRestorable`, `FaultsContained`, `GuardArmed` | `Discipline` |
| `ClearsAll` | `ClearEndsSession` (action) | `Discipline` |
| **XhRefresh_proofs** | | |
| `TypeCorrect`, `OneItem`, `ItemsAccounted` | `TypeOK`, `OneItemPerPath`, `NoLeak` | none |
| `RedirectsOnlyAsked` | `OnlyAsked` (action) | none |
| `HooksAreKept` | `HookedMeansHooked` | none |
| `NoCycles` | `NoOldFuncCycle` | `SymbolsApart` |
| **XhElf_proofs** | | |
| `PagesAreRestored` | `PagesRestored` | none |
| `FilesReadAsLinked` | `ReadsAsLinked` | `FilesWritten` |
| `WrittenAreLinked` | `FilesLinked` | `FilesWritten` |
| `PackedReadsBack` | the packed iterator returns what was packed, and then nothing (`Decoded`) | `Packed` |
| `FaultsAreUnmaps`, `ExactlyTheHooked` | `FaultsOnlyWhenUnmapped`, `HookedExactly` | `FilesLinked` |
| `OldFuncIsOriginal`, `TypeCorrect` | `OldIsOriginal`, `TypeOK` | `FilesLinked`, `HooksApart` |
| **ArtHook_proofs** | | |
| `TypeCorrect` | `TypeOK` | none |
| `ClassIsFresh` | `InvokesFreshClass` (action) | none |
| `OnceOnly` | `ReplacementRunsOnce` | none |
| `HookIsWhole` | `NoHalfHookedCall` | none |
| **ArtBoot_proofs** | | |
| `TypeCorrect`, `HooksHaveOffsets`, `InjectionIsGlobal` | `TypeOK`, `HookedWithOffsets`, `GlobalInjection` | none |
| **LibArt_proofs** | | |
| `PointersAreKept` | `PointersStay` (action) | none |
| `DescriptorsLast` | `[](opened \in 0..FdLimit /\ DescriptorLeft)` | none |
| `ProtectIsExact` | `ProtectExact` | none |
| `PointersAreTrue`, `TypeCorrect` | `PointersTrue`, `TypeOK` | `PhoneTrue` of every phone |
| `TablesAreFull`, `CrashesAreLosses` | `FoundIfThere`, `CrashesOnlyIfLost` | `PhoneTrue` and `PhoneTells` of every phone |

### Hypotheses

Each is a fact about the environment that the code relies on; the passing runs
satisfy it, and where it fails a run or a parameter shows the property fail.

- `Discipline`: clear overlaps nothing, which nothing in the repository says, and
  registering overlaps no refresh (lines 147 and 187). `MCXhCore`'s `Disciplined`, the
  `KeepApart` of `core_disciplined`, satisfies it.
- `SymbolsApart`: no two hooks share a symbol. `refresh_stacked` shows why.
- `FilesLinked` (`XhElfFiles`): the lookups and iterators make of a file what its
  linker put there. Its words are slots, one relocation each (`Laid`); the lookup of a
  name yields that name or nothing (`Resolves`); the iterator of the packed section
  ends after `N` relocations (`Decoded`); a relocation that names a symbol is of a
  slot of that symbol (`Relocates`); and in a file that is whole nothing is passed
  over (`Complete`). It speaks of the code's own lookups and iterators, and follows
  (`WrittenAreLinked`) from
- `FilesWritten`, which does not: the hash table is laid out as a linker does, GNU or
  SYSV, chains up or down (`Tables`); the packed section holds, field by field, some
  packing of the relocations (`Packed`): groups of any sizes and flags, each value a
  sleb128 number at the place where the one before it ends, cut short anywhere;
  in a file that is whole the relocations are for the symbols (`Whole`). `MCXhElf`
  evaluates it for each of its 146 files (`FilesAreWritten`), with the packing its
  encoder made, and the run `elf` checks the conclusion, `ReadsAsLinked`. For the file
  of `elf_no_plt` it is false: that is the finding.
- `HooksApart`: hooks are for different symbols, with functions that are no originals.
  `MCXhElf` assumes it of the run's hooks (`HooksAreApart`).
- `PhoneTrue` (`LibArtFiles`): the file is mapped from its first byte, and a name is in
  memory where its byte of the file is, in a section of code or data that the linker
  moved as far as the first one (`Placed`); the symbol and hash tables are laid out as a
  linker does (`FileLaid`); the library's code is its first executable mapping
  (`CodeAt`); and wherever the virtual machine stands in the Runtime, and the intern
  table in the class linker, the words around them are the members that Android's
  sources have there, in their order (`RuntimeTrue`). The member lists are external; the
  address arithmetic and the offsets are the code's. `PhoneTells`: what
  the phone tells is what these tables export, and the tables that are there lead to
  it (`Searchable`). Neither mentions DlOpen, DlSym or the search. `MCLibArt`
  evaluates both for every phone of `libart` (`PhonesAreTrue`). `PhoneTells` is false
  for the phones of `libart_64`, whose bloom filters the code misreads: that is the
  finding.
- The named ASSUME `MapsAssumption` of `LibArt`: the lines of a maps file are in order
  and do not overlap, which the kernel guarantees.

### Invariants

None of the properties is inductive. What has to join them:

**XhCore.** `OneRefresher` needs to know that being in refresh_impl and owning
`refresh_mutex` are the same (`RefreshOwner`), for the worker and for callers, also
after a fault has moved a thread from the guarded region to the next line. `EnvLive`
follows from it: the thread that set the flag is the one in refresh_impl, so nobody
else overwrites `sigsegv_env` or clears the flag. `CoreOwner` is the same for
`core_mutex` and the three critical sections; `CurKnown` types the line being worked
on. `IInv` is their conjunction. `WalksAreSafe` goes from `IInv` alone: only
`ClearFree` takes out elements, and it holds the refresh mutex.

**Refinement.** `ImplementsSession` is a simulation: `Init` maps to the session's
`Init` (`InitSimulated`) and each step to a step of the session or a stutter
(`NextSimulated`, one lemma per group of actions). Two facts join `IInv` in `SInv`:
`CallAgrees`, the place where a caller is says which call it made, without which an
`op` could answer for another; and `ListHeld`, from the line that matched a hook to
the end of hook_impl the list holds one, which is where clear's wait for
`refresh_mutex` (line 606) is needed: `Apply` never runs with an empty list. The
lemmas `OutsideHidden`, `SignalHidden` and `InsideHidden` say once which moves of
`pc` the mapping cannot see.

**Discipline.** `DInv` joins `SInv` with what each place of a call knows of the four
flags, which are read and written outside the mutexes: `CallsApart` turns
`KeepApart` into a fact about `op`; `Flags` says in which order they are set and
cleared, so that register never inserts after `inited` and no call that has passed
`init_ok` finds it taken back; `Thread`, that there is a refresh thread exactly from pthread_create
to pthread_join, that `thread_running` covers it, and (with `NoLostWakeup`) that it
sleeps only while nothing is asked; `Late`, that an item exists only after `inited`
closed register.
`ShieldInv` adds the handler in two parts, for the two ways the setting can change under
a session. `Kept`, until a clear meets the other setting: xhook's handler is installed,
or was taken away, only in a session that installed it (`Opened`: from line 521 to 599),
and act_old then holds the application's, so that it is never saved as its own
predecessor. `Armed`, until the protection is switched in a session: it is installed
exactly where the setting is on, and wherever guarded code may run the flag is the
setting. `FaultsContained` follows from both, fault by fault.

**XhRefresh.** `WalkInv`: trees are finite, so that counting items makes sense, and the
new tree is empty between refreshes; `AtLine`: the walk stands at a line that names a
file, by `NextLine`, the order of addresses. The least line after `pos` exists by
`LeastNatural`, the library's well-founded induction used once, on numbers. `SlotInv`
adds that the queue left to walk is a tail of the queue of hooks (`TodoIsRest`), that
`inited` froze that queue before any file became complete (`Fresh`), that the items of
the new tree are lines that were read (`Listed`), and that the file at hand has one
there and is not complete (`BeingHooked`). `HookInv` adds the loop: the hooks walked so far are
in the slots of the file at hand (`HookedSoFar`), all of them in those of complete
files (`ItemsHooked`), in either tree. `NoCycles` has an invariant of its own: a slot
leads to the original or to a hook on its symbol, so what is saved is the original.

**XhElf.** `PageInv`: outside a replacement all pages but the loose ones are as
loaded; within one, `old_prot` is the loaded protection of the page in hand. `BaseInv`:
where xh_elf_hook is (`Place`), which symbol, section and relocation it holds and that
the slot in hand is one the hook is for; and that every slot is untouched or replaced
(`SlotInv`). `OldInv`: `*old_func` holds nothing or the original, and at "write" it
is filled, which is `OldIsOriginal`'s order. `WalkInv`: until a mishap, the hooks
before this one are done, and for this one the sections before this one and the
relocations before the one in hand (`Seen`); `Complete` turns the end of that walk
into `HookedExactly`.

**What a file holds.** A lookup is a walk over a chain, written as a recursive function.
That one exists is proved by induction (`WalkExists`, `FieldsInTurn`, `RunExists`), and so
is what it returns, on the place of a symbol in its chain: `HashLookupFinds`,
`GnuHashLookupFinds`, `PackedReadsBack`. The library's induction takes an operator as
a parameter, which no installed prover instantiates; `NatSetInduction` says the same of
a set of naturals, from `LeastNatural`, and does. For the packed iterator the hypothesis
is `After`: the place, the group and the relocation it has are those of the packing.
`NextRelocation` carries it from one relocation to the next over the eight fields
that may be encoded, of which any may be absent by the flags or lost where the section
ends (`Until`, `FieldIsRead`, `FieldIsLost`).

**ArtHook.** `BaseInv`: the map has its entry, and a call its clone, before anything
uses them (`Keyed`); the key is at most as new as the class (`Classes`). `FreshInv`: the
clone of the key is no older than the key, new while a call restores one, and as new as
the test found the class when it is about to be invoked; it holds however calls race.
`OnceInv`, until they do: the clone that is not yet restored belongs to the call that
makes it (`Recloning`) and no other call executes it (`Away`); the key never holds the
replacement (`JniOfKey`), nor does any clone that is executed (`Depths`, `OriginalOnce`).
`WholeInv`, until a call is torn: nobody reads the method while Hook writes (`Stopped`,
where SuspendVM is there); after each field the
method is as `HookedFields` says; a clone being restored agrees with the key field by
field (`Restored`), and whatever a call executes is `Whole`: its fields do not
contradict each other.

**ArtBoot.** `Good` is an invariant of one memory, kept by each function of the library
and hence by their compositions, so fork may copy it: a copy that is prepared knows
the offsets, and so does one that hooked a method. One function breaks it midway:
between the two assignments of SetArtPrepared the copy is not `Good`. `BootInv` adds
zygote's progress: injected in time, the hook of JNI_CreateJavaVM stands until the
machine is there, and then Application.onCreate is hooked, or zygote has crashed.

**LibArt.** `OneAnswer`: a lookup that the process survives has one answer, which is
why racing threads store the same and `PointersStay` holds without a lock. It rests
on the names of the symbols differing (`SymbolName`) and on `Trampolines` being null, a
wild word, or one address. `FdInv` counts: opened files plus the threads that may
still open for GetSymbol, GetBridgeList and GetJniEnv stay within three a thread and one; each
step moves one unit at most. `FillInv`: what a thread has passed on its way through
the fields is filled, by it or by another, and no store empties a field again; hence
the flag it sets tells the truth. The two are about any answers of DlSym and the
search that are true (`Truthful`) and complete (`Forthcoming`); that the answers are,
on a phone as the hypotheses describe it, is `TrueIsTruthful` and
`TellingIsForthcoming`: `DlSymFinds` for the three searches of `ElfImage`, by the
induction above, `RangeIsCode` for the reader of the maps file with its stale name,
`SearchFinds` for the search through the Runtime. `ProtectIsExact` is an induction over
the lines of the maps: after each, the span that is left starts where the lines read
so far end.

### Only model-checked

- Liveness: `EveryCallReturns`, `AsyncRequestServed`, `CallsReachOriginal` (fairness
  and ENABLED are beyond the prover).
- That sleb128 decodes what an encoder wrote (`Codes` of `XhElfFiles` is about the
  decoder): sums of powers of two, for which the provers have no facts. `MCXhElf`
  evaluates it, with an encoder of its own, for every value its files hold.
- That the passing runs cover every action; the five violations.

## 5. Not modelled

- Logging, version, error texts, `enable_debug`: no state that matters.
- The vendored `queue.h` and `tree.h`, taken as sequence and set.
- `FindFileMemoryRange`, `IsFileInMemory`, the `.got` and `.rel` members of ElfParser,
  `heap` and `thread_list` of RuntimeObject: nothing reads them. The two hash
  functions of elf_image.cc and of xh_elf.c are parameters of a file.
- A library whose executable segment is not mapped from file offset 0 (newer
  toolchains), for which FindSymbol adds the offset to the wrong base. A
  quick_to_jni_bridge that stays null, which Hook installs unchecked
  (`ArtMethod.cpp`:110): `ArtHook` starts from bridges that were found. Phones whose maker
  changed the members of Runtime or ClassLinker.
- `thread.cpp` beyond the environment it asks for.
- `JitCompiler.cpp`, ScopedNoGCDaemons: no caller.
- ArtMethod on Android before M, where methods are objects of the heap; access flags
  other than native, the hotness count, the profiling info.
- The values of the offsets that `native_load.cpp` computes (lines 31-83); `ArtBoot`
  only says when they are there. The functions a loader injects with.

## 6. What is left

1. The sleb128 decoder inverts an encoder for values of any width. It needs facts about
   powers of two and sums of them that would have to be proved from nothing first.
2. Liveness, once a prover takes fairness and ENABLED.
3. `XhElf` with slots that cross a page, should the code ever meet them.
