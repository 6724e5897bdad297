------------------------------- MODULE ArtBoot -------------------------------
(***************************************************************************)
(* How the library comes to life (src/cpp/native-lib.cpp,                  *)
(* art/native_load.cpp, art/hook_module): injected into zygote, where its  *)
(* static initialiser hooks JNI_CreateJavaVM, inherited by the applications*)
(* zygote forks, and loaded by their Java code.  xhook is one session per  *)
(* copy of the library (XhCore), a hooked Java method is ArtHook's.        *)
(***************************************************************************)
EXTENDS Naturals, FiniteSets

CONSTANTS
  Zygote, Apps,   \* the processes
  MaxCreates      \* bound: calls of JNI_CreateJavaVM

ASSUME ProcessesAssumption == Zygote \notin Apps
ASSUME BoundAssumption == MaxCreates \in Nat

Procs  == {Zygote} \cup Apps
Copies == {"injected", "packaged"}  \* of the library, each with its own statics

VARIABLES
  up,       \* the processes that exist
  vm,       \* have they a virtual machine?  Applications inherit zygote's
  mem,      \* mem[p]: the memory of p, what fork copies
  intime,   \* a history variable: did the hook of JNI_CreateJavaVM go in before the call?
  creates

vars == <<up, vm, mem, intime, creates>>

Symbols == {"JNI_CreateJavaVM", "execv"}
Methods == {"callApplicationOnCreate", "testOutput"}

\* loaded: is the copy mapped? onload: has JNI_OnLoad run? prepared: art_prepared;
\* offsets: is api_level set, and with it method_offset? inited: has its xhook been
\* refreshed?
Statics == [loaded : BOOLEAN, onload : BOOLEAN, prepared : BOOLEAN, offsets : BOOLEAN,
            inited : BOOLEAN]
Memory == [lib : [Copies -> Statics],
           slot : [Symbols -> Copies \cup {"original"}],  \* where a call goes
           hooked : SUBSET (Methods \X Copies),           \* Hook(method) by a copy
           crashed : BOOLEAN]

TypeOK ==
  /\ up \subseteq Procs /\ Zygote \in up /\ vm \in BOOLEAN /\ intime \in BOOLEAN
  /\ creates \in 0..MaxCreates /\ mem \in [Procs -> Memory]
  /\ \A p \in Procs, c \in Copies : mem[p].lib[c].onload => mem[p].lib[c].loaded

Fresh == [loaded |-> FALSE, onload |-> FALSE, prepared |-> FALSE, offsets |-> FALSE,
          inited |-> FALSE]
NoMemory == [lib |-> [c \in Copies |-> Fresh], slot |-> [s \in Symbols |-> "original"],
             hooked |-> {}, crashed |-> FALSE]

Init ==
  /\ up = {Zygote} /\ vm = FALSE /\ intime = FALSE /\ creates = 0
  /\ mem = [p \in Procs |-> NoMemory]

-----------------------------------------------------------------------------
(***************************************************************************)
(* What functions of copy c do to the memory m of a process.               *)
(***************************************************************************)
\* is_zygote reads the process name after the string is gone: it may be there still.
GetProcessName(p) == IF p = Zygote THEN "zygote" ELSE "application"
is_zygote(p) == {name = "zygote" : name \in {GetProcessName(p), "gone"}}

\* GetBaseOffset and CalculateOtherOffset: from two methods of java.lang.Object.
CalculateOffsets(m, c) == [m EXCEPT !.lib[c].offsets = TRUE]

\* The private constructor: "initialise only once", and not before the machine runs.
ArtMethod(m, c) ==
  IF m.lib[c].offsets \/ ~m.lib[c].prepared THEN m ELSE CalculateOffsets(m, c)

SetArtPrepared(m, c, prepared) ==
  LET set == [m EXCEPT !.lib[c].prepared = prepared] IN
  IF prepared /\ ~m.lib[c].prepared THEN ArtMethod(set, c) ELSE set

\* GetJniEnv and ArtMethod::Hook; without a machine there is no JNIEnv to call.
HookMethod(m, c, method, env) ==
  IF env THEN [m EXCEPT !.hooked = @ \cup {<<method, c>>}]
  ELSE [m EXCEPT !.crashed = TRUE]

hook_app_on_create(m, c, env) == HookMethod(m, c, "callApplicationOnCreate", env)
test_art_hook(m, c)           == HookMethod(m, c, "testOutput", TRUE)

\* xhook_register and xhook_refresh: after a refresh nothing can be registered.  Their
\* results are not looked at: when one of them fails, or no library imports the symbol,
\* the session has begun all the same and nothing leads to c.
XHook(m, c, symbol, works) ==
  IF m.lib[c].inited THEN m
  ELSE LET begun == [m EXCEPT !.lib[c].inited = TRUE] IN
       IF works THEN [begun EXCEPT !.slot[symbol] = c] ELSE begun

test_xhook(m, c, works) == XHook(m, c, "execv", works)

\* What comes of hook_create_jvm: dlsym does not find the symbol, xhook fails, or not.
Outcomes == {"absent", "failed", "hooked"}

\* Mutant: the hook waits for the next refresh.
hook_create_jvm_unrefreshed(m, c, outcome) == SetArtPrepared(m, c, FALSE)

hook_create_jvm(m, c, outcome) ==
  LET told == SetArtPrepared(m, c, FALSE) IN
  IF outcome = "absent" THEN told
  ELSE XHook(told, c, "JNI_CreateJavaVM", outcome = "hooked")

static_initializer(m, c, zygote, outcome) ==
  LET loaded == [m EXCEPT !.lib[c].loaded = TRUE] IN
  IF zygote THEN hook_create_jvm(loaded, c, outcome) ELSE loaded

\* Mutant: the application hook goes in without the offsets.
JNI_CreateJavaVM_Unprepared(m, c, ok) == hook_app_on_create(m, c, ok)

\* The hook of Application.onCreate goes in whatever the creation returned.  That
\* old_create_jvm is null, lines 17-20, cannot be: xh_elf_replace_function stores the old
\* function (xh_elf.c, line 478) before it writes the slot (line 481).
JNI_CreateJavaVM_Impl(m, c, ok) ==
  hook_app_on_create(IF ok THEN SetArtPrepared(m, c, TRUE) ELSE m, c, ok)

\* Without an environment (env = FALSE) it returns JNI_ERR; the copy stays mapped.
JNI_OnLoad(m, c, zygote, env, works) ==
  LET called == [m EXCEPT !.lib[c].onload = TRUE] IN
  IF zygote \/ ~env THEN called
  ELSE LET prepared == ArtMethod(SetArtPrepared(called, c, TRUE), c) IN
       test_xhook(test_art_hook(prepared, c), c, works)

-----------------------------------------------------------------------------
Alive(p) == p \in up /\ ~mem[p].crashed

\* The library is injected, when app_process starts or into a running zygote.
Inject ==
  /\ Alive(Zygote) /\ ~mem[Zygote].lib["injected"].loaded
  /\ \E zygote \in is_zygote(Zygote), outcome \in Outcomes :
       /\ mem' = [mem EXCEPT ![Zygote] = static_initializer(@, "injected", zygote, outcome)]
       /\ intime' = (zygote /\ outcome = "hooked" /\ ~vm)
  /\ UNCHANGED <<up, vm, creates>>

\* A process has one virtual machine; app_process asks until it has it.
CreateJavaVM ==
  /\ Alive(Zygote) /\ ~vm /\ creates < MaxCreates /\ creates' = creates + 1
  /\ \E ok \in BOOLEAN :
       LET c == mem[Zygote].slot["JNI_CreateJavaVM"] IN
       /\ vm' = ok
       /\ mem' = IF c = "original" THEN mem
                 ELSE [mem EXCEPT ![Zygote] = JNI_CreateJavaVM_Impl(@, c, ok)]
  /\ UNCHANGED <<up, intime>>

Fork(a) ==
  /\ Alive(Zygote) /\ vm /\ a \notin up
  /\ up' = up \cup {a} /\ mem' = [mem EXCEPT ![a] = mem[Zygote]]
  /\ UNCHANGED <<vm, intime, creates>>

\* Java code of p loads the copy packaged with it, or the very file that was injected.
Loads(p) == {"packaged"} \cup {c \in {"injected"} : mem[p].lib[c].loaded}

\* Mutant: a copy that is new to the process is not initialised.
LoadLibraryUninitialised(p) ==
  \E c \in Loads(p), second \in is_zygote(p), env \in BOOLEAN, works \in BOOLEAN :
    /\ Alive(p) /\ vm /\ ~mem[p].lib[c].onload
    /\ mem' = [mem EXCEPT ![p] = JNI_OnLoad(@, c, second, env, works)]
    /\ UNCHANGED <<up, vm, intime, creates>>

\* System.loadLibrary: a copy's static initialisers run once, and its JNI_OnLoad once.
LoadLibrary(p) ==
  \E c \in Loads(p), first \in is_zygote(p), second \in is_zygote(p),
     outcome \in Outcomes, env \in BOOLEAN, works \in BOOLEAN :
    /\ Alive(p) /\ vm /\ ~mem[p].lib[c].onload
    /\ LET m == IF mem[p].lib[c].loaded THEN mem[p]
                ELSE static_initializer(mem[p], c, first, outcome)
       IN mem' = [mem EXCEPT ![p] = JNI_OnLoad(m, c, second, env, works)]
    /\ UNCHANGED <<up, vm, intime, creates>>

Next ==
  \/ Inject \/ CreateJavaVM
  \/ \E a \in Apps : Fork(a)
  \/ \E p \in Procs : LoadLibrary(p)

Spec == Init /\ [][Next]_vars

-----------------------------------------------------------------------------
\* A copy that hooks Java methods knows the layout of ArtMethod in that process:
\* a hook without it would overwrite the start of the object (native_load.cpp,
\* lines 100-111, create_jvm.cpp, lines 21-29, ArtMethod.cpp, lines 21-29 and 245-252).
HookedWithOffsets ==
  \A p \in Procs : \A h \in mem[p].hooked : mem[p].lib[h[2]].offsets

\* Global injection: where the hook of JNI_CreateJavaVM went in before the call, every
\* application is born with Application.onCreate hooked by the injected copy, whatever
\* creations failed and whatever else zygote loaded, and stays so.  It does not go in if
\* the process name is misread, dlsym finds nothing or xhook fails: the library says
\* nothing and no application has the hook (create_jvm.cpp, lines 15-38).
GlobalInjection ==
  intime => \A a \in Apps \cap up :
    <<"callApplicationOnCreate", "injected">> \in mem[a].hooked
=============================================================================
