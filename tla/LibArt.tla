------------------------------- MODULE LibArt -------------------------------
(***************************************************************************)
(* src/cpp/art/ARTSymbol.cpp and src/cpp/base/jni_helper.cpp: the tables   *)
(* of libart's functions and trampolines, filled on first use by whichever *)
(* threads come first, without a lock.  DlOpen and DlSym of                *)
(* src/cpp/elf/elf_tool.cpp are operators over ProcMaps and ElfImage.      *)
(***************************************************************************)
EXTENDS ProcMaps, ElfImage

CONSTANTS
  Threads,   \* the threads that ask for symbols
  Phones,    \* the phones, and what their libraries' files hold: see MCLibArt
  FdLimit,   \* descriptors the process has left
  MaxCalls   \* bound on the calls of a thread

\* Three DlOpen a thread, from GetSymbol, GetBridgeList and GetJniEnv, and the one of
\* JNI_OnLoad's GetBaseOffset.
ASSUME FdAssumption ==
  IsFiniteSet(Threads) /\ FdLimit \in Nat /\ FdLimit >= 3 * Cardinality(Threads) + 1
ASSUME MaxCallsAssumption == MaxCalls \in Nat
ASSUME MapsAssumption ==
  \A p \in Phones : InOrder(p.phone.maps) /\ p.phone.probes \subseteq Nat

ANDROID_M == 23
ANDROID_N == 24
ANDROID_O == 26
ANDROID_O_MR1 == 27

VARIABLES
  phone,             \* [api, wide, maps, vm, memory, at, told, probes]
  dlopen,            \* the libraries DlOpen finds, with section headers
  dlsym,             \* library -> name -> what DlSym may return
  symbols,           \* symbol_list: field -> address
  symbol_inited,
  bridges,           \* bridge_list: field -> address
  bridge_inited,
  get_jnienv_symbol,
  opened,            \* files opened and never closed: fp_ is never set
  proc,              \* "up", "crashed", "stale" after a crash on symtab_, "refused"
                     \* after one because the system would not open or map a file
  pc,                \* where each thread is
  field,             \* the field of symbol_list its GetSymbol stores next
  ret,               \* where its GetSymbol or GetJniEnv returns to
  calls              \* the calls it has made

tables == <<symbols, symbol_inited, bridges, bridge_inited, get_jnienv_symbol>>
fixed == <<phone, dlopen, dlsym>>   \* no file, and no line of maps that counts, changes
vars == <<fixed, tables, opened, proc, pc, field, ret, calls>>

-----------------------------------------------------------------------------
Wild  == -1   \* the result of a read through a null pointer
Stale == -2   \* of a read through symtab_ when it was never set

Fatal(p) == p \in {Wild, Stale}

Libraries == {"libart.so", "libandroid_runtime.so"}

FieldOrder == <<"suspend_vm", "resume_vm", "force_process_profiles", "method_copy_from",
  "object_clone", "object_clone_with_class", "object_clone_with_size">>
SymbolFields == {FieldOrder[i] : i \in DOMAIN FieldOrder}

BridgeFields == {"interpreter_to_compiled_code", "quick_to_jni_bridge", "quick_to_interpreter"}

\* The names looked up, CopyFrom by the version.
SymbolName(f, api) ==
  CASE f = "suspend_vm" -> "SuspendVM"
    [] f = "resume_vm" -> "ResumeVM"
    [] f = "force_process_profiles" -> "ForceProcessProfiles"
    [] f = "method_copy_from" -> IF api > ANDROID_O THEN "CopyFrom(PointerSize)"
                                 ELSE IF api > ANDROID_N THEN "CopyFrom(m)"
                                 ELSE "CopyFrom(K,m)"
    [] f = "object_clone" -> "Clone(Thread)"
    [] f = "object_clone_with_class" -> "Clone(Thread,Class)"
    [] f = "object_clone_with_size" -> "Clone(Thread,m)"
    [] f = "interpreter_to_compiled_code" -> "artInterpreterToCompiledCodeBridge"
    [] f = "quick_to_jni_bridge" -> "art_quick_generic_jni_trampoline"
    [] f = "quick_to_interpreter" -> "art_quick_to_interpreter_bridge"

SymbolNames ==
  {SymbolName(f, api) : f \in SymbolFields \cup BridgeFields,
                        api \in {ANDROID_N, ANDROID_O, ANDROID_O_MR1}}
  \cup {"getJNIEnv"}

Image(p, lib) == p.files[FindExecuteMemoryRange(p.phone.maps, lib).path]

DlOpens(p, lib) ==
  IsValid(FindExecuteMemoryRange(p.phone.maps, lib)) /\ Image(p, lib).shdr # <<>>

MayReturn(f, base, name) ==
  IF ReadsStale(f, name) THEN {None, Stale} ELSE {FindSymbol(f, base, name)}

DlSym(p, lib, name) ==
  IF ~DlOpens(p, lib) THEN {Wild}
  ELSE MayReturn(Image(p, lib), FindExecuteMemoryRange(p.phone.maps, lib).base, name)

MemberOf(obj, slot) ==
  IF slot \in DOMAIN phone.memory[obj] THEN phone.memory[obj][slot] ELSE None

\* The first of the 100 slots from start that holds value.
Scan(obj, start, value) ==
  FirstOf({slot \in start..(start + 99) : MemberOf(obj, slot) = value})

\* Mutant: the offsets are those of the versions before O_MR1.
LinkerSlotOld(slot) == slot - 5

LinkerSlot(slot) == slot - 5 - (IF phone.api >= ANDROID_O_MR1 THEN 1 ELSE 0)

\* The risky way: from the virtual machine to the class linker in its Runtime.
SearchTrampoline ==
  LET runtime == MemberOf(phone.vm, 1)
      slot == Scan(runtime, IF phone.wide THEN 48 ELSE 50, phone.vm)
      class_linker == IF slot = None THEN None ELSE MemberOf(runtime, LinkerSlot(slot))
      intern_table == MemberOf(runtime, LinkerSlot(slot) - 1)
      hit == Scan(class_linker, 25, intern_table)
  IN IF class_linker = None THEN Wild
     ELSE IF hit = None THEN None
     ELSE MemberOf(class_linker, hit + (IF phone.api >= ANDROID_M THEN 3 ELSE 5))

\* art_quick_generic_jni_trampoline, or where the search says it is.
Trampolines ==
  {IF p = None THEN SearchTrampoline ELSE p :
     p \in dlsym["libart.so"]["art_quick_generic_jni_trampoline"]}

TypeOK ==
  LET text == {k \in DOMAIN phone.maps : /\ phone.maps[k].perm = {"r", "x"}
                                       /\ phone.maps[k].path.dir = "/system/lib"}
      Lib(p) == p = None \/ \E k \in text : phone.maps[k].begin <= p /\ p < phone.maps[k].end
  IN /\ dlopen \subseteq Libraries
     /\ DOMAIN symbols = SymbolFields
     /\ DOMAIN bridges = BridgeFields
     /\ \A f \in DOMAIN symbols : Lib(symbols[f])
     /\ \A f \in DOMAIN bridges : Lib(bridges[f])
     /\ Lib(get_jnienv_symbol)
     /\ symbol_inited \in BOOLEAN /\ bridge_inited \in BOOLEAN
     /\ opened \in 0..FdLimit /\ proc \in {"up", "crashed", "stale", "refused"}
     /\ pc \in [Threads -> {"idle", "symbol", "open", "fill", "more", "done", "clone", "call",
                            "env", "envsym", "bridge", "bopen", "compiled", "trampoline",
                            "interpreter", "bdone"}]
     /\ field \in [Threads -> DOMAIN FieldOrder]
     /\ ret \in [Threads -> {"idle", "clone", "call", "trampoline"}]
     /\ calls \in [Threads -> 0..MaxCalls]

\* GetBaseOffset opened libart before, unless this is the zygote.
Init ==
  /\ \E p \in Phones :
       /\ phone = p.phone /\ dlopen = {lib \in Libraries : DlOpens(p, lib)}
       /\ dlsym = [lib \in Libraries |-> [name \in SymbolNames |-> DlSym(p, lib, name)]]
  /\ symbols = [f \in SymbolFields |-> None]
  /\ bridges = [f \in BridgeFields |-> None]
  /\ symbol_inited = FALSE /\ bridge_inited = FALSE /\ get_jnienv_symbol = None
  /\ opened \in {0, 1} /\ proc = "up"
  /\ pc = [t \in Threads |-> "idle"] /\ ret = [t \in Threads |-> "idle"]
  /\ field = [t \in Threads |-> 1] /\ calls = [t \in Threads |-> 0]

-----------------------------------------------------------------------------
At(t, here) == proc = "up" /\ pc[t] = here
Goto(t, there) == pc' = [pc EXCEPT ![t] = there]

Crash(p) ==
  /\ proc' = IF p = Stale THEN "stale" ELSE "crashed"
  /\ UNCHANGED <<tables, opened, pc, field>>

\* DlOpen, then the first use of what it returned: null is not tested.  fopen, fstat
\* and mmap may fail whatever the process has left.
Open(t, file, there) ==
  /\ \/ IF opened < FdLimit /\ file \in dlopen
        THEN opened' = opened + 1 /\ Goto(t, there) /\ UNCHANGED proc
        ELSE proc' = "crashed" /\ UNCHANGED <<opened, pc>>
     \/ proc' = "refused" /\ UNCHANGED <<opened, pc>>
  /\ UNCHANGED <<fixed, tables, field, ret, calls>>

Enter(t, there, back) ==
  /\ At(t, "idle") /\ calls[t] < MaxCalls /\ Goto(t, there)
  /\ ret' = [ret EXCEPT ![t] = back] /\ calls' = [calls EXCEPT ![t] = @ + 1]
  /\ UNCHANGED <<fixed, tables, opened, proc, field>>

\* CloneObject is called for versions before M only (ArtMethod.cpp, line 175).
Call(t) ==
  \/ Enter(t, "symbol", "idle") \/ Enter(t, "bridge", "idle")
  \/ phone.api < ANDROID_M /\ Enter(t, "symbol", "clone")

(***************************************************************************)
(* GetSymbol.                                                              *)
(***************************************************************************)
\* Mutant: every call fills the table again.
TestSymbolNever(t) ==
  /\ At(t, "symbol") /\ Goto(t, "open")
  /\ UNCHANGED <<fixed, tables, opened, proc, field, ret, calls>>

TestSymbol(t) ==
  /\ At(t, "symbol") /\ Goto(t, IF symbol_inited THEN ret[t] ELSE "open")
  /\ UNCHANGED <<fixed, tables, opened, proc, field, ret, calls>>

OpenSymbols(t) == At(t, "open") /\ Open(t, "libart.so", "fill")

StoreSymbol(t) ==
  /\ At(t, "fill")
  /\ \E p \in dlsym["libart.so"][SymbolName(FieldOrder[field[t]], phone.api)] :
       IF Fatal(p) THEN Crash(p)
       ELSE /\ symbols' = [symbols EXCEPT ![FieldOrder[field[t]]] = p]
            /\ field' = [field EXCEPT ![t] = IF @ = 7 THEN 1 ELSE @ + 1]
            /\ Goto(t, IF field[t] = 7 THEN "done"
                       ELSE IF field[t] = 5 THEN "more" ELSE "fill")
            /\ UNCHANGED <<symbol_inited, bridges, bridge_inited, get_jnienv_symbol,
                           opened, proc>>
  /\ UNCHANGED <<fixed, ret, calls>>

\* Line 41: the other two are looked up if there is no Clone(Thread).
MoreSymbols(t) ==
  /\ At(t, "more") /\ Goto(t, IF symbols.object_clone = None THEN "fill" ELSE "done")
  /\ UNCHANGED <<fixed, tables, opened, proc, field, ret, calls>>

SetSymbolInited(t) ==
  /\ At(t, "done") /\ symbol_inited' = TRUE /\ Goto(t, ret[t])
  /\ field' = [field EXCEPT ![t] = 1]
  /\ UNCHANGED <<fixed, symbols, bridges, bridge_inited, get_jnienv_symbol, opened, proc,
                 ret, calls>>

(***************************************************************************)
(* CloneObject after GetSymbol, its argument GetCurrentThread first.       *)
(***************************************************************************)
CloneObject(t) ==
  \/ /\ At(t, "clone") /\ Goto(t, "env") /\ ret' = [ret EXCEPT ![t] = "call"]
     /\ UNCHANGED <<fixed, tables, opened, proc, field, calls>>
  \/ /\ At(t, "call")
     /\ IF \A f \in {"object_clone", "object_clone_with_class", "object_clone_with_size"} :
             symbols[f] = None
        THEN Crash(Wild) ELSE Goto(t, "idle") /\ UNCHANGED <<tables, opened, proc, field>>
     /\ UNCHANGED <<fixed, ret, calls>>

(***************************************************************************)
(* GetJniEnv; its callers here use the environment untested.               *)
(***************************************************************************)
GetJniEnv(t) ==
  \/ /\ At(t, "env") /\ get_jnienv_symbol # None /\ Goto(t, ret[t])
     /\ UNCHANGED <<fixed, tables, opened, proc, field, ret, calls>>
  \/ /\ At(t, "env") /\ get_jnienv_symbol = None
     /\ Open(t, "libandroid_runtime.so", "envsym")

StoreJniEnv(t) ==
  /\ At(t, "envsym")
  /\ \E p \in dlsym["libandroid_runtime.so"]["getJNIEnv"] :
       IF p = None \/ Fatal(p) THEN Crash(p)
       ELSE /\ get_jnienv_symbol' = p /\ Goto(t, ret[t])
            /\ UNCHANGED <<symbols, symbol_inited, bridges, bridge_inited, opened, proc, field>>
  /\ UNCHANGED <<fixed, ret, calls>>

(***************************************************************************)
(* GetBridgeList, with GetAndroidRuntimeAddress in the middle.             *)
(***************************************************************************)
TestBridge(t) ==
  /\ At(t, "bridge") /\ Goto(t, IF bridge_inited THEN "idle" ELSE "bopen")
  /\ UNCHANGED <<fixed, tables, opened, proc, field, ret, calls>>

OpenBridges(t) == At(t, "bopen") /\ Open(t, "libart.so", "compiled")

StoreBridge(t, f, found, there) ==
  \E p \in found :
    IF Fatal(p) THEN Crash(p)
    ELSE /\ bridges' = [bridges EXCEPT ![f] = p] /\ Goto(t, there)
         /\ UNCHANGED <<symbols, symbol_inited, bridge_inited, get_jnienv_symbol, opened,
                        proc, field>>

\* Mutant: quick_to_jni_bridge is cleared before it is looked up.
StoreCompiledClears(t) ==
  /\ At(t, "compiled")
  /\ ret' = [ret EXCEPT ![t] = "trampoline"] /\ Goto(t, "env")
  /\ \E p \in dlsym["libart.so"]["artInterpreterToCompiledCodeBridge"] \ {Stale} :
       bridges' = [bridges EXCEPT !.interpreter_to_compiled_code = p,
                                  !.quick_to_jni_bridge = None]
  /\ UNCHANGED <<fixed, symbols, symbol_inited, bridge_inited, get_jnienv_symbol, opened,
                 proc, field, calls>>

StoreCompiled(t) ==
  /\ At(t, "compiled") /\ ret' = [ret EXCEPT ![t] = "trampoline"]
  /\ StoreBridge(t, "interpreter_to_compiled_code",
                 dlsym["libart.so"]["artInterpreterToCompiledCodeBridge"], "env")
  /\ UNCHANGED <<fixed, calls>>

StoreTrampoline(t) ==
  /\ At(t, "trampoline")
  /\ StoreBridge(t, "quick_to_jni_bridge", Trampolines, "interpreter")
  /\ UNCHANGED <<fixed, ret, calls>>

StoreInterpreter(t) ==
  /\ At(t, "interpreter")
  /\ StoreBridge(t, "quick_to_interpreter",
                 dlsym["libart.so"]["art_quick_to_interpreter_bridge"], "bdone")
  /\ UNCHANGED <<fixed, ret, calls>>

SetBridgeInited(t) ==
  /\ At(t, "bdone") /\ bridge_inited' = TRUE /\ Goto(t, "idle")
  /\ UNCHANGED <<fixed, symbols, symbol_inited, bridges, get_jnienv_symbol, opened, proc,
                 field, ret, calls>>

\* Every call was made, or the process is gone.
Rest ==
  /\ proc # "up" \/ \A t \in Threads : pc[t] = "idle" /\ calls[t] = MaxCalls
  /\ UNCHANGED vars

Next ==
  \/ Rest
  \/ \E t \in Threads :
       \/ Call(t) \/ CloneObject(t) \/ GetJniEnv(t) \/ StoreJniEnv(t)
       \/ TestSymbol(t) \/ OpenSymbols(t) \/ StoreSymbol(t) \/ MoreSymbols(t)
       \/ SetSymbolInited(t)
       \/ TestBridge(t) \/ OpenBridges(t) \/ StoreCompiled(t) \/ StoreTrampoline(t)
       \/ StoreInterpreter(t) \/ SetBridgeInited(t)

Spec == Init /\ [][Next]_vars

-----------------------------------------------------------------------------
SymbolsIn(f) == SymbolName(f, phone.api)

\* Whatever table a symbol is found through, and when the trampoline had to be dug
\* out of the runtime's memory, the address stored is where the linker put the thing
\* (FindSymbolOffset, load_bias_, GetAndroidRuntimeAddress).
PointersTrue ==
  /\ \A f \in DOMAIN symbols : symbols[f] \in {None, phone.at[SymbolsIn(f)]}
  /\ \A f \in DOMAIN bridges : bridges[f] \in {None, phone.at[SymbolsIn(f)]}
  /\ get_jnienv_symbol \in {None, phone.at["getJNIEnv"]}

\* A thread that finds a table initialised finds in it everything that the file, its
\* .symtab or the memory of the runtime could tell (GetSymbol, GetBridgeList: no lock
\* between the stores and the flag).
FoundIfThere ==
  LET clones == {"object_clone_with_class", "object_clone_with_size"} IN
  /\ symbol_inited =>
       \A f \in DOMAIN symbols :
         /\ SymbolsIn(f) \in phone.told
         /\ f \in clones => "Clone(Thread)" \notin phone.told
         => symbols[f] # None
  /\ bridge_inited => \A f \in DOMAIN bridges : SymbolsIn(f) \in phone.told => bridges[f] # None

\* What a thread may already use does not go away while another fills the table too.
PointersStay ==
  [][/\ \A f \in DOMAIN symbols : symbols[f] # None => symbols'[f] = symbols[f]
     /\ \A f \in DOMAIN bridges : bridges[f] # None => bridges'[f] = bridges[f]]_vars

\* The process comes through every lookup unless the phone lacks what there is no
\* way around: an environment, the trampoline, a Clone before M.  Above all the files
\* left open (fp_ is never set) do not use up the descriptors.  A crash on what new
\* memory held in symtab_ (elf_image.cc, line 91) is set apart as "stale", one
\* because the system opens or maps no file (lines 190-203) as "refused".
CrashesOnlyIfLost ==
  proc = "crashed" =>
    \/ {"getJNIEnv", "art_quick_generic_jni_trampoline"} \ phone.told # {}
    \/ phone.api < ANDROID_M
       /\ {"Clone(Thread)", "Clone(Thread,Class)", "Clone(Thread,m)"} \cap phone.told = {}

\* The protection of a span is what all the lines that hold it allow, an error if a
\* part of it is not in the file (xh_util_get_mem_protect: spans over several lines,
\* RELRO pages, gaps, shared and anonymous lines in between).  maps does not change:
\* it is asked before the first call.
ProtectExact ==
  (\A t \in Threads : calls[t] = 0) =>
    LET maps == phone.maps
        libart == FindExecuteMemoryRange(maps, "libart.so").path
        own == {k \in DOMAIN maps : maps[k].path = libart /\ maps[k].private}
        Holds(a) == {k \in own : maps[k].begin <= a /\ a < maps[k].end}
    IN \A addr \in phone.probes, len \in 1..6 :
         LET span == addr..(addr + len - 1)
             lines == UNION {Holds(a) : a \in span}
         IN GetMemProtect(maps, addr, len, libart) =
              IF \E a \in span : Holds(a) = {} THEN SEGVERR
              ELSE {p \in {"r", "w", "x"} : \A k \in lines : p \in maps[k].perm}
=============================================================================
