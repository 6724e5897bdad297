---------------------------- MODULE LibArt_proofs ----------------------------
(***************************************************************************)
(* Proofs about LibArt, for any number of threads and calls.  That no      *)
(* pointer goes away, that the files left open do not use up the           *)
(* descriptors and that the protection of a span is exact need nothing of  *)
(* the phones but the order of their maps.  The others are about phones    *)
(* whose files a linker wrote and whose memory is laid out as the search   *)
(* expects (LibArtFiles): first what the threads make of truthful answers, *)
(* without a lock, then that such files and such a memory give them.       *)
(***************************************************************************)
EXTENDS LibArtFiles, FiniteSetTheorems, NaturalsInduction, WellFoundedInduction, TLAPS

-----------------------------------------------------------------------------
(***************************************************************************)
(* The answers a phone gives.                                              *)
(***************************************************************************)
Fields == SymbolFields \cup BridgeFields

\* What may be stored in a field.
Answers(f) ==
  IF f = "quick_to_jni_bridge" THEN Trampolines ELSE dlsym["libart.so"][SymbolsIn(f)]

JniAnswers == dlsym["libandroid_runtime.so"]["getJNIEnv"]

\* An answer that is not null is the address the linker gave the name.
True(p, name) == Fatal(p) \/ p = None \/ (p = phone.at[name] /\ InText(phone, p))

Truthful ==
  /\ \A f \in Fields : \A p \in Answers(f) : True(p, SymbolsIn(f))
  /\ \A p \in JniAnswers : True(p, "getJNIEnv")

\* What the files or the memory tell is answered.
Forthcoming ==
  /\ \A f \in Fields : SymbolsIn(f) \in phone.told => None \notin Answers(f)
  /\ "Clone(Thread)" \notin phone.told =>
       \A p \in Answers("object_clone") : Fatal(p) \/ p = None
  /\ "libart.so" \notin dlopen \/ (\E f \in Fields : Wild \in Answers(f)) =>
       "art_quick_generic_jni_trampoline" \notin phone.told
  /\ "getJNIEnv" \in phone.told =>
       "libandroid_runtime.so" \in dlopen /\ JniAnswers \cap {None, Wild} = {}

-----------------------------------------------------------------------------
(***************************************************************************)
(* Invariants.                                                             *)
(***************************************************************************)
Filling == {"fill", "more", "done"}
InSymbols == {"symbol", "open"} \cup Filling
InJni == {"env", "envsym"}
Places == {"idle", "clone", "call", "bridge", "bopen", "compiled", "trampoline", "interpreter",
           "bdone"} \cup InSymbols \cup InJni
Returns == {"idle", "clone", "call", "trampoline"}

\* The types, without what the tables and opened hold.
Typed ==
  /\ DOMAIN symbols = SymbolFields /\ DOMAIN bridges = BridgeFields
  /\ symbol_inited \in BOOLEAN /\ bridge_inited \in BOOLEAN
  /\ proc \in {"up", "crashed", "stale", "refused"}
  /\ pc \in [Threads -> Places] /\ ret \in [Threads -> Returns]
  /\ field \in [Threads -> 1..7] /\ calls \in [Threads -> 0..MaxCalls]

\* Where a call returns to, and which fields it is at.
Control ==
  \A t \in Threads :
    /\ pc[t] \in InSymbols => ret[t] \in {"idle", "clone"}
    /\ pc[t] \in {"clone", "call"} => ret[t] = pc[t]
    /\ pc[t] \in InJni => ret[t] \in {"call", "trampoline"}
    /\ pc[t] = "more" => field[t] = 6
    /\ pc[t] \notin Filling => field[t] = 1
    /\ ret[t] \in {"clone", "call"} => phone.api < ANDROID_M

\* A lookup has one answer, unless the process does not survive it.
OneAnswer ==
  \A f \in Fields : \A p, q \in Answers(f) : Fatal(p) \/ Fatal(q) \/ p = q

\* The tables hold answers.
Stored ==
  /\ \A f \in SymbolFields :
       symbols[f] = None \/ (symbols[f] \in Answers(f) /\ ~Fatal(symbols[f]))
  /\ \A f \in BridgeFields :
       bridges[f] = None \/ (bridges[f] \in Answers(f) /\ ~Fatal(bridges[f]))
  /\ get_jnienv_symbol = None
     \/ (get_jnienv_symbol \in JniAnswers /\ ~Fatal(get_jnienv_symbol))

BaseInv == Typed /\ Control /\ OneAnswer /\ Stored

\* The threads that may still open a library, for each of the three places that do.
PastBridgeOpen(t) ==
  \/ pc[t] \in {"compiled", "trampoline", "interpreter", "bdone"}
  \/ pc[t] \in InJni /\ ret[t] = "trampoline"

MayOpenSymbols ==
  {t \in Threads : pc[t] = "open" \/ (~symbol_inited /\ pc[t] \notin Filling)}
MayOpenBridges ==
  {t \in Threads : pc[t] = "bopen" \/ (~bridge_inited /\ ~PastBridgeOpen(t))}
MayOpenJni ==
  {t \in Threads : get_jnienv_symbol = None /\ pc[t] # "envsym"}

\* Each thread opens a library once for each of them.
FdInv ==
  /\ opened \in Nat
  /\ opened + Cardinality(MayOpenSymbols) + Cardinality(MayOpenBridges)
            + Cardinality(MayOpenJni) <= 3 * Cardinality(Threads) + 1

\* A field that was told is filled.
SymbolThere(f) ==
  /\ SymbolsIn(f) \in phone.told
  /\ f \in {"object_clone_with_class", "object_clone_with_size"} =>
       "Clone(Thread)" \notin phone.told
  => symbols[f] # None
BridgeThere(f) == SymbolsIn(f) \in phone.told => bridges[f] # None

\* What a thread has passed on its way through the fields is filled, by it or another.
SymbolsPassed(t) ==
  /\ pc[t] \in {"fill", "more"} => \A i \in 1..(field[t] - 1) : SymbolThere(FieldOrder[i])
  /\ pc[t] = "done" => \A f \in SymbolFields : SymbolThere(f)
  /\ pc[t] \in {"clone", "call"} \/ (pc[t] \in InJni /\ ret[t] = "call") => symbol_inited

BridgesPassed(t) ==
  /\ pc[t] \in {"trampoline", "interpreter", "bdone"}
       \/ (pc[t] \in InJni /\ ret[t] = "trampoline") =>
         BridgeThere("interpreter_to_compiled_code")
  /\ pc[t] \in {"interpreter", "bdone"} => BridgeThere("quick_to_jni_bridge")
  /\ pc[t] = "bdone" => BridgeThere("quick_to_interpreter")

FillInv ==
  /\ \A t \in Threads : SymbolsPassed(t) /\ BridgesPassed(t)
  /\ symbol_inited => \A f \in SymbolFields : SymbolThere(f)
  /\ bridge_inited => \A f \in BridgeFields : BridgeThere(f)

-----------------------------------------------------------------------------
(***************************************************************************)
(* Steps.                                                                  *)
(***************************************************************************)
\* A step of thread t.
ThreadStep(t) ==
  \/ Call(t) \/ CloneObject(t) \/ GetJniEnv(t) \/ StoreJniEnv(t)
  \/ TestSymbol(t) \/ OpenSymbols(t) \/ StoreSymbol(t) \/ MoreSymbols(t)
  \/ SetSymbolInited(t)
  \/ TestBridge(t) \/ OpenBridges(t) \/ StoreCompiled(t) \/ StoreTrampoline(t)
  \/ StoreInterpreter(t) \/ SetBridgeInited(t)

\* A step is one of a thread, or changes nothing.
LEMMA Steps ==
  ASSUME [Next]_vars
  PROVE  UNCHANGED vars \/ \E t \in Threads : ThreadStep(t)
  BY DEF Next, Rest, ThreadStep

\* The phone and its answers never change.
LEMMA SamePhone ==
  ASSUME [Next]_vars
  PROVE  /\ phone' = phone /\ dlopen' = dlopen /\ dlsym' = dlsym
         /\ \A f : SymbolsIn(f)' = SymbolsIn(f) /\ Answers(f)' = Answers(f)
         /\ Trampolines' = Trampolines /\ JniAnswers' = JniAnswers
<1>1. fixed' = fixed
  <2>1. CASE UNCHANGED vars
    BY <2>1 DEF vars
  <2>2. ASSUME NEW t \in Threads, ThreadStep(t) PROVE fixed' = fixed
    BY <2>2 DEF ThreadStep, Call, Enter, CloneObject, GetJniEnv, StoreJniEnv, TestSymbol,
       OpenSymbols, Open, StoreSymbol, MoreSymbols, SetSymbolInited, TestBridge, OpenBridges,
       StoreCompiled, StoreTrampoline, StoreInterpreter, SetBridgeInited
  <2> QED
    BY <2>1, <2>2, Steps
<1>2. phone' = phone /\ dlopen' = dlopen /\ dlsym' = dlsym
  BY <1>1 DEF fixed
<1>3. \A f : SymbolsIn(f)' = SymbolsIn(f)
  BY <1>2 DEF SymbolsIn
<1>4. Trampolines' = Trampolines
  <2>1. SearchTrampoline' = SearchTrampoline
    <3>1. \A obj, slot : MemberOf(obj, slot)' = MemberOf(obj, slot)
      BY <1>2 DEF MemberOf
    <3>2. \A obj, start, value : Scan(obj, start, value)' = Scan(obj, start, value)
      BY <1>2 DEF Scan, MemberOf
    <3>3. \A slot : LinkerSlot(slot)' = LinkerSlot(slot)
      BY <1>2 DEF LinkerSlot
    <3> QED
      BY <1>2, <3>1, <3>2, <3>3 DEF SearchTrampoline
  <2> QED
    BY <1>2, <2>1 DEF Trampolines
<1>5. \A f : Answers(f)' = Answers(f)
  BY <1>2, <1>3, <1>4 DEF Answers
<1>6. JniAnswers' = JniAnswers
  BY <1>2, <1>3 DEF JniAnswers
<1> QED
  BY <1>2, <1>3, <1>4, <1>5, <1>6

\* The fields in the order they are filled.
LEMMA FieldsInOrder ==
  /\ DOMAIN FieldOrder = 1..7
  /\ SymbolFields = {"suspend_vm", "resume_vm", "force_process_profiles", "method_copy_from",
                     "object_clone", "object_clone_with_class", "object_clone_with_size"}
  /\ \A i \in 1..7 : FieldOrder[i] \in SymbolFields
  /\ FieldOrder[5] = "object_clone"
  /\ \A f \in SymbolFields : \E i \in 1..7 : FieldOrder[i] = f
  /\ \A i \in 6..7 : FieldOrder[i] \in {"object_clone_with_class", "object_clone_with_size"}
<1>1. DOMAIN FieldOrder = 1..7
  BY DEF FieldOrder
<1>2. \A i : i \in 1..7 <=> i \in {1, 2, 3, 4, 5, 6, 7}
  OBVIOUS
<1>3. SymbolFields = {FieldOrder[i] : i \in {1, 2, 3, 4, 5, 6, 7}}
  BY <1>1, <1>2 DEF SymbolFields
<1>4. /\ FieldOrder[1] = "suspend_vm" /\ FieldOrder[2] = "resume_vm"
      /\ FieldOrder[3] = "force_process_profiles" /\ FieldOrder[4] = "method_copy_from"
      /\ FieldOrder[5] = "object_clone" /\ FieldOrder[6] = "object_clone_with_class"
      /\ FieldOrder[7] = "object_clone_with_size"
  BY DEF FieldOrder
<1>5. \A i \in 6..7 : i = 6 \/ i = 7
  OBVIOUS
<1> QED
  BY <1>1, <1>2, <1>3, <1>4, <1>5

\* What a library answers about a name.
LEMMA OneDlSym ==
  ASSUME NEW k, NEW lib, NEW name, NEW p \in DlSym(k, lib, name), NEW q \in DlSym(k, lib, name)
  PROVE  Fatal(p) \/ Fatal(q) \/ p = q
  BY DEF DlSym, MayReturn, Fatal

\* The names of the fields are among those looked up.
LEMMA FieldNames == ASSUME NEW f \in Fields PROVE SymbolsIn(f) \in SymbolNames
<1>1. \E v \in {ANDROID_N, ANDROID_O, ANDROID_O_MR1} :
        SymbolName(f, phone.api) = SymbolName(f, v)
  <2>1. CASE phone.api > ANDROID_O
    <3>1. SymbolName(f, phone.api) = SymbolName(f, ANDROID_O_MR1)
      BY <2>1 DEF SymbolName, ANDROID_O, ANDROID_O_MR1
    <3> QED
      BY <3>1
  <2>2. CASE ~(phone.api > ANDROID_O) /\ phone.api > ANDROID_N
    <3>1. SymbolName(f, phone.api) = SymbolName(f, ANDROID_O)
      BY <2>2 DEF SymbolName, ANDROID_N, ANDROID_O
    <3> QED
      BY <3>1
  <2>3. CASE ~(phone.api > ANDROID_O) /\ ~(phone.api > ANDROID_N)
    <3>1. SymbolName(f, phone.api) = SymbolName(f, ANDROID_N)
      BY <2>3 DEF SymbolName, ANDROID_N, ANDROID_O
    <3> QED
      BY <3>1
  <2> QED
    BY <2>1, <2>2, <2>3
<1> QED
  BY <1>1 DEF Fields, SymbolNames, SymbolsIn

-----------------------------------------------------------------------------
(***************************************************************************)
(* BaseInv.                                                                *)
(***************************************************************************)
\* Typed is inductive.
LEMMA NextTyped ==
  ASSUME Typed, [Next]_vars
  PROVE  Typed'
<1>1. CASE UNCHANGED vars
  BY <1>1 DEF vars, fixed, tables, Typed, Places, Returns, InSymbols, Filling, InJni
<1>2. ASSUME NEW t \in Threads, ThreadStep(t) PROVE Typed'
  <2>1. CASE Call(t)
    BY <2>1, MaxCallsAssumption DEF Call, Enter, At, Goto, tables, Typed, Places, Returns,
       InSymbols, Filling, InJni
  <2>2. CASE CloneObject(t)
    BY <2>2, FieldsInOrder DEF CloneObject, Crash, At, Goto, tables, Typed, Places, Returns,
       InSymbols, Filling, InJni
  <2>3. CASE GetJniEnv(t)
    BY <2>3, FieldsInOrder DEF GetJniEnv, Open, At, Goto, tables, Typed, Places, Returns,
       InSymbols, Filling, InJni
  <2>4. CASE StoreJniEnv(t)
    BY <2>4, FieldsInOrder DEF StoreJniEnv, Crash, At, Goto, tables, Typed, Places, Returns,
       InSymbols, Filling, InJni
  <2>5. CASE TestSymbol(t)
    BY <2>5, FieldsInOrder DEF TestSymbol, At, Goto, tables, Typed, Places, Returns,
       InSymbols, Filling, InJni
  <2>6. CASE OpenSymbols(t)
    BY <2>6, FieldsInOrder DEF OpenSymbols, Open, At, Goto, tables, Typed, Places, Returns,
       InSymbols, Filling, InJni
  <2>7. CASE StoreSymbol(t)
    BY <2>7, FieldsInOrder DEF StoreSymbol, Crash, At, Goto, tables, Typed, Places, Returns,
       InSymbols, Filling, InJni
  <2>8. CASE MoreSymbols(t)
    BY <2>8, FieldsInOrder DEF MoreSymbols, At, Goto, tables, Typed, Places, Returns,
       InSymbols, Filling, InJni
  <2>9. CASE SetSymbolInited(t)
    BY <2>9, FieldsInOrder DEF SetSymbolInited, At, Goto, tables, Typed, Places, Returns,
       InSymbols, Filling, InJni
  <2>10. CASE TestBridge(t)
    BY <2>10, FieldsInOrder DEF TestBridge, At, Goto, tables, Typed, Places, Returns,
       InSymbols, Filling, InJni
  <2>11. CASE OpenBridges(t)
    BY <2>11, FieldsInOrder DEF OpenBridges, Open, At, Goto, tables, Typed, Places, Returns,
       InSymbols, Filling, InJni
  <2>12. CASE StoreCompiled(t)
    BY <2>12, FieldsInOrder DEF StoreCompiled, StoreBridge, Crash, At, Goto, tables, Typed,
       Places, Returns, InSymbols, Filling, InJni
  <2>13. CASE StoreTrampoline(t)
    BY <2>13, FieldsInOrder DEF StoreTrampoline, StoreBridge, Crash, At, Goto, tables,
       Typed, Places, Returns, InSymbols, Filling, InJni
  <2>14. CASE StoreInterpreter(t)
    BY <2>14, FieldsInOrder DEF StoreInterpreter, StoreBridge, Crash, At, Goto, tables,
       Typed, Places, Returns, InSymbols, Filling, InJni
  <2>15. CASE SetBridgeInited(t)
    BY <2>15, FieldsInOrder DEF SetBridgeInited, At, Goto, tables, Typed, Places, Returns,
       InSymbols, Filling, InJni
  <2> QED
    BY <1>2, <2>1, <2>2, <2>3, <2>4, <2>5, <2>6, <2>7, <2>8, <2>9, <2>10, <2>11, <2>12,
       <2>13, <2>14, <2>15 DEF ThreadStep
<1> QED
  BY <1>1, <1>2, Steps

\* Control is inductive.
LEMMA NextControl ==
  ASSUME Typed, Control, [Next]_vars
  PROVE  Control'
<1>1. CASE UNCHANGED vars
  BY <1>1 DEF vars, fixed, tables, Typed, Control, Places, Returns, InSymbols, Filling,
     InJni, ANDROID_M
<1>2. ASSUME NEW t \in Threads, ThreadStep(t) PROVE Control'
  <2>1. CASE Call(t)
    BY <2>1, SamePhone DEF Call, Enter, At, Goto, tables, Typed, Control, Places, Returns,
       InSymbols, Filling, InJni, ANDROID_M
  <2>2. CASE CloneObject(t)
    BY <2>2, SamePhone DEF CloneObject, Crash, At, Goto, tables, Typed, Control, Places,
       Returns, InSymbols, Filling, InJni, ANDROID_M
  <2>3. CASE GetJniEnv(t)
    BY <2>3, SamePhone DEF GetJniEnv, Open, At, Goto, tables, Typed, Control, Places,
       Returns, InSymbols, Filling, InJni, ANDROID_M
  <2>4. CASE StoreJniEnv(t)
    BY <2>4, SamePhone DEF StoreJniEnv, Crash, At, Goto, tables, Typed, Control, Places,
       Returns, InSymbols, Filling, InJni, ANDROID_M
  <2>5. CASE TestSymbol(t)
    BY <2>5, SamePhone DEF TestSymbol, At, Goto, tables, Typed, Control, Places, Returns,
       InSymbols, Filling, InJni, ANDROID_M
  <2>6. CASE OpenSymbols(t)
    BY <2>6, SamePhone DEF OpenSymbols, Open, At, Goto, tables, Typed, Control, Places,
       Returns, InSymbols, Filling, InJni, ANDROID_M
  <2>7. CASE StoreSymbol(t)
    BY <2>7, SamePhone DEF StoreSymbol, Crash, At, Goto, tables, Typed, Control, Places,
       Returns, InSymbols, Filling, InJni, ANDROID_M
  <2>8. CASE MoreSymbols(t)
    BY <2>8, SamePhone DEF MoreSymbols, At, Goto, tables, Typed, Control, Places, Returns,
       InSymbols, Filling, InJni, ANDROID_M
  <2>9. CASE SetSymbolInited(t)
    BY <2>9, SamePhone DEF SetSymbolInited, At, Goto, tables, Typed, Control, Places,
       Returns, InSymbols, Filling, InJni, ANDROID_M
  <2>10. CASE TestBridge(t)
    BY <2>10, SamePhone DEF TestBridge, At, Goto, tables, Typed, Control, Places, Returns,
       InSymbols, Filling, InJni, ANDROID_M
  <2>11. CASE OpenBridges(t)
    BY <2>11, SamePhone DEF OpenBridges, Open, At, Goto, tables, Typed, Control, Places,
       Returns, InSymbols, Filling, InJni, ANDROID_M
  <2>12. CASE StoreCompiled(t)
    BY <2>12, SamePhone DEF StoreCompiled, StoreBridge, Crash, At, Goto, tables, Typed,
       Control, Places, Returns, InSymbols, Filling, InJni, ANDROID_M
  <2>13. CASE StoreTrampoline(t)
    BY <2>13, SamePhone DEF StoreTrampoline, StoreBridge, Crash, At, Goto, tables, Typed,
       Control, Places, Returns, InSymbols, Filling, InJni, ANDROID_M
  <2>14. CASE StoreInterpreter(t)
    BY <2>14, SamePhone DEF StoreInterpreter, StoreBridge, Crash, At, Goto, tables, Typed,
       Control, Places, Returns, InSymbols, Filling, InJni, ANDROID_M
  <2>15. CASE SetBridgeInited(t)
    BY <2>15, SamePhone DEF SetBridgeInited, At, Goto, tables, Typed, Control, Places,
       Returns, InSymbols, Filling, InJni, ANDROID_M
  <2> QED
    BY <1>2, <2>1, <2>2, <2>3, <2>4, <2>5, <2>6, <2>7, <2>8, <2>9, <2>10, <2>11, <2>12,
       <2>13, <2>14, <2>15 DEF ThreadStep
<1> QED
  BY <1>1, <1>2, Steps

\* What is stored is an answer.
LEMMA NextStored ==
  ASSUME Typed, Stored, [Next]_vars
  PROVE  Stored'
<1>0. \A f : Answers(f)' = Answers(f) /\ JniAnswers' = JniAnswers
  BY SamePhone
<1>1. CASE UNCHANGED vars
  BY <1>0, <1>1 DEF vars, tables, Stored
<1>2. ASSUME NEW t \in Threads, ThreadStep(t) PROVE Stored'
  <2>1. CASE StoreSymbol(t)
    <3>1. CASE UNCHANGED tables
      BY <1>0, <3>1 DEF tables, Stored
    <3>2. CASE ~UNCHANGED tables
      <4>1. PICK p \in dlsym["libart.so"][SymbolName(FieldOrder[field[t]], phone.api)] :
              /\ ~Fatal(p) /\ symbols' = [symbols EXCEPT ![FieldOrder[field[t]]] = p]
              /\ UNCHANGED <<bridges, get_jnienv_symbol>>
        BY <2>1, <3>2 DEF StoreSymbol, Crash
      <4>2. PICK g \in SymbolFields : g = FieldOrder[field[t]]
        BY FieldsInOrder DEF Typed
      <4>3. p \in Answers(g)
        BY <4>1, <4>2, FieldsInOrder DEF Answers, SymbolsIn
      <4> QED
        BY <1>0, <4>1, <4>2, <4>3 DEF Stored, Typed
    <3> QED
      BY <3>1, <3>2
  <2>2. CASE StoreJniEnv(t)
    BY <1>0, <2>2 DEF StoreJniEnv, Crash, tables, Stored, JniAnswers
  <2>3. CASE StoreCompiled(t) \/ StoreTrampoline(t) \/ StoreInterpreter(t)
    <3>1. \/ UNCHANGED tables
          \/ \E f \in BridgeFields : \E p \in Answers(f) :
               /\ ~Fatal(p) /\ bridges' = [bridges EXCEPT ![f] = p]
               /\ UNCHANGED <<symbols, get_jnienv_symbol>>
      BY <2>3 DEF StoreCompiled, StoreTrampoline, StoreInterpreter, StoreBridge, Crash,
         BridgeFields, Answers, SymbolsIn, SymbolName
    <3> QED
      BY <1>0, <3>1 DEF tables, Stored, Typed
  <2>4. CASE Call(t) \/ CloneObject(t) \/ GetJniEnv(t) \/ TestSymbol(t) \/ OpenSymbols(t)
             \/ MoreSymbols(t) \/ SetSymbolInited(t) \/ TestBridge(t) \/ OpenBridges(t)
             \/ SetBridgeInited(t)
    <3>1. UNCHANGED <<symbols, bridges, get_jnienv_symbol>>
      BY <2>4 DEF Call, Enter, CloneObject, Crash, GetJniEnv, Open, TestSymbol, OpenSymbols,
         MoreSymbols, SetSymbolInited, TestBridge, OpenBridges, SetBridgeInited, tables
    <3> QED
      BY <1>0, <3>1 DEF Stored
  <2> QED
    BY <1>2, <2>1, <2>2, <2>3, <2>4 DEF ThreadStep
<1> QED
  BY <1>1, <1>2, Steps

\* BaseInv always holds.
LEMMA BaseInvAlways == Spec => []BaseInv
<1>1. Init => BaseInv
  <2> SUFFICES ASSUME Init PROVE BaseInv
    OBVIOUS
  <2>1. Typed
    <3>1. /\ DOMAIN symbols = SymbolFields /\ DOMAIN bridges = BridgeFields
          /\ symbol_inited \in BOOLEAN /\ bridge_inited \in BOOLEAN /\ proc = "up"
          /\ pc = [t \in Threads |-> "idle"] /\ ret = [t \in Threads |-> "idle"]
          /\ field = [t \in Threads |-> 1] /\ calls = [t \in Threads |-> 0]
      BY DEF Init
    <3>2. "idle" \in Places /\ "idle" \in Returns
      BY DEF Places, Returns
    <3>3. 0 \in 0..MaxCalls
      BY MaxCallsAssumption
    <3> QED
      BY <3>1, <3>2, <3>3 DEF Typed
  <2>2. Control
    BY DEF Init, Control, InSymbols, Filling, InJni
  <2>3. Stored
    BY DEF Init, Stored
  <2>4. OneAnswer
    <3>1. PICK k \in Phones :
            dlsym = [lib \in Libraries |-> [name \in SymbolNames |-> DlSym(k, lib, name)]]
      BY DEF Init
    <3>2. \A f \in Fields : dlsym["libart.so"][SymbolsIn(f)] = DlSym(k, "libart.so",
    SymbolsIn(f))
      BY <3>1, FieldNames DEF Libraries
    <3>3. ASSUME NEW f \in Fields, NEW p \in dlsym["libart.so"][SymbolsIn(f)],
                 NEW q \in dlsym["libart.so"][SymbolsIn(f)]
          PROVE  Fatal(p) \/ Fatal(q) \/ p = q
      BY <3>2, <3>3, OneDlSym
    <3>4. ASSUME NEW p \in Trampolines, NEW q \in Trampolines
          PROVE  Fatal(p) \/ Fatal(q) \/ p = q
      <4>1. "quick_to_jni_bridge" \in Fields
            /\ SymbolsIn("quick_to_jni_bridge") = "art_quick_generic_jni_trampoline"
        BY DEF Fields, BridgeFields, SymbolsIn, SymbolName
      <4>2. PICK u \in dlsym["libart.so"]["art_quick_generic_jni_trampoline"] :
              p = IF u = None THEN SearchTrampoline ELSE u
        BY DEF Trampolines
      <4>3. PICK v \in dlsym["libart.so"]["art_quick_generic_jni_trampoline"] :
              q = IF v = None THEN SearchTrampoline ELSE v
        BY DEF Trampolines
      <4>4. Fatal(u) \/ Fatal(v) \/ u = v
        BY <3>3, <4>1
      <4>5. ~Fatal(None)
        BY DEF Fatal, None, Wild, Stale
      <4> QED
        BY <4>2, <4>3, <4>4, <4>5
    <3> QED
      BY <3>3, <3>4 DEF OneAnswer, Answers
  <2> QED
    BY <2>1, <2>2, <2>3, <2>4 DEF BaseInv
<1>2. BaseInv /\ [Next]_vars => BaseInv'
  <2>1. OneAnswer /\ [Next]_vars => OneAnswer'
    BY SamePhone DEF OneAnswer
  <2> QED
    BY <2>1, NextTyped, NextControl, NextStored DEF BaseInv
<1> QED
  BY <1>1, <1>2, PTL DEF Spec

\* A field that is filled keeps its address.
LEMMA FieldsKept ==
  ASSUME BaseInv, [Next]_vars
  PROVE  /\ \A f \in SymbolFields : symbols[f] # None => symbols'[f] = symbols[f]
         /\ \A f \in BridgeFields : bridges[f] # None => bridges'[f] = bridges[f]
<1>1. CASE UNCHANGED vars
  BY <1>1 DEF vars, tables
<1>2. ASSUME NEW t \in Threads, ThreadStep(t)
      PROVE  /\ \A f \in SymbolFields : symbols[f] # None => symbols'[f] = symbols[f]
             /\ \A f \in BridgeFields : bridges[f] # None => bridges'[f] = bridges[f]
  <2>1. \/ symbols' = symbols /\ bridges' = bridges
        \/ StoreSymbol(t) /\ ~UNCHANGED tables
        \/ \E f \in BridgeFields : \E p \in Answers(f) :
             ~Fatal(p) /\ bridges' = [bridges EXCEPT ![f] = p] /\ symbols' = symbols
    BY <1>2 DEF ThreadStep, Call, Enter, CloneObject, Crash, GetJniEnv, Open, StoreJniEnv,
       TestSymbol, OpenSymbols, MoreSymbols, SetSymbolInited, TestBridge, OpenBridges,
       SetBridgeInited, tables, StoreCompiled, StoreTrampoline, StoreInterpreter,
       StoreBridge,
       BridgeFields, Answers, SymbolsIn, SymbolName
  <2>2. CASE StoreSymbol(t) /\ ~UNCHANGED tables
    <3>1. PICK p \in dlsym["libart.so"][SymbolName(FieldOrder[field[t]], phone.api)] :
            /\ ~Fatal(p) /\ symbols' = [symbols EXCEPT ![FieldOrder[field[t]]] = p]
            /\ bridges' = bridges
      BY <2>2 DEF StoreSymbol, Crash
    <3>2. PICK g \in SymbolFields : g = FieldOrder[field[t]]
      BY FieldsInOrder DEF BaseInv, Typed
    <3>3. p \in Answers(g)
      BY <3>1, <3>2, FieldsInOrder DEF Answers, SymbolsIn
    <3>4. symbols[g] # None => symbols[g] = p
      BY <3>1, <3>3 DEF BaseInv, Stored, OneAnswer, Fields
    <3> QED
      BY <3>1, <3>2, <3>4 DEF BaseInv, Typed
  <2>3. ASSUME NEW f \in BridgeFields, NEW p \in Answers(f), ~Fatal(p),
               bridges' = [bridges EXCEPT ![f] = p], symbols' = symbols
        PROVE  \A g \in BridgeFields : bridges[g] # None => bridges'[g] = bridges[g]
    <3>1. bridges[f] # None => bridges[f] = p
      BY <2>3 DEF BaseInv, Stored, OneAnswer, Fields
    <3> QED
      BY <2>3, <3>1 DEF BaseInv, Typed
  <2> QED
    BY <2>1, <2>2, <2>3
<1> QED
  BY <1>1, <1>2, Steps

\* No pointer a thread may already use goes away or changes while another thread fills
\* the table as well: for any phone, whatever its files hold.
THEOREM PointersAreKept == Spec => PointersStay
<1>1. BaseInv /\ [Next]_vars =>
        [/\ \A f \in DOMAIN symbols : symbols[f] # None => symbols'[f] = symbols[f]
         /\ \A f \in DOMAIN bridges : bridges[f] # None => bridges'[f] = bridges[f]]_vars
  BY FieldsKept DEF BaseInv, Typed
<1> QED
  BY <1>1, BaseInvAlways, PTL DEF Spec, PointersStay

-----------------------------------------------------------------------------
(***************************************************************************)
(* The files left open.                                                    *)
(***************************************************************************)
\* No thread comes to a place where it may open a library again, and one that opens
\* one leaves the place.
LEMMA OpensOnce ==
  ASSUME BaseInv, [Next]_vars
  PROVE  /\ MayOpenSymbols' \subseteq MayOpenSymbols
         /\ MayOpenBridges' \subseteq MayOpenBridges
         /\ MayOpenJni' \subseteq MayOpenJni
         /\ \/ opened' = opened
            \/ /\ opened' = opened + 1
               /\ \E t \in Threads : \/ t \in MayOpenSymbols \ MayOpenSymbols'
                                     \/ t \in MayOpenBridges \ MayOpenBridges'
                                     \/ t \in MayOpenJni \ MayOpenJni'
<1> DEFINE ToSymbols(t) == pc[t] = "open" \/ (~symbol_inited /\ pc[t] \notin Filling)
           ToBridges(t) == pc[t] = "bopen" \/ (~bridge_inited /\ ~PastBridgeOpen(t))
           ToJni(t) == get_jnienv_symbol = None /\ pc[t] # "envsym"
           Fewer == \A u \in Threads : /\ ToSymbols(u)' => ToSymbols(u)
                                       /\ ToBridges(u)' => ToBridges(u)
                                       /\ ToJni(u)' => ToJni(u)
<1>0. Typed /\ Control
  BY DEF BaseInv
<1>1. CASE UNCHANGED vars
  BY <1>1 DEF vars, tables, MayOpenSymbols, MayOpenBridges, MayOpenJni, PastBridgeOpen
<1>2. ASSUME NEW t \in Threads, ThreadStep(t)
      PROVE  Fewer /\ \/ opened' = opened
                      \/ /\ opened' = opened + 1
                         /\ \/ ToSymbols(t) /\ ~ToSymbols(t)'
                            \/ ToBridges(t) /\ ~ToBridges(t)'
                            \/ ToJni(t) /\ ~ToJni(t)'
  <2>1. CASE TestSymbol(t)
    BY <1>0, <2>1 DEF TestSymbol, Typed, Control, PastBridgeOpen, At, Goto, tables,
       InSymbols, Filling, InJni
  <2>2. CASE Call(t)
    BY <1>0, <2>2 DEF Call, Enter, Typed, Control, PastBridgeOpen, At, Goto, tables,
       InSymbols, Filling, InJni
  <2>3. CASE CloneObject(t)
    BY <1>0, <2>3 DEF CloneObject, Crash, Typed, Control, PastBridgeOpen, At, Goto, tables,
       InSymbols, Filling, InJni
  <2>4. CASE StoreSymbol(t)
    BY <1>0, <2>4 DEF StoreSymbol, Crash, Typed, Control, PastBridgeOpen, At, Goto, tables,
       InSymbols, Filling, InJni
  <2>5. CASE MoreSymbols(t)
    BY <1>0, <2>5 DEF MoreSymbols, Typed, Control, PastBridgeOpen, At, Goto, tables,
       InSymbols, Filling, InJni
  <2>6. CASE SetSymbolInited(t)
    BY <1>0, <2>6 DEF SetSymbolInited, Typed, Control, PastBridgeOpen, At, Goto, tables,
       InSymbols, Filling, InJni
  <2>7. CASE StoreJniEnv(t)
    BY <1>0, <2>7 DEF StoreJniEnv, Crash, Typed, Control, PastBridgeOpen, At, Goto, tables,
       InSymbols, Filling, InJni
  <2>8. CASE TestBridge(t)
    BY <1>0, <2>8 DEF TestBridge, Typed, Control, PastBridgeOpen, At, Goto, tables,
       InSymbols, Filling, InJni
  <2>9. CASE StoreCompiled(t)
    BY <1>0, <2>9 DEF StoreCompiled, StoreBridge, Crash, Typed, Control, PastBridgeOpen, At,
       Goto, tables, InSymbols, Filling, InJni
  <2>10. CASE StoreTrampoline(t)
    BY <1>0, <2>10 DEF StoreTrampoline, StoreBridge, Crash, Typed, Control, PastBridgeOpen,
       At, Goto, tables, InSymbols, Filling, InJni
  <2>11. CASE StoreInterpreter(t)
    BY <1>0, <2>11 DEF StoreInterpreter, StoreBridge, Crash, Typed, Control, PastBridgeOpen,
       At, Goto, tables, InSymbols, Filling, InJni
  <2>12. CASE SetBridgeInited(t)
    BY <1>0, <2>12 DEF SetBridgeInited, Typed, Control, PastBridgeOpen, At, Goto, tables,
       InSymbols, Filling, InJni
  <2>13. CASE GetJniEnv(t)
    BY <1>0, <2>13 DEF GetJniEnv, Open, Typed, Control, PastBridgeOpen, At, Goto, tables,
       InSymbols, Filling, InJni
  <2>14. CASE OpenSymbols(t)
    BY <1>0, <2>14 DEF OpenSymbols, Open, Typed, Control, PastBridgeOpen, At, Goto, tables,
       InSymbols, Filling, InJni
  <2>15. CASE OpenBridges(t)
    BY <1>0, <2>15 DEF OpenBridges, Open, Typed, Control, PastBridgeOpen, At, Goto, tables,
       InSymbols, Filling, InJni
  <2> QED
    BY <1>2, <2>1, <2>2, <2>3, <2>4, <2>5, <2>6, <2>7, <2>8, <2>9, <2>10, <2>11, <2>12,
       <2>13, <2>14, <2>15 DEF ThreadStep
<1>3. ASSUME NEW t \in Threads, ThreadStep(t)
      PROVE  /\ MayOpenSymbols' \subseteq MayOpenSymbols
             /\ MayOpenBridges' \subseteq MayOpenBridges
             /\ MayOpenJni' \subseteq MayOpenJni
             /\ \/ opened' = opened
                \/ /\ opened' = opened + 1
                   /\ \/ t \in MayOpenSymbols \ MayOpenSymbols'
                      \/ t \in MayOpenBridges \ MayOpenBridges'
                      \/ t \in MayOpenJni \ MayOpenJni'
  <2>1. \A u : /\ u \in MayOpenSymbols <=> u \in Threads /\ ToSymbols(u)
               /\ u \in MayOpenBridges <=> u \in Threads /\ ToBridges(u)
               /\ u \in MayOpenJni <=> u \in Threads /\ ToJni(u)
    BY DEF MayOpenSymbols, MayOpenBridges, MayOpenJni
  <2>2. \A u : /\ u \in MayOpenSymbols' <=> u \in Threads /\ ToSymbols(u)'
               /\ u \in MayOpenBridges' <=> u \in Threads /\ ToBridges(u)'
               /\ u \in MayOpenJni' <=> u \in Threads /\ ToJni(u)'
    BY DEF MayOpenSymbols, MayOpenBridges, MayOpenJni
  <2> HIDE DEF ToSymbols, ToBridges, ToJni
  <2> QED
    BY <1>2, <1>3, <2>1, <2>2
<1> QED
  BY <1>1, <1>3, Steps

\* FdInv is inductive.
LEMMA NextFdInv == ASSUME BaseInv, FdInv, [Next]_vars PROVE FdInv'
<1>1. IsFiniteSet(MayOpenSymbols) /\ IsFiniteSet(MayOpenBridges) /\ IsFiniteSet(MayOpenJni)
  BY FdAssumption, FS_Subset DEF MayOpenSymbols, MayOpenBridges, MayOpenJni
<1>2. \A S, T : IsFiniteSet(S) /\ T \subseteq S =>
        /\ Cardinality(S) \in Nat /\ Cardinality(T) \in Nat /\ Cardinality(T) <= Cardinality(S)
        /\ \A t \in S \ T : Cardinality(T) + 1 <= Cardinality(S)
  <2> SUFFICES ASSUME NEW S, NEW T, IsFiniteSet(S), T \subseteq S
               PROVE  /\ Cardinality(S) \in Nat /\ Cardinality(T) \in Nat
                      /\ Cardinality(T) <= Cardinality(S)
                      /\ \A t \in S \ T : Cardinality(T) + 1 <= Cardinality(S)
    OBVIOUS
  <2>1. Cardinality(S) \in Nat /\ Cardinality(T) \in Nat /\ Cardinality(T) <= Cardinality(S)
    BY FS_Subset, FS_CardinalityType
  <2>2. ASSUME NEW t \in S \ T PROVE Cardinality(T) + 1 <= Cardinality(S)
    <3>1. IsFiniteSet(S \ {t}) /\ Cardinality(S \ {t}) = Cardinality(S) - 1
      BY FS_RemoveElement
    <3>2. Cardinality(T) <= Cardinality(S \ {t})
      BY <3>1, FS_Subset
    <3> QED
      BY <2>1, <3>1, <3>2
  <2> QED
    BY <2>1, <2>2
<1>3. PICK a, b, c \in Nat : a = Cardinality(MayOpenSymbols) /\ b = Cardinality(MayOpenBridges)
                             /\ c = Cardinality(MayOpenJni)
  BY <1>1, <1>2
<1>4. PICK x, y, z \in Nat :
        /\ x = Cardinality(MayOpenSymbols)' /\ y = Cardinality(MayOpenBridges)'
        /\ z = Cardinality(MayOpenJni)'
  BY <1>1, <1>2, OpensOnce
<1>5. x <= a /\ y <= b /\ z <= c
  BY <1>1, <1>2, <1>3, <1>4, OpensOnce
<1>6. opened' = opened \/ (opened' = opened + 1 /\ (x + 1 <= a \/ y + 1 <= b \/ z + 1 <= c))
  BY <1>1, <1>2, <1>3, <1>4, OpensOnce
<1>7. Cardinality(Threads) \in Nat
  BY FdAssumption, FS_CardinalityType
<1>8. opened' \in Nat /\ opened' + x + y + z <= 3 * Cardinality(Threads) + 1
  BY <1>3, <1>5, <1>6, <1>7 DEF FdInv
<1> QED
  BY <1>4, <1>8 DEF FdInv

\* There is a descriptor left whenever a thread is to open a library.
DescriptorLeft ==
  \A t \in Threads :
    pc[t] \in {"open", "bopen"} \/ (pc[t] = "env" /\ get_jnienv_symbol = None) =>
      opened < FdLimit

\* The descriptors last: three for each thread and one are enough, though none is ever closed
\* and threads may fill the tables at the same time.
THEOREM DescriptorsLast == Spec => [](opened \in 0..FdLimit /\ DescriptorLeft)
<1>1. Init => FdInv
  <2> SUFFICES ASSUME Init PROVE FdInv
    OBVIOUS
  <2>1. MayOpenSymbols = Threads /\ MayOpenBridges = Threads /\ MayOpenJni = Threads
    BY DEF Init, MayOpenSymbols, MayOpenBridges, MayOpenJni, PastBridgeOpen, Filling, InJni
  <2>2. Cardinality(Threads) \in Nat /\ opened \in {0, 1}
    BY FdAssumption, FS_CardinalityType DEF Init
  <2> QED
    BY <2>1, <2>2 DEF FdInv
<1>2. BaseInv /\ FdInv /\ [Next]_vars => FdInv'
  BY NextFdInv
<1>3. BaseInv /\ FdInv => opened \in 0..FdLimit /\ DescriptorLeft
  <2> SUFFICES ASSUME BaseInv, FdInv PROVE opened \in 0..FdLimit /\ DescriptorLeft
    OBVIOUS
  <2>1. IsFiniteSet(MayOpenSymbols) /\ IsFiniteSet(MayOpenBridges) /\ IsFiniteSet(MayOpenJni)
    BY FdAssumption, FS_Subset DEF MayOpenSymbols, MayOpenBridges, MayOpenJni
  <2>2. PICK a, b, c \in Nat : a = Cardinality(MayOpenSymbols)
                               /\ b = Cardinality(MayOpenBridges) /\ c = Cardinality(MayOpenJni)
    BY <2>1, FS_CardinalityType
  <2>3. PICK l \in Nat : l = FdLimit /\ opened \in Nat /\ opened + a + b + c <= l
    <3>1. Cardinality(Threads) \in Nat
      BY FdAssumption, FS_CardinalityType
    <3> QED
      BY <2>2, <3>1, FdAssumption DEF FdInv
  <2>4. opened \in 0..FdLimit
    BY <2>3
  <2>5. ASSUME NEW t \in Threads,
               pc[t] \in {"open", "bopen"} \/ (pc[t] = "env" /\ get_jnienv_symbol = None)
        PROVE  opened < FdLimit
    <3>1. MayOpenSymbols # {} \/ MayOpenBridges # {} \/ MayOpenJni # {}
      BY <2>5 DEF MayOpenSymbols, MayOpenBridges, MayOpenJni
    <3>2. a # 0 \/ b # 0 \/ c # 0
      BY <2>1, <2>2, <3>1, FS_EmptySet
    <3> QED
      BY <2>3, <3>2
  <2> QED
    BY <2>4, <2>5 DEF DescriptorLeft
<1> QED
  BY <1>1, <1>2, <1>3, BaseInvAlways, PTL DEF Spec

-----------------------------------------------------------------------------
(***************************************************************************)
(* The addresses.                                                          *)
(***************************************************************************)
\* The answers of a phone stay as truthful and as forthcoming as they were.
LEMMA PhoneStays ==
  /\ Init /\ [][Next]_vars /\ Truthful => []Truthful
  /\ Init /\ [][Next]_vars /\ Forthcoming => []Forthcoming
<1>1. Truthful /\ [Next]_vars => Truthful'
  BY SamePhone DEF Truthful, True, InText
<1>2. Forthcoming /\ [Next]_vars => Forthcoming'
  BY SamePhone DEF Forthcoming
<1> QED
  BY <1>1, <1>2, PTL

\* What is stored is where the linker put it.
LEMMA TruthfulPointers == Spec /\ Truthful => []PointersTrue
<1>1. BaseInv /\ Truthful => PointersTrue
  BY DEF BaseInv, Typed, Stored, Truthful, True, PointersTrue, Fields
<1> QED
  BY <1>1, BaseInvAlways, PhoneStays, PTL DEF Spec

\* The types: every pointer that is stored leads into code that is in memory, and the
\* files that are open do not outnumber the descriptors.
LEMMA TruthfulTypes == Spec /\ Truthful => []TypeOK
<1>1. Init => dlopen \subseteq Libraries
  BY DEF Init
<1>2. dlopen \subseteq Libraries /\ [Next]_vars => (dlopen \subseteq Libraries)'
  BY SamePhone
<1>3. BaseInv /\ Truthful /\ dlopen \subseteq Libraries /\ opened \in 0..FdLimit => TypeOK
  <2> SUFFICES ASSUME BaseInv, Truthful, dlopen \subseteq Libraries, opened \in 0..FdLimit
               PROVE  TypeOK
    OBVIOUS
  <2> DEFINE text == {k \in DOMAIN phone.maps : /\ phone.maps[k].perm = {"r", "x"}
                                                /\ phone.maps[k].path.dir = "/system/lib"}
             Lib(p) == p = None \/ \E k \in text : phone.maps[k].begin <= p
                                                   /\ p < phone.maps[k].end
  <2>1. \A p, name : True(p, name) /\ ~Fatal(p) => Lib(p)
    BY DEF True, InText
  <2>2. \A f \in SymbolFields : Lib(symbols[f])
    BY <2>1 DEF BaseInv, Stored, Truthful, Fields
  <2>3. \A f \in BridgeFields : Lib(bridges[f])
    BY <2>1 DEF BaseInv, Stored, Truthful, Fields
  <2>4. Lib(get_jnienv_symbol)
    BY <2>1 DEF BaseInv, Stored, Truthful
  <2> HIDE DEF Lib
  <2>5. pc \in [Threads -> {"idle", "symbol", "open", "fill", "more", "done", "clone", "call",
                            "env", "envsym", "bridge", "bopen", "compiled", "trampoline",
                            "interpreter", "bdone"}]
    <3>1. Places = {"idle", "symbol", "open", "fill", "more", "done", "clone", "call",
                    "env", "envsym", "bridge", "bopen", "compiled", "trampoline",
                    "interpreter", "bdone"}
      BY DEF Places, InSymbols, Filling, InJni
    <3> QED
      BY <3>1 DEF BaseInv, Typed
  <2>6. /\ DOMAIN symbols = SymbolFields /\ DOMAIN bridges = BridgeFields
        /\ symbol_inited \in BOOLEAN /\ bridge_inited \in BOOLEAN
        /\ proc \in {"up", "crashed", "stale", "refused"} /\ ret \in [Threads -> Returns]
        /\ field \in [Threads -> DOMAIN FieldOrder] /\ calls \in [Threads -> 0..MaxCalls]
    BY FieldsInOrder DEF BaseInv, Typed
  <2> QED
    BY <2>2, <2>3, <2>4, <2>5, <2>6 DEF TypeOK, Lib, Returns
<1> QED
  BY <1>1, <1>2, <1>3, BaseInvAlways, DescriptorsLast, PhoneStays, PTL DEF Spec

-----------------------------------------------------------------------------
(***************************************************************************)
(* What is found.                                                          *)
(***************************************************************************)
\* What is filled stays so.
LEMMA ThereStays ==
  ASSUME BaseInv, [Next]_vars
  PROVE  /\ \A f \in SymbolFields : SymbolThere(f) => SymbolThere(f)'
         /\ \A f \in BridgeFields : BridgeThere(f) => BridgeThere(f)'
<1>1. phone' = phone /\ \A f : SymbolsIn(f)' = SymbolsIn(f)
  BY SamePhone
<1>2. ASSUME NEW f \in SymbolFields, symbols[f] # None PROVE symbols'[f] # None
  BY <1>2, FieldsKept
<1>3. ASSUME NEW f \in BridgeFields, bridges[f] # None PROVE bridges'[f] # None
  BY <1>3, FieldsKept
<1> QED
  BY <1>1, <1>2, <1>3 DEF SymbolThere, BridgeThere

\* A field is there once an answer about it was stored.
LEMMA StoredIsThere ==
  ASSUME BaseInv, Forthcoming, [Next]_vars, NEW f \in Fields, NEW p \in Answers(f)
  PROVE  /\ f \in SymbolFields /\ symbols' = [symbols EXCEPT ![f] = p] => SymbolThere(f)'
         /\ f \in BridgeFields /\ bridges' = [bridges EXCEPT ![f] = p] => BridgeThere(f)'
<1>1. phone' = phone /\ SymbolsIn(f)' = SymbolsIn(f)
  BY SamePhone
<1>2. SymbolsIn(f) \in phone.told => p # None
  BY DEF Forthcoming
<1> QED
  BY <1>1, <1>2 DEF BaseInv, Typed, SymbolThere, BridgeThere

\* If there is a Clone(Thread) the others are not asked for.
LEMMA OneCloneIsEnough ==
  ASSUME BaseInv, Forthcoming, symbols.object_clone # None
  PROVE  SymbolThere("object_clone_with_class") /\ SymbolThere("object_clone_with_size")
<1>1. "object_clone" \in SymbolFields /\ "object_clone" # "quick_to_jni_bridge"
  BY FieldsInOrder
<1>2. symbols["object_clone"] \in Answers("object_clone") /\ ~Fatal(symbols["object_clone"])
  BY <1>1 DEF BaseInv, Stored
<1>3. "Clone(Thread)" \in phone.told
  BY <1>2 DEF Forthcoming
<1> QED
  BY <1>3 DEF SymbolThere

\* FillInv is inductive.
LEMMA NextFillInv ==
  ASSUME BaseInv, Forthcoming, FillInv, [Next]_vars
  PROVE  FillInv'
<1>0. /\ Typed /\ Control
      /\ \A f \in SymbolFields : SymbolThere(f) => SymbolThere(f)'
      /\ \A f \in BridgeFields : BridgeThere(f) => BridgeThere(f)'
      /\ \A i \in 1..7 : FieldOrder[i] \in SymbolFields
      /\ {"interpreter_to_compiled_code", "quick_to_jni_bridge", "quick_to_interpreter"}
           = BridgeFields
  BY ThereStays, FieldsInOrder DEF BaseInv, BridgeFields
<1>1. \A t \in Threads : \A i \in 1..(field[t] - 1) :
        SymbolThere(FieldOrder[i]) => SymbolThere(FieldOrder[i])'
  BY <1>0 DEF Typed
<1>2. ASSUME NEW u \in Threads, UNCHANGED <<pc[u], field[u], ret[u]>>,
             symbol_inited => symbol_inited'
      PROVE  SymbolsPassed(u)' /\ BridgesPassed(u)'
  <2>1. SymbolsPassed(u)'
    BY <1>0, <1>1, <1>2 DEF FillInv, SymbolsPassed
  <2>2. BridgesPassed(u)'
    BY <1>0, <1>2 DEF FillInv, BridgesPassed
  <2> QED
    BY <2>1, <2>2
<1>3. ASSUME symbol_inited' = symbol_inited PROVE symbol_inited' =>
        \A f \in SymbolFields : SymbolThere(f)'
  BY <1>0, <1>3 DEF FillInv
<1>4. ASSUME bridge_inited' = bridge_inited PROVE bridge_inited' =>
        \A f \in BridgeFields : BridgeThere(f)'
  BY <1>0, <1>4 DEF FillInv
<1>5. CASE UNCHANGED vars
  BY <1>2, <1>3, <1>4, <1>5 DEF vars, tables, FillInv
<1>6. ASSUME NEW t \in Threads, ThreadStep(t) PROVE FillInv'
  <2>0. \A u \in Threads \ {t} : UNCHANGED <<pc[u], field[u], ret[u]>>
    BY <1>0, <1>6 DEF ThreadStep, Call, Enter, CloneObject, Crash, GetJniEnv, Open,
       StoreJniEnv,
       TestSymbol, OpenSymbols, StoreSymbol, MoreSymbols, SetSymbolInited, TestBridge,
       OpenBridges, StoreCompiled, StoreTrampoline, StoreInterpreter, StoreBridge,
       SetBridgeInited, Goto, tables, Typed
  <2>a. ASSUME UNCHANGED <<symbol_inited, bridge_inited>>, SymbolsPassed(t)', BridgesPassed(t)'
        PROVE  FillInv'
    BY <1>2, <1>3, <1>4, <2>0, <2>a DEF FillInv
  <2>1. CASE StoreSymbol(t)
    <3>1. CASE UNCHANGED <<tables, pc, field, ret>>
      BY <1>2, <2>a, <3>1 DEF tables
    <3>2. CASE ~UNCHANGED <<tables, pc, field, ret>>
      <4>1. PICK p \in dlsym["libart.so"][SymbolName(FieldOrder[field[t]], phone.api)] :
              /\ pc[t] = "fill" /\ ret' = ret
              /\ symbols' = [symbols EXCEPT ![FieldOrder[field[t]]] = p]
              /\ field' = [field EXCEPT ![t] = IF @ = 7 THEN 1 ELSE @ + 1]
              /\ pc' = [pc EXCEPT ![t] = IF field[t] = 7 THEN "done"
                                         ELSE IF field[t] = 5 THEN "more" ELSE "fill"]
              /\ UNCHANGED <<symbol_inited, bridge_inited>>
        BY <2>1, <3>2 DEF StoreSymbol, Crash, At, Goto
      <4>2. PICK i \in 1..7 : i = field[t] /\ FieldOrder[i] \in SymbolFields
        BY <1>0 DEF Typed
      <4>3. FieldOrder[i] \in Fields /\ p \in Answers(FieldOrder[i])
        BY <4>1, <4>2, FieldsInOrder DEF Answers, SymbolsIn, Fields
      <4>4. SymbolThere(FieldOrder[i])'
        BY <4>1, <4>2, <4>3, StoredIsThere
      <4>5. \A j \in 1..i : SymbolThere(FieldOrder[j])'
        <5>1. \A j \in 1..(i - 1) : SymbolThere(FieldOrder[j])'
          BY <1>1, <4>1, <4>2 DEF FillInv, SymbolsPassed
        <5> QED
          BY <4>4, <5>1
      <4>6. SymbolsPassed(t)'
        <5>1. CASE i = 7
          <6>1. \A f \in SymbolFields : SymbolThere(f)'
            BY <4>5, <5>1, FieldsInOrder
          <6> QED
            BY <1>0, <4>1, <4>2, <5>1, <6>1 DEF SymbolsPassed, Typed, InJni
        <5>2. CASE i # 7
          <6>1. /\ field'[t] - 1 = i /\ pc'[t] \in {"fill", "more"}
            BY <1>0, <4>1, <4>2, <5>2 DEF Typed
          <6> QED
            BY <4>5, <6>1 DEF SymbolsPassed, InJni
        <5> QED
          BY <5>1, <5>2
      <4>7. BridgesPassed(t)'
        BY <1>0, <4>1 DEF BridgesPassed, InJni, Typed
      <4> QED
        BY <2>a, <4>1, <4>6, <4>7
    <3> QED
      BY <3>1, <3>2
  <2>2. CASE MoreSymbols(t)
    <3>1. /\ pc[t] = "more" /\ UNCHANGED <<symbol_inited, bridge_inited, field, ret>>
          /\ pc' = [pc EXCEPT ![t] = IF symbols.object_clone = None THEN "fill" ELSE "done"]
      BY <2>2 DEF MoreSymbols, At, Goto, tables
    <3>2. field[t] = 6 /\ \A i \in 1..(field[t] - 1) : SymbolThere(FieldOrder[i])'
      BY <1>0, <1>1, <3>1 DEF Control, FillInv, SymbolsPassed
    <3>3. symbols.object_clone # None => \A f \in SymbolFields : SymbolThere(f)'
      <4> SUFFICES ASSUME symbols.object_clone # None, NEW f \in SymbolFields
                   PROVE  SymbolThere(f)'
        OBVIOUS
      <4>1. PICK i \in 1..7 : FieldOrder[i] = f
        BY FieldsInOrder
      <4>2. CASE i \in 6..7
        BY <1>0, <4>1, <4>2, OneCloneIsEnough, FieldsInOrder
      <4>3. CASE i \in 1..5
        BY <3>2, <4>1, <4>3
      <4> QED
        BY <4>2, <4>3
    <3>4. SymbolsPassed(t)'
      BY <1>0, <3>1, <3>2, <3>3 DEF SymbolsPassed, InJni, Typed
    <3>5. BridgesPassed(t)'
      BY <1>0, <3>1 DEF BridgesPassed, InJni, Typed
    <3> QED
      BY <2>a, <3>1, <3>4, <3>5
  <2>3. CASE SetSymbolInited(t)
    <3>1. /\ pc[t] = "done" /\ symbol_inited' = TRUE /\ UNCHANGED <<bridge_inited, ret>>
          /\ pc' = [pc EXCEPT ![t] = ret[t]] /\ ret[t] \in {"idle", "clone"}
      BY <1>0, <2>3 DEF SetSymbolInited, At, Goto, Control, InSymbols, Filling
    <3>2. \A f \in SymbolFields : SymbolThere(f)'
      BY <1>0, <3>1 DEF FillInv, SymbolsPassed
    <3>3. SymbolsPassed(t)' /\ BridgesPassed(t)'
      BY <1>0, <3>1, <3>2 DEF SymbolsPassed, BridgesPassed, InJni, Typed
    <3> QED
      BY <1>2, <1>4, <2>0, <3>1, <3>2, <3>3 DEF FillInv
  <2>4. CASE TestSymbol(t)
    <3>1. /\ pc[t] = "symbol" /\ UNCHANGED <<symbol_inited, bridge_inited, ret, field>>
          /\ pc' = [pc EXCEPT ![t] = IF symbol_inited THEN ret[t] ELSE "open"]
          /\ ret[t] \in {"idle", "clone"}
      BY <1>0, <2>4 DEF TestSymbol, At, Goto, Control, InSymbols, tables
    <3>2. SymbolsPassed(t)' /\ BridgesPassed(t)'
      BY <1>0, <3>1 DEF SymbolsPassed, BridgesPassed, InJni, Typed
    <3> QED
      BY <2>a, <3>1, <3>2
  <2>5. CASE OpenSymbols(t)
    <3>1. /\ pc[t] = "open" /\ UNCHANGED <<symbol_inited, bridge_inited, ret, field>>
          /\ pc'[t] \in {"open", "fill"}
      BY <1>0, <2>5 DEF OpenSymbols, Open, At, Goto, tables, Typed
    <3>2. field[t] = 1
      BY <1>0, <3>1 DEF Control, Filling
    <3>3. SymbolsPassed(t)' /\ BridgesPassed(t)'
      BY <1>0, <3>1, <3>2 DEF SymbolsPassed, BridgesPassed, InJni, Typed
    <3> QED
      BY <2>a, <3>1, <3>3
  <2>6. CASE Call(t)
    <3>1. /\ UNCHANGED <<symbol_inited, bridge_inited, field>>
          /\ pc'[t] \in {"symbol", "bridge"}
      BY <1>0, <2>6 DEF Call, Enter, At, Goto, tables, Typed
    <3> QED
      BY <2>a, <3>1 DEF SymbolsPassed, BridgesPassed, InJni
  <2>7. CASE CloneObject(t)
    <3>1. /\ UNCHANGED <<symbol_inited, bridge_inited, field>> /\ pc[t] \in {"clone", "call"}
          /\ \/ pc'[t] = "env" /\ ret'[t] = "call"
             \/ pc'[t] = "call" /\ ret'[t] = ret[t]
             \/ pc'[t] = "idle"
      BY <1>0, <2>7 DEF CloneObject, Crash, At, Goto, tables, Typed
    <3>2. symbol_inited
      BY <3>1 DEF FillInv, SymbolsPassed
    <3> QED
      BY <2>a, <3>1, <3>2 DEF SymbolsPassed, BridgesPassed, InJni
  <2>8. CASE GetJniEnv(t) \/ StoreJniEnv(t)
    <3>1. /\ UNCHANGED <<symbol_inited, bridge_inited, field, ret>> /\ pc[t] \in InJni
          /\ pc'[t] \in InJni \/ pc'[t] = ret[t]
      BY <1>0, <2>8 DEF GetJniEnv, StoreJniEnv, Open, Crash, At, Goto, tables, Typed, InJni
    <3>2. ret[t] \in {"call", "trampoline"}
      BY <1>0, <3>1 DEF Control
    <3>3. SymbolsPassed(t)'
      BY <3>1, <3>2 DEF FillInv, SymbolsPassed, InJni
    <3>4. BridgesPassed(t)'
      BY <1>0, <3>1, <3>2 DEF FillInv, BridgesPassed, InJni
    <3> QED
      BY <2>a, <3>1, <3>3, <3>4
  <2>9. CASE TestBridge(t) \/ OpenBridges(t)
    <3>1. /\ UNCHANGED <<symbol_inited, bridge_inited, field>>
          /\ pc'[t] \in {"idle", "bopen", "compiled"}
      BY <1>0, <2>9 DEF TestBridge, OpenBridges, Open, At, Goto, tables, Typed
    <3> QED
      BY <2>a, <3>1 DEF SymbolsPassed, BridgesPassed, InJni
  <2>10. CASE StoreCompiled(t)
    <3>1. /\ UNCHANGED <<symbol_inited, bridge_inited, field>> /\ ret'[t] = "trampoline"
          /\ \/ pc'[t] = "compiled"
             \/ /\ pc'[t] = "env"
                /\ \E p \in Answers("interpreter_to_compiled_code") :
                     bridges' = [bridges EXCEPT !["interpreter_to_compiled_code"] = p]
      BY <1>0, <2>10 DEF StoreCompiled, StoreBridge, Crash, At, Goto, tables, Typed, Answers,
         SymbolsIn, SymbolName
    <3>2. pc'[t] = "env" => BridgeThere("interpreter_to_compiled_code")'
      BY <1>0, <3>1, StoredIsThere DEF Fields
    <3> QED
      BY <2>a, <3>1, <3>2 DEF SymbolsPassed, BridgesPassed, InJni
  <2>11. CASE StoreTrampoline(t)
    <3>1. /\ UNCHANGED <<symbol_inited, bridge_inited, field, ret>> /\ pc[t] = "trampoline"
          /\ \/ pc'[t] = "trampoline"
             \/ /\ pc'[t] = "interpreter"
                /\ \E p \in Answers("quick_to_jni_bridge") :
                     bridges' = [bridges EXCEPT !["quick_to_jni_bridge"] = p]
      BY <1>0, <2>11 DEF StoreTrampoline, StoreBridge, Crash, At, Goto, tables, Typed,
         Answers
    <3>2. pc'[t] = "interpreter" => BridgeThere("quick_to_jni_bridge")'
      BY <1>0, <3>1, StoredIsThere DEF Fields
    <3>3. BridgeThere("interpreter_to_compiled_code")'
      BY <1>0, <3>1 DEF FillInv, BridgesPassed
    <3> QED
      BY <2>a, <3>1, <3>2, <3>3 DEF SymbolsPassed, BridgesPassed, InJni
  <2>12. CASE StoreInterpreter(t)
    <3>1. /\ UNCHANGED <<symbol_inited, bridge_inited, field, ret>> /\ pc[t] = "interpreter"
          /\ \/ pc'[t] = "interpreter"
             \/ /\ pc'[t] = "bdone"
                /\ \E p \in Answers("quick_to_interpreter") :
                     bridges' = [bridges EXCEPT !["quick_to_interpreter"] = p]
      BY <1>0, <2>12 DEF StoreInterpreter, StoreBridge, Crash, At, Goto, tables, Typed,
         Answers,
         SymbolsIn, SymbolName
    <3>2. pc'[t] = "bdone" => BridgeThere("quick_to_interpreter")'
      BY <1>0, <3>1, StoredIsThere DEF Fields
    <3>3. BridgeThere("interpreter_to_compiled_code")' /\ BridgeThere("quick_to_jni_bridge")'
      BY <1>0, <3>1 DEF FillInv, BridgesPassed
    <3> QED
      BY <2>a, <3>1, <3>2, <3>3 DEF SymbolsPassed, BridgesPassed, InJni
  <2>13. CASE SetBridgeInited(t)
    <3>1. /\ pc[t] = "bdone" /\ pc'[t] = "idle" /\ UNCHANGED <<symbol_inited, field, ret>>
      BY <1>0, <2>13 DEF SetBridgeInited, At, Goto, Typed
    <3>2. \A f \in BridgeFields : BridgeThere(f)'
      BY <1>0, <3>1 DEF FillInv, BridgesPassed
    <3>3. SymbolsPassed(t)' /\ BridgesPassed(t)'
      BY <3>1 DEF SymbolsPassed, BridgesPassed, InJni
    <3> QED
      BY <1>2, <1>3, <2>0, <3>1, <3>2, <3>3 DEF FillInv
  <2> QED
    BY <1>6, <2>1, <2>2, <2>3, <2>4, <2>5, <2>6, <2>7, <2>8, <2>9, <2>10, <2>11, <2>12,
       <2>13 DEF ThreadStep
<1> QED
  BY <1>5, <1>6, Steps

\* FillInv always holds.
LEMMA FillInvAlways == Spec /\ Forthcoming => []FillInv
<1>1. Init => FillInv
  BY DEF Init, FillInv, SymbolsPassed, BridgesPassed, InJni
<1>2. BaseInv /\ Forthcoming /\ FillInv /\ [Next]_vars => FillInv'
  BY NextFillInv
<1> QED
  BY <1>1, <1>2, BaseInvAlways, PhoneStays, PTL DEF Spec

\* A table that a thread finds initialised holds everything the phone gives away.
LEMMA ForthcomingTables == Spec /\ Forthcoming => []FoundIfThere
<1>1. BaseInv /\ FillInv => FoundIfThere
  BY DEF BaseInv, Typed, FillInv, SymbolThere, BridgeThere, FoundIfThere
<1> QED
  BY <1>1, BaseInvAlways, FillInvAlways, PTL DEF Spec

\* The process comes through every lookup that the phone has an answer to: no race on
\* the tables and no number of open files crashes it.
LEMMA ForthcomingCrashes == Spec /\ Forthcoming => []CrashesOnlyIfLost
<1>1. Init => CrashesOnlyIfLost
  BY DEF Init, CrashesOnlyIfLost
<1>2. BaseInv /\ Forthcoming /\ FillInv /\ DescriptorLeft /\ CrashesOnlyIfLost /\ [Next]_vars =>
        CrashesOnlyIfLost'
  <2> SUFFICES ASSUME BaseInv, Forthcoming, FillInv, DescriptorLeft, CrashesOnlyIfLost,
                      [Next]_vars, proc' = "crashed"
               PROVE  CrashesOnlyIfLost'
    BY DEF CrashesOnlyIfLost
  <2>0. phone' = phone
    BY SamePhone
  <2>1. CASE proc = "crashed"
    BY <2>0, <2>1 DEF CrashesOnlyIfLost
  <2>2. ASSUME proc # "crashed", NEW t \in Threads, ThreadStep(t) PROVE CrashesOnlyIfLost'
    <3>a. ASSUME "getJNIEnv" \notin phone.told
                 \/ "art_quick_generic_jni_trampoline" \notin phone.told
          PROVE  CrashesOnlyIfLost'
      BY <2>0, <3>a DEF CrashesOnlyIfLost
    <3>1. CASE OpenSymbols(t) \/ OpenBridges(t)
      <4>1. "libart.so" \notin dlopen
        BY <2>2, <3>1 DEF OpenSymbols, OpenBridges, Open, At, DescriptorLeft
      <4> QED
        BY <3>a, <4>1 DEF Forthcoming
    <3>2. CASE GetJniEnv(t)
      <4>1. "libandroid_runtime.so" \notin dlopen
        BY <2>2, <3>2 DEF GetJniEnv, Open, At, DescriptorLeft
      <4> QED
        BY <3>a, <4>1 DEF Forthcoming
    <3>3. CASE StoreJniEnv(t)
      <4>1. \E p \in JniAnswers : p = None \/ p = Wild
        BY <2>2, <3>3 DEF StoreJniEnv, Crash, Fatal, JniAnswers
      <4> QED
        BY <3>a, <4>1 DEF Forthcoming
    <3>4. CASE StoreSymbol(t)
      <4>1. Wild \in dlsym["libart.so"][SymbolName(FieldOrder[field[t]], phone.api)]
        BY <2>2, <3>4 DEF StoreSymbol, Crash, Fatal
      <4>2. PICK g \in SymbolFields : g = FieldOrder[field[t]]
        BY FieldsInOrder DEF BaseInv, Typed
      <4>3. g \in Fields /\ Wild \in Answers(g)
        BY <4>1, <4>2, FieldsInOrder DEF Answers, SymbolsIn, Fields
      <4> QED
        BY <3>a, <4>3 DEF Forthcoming
    <3>5. CASE StoreCompiled(t) \/ StoreTrampoline(t) \/ StoreInterpreter(t)
      <4>1. \E f \in Fields : Wild \in Answers(f)
        BY <2>2, <3>5 DEF StoreCompiled, StoreTrampoline, StoreInterpreter, StoreBridge,
           Crash,
           Fatal, Fields, BridgeFields, Answers, SymbolsIn, SymbolName
      <4> QED
        BY <3>a, <4>1 DEF Forthcoming
    <3>6. CASE CloneObject(t)
      <4>1. /\ pc[t] = "call"
            /\ symbols["object_clone"] = None /\ symbols["object_clone_with_class"] = None
            /\ symbols["object_clone_with_size"] = None
        BY <2>2, <3>6 DEF CloneObject, Crash, At
      <4>2. phone.api < ANDROID_M
        BY <4>1 DEF BaseInv, Control
      <4>3. symbol_inited /\ \A f \in SymbolFields : SymbolThere(f)
        BY <4>1 DEF FillInv, SymbolsPassed
      <4>4. /\ SymbolThere("object_clone") /\ SymbolThere("object_clone_with_class")
            /\ SymbolThere("object_clone_with_size")
        BY <4>3, FieldsInOrder
      <4>5. {"Clone(Thread)", "Clone(Thread,Class)", "Clone(Thread,m)"} \cap phone.told = {}
        BY <4>1, <4>4 DEF SymbolThere, SymbolsIn, SymbolName
      <4> QED
        BY <2>0, <4>2, <4>5 DEF CrashesOnlyIfLost
    <3>7. CASE Call(t) \/ TestSymbol(t) \/ MoreSymbols(t) \/ SetSymbolInited(t) \/ TestBridge(t)
               \/ SetBridgeInited(t)
      BY <2>2, <3>7 DEF Call, Enter, TestSymbol, MoreSymbols, SetSymbolInited, TestBridge,
         SetBridgeInited
    <3> QED
      BY <2>2, <3>1, <3>2, <3>3, <3>4, <3>5, <3>6, <3>7 DEF ThreadStep
  <2>3. CASE UNCHANGED vars
    BY <2>1, <2>3 DEF vars
  <2> QED
    BY <2>1, <2>2, <2>3, Steps
<1> QED
  BY <1>1, <1>2, BaseInvAlways, FillInvAlways, DescriptorsLast, PhoneStays, PTL DEF Spec

-----------------------------------------------------------------------------
(***************************************************************************)
(* xh_util_get_mem_protect, line by line.  What the recursion computes is  *)
(* proved by induction on the lines read: a set of naturals that holds 0   *)
(* and every successor is Nat, and the function exists for as many lines.  *)
(***************************************************************************)
\* A non-empty set of naturals has a least element.
LEMMA LeastNatural ==
  ASSUME NEW S \in SUBSET Nat, S # {} PROVE \E m \in S : \A k \in S : m <= k
<1>1. PICK m \in S : \A k \in S : <<k, m>> \notin OpToRel(<, Nat)
  BY NatLessThanWellFounded, WFMin
<1>2. \A k \in S : m <= k
  <2> SUFFICES ASSUME NEW k \in S PROVE m <= k
    OBVIOUS
  <2>1. k < m => <<k, m>> \in OpToRel(<, Nat)
    BY DEF OpToRel
  <2>2. ~(k < m)
    BY <1>1, <2>1, Zenon
  <2> QED
    BY <2>2
<1> QED
  BY <1>2

\* Induction over the naturals, for a set.
LEMMA NatSetInduction ==
  ASSUME NEW S \in SUBSET Nat, 0 \in S, \A n \in S : n + 1 \in S PROVE S = Nat
<1> SUFFICES ASSUME Nat \ S # {} PROVE FALSE
  OBVIOUS
<1>1. PICK m \in Nat \ S : \A k \in Nat \ S : m <= k
  BY LeastNatural
<1>2. m # 0 /\ m - 1 \in Nat /\ m - 1 + 1 = m
  BY <1>1
<1>3. m - 1 \in S
  BY <1>1, <1>2
<1> QED
  BY <1>1, <1>2, <1>3

\* What xh_util_get_mem_protect makes of a line.
ReadLine(line, before, addr, len, path) ==
  IF \/ before.all \/ line.path # path \/ ~line.private
     \/ before.start \notin line.begin..(line.end - 1)
  THEN before
  ELSE [start |-> line.end, prot |-> Narrowed(before.prot, line.perm, before.load0),
        load0 |-> FALSE, all |-> addr + len <= line.end]

NotRead(addr) == [start |-> addr, prot |-> {}, load0 |-> TRUE, all |-> FALSE]

\* Read is what it made of the first lines.
Reads(Read, n, maps, addr, len, path) ==
  Read = [k \in 0..n |-> IF k = 0 THEN NotRead(addr)
                         ELSE ReadLine(maps[k], Read[k - 1], addr, len, path)]

\* There is such a function.
LEMMA ReadExists ==
  ASSUME NEW n \in Nat, NEW maps, NEW addr, NEW len, NEW path
  PROVE  \E Read : Reads(Read, n, maps, addr, len, path)
<1> DEFINE S == {m \in Nat : \E Read : Reads(Read, m, maps, addr, len, path)}
<1>1. 0 \in S
  <2> DEFINE R == [k \in 0..0 |-> NotRead(addr)]
  <2>1. \A k \in 0..0 : k = 0
    OBVIOUS
  <2>2. Reads(R, 0, maps, addr, len, path)
    BY <2>1 DEF Reads
  <2> QED
    BY <2>2
<1>2. ASSUME NEW m \in S PROVE m + 1 \in S
  <2>1. PICK R : Reads(R, m, maps, addr, len, path)
    OBVIOUS
  <2> DEFINE Q == [k \in 0..(m + 1) |->
                     IF k = m + 1 THEN ReadLine(maps[m + 1], R[m], addr, len,
                     path) ELSE R[k]]
  <2>2. \A k \in 0..m : R[k] = IF k = 0 THEN NotRead(addr)
                               ELSE ReadLine(maps[k], R[k - 1], addr, len, path)
    BY <2>1 DEF Reads
  <2>3. \A k \in 0..(m + 1) : Q[k] = IF k = 0 THEN NotRead(addr)
                               ELSE ReadLine(maps[k], Q[k - 1], addr, len, path)
    <3> SUFFICES ASSUME NEW k \in 0..(m + 1)
                 PROVE  Q[k] = IF k = 0 THEN NotRead(addr)
                               ELSE ReadLine(maps[k], Q[k - 1], addr, len, path)
      OBVIOUS
    <3>1. CASE k = 0
      BY <2>2, <3>1
    <3>2. CASE k = m + 1
      <4>1. Q[k - 1] = R[m]
        BY <3>2
      <4> QED
        BY <3>2, <4>1
    <3>3. CASE k \in 1..m
      <4>1. Q[k - 1] = R[k - 1] /\ Q[k] = R[k]
        BY <3>3
      <4> QED
        BY <2>2, <3>3, <4>1
    <3> QED
      BY <3>1, <3>2, <3>3
  <2>4. Reads(Q, m + 1, maps, addr, len, path)
    BY <2>3 DEF Reads
  <2> QED
    BY <2>4
<1>3. S = Nat
  BY <1>1, <1>2, NatSetInduction
<1> QED
  BY <1>3

\* GetMemProtect is its last value.
LEMMA ReadIsProtect ==
  ASSUME NEW maps, NEW addr, NEW len, NEW path, Len(maps) \in Nat
  PROVE  \E Read :
           /\ Reads(Read, Len(maps), maps, addr, len, path)
           /\ GetMemProtect(maps, addr, len, path) =
                IF Read[Len(maps)].all THEN Read[Len(maps)].prot ELSE SEGVERR
<1> DEFINE Is(f) ==
      f = [k \in 0..Len(maps) |->
             IF k = 0 THEN [start |-> addr, prot |-> {}, load0 |-> TRUE, all |-> FALSE]
             ELSE LET before == f[k - 1]
                      line == maps[k]
                  IN IF \/ before.all \/ line.path # path \/ ~line.private
                        \/ before.start \notin line.begin..(line.end - 1)
                     THEN before
                     ELSE [start |-> line.end,
                           prot |-> Narrowed(before.prot, line.perm, before.load0),
                           load0 |-> FALSE, all |-> addr + len <= line.end]]
<1> DEFINE R == CHOOSE f : Is(f)
<1>1. \A f : Is(f) <=> Reads(f, Len(maps), maps, addr, len, path)
  BY DEF Reads, ReadLine, NotRead
<1>2. \E f : Is(f)
  BY <1>1, ReadExists
<1>3. Is(R)
  BY <1>2
<1>4. GetMemProtect(maps, addr, len, path) =
        IF R[Len(maps)].all THEN R[Len(maps)].prot ELSE SEGVERR
  BY DEF GetMemProtect
<1> QED
  BY <1>1, <1>3, <1>4

RWX == {"r", "w", "x"}

\* The private lines of the file.
Own(maps, path) == {k \in DOMAIN maps : maps[k].path = path /\ maps[k].private}

\* The protection of addr..addr+len-1 is what ProtectExact says of it.
Exact(maps, addr, len, path) ==
  LET Holds(a) == {k \in Own(maps, path) : maps[k].begin <= a /\ a < maps[k].end}
      span == addr..(addr + len - 1)
      lines == UNION {Holds(a) : a \in span}
  IN GetMemProtect(maps, addr, len, path) =
       IF \E a \in span : Holds(a) = {} THEN SEGVERR
       ELSE {p \in {"r", "w", "x"} : \A k \in lines : p \in maps[k].perm}

\* After k lines, the file is there from addr to start, and prot is what the lines
\* read allow in common.
ReadInv(k, r, maps, addr, len, path) ==
  /\ r.start \in Nat /\ addr <= r.start /\ r.prot \subseteq RWX
  /\ r.load0 <=> r.start = addr
  /\ r.all <=> addr + len <= r.start
  /\ \A a \in addr..(r.start - 1) :
       \E j \in Own(maps, path) : maps[j].begin <= a /\ a < maps[j].end
  /\ ~r.all => \A j \in Own(maps, path) :
                 j <= k => ~(maps[j].begin <= r.start /\ r.start < maps[j].end)
  /\ ~r.load0 =>
       /\ \A j \in DOMAIN maps : k < j => r.start <= maps[j].begin
       /\ \A p \in RWX :
            p \in r.prot <=>
              \A j \in Own(maps, path) :
                j <= k /\ maps[j].begin < r.start /\ addr < maps[j].end => p \in maps[j].perm
  /\ r.all => \A j \in Own(maps, path) :
                maps[j].begin < r.start => maps[j].begin < addr + len

\* The lines in order.
LEMMA LinesInOrder ==
  ASSUME NEW maps, InOrder(maps)
  PROVE  /\ DOMAIN maps = 1..Len(maps) /\ Len(maps) \in Nat
         /\ \A j \in DOMAIN maps : /\ maps[j].begin \in Nat /\ maps[j].end \in Nat
                                   /\ maps[j].begin < maps[j].end /\ maps[j].perm \subseteq RWX
         /\ \A i, j \in DOMAIN maps : i < j => maps[i].end <= maps[j].begin
         /\ \A path : Own(maps, path) \subseteq DOMAIN maps
<1>1. maps \in Seq(Lines)
  BY DEF InOrder
<1>2. \A j \in DOMAIN maps : maps[j] \in Lines
  BY <1>1
<1>3. \A j \in DOMAIN maps : /\ maps[j].begin \in Nat /\ maps[j].end \in Nat
                             /\ maps[j].perm \subseteq RWX
  BY <1>2 DEF Lines, RWX
<1> QED
  BY <1>1, <1>3 DEF InOrder, Own

\* The next line keeps it.
LEMMA ReadKeeps ==
  ASSUME NEW maps, InOrder(maps), NEW addr \in Nat, NEW len \in Nat \ {0}, NEW path,
         NEW k \in Nat, k + 1 \in DOMAIN maps, NEW r, ReadInv(k, r, maps, addr, len, path)
  PROVE  ReadInv(k + 1, ReadLine(maps[k + 1], r, addr, len, path), maps, addr, len, path)
<1> DEFINE line == maps[k + 1]
           q == ReadLine(line, r, addr, len, path)
           own == Own(maps, path)
<1>1. /\ DOMAIN maps = 1..Len(maps) /\ Len(maps) \in Nat
      /\ \A j \in DOMAIN maps : /\ maps[j].begin \in Nat /\ maps[j].end \in Nat
                                /\ maps[j].begin < maps[j].end /\ maps[j].perm \subseteq RWX
      /\ \A i, j \in DOMAIN maps : i < j => maps[i].end <= maps[j].begin
      /\ own \subseteq DOMAIN maps
  BY LinesInOrder
<1>2. CASE r.all \/ line.path # path \/ ~line.private
             \/ r.start \notin line.begin..(line.end - 1)
  <2>1. q = r
    BY <1>2 DEF ReadLine
  <2>2. ~r.all => \A j \in own :
                    j <= k + 1 => ~(maps[j].begin <= r.start /\ r.start < maps[j].end)
    <3> SUFFICES ASSUME ~r.all, NEW j \in own, j <= k + 1
                 PROVE  ~(maps[j].begin <= r.start /\ r.start < maps[j].end)
      OBVIOUS
    <3>1. CASE j = k + 1
      <4>1. r.start \notin line.begin..(line.end - 1)
        BY <1>2, <3>1 DEF Own
      <4> QED
        BY <1>1, <3>1, <4>1 DEF ReadInv
    <3>2. CASE j <= k
      BY <3>2 DEF ReadInv
    <3> QED
      BY <1>1, <3>1, <3>2
  <2>3. ~r.load0 =>
          /\ \A j \in DOMAIN maps : k + 1 < j => r.start <= maps[j].begin
          /\ \A j \in own : maps[j].begin < r.start => (j <= k + 1 <=> j <= k)
    BY <1>1 DEF ReadInv
  <2>4. ~r.load0 => \A p \in RWX :
            p \in r.prot <=>
              \A j \in own :
                j <= k + 1 /\ maps[j].begin < r.start /\ addr < maps[j].end
                => p \in maps[j].perm
    BY <2>3 DEF ReadInv
  <2>5. ReadInv(k + 1, r, maps, addr, len, path)
    BY <2>2, <2>3, <2>4 DEF ReadInv
  <2> QED
    BY <2>1, <2>5
<1>3. CASE ~(r.all \/ line.path # path \/ ~line.private
             \/ r.start \notin line.begin..(line.end - 1))
  <2>1. /\ q.start = line.end /\ q.prot = Narrowed(r.prot, line.perm, r.load0)
        /\ q.load0 = FALSE /\ q.all = (addr + len <= line.end)
        /\ line.begin <= r.start /\ r.start < line.end /\ k + 1 \in own /\ ~r.all
    BY <1>1, <1>3 DEF ReadLine, Own, ReadInv
  <2>a. r.start \in Nat /\ addr <= r.start /\ (r.load0 => r.start = addr)
    BY DEF ReadInv
  <2>2. /\ q.start \in Nat /\ addr < q.start /\ q.prot \subseteq RWX
    BY <1>1, <2>1 DEF ReadInv, Narrowed
  <2>3. \A a \in addr..(q.start - 1) : \E j \in own : maps[j].begin <= a /\ a < maps[j].end
    <3> SUFFICES ASSUME NEW a \in addr..(q.start - 1)
                 PROVE  \E j \in own : maps[j].begin <= a /\ a < maps[j].end
      OBVIOUS
    <3>1. CASE a < r.start
      BY <1>1, <2>1, <3>1 DEF ReadInv
    <3>2. CASE ~(a < r.start)
      BY <1>1, <2>1, <3>2 DEF ReadInv
    <3> QED
      BY <3>1, <3>2
  <2>4. \A j \in own : j <= k + 1 => maps[j].end <= q.start
    BY <1>1, <2>1
  <2>5. \A j \in DOMAIN maps : k + 1 < j => q.start <= maps[j].begin
    BY <1>1, <2>1
  <2>6. \A j \in own : maps[j].begin < q.start => maps[j].begin < addr + len
    <3> SUFFICES ASSUME NEW j \in own,
    maps[j].begin < q.start PROVE maps[j].begin < addr + len
      OBVIOUS
    <3>1. r.start < addr + len
      BY <2>1 DEF ReadInv
    <3>2. j <= k + 1
      <4>1. CASE k + 1 < j
        BY <1>1, <2>2, <2>5, <4>1
      <4> QED
        BY <1>1, <4>1
    <3>3. maps[j].begin <= line.begin
      BY <1>1, <3>2
    <3> QED
      BY <1>1, <2>1, <3>1, <3>3 DEF ReadInv
  <2>7. ASSUME NEW p \in RWX
        PROVE  p \in q.prot <=>
                 \A j \in own :
                   j <= k + 1 /\ maps[j].begin < q.start /\ addr < maps[j].end
                   => p \in maps[j].perm
    <3>1. maps[k + 1].begin < q.start /\ addr < maps[k + 1].end
      BY <1>1, <2>1 DEF ReadInv
    <3>2. ASSUME NEW j \in own, j <= k, addr < maps[j].end
          PROVE  maps[j].begin < r.start /\ maps[j].begin < q.start
      <4>1. maps[j].begin < maps[j].end /\ maps[j].end <= line.begin
        BY <1>1, <3>2
      <4> QED
        BY <1>1, <2>1, <4>1, <2>a
    <3>3. CASE r.load0
      <4>1. q.prot = line.perm
        BY <2>1, <3>3 DEF Narrowed
      <4>2. ASSUME NEW j \in own, j <= k PROVE ~(addr < maps[j].end)
        <5>1. maps[j].end \in Nat /\ maps[j].end <= line.begin /\ line.begin \in Nat
          BY <1>1, <4>2
        <5> QED
          BY <2>1, <2>a, <3>3, <5>1
      <4>3. \A j \in own : j <= k + 1 /\ addr < maps[j].end => j = k + 1
        BY <1>1, <4>2
      <4> QED
        BY <2>1, <3>1, <4>1, <4>3
    <3>4. CASE ~r.load0
      <4>1. p \in q.prot <=> p \in r.prot /\ p \in line.perm
        BY <2>1, <3>4 DEF Narrowed
      <4>2. p \in r.prot <=>
              \A j \in own : j <= k /\ addr < maps[j].end => p \in maps[j].perm
        BY <3>2, <3>4 DEF ReadInv
      <4>3. \A j \in own : j <= k + 1 <=> j <= k \/ j = k + 1
        BY <1>1
      <4> QED
        BY <2>1, <3>1, <3>2, <4>1, <4>2, <4>3
    <3> QED
      BY <3>3, <3>4
  <2>8. ~q.all => \A j \in own :
                    j <= k + 1 => ~(maps[j].begin <= q.start /\ q.start < maps[j].end)
    BY <1>1, <2>2, <2>4
  <2>9. q.load0 <=> q.start = addr
    BY <2>1, <2>2
  <2>10. q.all <=> addr + len <= q.start
    BY <2>1
  <2> HIDE DEF q
  <2>11. ReadInv(k + 1, q, maps, addr, len, path)
    BY <2>1, <2>2, <2>3, <2>5, <2>6, <2>7, <2>8, <2>9, <2>10 DEF ReadInv
  <2> QED
    BY <2>11 DEF q
<1> QED
  BY <1>2, <1>3

\* A span of maps that are in order has the protection all the lines that hold it allow.
LEMMA ProtectOfSpan ==
  ASSUME NEW maps, InOrder(maps), NEW addr \in Nat, NEW len \in Nat \ {0}, NEW path
  PROVE  Exact(maps, addr, len, path)
<1> SUFFICES LET Holds(a) == {k \in Own(maps, path) : maps[k].begin <= a /\ a < maps[k].end}
                 span == addr..(addr + len - 1)
                 lines == UNION {Holds(a) : a \in span}
             IN GetMemProtect(maps, addr, len, path) =
                  IF \E a \in span : Holds(a) = {} THEN SEGVERR
                  ELSE {p \in {"r", "w", "x"} : \A k \in lines : p \in maps[k].perm}
  BY DEF Exact
<1> DEFINE own == Own(maps, path)
           Holds(a) == {k \in own : maps[k].begin <= a /\ a < maps[k].end}
           span == addr..(addr + len - 1)
           lines == UNION {Holds(a) : a \in span}
           n == Len(maps)
<1>1. /\ DOMAIN maps = 1..n /\ n \in Nat
      /\ \A j \in DOMAIN maps : /\ maps[j].begin \in Nat /\ maps[j].end \in Nat
                                /\ maps[j].begin < maps[j].end
      /\ own \subseteq DOMAIN maps
  BY LinesInOrder
<1>2. PICK Read :
        /\ Reads(Read, n, maps, addr, len, path)
        /\ GetMemProtect(maps, addr, len, path) =
             IF Read[n].all THEN Read[n].prot ELSE SEGVERR
  BY <1>1, ReadIsProtect
<1>3. \A k \in 0..n : Read[k] = IF k = 0 THEN NotRead(addr)
                                ELSE ReadLine(maps[k], Read[k - 1], addr, len, path)
  BY <1>2 DEF Reads
<1> DEFINE S == {k \in Nat : k <= n => ReadInv(k, Read[k], maps, addr, len, path)}
<1>4. 0 \in S
  <2>1. Read[0] = NotRead(addr)
    BY <1>1, <1>3
  <2>2. ReadInv(0, NotRead(addr), maps, addr, len, path)
    BY <1>1 DEF ReadInv, NotRead
  <2> QED
    BY <2>1, <2>2
<1>5. ASSUME NEW k \in S PROVE k + 1 \in S
  <2> SUFFICES ASSUME k + 1 <= n PROVE ReadInv(k + 1, Read[k + 1], maps, addr, len, path)
    OBVIOUS
  <2>1. ReadInv(k, Read[k], maps, addr, len, path) /\ k + 1 \in DOMAIN maps
    BY <1>1
  <2>2. Read[k + 1] = ReadLine(maps[k + 1], Read[k], addr, len, path)
    BY <1>1, <1>3
  <2> QED
    BY <2>1, <2>2, ReadKeeps
<1>6. ReadInv(n, Read[n], maps, addr, len, path)
  <2>1. S = Nat
    BY <1>4, <1>5, NatSetInduction
  <2> QED
    BY <1>1, <2>1
<1>7. CASE Read[n].all
  <2>1. \A a \in span : Holds(a) # {}
    BY <1>6, <1>7 DEF ReadInv
  <2>2. \A j \in own : j \in lines <=> maps[j].begin < Read[n].start /\ addr < maps[j].end
    <3> SUFFICES ASSUME NEW j \in own
                 PROVE  (\E a \in span : maps[j].begin <= a /\ a < maps[j].end)
                          <=> maps[j].begin < Read[n].start /\ addr < maps[j].end
      OBVIOUS
    <3>1. ASSUME NEW a \in span, maps[j].begin <= a /\ a < maps[j].end
          PROVE  maps[j].begin < Read[n].start /\ addr < maps[j].end
      BY <1>1, <1>6, <1>7, <3>1 DEF ReadInv
    <3>2. ASSUME maps[j].begin < Read[n].start, addr < maps[j].end
          PROVE  \E a \in span : maps[j].begin <= a /\ a < maps[j].end
      <4>1. maps[j].begin < addr + len
        BY <1>6, <1>7, <3>2 DEF ReadInv
      <4>2. CASE addr <= maps[j].begin
        BY <1>1, <4>1, <4>2
      <4>3. CASE maps[j].begin < addr
        BY <1>1, <3>2, <4>3
      <4> QED
        BY <1>1, <4>2, <4>3
    <3> QED
      BY <3>1, <3>2
  <2>3. ~Read[n].load0
    BY <1>6, <1>7 DEF ReadInv
  <2>4. \A p \in RWX : p \in Read[n].prot <=> \A j \in lines : p \in maps[j].perm
    <3>1. lines \subseteq own /\ \A j \in own : j <= n
      BY <1>1
    <3>2. \A p \in RWX :
            p \in Read[n].prot <=>
              \A j \in own :
                j <= n /\ maps[j].begin < Read[n].start /\ addr < maps[j].end
                => p \in maps[j].perm
      BY <1>6, <2>3 DEF ReadInv
    <3> HIDE DEF lines, own
    <3> QED
      BY <2>2, <3>1, <3>2
  <2>5. Read[n].prot = {p \in RWX : \A k \in lines : p \in maps[k].perm}
    BY <1>6, <2>4 DEF ReadInv
  <2> QED
    BY <1>2, <1>7, <2>1, <2>5 DEF RWX
<1>8. CASE ~Read[n].all
  <2>1. Read[n].start \in span
    BY <1>6, <1>8 DEF ReadInv
  <2>2. Holds(Read[n].start) = {}
    BY <1>1, <1>6, <1>8 DEF ReadInv
  <2> QED
    BY <1>2, <1>8, <2>1, <2>2
<1> QED
  BY <1>7, <1>8

\* xh_util_get_mem_protect is exact on any maps in order, whatever lines hold the span.
THEOREM ProtectIsExact == Spec => []ProtectExact
<1>1. Init => phone \in {p.phone : p \in Phones}
  BY DEF Init
<1>2. ASSUME phone \in {p.phone : p \in Phones} PROVE ProtectExact
  <2>1. InOrder(phone.maps) /\ phone.probes \subseteq Nat
    BY <1>2, MapsAssumption
  <2>2. \A addr \in phone.probes, len \in 1..6 :
          Exact(phone.maps, addr, len, FindExecuteMemoryRange(phone.maps, "libart.so").path)
    BY <2>1, ProtectOfSpan
  <2> QED
    BY <2>2 DEF ProtectExact, Exact, Own
<1>3. phone \in {p.phone : p \in Phones} /\ [Next]_vars => (phone \in {p.phone : p \in Phones})'
  BY SamePhone
<1> QED
  BY <1>1, <1>2, <1>3, PTL DEF Spec

-----------------------------------------------------------------------------
(***************************************************************************)
(* What the lookups and the search find in files and memory as a linker    *)
(* and the runtime laid them out.                                          *)
(***************************************************************************)
\* Min of naturals.
LEMMA MinOf ==
  ASSUME NEW S \in SUBSET Nat, S # {}
  PROVE  Min(S) \in S /\ \A x \in S : Min(S) <= x
<1>1. \E m \in S : \A x \in S : m <= x
  BY LeastNatural
<1> QED
  BY <1>1 DEF Min

\* A non-empty set of naturals up to M has a greatest element.
LEMMA GreatestUpTo ==
  ASSUME NEW M \in Nat, NEW S \in SUBSET (0..M), S # {}
  PROVE  \E m \in S : \A x \in S : x <= m
<1> DEFINE T == {k \in Nat : k <= M /\ M - k \in S}
<1>1. \A x \in S : M - x \in T
  OBVIOUS
<1>2. T \in SUBSET Nat /\ T # {}
  BY <1>1
<1>3. PICK m \in T : \A k \in T : m <= k
  BY <1>2, LeastNatural
<1>4. \A x \in S : x <= M - m
  <2> SUFFICES ASSUME NEW x \in S PROVE x <= M - m
    OBVIOUS
  <2>1. M - x \in T
    BY <1>1
  <2>2. m <= M - x
    BY <1>3, <2>1
  <2> QED
    BY <1>3, <2>2
<1> QED
  BY <1>3, <1>4

\* The indices of a symbol table are an interval.
LEMMA Indices ==
  ASSUME NEW syms, Numbered(syms), NEW i \in DOMAIN syms
  PROVE  \E M \in Nat : DOMAIN syms = 0..M
<1> DEFINE C == Cardinality(DOMAIN syms)
<1>1. C \in Nat /\ DOMAIN syms = 0..(C - 1)
  BY FS_CardinalityType DEF Numbered
<1>2. i \in 0..(C - 1)
  BY <1>1
<1> HIDE DEF C
<1>3. C - 1 \in Nat
  BY <1>1, <1>2
<1> QED
  BY <1>1, <1>3

\* What the walk over a chain makes of index n.
Walks(W, f, name) ==
  W = [n \in DOMAIN DynSym(f) |->
         IF n = 0 THEN NoSym ELSE IF NameOf(f, n) = name THEN DynSym(f)[n]
         ELSE W[f.shdr[Parse(f).hash].chain[n]]]

\* A walk over chains that lead down in some order comes to an end.
LEMMA WalkExists ==
  ASSUME NEW f, NEW name, NEW M \in Nat, NEW rank \in [DOMAIN DynSym(f) -> 0..M],
         \A n \in DOMAIN DynSym(f) \ {0} :
           LET next == f.shdr[Parse(f).hash].chain[n] IN
           next \in DOMAIN DynSym(f) /\ (next # 0 => rank[next] < rank[n])
  PROVE  \E W : Walks(W, f, name)
<1> DEFINE D == DOMAIN DynSym(f)
           chain == f.shdr[Parse(f).hash].chain
           Val(W, n) == IF n = 0 THEN NoSym ELSE IF NameOf(f, n) = name THEN DynSym(f)[n]
                        ELSE W[chain[n]]
           Upto(W, m) == \A n \in D : n = 0 \/ rank[n] < m => W[n] = Val(W, n)
           S == {m \in Nat : \E W : W = [n \in D |-> W[n]] /\ Upto(W, m)}
<1>1. 0 \in S
  <2> DEFINE W == [n \in D |-> NoSym]
  <2>1. W = [n \in D |-> W[n]]
    OBVIOUS
  <2>2. Upto(W, 0)
    OBVIOUS
  <2> HIDE DEF W, Upto
  <2> QED
    BY <2>1, <2>2
<1>2. ASSUME NEW m \in S PROVE m + 1 \in S
  <2>1. PICK W : W = [n \in D |-> W[n]] /\ Upto(W, m)
    OBVIOUS
  <2> DEFINE Q == [n \in D |-> IF n # 0 /\ rank[n] = m THEN Val(W, n) ELSE W[n]]
  <2>2. Q = [n \in D |-> Q[n]]
    OBVIOUS
  <2>3. \A n \in D : n = 0 \/ rank[n] < m => Q[n] = W[n]
    OBVIOUS
  <2>4. ASSUME NEW n \in D, n = 0 \/ rank[n] < m + 1 PROVE Q[n] = Val(Q, n)
    <3>1. CASE n = 0
      BY <2>1, <2>3, <3>1
    <3>2. CASE n # 0
      <4>1. chain[n] \in D /\ (chain[n] = 0 \/ rank[chain[n]] < m)
        BY <2>4, <3>2
      <4>2. Q[chain[n]] = W[chain[n]]
        BY <2>3, <4>1
      <4>3. Q[n] = Val(W, n)
        BY <2>1, <2>4, <3>2
      <4> HIDE DEF Q
      <4> QED
        BY <3>2, <4>2, <4>3
    <3> QED
      BY <3>1, <3>2
  <2>5. Upto(Q, m + 1)
    BY <2>4
  <2> HIDE DEF Q, Upto
  <2> QED
    BY <2>2, <2>5
<1>3. M + 1 \in S
  BY <1>1, <1>2, NatSetInduction
<1>4. PICK W : W = [n \in D |-> W[n]] /\ Upto(W, M + 1)
  BY <1>3
<1>5. \A n \in D : W[n] = Val(W, n)
  BY <1>4
<1>6. W = [n \in D |-> Val(W, n)]
  BY <1>4, <1>5
<1> QED
  BY <1>6 DEF Walks

\* ElfLookup is the walk from the bucket.
LEMMA ElfLookupWalks ==
  ASSUME NEW f, NEW name, \E W : Walks(W, f, name)
  PROVE  \E W : /\ Walks(W, f, name)
                /\ LET t == f.shdr[Parse(f).hash] IN
                   ElfLookup(f, name) = W[t.bucket[f.elf_hash[name] % t.nbucket]]
<1> DEFINE t == f.shdr[Parse(f).hash]
           syms == f.shdr[Parse(f).dynsym].syms
           Is(W) == W = [n \in DOMAIN syms |->
             IF n = 0 THEN NoSym
             ELSE IF Str(f, Parse(f).dynstr, syms[n]) = name THEN syms[n] ELSE W[t.chain[n]]]
           V == CHOOSE W : Is(W)
<1>1. \A W : Is(W) <=> Walks(W, f, name)
  BY DEF Walks, NameOf, DynSym
<1>2. Is(V)
  BY <1>1
<1>3. ElfLookup(f, name) = V[t.bucket[f.elf_hash[name] % t.nbucket]]
  BY DEF ElfLookup
<1> QED
  BY <1>1, <1>2, <1>3

\* In a SYSV table a linker laid out a symbol of the name is found, if there is one.
LEMMA ElfLookupFinds ==
  ASSUME NEW f, NEW name, FileLaid(f), Parse(f).hash # None, f.elf_hash[name] \in Nat,
         \A i \in Dynamic(f, name) : DynSym(f)[i] # NoSym
  PROVE  IF Dynamic(f, name) = {} THEN ElfLookup(f, name) = NoSym
         ELSE \E i \in Dynamic(f, name) : ElfLookup(f, name) = DynSym(f)[i]
<1> DEFINE t == f.shdr[Parse(f).hash]
           D == DOMAIN DynSym(f)
           named == D \ {0}
           B(i) == f.elf_hash[NameOf(f, i)] % t.nbucket
           b == f.elf_hash[name] % t.nbucket
<1>1. /\ t.nbucket \in Nat \ {0}
      /\ \A k \in 0..(t.nbucket - 1) : t.bucket[k] \in D
      /\ \A i \in named : t.chain[i] \in D
      /\ \/ \A i \in named : t.chain[i] < i
         \/ \A i \in named : t.chain[i] = 0 \/ t.chain[i] > i
      /\ \A i \in named : t.bucket[B(i)] = i \/ \E j \in named : B(j) = B(i) /\ t.chain[j] = i
  BY DEF FileLaid, SysvLaid
<1>2. PICK M \in Nat : D = 0..M
  <2>1. 0 \in 0..(t.nbucket - 1)
    <3>1. t.nbucket \in Nat \ {0}
      BY <1>1
    <3> QED
      BY <3>1
  <2>2. t.bucket[0] \in D
    BY <1>1, <2>1
  <2> QED
    BY <2>2, Indices DEF FileLaid
<1>3. PICK rank \in [D -> 0..M] : \A i \in named : t.chain[i] # 0 => rank[t.chain[i]] < rank[i]
  <2>1. CASE \A i \in named : t.chain[i] < i
    <3> DEFINE r == [i \in D |-> i]
    <3>1. r \in [D -> 0..M] /\ \A i \in named : t.chain[i] # 0 => r[t.chain[i]] < r[i]
      BY <1>1, <1>2, <2>1
    <3> QED
      BY <3>1
  <2>2. CASE \A i \in named : t.chain[i] = 0 \/ t.chain[i] > i
    <3> DEFINE r == [i \in D |-> M - i]
    <3>1. r \in [D -> 0..M]
      BY <1>2
    <3>2. ASSUME NEW i \in named, t.chain[i] # 0 PROVE r[t.chain[i]] < r[i]
      <4>1. t.chain[i] \in D /\ t.chain[i] > i
        BY <1>1, <2>2, <3>2
      <4>2. i \in 0..M /\ t.chain[i] \in 0..M
        BY <1>2, <4>1
      <4>3. r[t.chain[i]] = M - t.chain[i] /\ r[i] = M - i
        BY <4>1
      <4> QED
        BY <4>1, <4>2, <4>3
    <3> QED
      BY <3>1, <3>2
  <2> QED
    BY <1>1, <2>1, <2>2
<1>4. PICK W : Walks(W, f, name) /\ ElfLookup(f, name) = W[t.bucket[b]]
  <2>1. \E W : Walks(W, f, name)
    BY <1>1, <1>2, <1>3, WalkExists
  <2> QED
    BY <2>1, ElfLookupWalks
<1>5. \A i \in D : W[i] = IF i = 0 THEN NoSym ELSE IF NameOf(f, i) = name THEN DynSym(f)[i]
                          ELSE W[t.chain[i]]
  BY <1>4 DEF Walks
<1>6. b \in 0..(t.nbucket - 1) /\ t.bucket[b] \in D
  <2>1. t.nbucket \in Nat \ {0}
    BY <1>1
  <2>2. b \in 0..(t.nbucket - 1)
    BY <2>1
  <2> QED
    BY <1>1, <2>2
<1> DEFINE Good(i) == W[i] = NoSym \/ \E j \in Dynamic(f, name) : W[i] = DynSym(f)[j]
<1>7. \A i \in D : Good(i)
  <2> DEFINE S == {m \in Nat : \A i \in D : rank[i] < m => Good(i)}
  <2>1. 0 \in S
    BY <1>3
  <2>2. ASSUME NEW m \in S PROVE m + 1 \in S
    <3> SUFFICES ASSUME NEW i \in D, rank[i] < m + 1 PROVE Good(i)
      OBVIOUS
    <3>1. CASE i = 0 \/ NameOf(f, i) = name
      BY <1>5, <3>1 DEF Dynamic
    <3>2. CASE i # 0 /\ NameOf(f, i) # name
      <4>1. W[i] = W[t.chain[i]] /\ t.chain[i] \in D
        BY <1>1, <1>5, <3>2
      <4>2. CASE t.chain[i] = 0
        BY <1>5, <4>1, <4>2
      <4>3. CASE t.chain[i] # 0
        <5>1. rank[t.chain[i]] < rank[i] /\ rank[i] \in Nat /\ rank[t.chain[i]] \in Nat
          BY <1>3, <3>2, <4>1, <4>3
        <5>2. rank[t.chain[i]] < m
          BY <5>1
        <5>3. Good(t.chain[i])
          BY <4>1, <5>2
        <5> QED
          BY <4>1, <5>3
      <4> QED
        BY <4>2, <4>3
    <3> QED
      BY <3>1, <3>2
  <2>3. M + 1 \in S
    BY <2>1, <2>2, NatSetInduction
  <2> QED
    BY <1>3, <2>3
<1>8. ASSUME W[t.bucket[b]] = NoSym, NEW j \in Dynamic(f, name) PROVE FALSE
  <2>1. j \in named /\ NameOf(f, j) = name /\ B(j) = b /\ W[j] # NoSym
    BY <1>5 DEF Dynamic, FileLaid
  <2> DEFINE S == {m \in Nat : \A i \in named : B(i) = b /\ M - rank[i] < m => W[i] = NoSym}
  <2>2. 0 \in S
    BY <1>3
  <2>3. ASSUME NEW m \in S PROVE m + 1 \in S
    <3> SUFFICES ASSUME NEW i \in named, B(i) = b, M - rank[i] < m + 1 PROVE W[i] = NoSym
      OBVIOUS
    <3>1. CASE t.bucket[B(i)] = i
      BY <1>8, <3>1
    <3>2. ASSUME NEW k \in named, B(k) = B(i), t.chain[k] = i PROVE W[i] = NoSym
      <4>1. rank[i] < rank[k] /\ rank[i] \in 0..M /\ rank[k] \in 0..M
        BY <1>3, <3>2
      <4>2. M - rank[k] < m
        BY <4>1
      <4>3. W[k] = NoSym
        BY <3>2, <4>2
      <4>4. NameOf(f, k) # name
        <5>1. NameOf(f, k) = name => k \in Dynamic(f, name) /\ W[k] = DynSym(f)[k]
          BY <1>5 DEF Dynamic
        <5> QED
          BY <4>3, <5>1
      <4> QED
        BY <1>5, <3>2, <4>3, <4>4
    <3> QED
      BY <1>1, <3>1, <3>2
  <2>4. M + 1 \in S
    BY <2>2, <2>3, NatSetInduction
  <2>5. W[j] = NoSym
    BY <1>3, <2>1, <2>4
  <2> QED
    BY <2>1, <2>5
<1> QED
  BY <1>4, <1>6, <1>7, <1>8

\* In a GNU table too, if the filter lets the name through.
LEMMA GnuLookupFinds ==
  ASSUME NEW f, NEW name, FileLaid(f), Parse(f).gnu # None, f.gnu_hash[name] \in Nat,
         \A i \in Dynamic(f, name) : DynSym(f)[i] # NoSym
  PROVE  /\ GnuLookup(f, name) # NoSym =>
              \E i \in Dynamic(f, name) : GnuLookup(f, name) = DynSym(f)[i]
         /\ BloomLaid(f) /\ GnuLookup(f, name) = NoSym =>
              Dynamic(f, name) \cap DOMAIN f.shdr[Parse(f).gnu].chain = {}
<1> DEFINE t == f.shdr[Parse(f).gnu]
           syms == DynSym(f)
           D == DOMAIN syms
           hashed == DOMAIN t.chain
           Hash(i) == f.gnu_hash[NameOf(f, i)]
           Fellows(i) == {j \in hashed : Hash(j) % t.nbucket = Hash(i) % t.nbucket}
           hash == f.gnu_hash[name]
           b == hash % t.nbucket
           first == t.bucket[b]
           ends == {i \in hashed : i >= first /\ t.chain[i] % 2 = 1}
           chain == IF MayHold(f, t, hash) /\ first # 0 THEN Chain(t, first) ELSE {}
           found == {i \in chain : t.chain[i] \div 2 = hash \div 2 /\ NameOf(f, i) = name}
<1>1. /\ t.nbucket \in Nat \ {0} /\ hashed \subseteq D \ {0}
      /\ \A k \in 0..(t.nbucket - 1) : t.bucket[k] \in hashed \cup {0}
      /\ \A i \in hashed :
           /\ t.bucket[Hash(i) % t.nbucket] \in Fellows(i) /\ t.chain[i] \div 2 = Hash(i) \div 2
           /\ t.chain[i] % 2 = 1 <=> \A j \in Fellows(i) : j <= i
  BY DEF FileLaid, GnuLaid
<1>2. \A i \in hashed : \A j \in Fellows(i) :
        t.bucket[Hash(i) % t.nbucket] <= j /\ (i <= j => i..j \subseteq Fellows(i))
  BY DEF FileLaid, GnuLaid
<1>3. b \in 0..(t.nbucket - 1) /\ first \in hashed \cup {0}
  <2>1. t.nbucket \in Nat \ {0}
    BY <1>1
  <2>2. b \in 0..(t.nbucket - 1)
    BY <2>1
  <2> QED
    BY <1>1, <2>2
<1>4. GnuLookup(f, name) = IF found = {} THEN NoSym ELSE syms[Min(found)]
  BY DEF GnuLookup, NameOf, DynSym
<1>5. CASE first = 0
  <2>1. found = {}
    BY <1>5
  <2>2. ASSUME NEW j \in Dynamic(f, name) \cap hashed PROVE FALSE
    <3>1. NameOf(f, j) = name /\ first \in hashed
      BY <1>1 DEF Dynamic
    <3> QED
      BY <1>1, <1>5, <3>1
  <2> QED
    BY <1>4, <2>1, <2>2
<1>6. CASE first # 0
  <2>0. first \in hashed
    BY <1>3, <1>6
  <2>1. PICK M \in Nat : D = 0..M
    <3>1. first \in D
      BY <1>1, <2>0
    <3> QED
      BY <3>1, Indices DEF FileLaid
  <2>. hashed \subseteq 0..M
    BY <1>1, <2>1
  <2>2. Fellows(first) \in SUBSET (0..M) /\ first \in Fellows(first)
    BY <1>1, <2>0, <2>1
  <2>3. PICK m \in Fellows(first) : \A x \in Fellows(first) : x <= m
    BY <2>2, GreatestUpTo
  <2>4. Fellows(m) = Fellows(first)
    OBVIOUS
  <2>5. m \in ends
    BY <1>1, <2>1, <2>2, <2>3, <2>4
  <2>6. ends \in SUBSET Nat /\ Min(ends) \in hashed /\ \A x \in ends : Min(ends) <= x
    <3>1. ends \in SUBSET Nat /\ ends # {}
      <4>1. ends \subseteq hashed
        OBVIOUS
      <4> HIDE DEF ends, hashed
      <4> QED
        BY <2>5, <4>1
    <3>2. Min(ends) \in ends
      BY <3>1, MinOf
    <3> QED
      BY <3>1, <3>2, MinOf
  <2>7. chain = IF MayHold(f, t, hash) THEN first..Min(ends) ELSE {}
    BY <1>6 DEF Chain
  <2>8. chain \subseteq D
    <3>1. Min(ends) \in 0..M /\ first \in 0..M
      BY <1>1, <2>0, <2>1, <2>6
    <3> HIDE DEF ends, first, chain
    <3> QED
      BY <2>1, <2>7, <3>1
  <2>9. found \subseteq Dynamic(f, name) /\ found \in SUBSET Nat
    <3>1. found \subseteq chain
      OBVIOUS
    <3>2. found \subseteq Dynamic(f, name)
      BY <2>8 DEF Dynamic
    <3> HIDE DEF found, chain, D
    <3>3. D \subseteq Nat
      BY <2>1
    <3> QED
      BY <2>8, <3>1, <3>2, <3>3
  <2>10. found # {} => Min(found) \in found
    BY <2>9, MinOf
  <2>11. ASSUME BloomLaid(f), NEW j \in Dynamic(f, name) \cap hashed PROVE j \in found
    <3>1. NameOf(f, j) = name /\ MayHold(f, t, hash) /\ t.chain[j] \div 2 = hash \div 2
      BY <1>1, <2>11 DEF Dynamic, BloomLaid
    <3>2. first \in Fellows(j) /\ first <= j /\ j \in Fellows(first)
      BY <1>1, <1>2, <3>1
    <3>3. \A e \in ends : j <= e
      <4>0. ASSUME NEW e \in ends PROVE e \in hashed /\ e >= first /\ t.chain[e] % 2 = 1
        OBVIOUS
      <4> HIDE DEF ends, hashed, first, Fellows
      <4>1a. ASSUME NEW e \in ends, ~(j <= e) PROVE e \in first..j
        <5>1. e \in 0..M /\ j \in 0..M /\ first \in 0..M /\ e >= first
          BY <2>0, <2>11, <4>0
        <5> QED
          BY <4>1a, <5>1
      <4> SUFFICES ASSUME NEW e \in ends, ~(j <= e) PROVE FALSE
        OBVIOUS
      <4>1. e \in first..j
        BY <4>1a
      <4> USE DEF ends, hashed, first, Fellows
      <4>2. e \in Fellows(first)
        BY <1>2, <2>0, <3>2, <4>1
      <4>3. j \in Fellows(e)
        BY <3>2, <4>2
      <4>4. j <= e
        BY <1>1, <4>2, <4>3
      <4> QED
        BY <4>4
    <3>4. j <= Min(ends)
      <4>1. Min(ends) \in ends
        BY <1>1, <2>5, <2>6, MinOf
      <4> QED
        BY <3>3, <4>1
    <3>5. j \in first..Min(ends)
      <4>1. j \in 0..M /\ Min(ends) \in 0..M /\ first \in 0..M
        BY <2>0, <2>6, <2>11
      <4> HIDE DEF ends, first
      <4> QED
        BY <3>2, <3>4, <4>1
    <3> QED
      BY <2>7, <3>1, <3>5
  <2>12. found # {} => syms[Min(found)] # NoSym
    BY <2>9, <2>10
  <2> HIDE DEF found
  <2> QED
    BY <1>4, <2>9, <2>10, <2>11, <2>12
<1> QED
  BY <1>5, <1>6

\* The last of the symbols of a name in .symtab is found.
LEMMA LinearLookupFinds ==
  ASSUME NEW f, NEW name, FileLaid(f), Parse(f).symtab # None
  PROVE  IF Static(f, name) = {} THEN LinearLookup(f, name) = NoSym
         ELSE \E i \in Static(f, name) : LinearLookup(f, name) = SymTab(f)[i]
<1>1. LinearLookup(f, name) = IF Static(f, name) = {} THEN NoSym
                              ELSE SymTab(f)[Max(Static(f, name))]
  BY DEF LinearLookup, Static, SymTab
<1>2. ASSUME Static(f, name) # {} PROVE Max(Static(f, name)) \in Static(f, name)
  <2>1. PICK i \in Static(f, name) : i \in DOMAIN SymTab(f)
    BY <1>2 DEF Static
  <2>2. PICK M \in Nat : DOMAIN SymTab(f) = 0..M
    BY <2>1, Indices DEF FileLaid
  <2>3. Static(f, name) \in SUBSET (0..M)
    BY <2>2 DEF Static
  <2>4. PICK m \in Static(f, name) : \A x \in Static(f, name) : x <= m
    BY <1>2, <2>3, GreatestUpTo
  <2>5. \E m1 \in Static(f, name) : \A x \in Static(f, name) : m1 >= x
    BY <2>3, <2>4
  <2> QED
    BY <2>5 DEF Max
<1> QED
  BY <1>1, <1>2

\* Whatever table it is found through, the symbol found has the name; one that a table
\* leads to is found.
LEMMA HashedFinds ==
  ASSUME NEW f, NEW name, NEW names, name \in names, FileLaid(f),
         f.elf_hash[name] \in Nat, f.gnu_hash[name] \in Nat,
         \A i \in Dynamic(f, name) : DynSym(f)[i] # NoSym
  PROVE  /\ Hashed(f, name) # NoSym =>
              \E i \in Dynamic(f, name) : Hashed(f, name) = DynSym(f)[i]
         /\ Searchable(f, names) /\ Hashed(f, name) = NoSym => Dynamic(f, name) = {}
<1>1. ASSUME Parse(f).gnu # None
      PROVE  /\ GnuLookup(f, name) # NoSym =>
                  \E i \in Dynamic(f, name) : GnuLookup(f, name) = DynSym(f)[i]
             /\ BloomLaid(f) /\ GnuLookup(f, name) = NoSym =>
                  Dynamic(f, name) \cap DOMAIN f.shdr[Parse(f).gnu].chain = {}
  BY <1>1, GnuLookupFinds
<1>2. ASSUME Parse(f).hash # None
      PROVE  IF Dynamic(f, name) = {} THEN ElfLookup(f, name) = NoSym
             ELSE \E i \in Dynamic(f, name) : ElfLookup(f, name) = DynSym(f)[i]
  BY <1>2, ElfLookupFinds
<1>3. ASSUME Hashed(f, name) # NoSym
      PROVE  \E i \in Dynamic(f, name) : Hashed(f, name) = DynSym(f)[i]
  BY <1>1, <1>2, <1>3 DEF Hashed
<1>4. ASSUME Searchable(f, names), Hashed(f, name) = NoSym PROVE Dynamic(f, name) = {}
  <2>1. CASE Parse(f).hash # None
    BY <1>2, <1>4, <2>1 DEF Hashed
  <2>2. CASE Parse(f).hash = None
    <3>1. /\ Parse(f).gnu # None /\ BloomLaid(f)
          /\ Dynamic(f, name) \subseteq DOMAIN f.shdr[Parse(f).gnu].chain
      BY <1>4, <2>2 DEF Searchable
    <3>2. GnuLookup(f, name) = NoSym
      BY <1>4, <2>2, <3>1 DEF Hashed
    <3> QED
      BY <1>1, <3>1, <3>2
  <2> QED
    BY <2>1, <2>2
<1> QED
  BY <1>3, <1>4

\* FindSymbol answers with the address the linker gave the name, or with null.
LEMMA FindSymbolFinds ==
  ASSUME NEW f, NEW base, NEW at, NEW names, NEW name \in names, FileLaid(f),
         Placed(f, base, at, names)
  PROVE  /\ FindSymbol(f, base, name) \in {None, at[name]}
         /\ NamedSyms(f, name) = {} => FindSymbol(f, base, name) = None
         /\ Searchable(f, names) /\ NamedSyms(f, name) # {} =>
              ~ReadsStale(f, name) /\ FindSymbol(f, base, name) = at[name]
<1> DEFINE sym == IF Hashed(f, name) = NoSym /\ Parse(f).symtab # None
                  THEN LinearLookup(f, name) ELSE Hashed(f, name)
<1>0. PICK k \in SectionsOf(f, "PROGBITS") :
        /\ \A j \in SectionsOf(f, "PROGBITS") : k <= j
        /\ \A s \in NamedSyms(f, name) :
             LET offset == s.value + (f.shdr[k].offset - f.shdr[k].addr) IN
             s # NoSym /\ offset # 0 /\ base + offset = at[name]
  <2>1. PICK k \in SectionsOf(f, "PROGBITS") :
          /\ \A j \in SectionsOf(f, "PROGBITS") : k <= j
          /\ \A s \in NamedSyms(f, name) :
               /\ s # NoSym /\ s.value \in Nat /\ at[name] # base
               /\ \E c \in SectionsOf(f, "PROGBITS") :
                    /\ at[name] = base + f.shdr[c].offset + (s.value - f.shdr[c].addr)
                    /\ f.shdr[c].addr + f.shdr[k].offset = f.shdr[k].addr + f.shdr[c].offset
    BY DEF Placed, Holding
  <2>2. /\ base \in Nat
        /\ \A c \in SectionsOf(f, "PROGBITS") :
             f.shdr[c].offset \in Nat /\ f.shdr[c].addr \in Nat
    BY DEF Placed
  <2>3. ASSUME NEW s \in NamedSyms(f, name)
        PROVE  /\ s # NoSym /\ s.value + (f.shdr[k].offset - f.shdr[k].addr) # 0
               /\ base + (s.value + (f.shdr[k].offset - f.shdr[k].addr)) = at[name]
    <3>1. PICK c \in SectionsOf(f, "PROGBITS") :
            /\ at[name] = base + f.shdr[c].offset + (s.value - f.shdr[c].addr)
            /\ f.shdr[c].addr + f.shdr[k].offset = f.shdr[k].addr + f.shdr[c].offset
      BY <2>1
    <3>2. PICK o, a, x, y, v \in Nat : /\ o = f.shdr[k].offset /\ a = f.shdr[k].addr
                                       /\ x = f.shdr[c].offset /\ y = f.shdr[c].addr
                                       /\ v = s.value
      BY <2>1, <2>2
    <3>3. at[name] = base + x + (v - y) /\ y + o = a + x /\ at[name] # base
      BY <2>1, <3>1, <3>2
    <3>4. v + (o - a) # 0 /\ base + (v + (o - a)) = at[name]
      <4>1. v + (o - a) = x + (v - y) /\ base + x + (v - y) = base + (x + (v - y))
        BY <2>2, <3>3
      <4>2. x + (v - y) = 0 => base + x + (v - y) = base
        BY <2>2
      <4> QED
        BY <3>3, <4>1, <4>2
    <3> QED
      BY <2>1, <3>2, <3>4
  <2> QED
    BY <2>1, <2>3
<1>1. /\ f.elf_hash[name] \in Nat /\ f.gnu_hash[name] \in Nat
      /\ \A s \in NamedSyms(f, name) :
           s # NoSym /\ s.value + LoadBias(f) # 0 /\ base + (s.value + LoadBias(f)) = at[name]
  <2>1. SectionsOf(f, "PROGBITS") \in SUBSET Nat
    BY DEF SectionsOf, FileLaid
  <2>2. FirstOf(SectionsOf(f, "PROGBITS")) = k
    <3>1. /\ Min(SectionsOf(f, "PROGBITS")) \in SectionsOf(f, "PROGBITS")
          /\ \A x \in SectionsOf(f, "PROGBITS") : Min(SectionsOf(f, "PROGBITS")) <= x
      BY <1>0, <2>1, MinOf
    <3>2. Min(SectionsOf(f, "PROGBITS")) = k
      BY <1>0, <2>1, <3>1
    <3> QED
      BY <1>0, <3>2 DEF FirstOf
  <2>3. LoadBias(f) = f.shdr[k].offset - f.shdr[k].addr
    BY <2>2 DEF LoadBias
  <2>4. f.elf_hash[name] \in Nat /\ f.gnu_hash[name] \in Nat
    BY DEF Placed
  <2> QED
    BY <1>0, <2>3, <2>4
<1>2. \A i \in Dynamic(f, name) : DynSym(f)[i] \in NamedSyms(f, name)
  BY DEF NamedSyms
<1>3. \A i \in Static(f, name) : SymTab(f)[i] \in NamedSyms(f, name)
  BY DEF NamedSyms
<1>4. /\ Hashed(f, name) # NoSym => Hashed(f, name) \in NamedSyms(f, name)
      /\ Searchable(f, names) /\ Hashed(f, name) = NoSym => Dynamic(f, name) = {}
  BY <1>1, <1>2, HashedFinds
<1>5. ASSUME Parse(f).symtab # None
      PROVE  IF Static(f, name) = {} THEN LinearLookup(f, name) = NoSym
             ELSE LinearLookup(f, name) \in NamedSyms(f, name)
  BY <1>3, <1>5, LinearLookupFinds
<1>6. sym = NoSym \/ sym \in NamedSyms(f, name)
  BY <1>4, <1>5
<1>7. FindSymbol(f, base, name) =
        LET offset == IF sym = NoSym THEN 0 ELSE sym.value + LoadBias(f) IN
        IF offset # 0 THEN base + offset ELSE None
  BY DEF FindSymbol, FindSymbolOffset
<1>8. ASSUME Searchable(f, names), NamedSyms(f, name) # {}
      PROVE  ~ReadsStale(f, name) /\ sym \in NamedSyms(f, name)
  <2>1. CASE Hashed(f, name) # NoSym
    BY <1>4, <2>1 DEF ReadsStale
  <2>2. CASE Hashed(f, name) = NoSym
    <3>1. Static(f, name) # {}
      BY <1>4, <1>8, <2>2 DEF NamedSyms
    <3>2. Parse(f).symtab # None
      BY <3>1 DEF Static
    <3> QED
      BY <1>5, <2>2, <3>1, <3>2 DEF ReadsStale
  <2> QED
    BY <2>1, <2>2
<1> HIDE DEF sym
<1> QED
  BY <1>1, <1>6, <1>7, <1>8

\* The name left in mapname is that of the last line that had one.
LEMMA MapNameIs ==
  ASSUME NEW maps \in Seq(Lines), NEW k \in DOMAIN maps
  PROVE  \/ MapName(maps, k) = NoPath
         \/ \E j \in 1..k : /\ maps[j].path = MapName(maps, k)
                            /\ \A i \in (j + 1)..k : maps[i].path = NoPath
<1> DEFINE named == {j \in 1..k : maps[j].path # NoPath}
<1>1. CASE named = {}
  BY <1>1 DEF MapName
<1>2. CASE named # {}
  <2>1. k \in Nat /\ named \in SUBSET (0..k)
    OBVIOUS
  <2>2. PICK m \in named : \A x \in named : x <= m
    BY <1>2, <2>1, GreatestUpTo
  <2>3. Max(named) \in named /\ \A x \in named : Max(named) >= x
    <3>1. \E m1 \in named : \A x \in named : m1 >= x
      BY <2>1, <2>2
    <3> QED
      BY <3>1 DEF Max
  <2>4. MapName(maps, k) = maps[Max(named)].path
    BY <1>2 DEF MapName
  <2>5. \A i \in (Max(named) + 1)..k : maps[i].path = NoPath
    <3> SUFFICES ASSUME NEW i \in (Max(named) + 1)..k, maps[i].path # NoPath PROVE FALSE
      OBVIOUS
    <3>1. Max(named) \in 1..k
      BY <2>3
    <3> HIDE DEF named
    <3>2. i \in 1..k /\ i > Max(named)
      BY <3>1
    <3>3. i \in named
      BY <3>2 DEF named
    <3> QED
      BY <2>3, <3>1, <3>2, <3>3
  <2> QED
    BY <2>3, <2>4, <2>5
<1> QED
  BY <1>1, <1>2

\* A line with a name leaves it.
LEMMA MapNameOwn ==
  ASSUME NEW maps \in Seq(Lines), NEW k \in DOMAIN maps, maps[k].path # NoPath
  PROVE  MapName(maps, k) = maps[k].path
<1> DEFINE named == {j \in 1..k : maps[j].path # NoPath}
<1>1. k \in named /\ k \in Nat /\ \A x \in named : k >= x /\ x \in Nat
  OBVIOUS
<1>2. Max(named) \in named /\ \A x \in named : Max(named) >= x
  BY <1>1 DEF Max
<1>3. Max(named) = k
  BY <1>1, <1>2
<1> QED
  BY <1>1, <1>3 DEF MapName

\* FindExecuteMemoryRange finds where the code of a library is.
LEMMA RangeIsCode ==
  ASSUME NEW maps, InOrder(maps), NEW lib \in Libraries
  PROVE  /\ \A k \in DOMAIN maps : CodeAt(maps, lib, k) =>
              FindExecuteMemoryRange(maps, lib) =
                [path |-> maps[k].path, base |-> maps[k].begin, end |-> maps[k].end]
         /\ (\A k \in DOMAIN maps : ~OfLib(maps, lib, k)) =>
              FindExecuteMemoryRange(maps, lib) = NoRange
<1> DEFINE found == {k \in DOMAIN maps : /\ ~PassedOver(MapName(maps, k))
                                         /\ MapName(maps, k).file = lib
                                         /\ {"r", "x"} \subseteq maps[k].perm}
<1>1. maps \in Seq(Lines) /\ DOMAIN maps = 1..Len(maps) /\ Len(maps) \in Nat
  BY DEF InOrder
<1>2. NoPath.file # lib
  BY DEF NoPath, Libraries
<1>3. ASSUME NEW i \in found
      PROVE  \E j \in 1..i : /\ OfLib(maps, lib, j)
                             /\ OfLib(maps, lib, i) \/ maps[i].path = NoPath
  <2>1. PICK j \in 1..i : /\ maps[j].path = MapName(maps, i)
                          /\ \A l \in (j + 1)..i : maps[l].path = NoPath
    BY <1>1, <1>2, MapNameIs
  <2>2. OfLib(maps, lib, j)
    BY <2>1 DEF OfLib, PassedOver
  <2>3. j = i \/ i \in (j + 1)..i
    BY <1>1
  <2> QED
    BY <2>1, <2>2, <2>3
<1>4. ASSUME NEW k \in DOMAIN maps, CodeAt(maps, lib, k)
      PROVE  FindExecuteMemoryRange(maps, lib) =
               [path |-> maps[k].path, base |-> maps[k].begin, end |-> maps[k].end]
  <2>1. MapName(maps, k) = maps[k].path
    BY <1>1, <1>2, <1>4, MapNameOwn DEF CodeAt, OfLib
  <2>2. k \in found
    BY <1>4, <2>1 DEF CodeAt, OfLib, OfCode, PassedOver
  <2>3. \A i \in found : k <= i
    <3> SUFFICES ASSUME NEW i \in found, ~(k <= i) PROVE FALSE
      OBVIOUS
    <3>1. PICK j \in 1..i : /\ OfLib(maps, lib, j)
                            /\ OfLib(maps, lib, i) \/ maps[i].path = NoPath
      BY <1>3
    <3>2. i \in 1..(k - 1) /\ j \in 1..(k - 1) /\ j <= i
      BY <1>1
    <3>3. OfCode(maps, i)
      BY DEF OfCode
    <3> QED
      BY <1>4, <3>1, <3>2, <3>3 DEF CodeAt
  <2>4. found \in SUBSET Nat
    BY <1>1
  <2> HIDE DEF found
  <2>5. Min(found) = k
    <3>1. Min(found) \in found /\ \A x \in found : Min(found) <= x
      BY <2>2, <2>4, MinOf
    <3> QED
      BY <2>2, <2>3, <2>4, <3>1
  <2>6. found # {}
    BY <2>2
  <2> QED
    BY <2>1, <2>5, <2>6 DEF FindExecuteMemoryRange, found
<1>5. ASSUME \A k \in DOMAIN maps : ~OfLib(maps, lib, k)
      PROVE  FindExecuteMemoryRange(maps, lib) = NoRange
  <2>1. found = {}
    BY <1>1, <1>3, <1>5
  <2> QED
    BY <2>1 DEF FindExecuteMemoryRange
<1> QED
  BY <1>4, <1>5

\* DlOpen finds the file of a library, if there is one to be found.
LEMMA DlOpenFinds ==
  ASSUME NEW p \in Phones, PhoneTrue(p), NEW lib \in Libraries
  PROVE  /\ DlOpens(p, lib) <=> FilesOf(p, lib) # {}
         /\ DlOpens(p, lib) =>
              /\ FilesOf(p, lib) = {Image(p, lib)} /\ FileLaid(Image(p, lib))
              /\ Placed(Image(p, lib), FindExecuteMemoryRange(p.phone.maps, lib).base,
                        p.phone.at, Asked(lib))
<1> DEFINE maps == p.phone.maps
<1>1. InOrder(maps)
  BY MapsAssumption
<1>2. CASE Code(p, lib) = {}
  <2>1. FindExecuteMemoryRange(maps, lib) = NoRange
    BY <1>1, <1>2, RangeIsCode DEF PhoneTrue
  <2> QED
    BY <1>2, <2>1 DEF DlOpens, IsValid, NoRange, FilesOf
<1>3. ASSUME NEW k \in Code(p, lib)
      PROVE  /\ DlOpens(p, lib) <=> FilesOf(p, lib) # {}
             /\ DlOpens(p, lib) =>
                  /\ FilesOf(p, lib) = {Image(p, lib)} /\ FileLaid(Image(p, lib))
                  /\ Placed(Image(p, lib), FindExecuteMemoryRange(maps, lib).base,
                            p.phone.at, Asked(lib))
  <2> DEFINE R == FindExecuteMemoryRange(maps, lib)
  <2>1. \A j \in Code(p, lib) :
          R = [path |-> maps[j].path, base |-> maps[j].begin, end |-> maps[j].end]
    BY <1>1, RangeIsCode DEF Code
  <2>2. k \in DOMAIN maps /\ OfLib(maps, lib, k)
    BY DEF Code, CodeAt
  <2>3. maps[k].path # NoPath /\ maps[k].begin < maps[k].end
    <3>1. NoPath.file # lib
      BY DEF NoPath, Libraries
    <3> QED
      BY <1>1, <2>2, <3>1 DEF OfLib, InOrder
  <2> HIDE DEF R
  <2>4. R.path = maps[k].path /\ R.base = maps[k].begin /\ IsValid(R)
    BY <2>1, <2>3 DEF IsValid
  <2>5. Image(p, lib) = p.files[maps[k].path] /\ (DlOpens(p, lib) <=> Image(p, lib).shdr # <<>>)
    BY <2>4 DEF Image, DlOpens, R
  <2>6. \A j \in Code(p, lib) : p.files[maps[j].path] = Image(p, lib)
    BY <2>1, <2>4, <2>5
  <2>7. DlOpens(p, lib) =>
          FileLaid(Image(p, lib)) /\ Placed(Image(p, lib), R.base, p.phone.at, Asked(lib))
    BY <2>4, <2>5 DEF PhoneTrue
  <2> QED
    BY <2>5, <2>6, <2>7 DEF FilesOf, R
<1> QED
  BY <1>2, <1>3

\* What DlSym answers on a phone that tells the truth.
LEMMA DlSymFinds ==
  ASSUME NEW p \in Phones, PhoneTrue(p), NEW lib \in Libraries, NEW name \in Asked(lib)
  PROVE  /\ \A a \in DlSym(p, lib, name) : Fatal(a) \/ a = None \/ a = p.phone.at[name]
         /\ DlOpens(p, lib) => Wild \notin DlSym(p, lib, name) \ {p.phone.at[name]}
         /\ ~(DlOpens(p, lib) /\ NamedSyms(Image(p, lib), name) # {}) =>
              \A a \in DlSym(p, lib, name) : Fatal(a) \/ a = None
         /\ /\ DlOpens(p, lib) /\ NamedSyms(Image(p, lib), name) # {}
            /\ Searchable(Image(p, lib), Asked(lib))
            => DlSym(p, lib, name) = {p.phone.at[name]}
<1> DEFINE base == FindExecuteMemoryRange(p.phone.maps, lib).base
<1>1. CASE ~DlOpens(p, lib)
  BY <1>1 DEF DlSym, Fatal
<1>2. CASE DlOpens(p, lib)
  <2> DEFINE f == Image(p, lib)
  <2>1. FileLaid(f) /\ Placed(f, base, p.phone.at, Asked(lib))
    BY <1>2, DlOpenFinds
  <2> HIDE DEF f, base
  <2>2. /\ FindSymbol(f, base, name) \in {None, p.phone.at[name]}
        /\ NamedSyms(f, name) = {} => FindSymbol(f, base, name) = None
        /\ Searchable(f, Asked(lib)) /\ NamedSyms(f, name) # {} =>
             ~ReadsStale(f, name) /\ FindSymbol(f, base, name) = p.phone.at[name]
    BY <2>1, FindSymbolFinds
  <2>3. DlSym(p, lib, name) =
          IF ReadsStale(f, name) THEN {None, Stale} ELSE {FindSymbol(f, base, name)}
    BY <1>2 DEF DlSym, MayReturn, f, base
  <2>4. Fatal(Stale) /\ Wild # None /\ Wild # Stale
    BY DEF Fatal, Wild, Stale, None
  <2> QED
    BY <1>2, <2>2, <2>3, <2>4 DEF f
<1> QED
  BY <1>1, <1>2

\* The distances the search goes by are those of the members.
LEMMA MembersStand ==
  ASSUME NEW h
  PROVE  /\ Back(h, "class_linker_") = IF h.api >= ANDROID_O_MR1 THEN 6 ELSE 5
         /\ Back(h, "intern_table_") = IF h.api >= ANDROID_O_MR1 THEN 7 ELSE 6
         /\ TrampolineAfter(h) = IF h.api >= ANDROID_M THEN 3 ELSE 5
<1>1. ASSUME h.api >= ANDROID_O_MR1
      PROVE  /\ WordOf(RuntimeMembers(h.api), "intern_table_") = 1
             /\ WordOf(RuntimeMembers(h.api), "class_linker_") = 2
             /\ WordOf(RuntimeMembers(h.api), "java_vm_") = 8
  BY <1>1 DEF WordOf, RuntimeMembers
<1>2. ASSUME ~(h.api >= ANDROID_O_MR1)
      PROVE  /\ WordOf(RuntimeMembers(h.api), "intern_table_") = 1
             /\ WordOf(RuntimeMembers(h.api), "class_linker_") = 2
             /\ WordOf(RuntimeMembers(h.api), "java_vm_") = 7
  BY <1>2 DEF WordOf, RuntimeMembers
<1>3. ASSUME h.api >= ANDROID_M
      PROVE  /\ WordOf(LinkerMembers(h.api), "intern_table_") = 1
             /\ WordOf(LinkerMembers(h.api), "quick_generic_jni_trampoline_") = 4
  BY <1>3 DEF WordOf, LinkerMembers
<1>4. ASSUME ~(h.api >= ANDROID_M)
      PROVE  /\ WordOf(LinkerMembers(h.api), "intern_table_") = 1
             /\ WordOf(LinkerMembers(h.api), "quick_generic_jni_trampoline_") = 6
  BY <1>4 DEF WordOf, LinkerMembers
<1> QED
  BY <1>1, <1>2, <1>3, <1>4 DEF Back, TrampolineAfter

\* Where the search through the runtime ends.
LEMMA SearchFinds ==
  ASSUME RuntimeTrue(phone)
  PROVE  /\ SearchTrampoline \in {None, Wild, phone.at[Trampoline]}
         /\ RuntimeTells(phone) => SearchTrampoline = phone.at[Trampoline]
<1> DEFINE runtime == MemberOf(phone.vm, 1)
           slot == Scan(runtime, IF phone.wide THEN 48 ELSE 50, phone.vm)
           class_linker == IF slot = None THEN None ELSE MemberOf(runtime, LinkerSlot(slot))
           intern_table == MemberOf(runtime, LinkerSlot(slot) - 1)
           hit == Scan(class_linker, 25, intern_table)
<1>1. \A obj, k : MemberOf(obj, k) = WordAt(phone, obj, k)
  BY DEF MemberOf, WordAt
<1>2. runtime = Runtime(phone)
  BY <1>1 DEF Runtime
<1>3. SearchTrampoline =
        IF class_linker = None THEN Wild
        ELSE IF hit = None THEN None
        ELSE MemberOf(class_linker, hit + (IF phone.api >= ANDROID_M THEN 3 ELSE 5))
  BY DEF SearchTrampoline
<1>4. VmSlots(phone) \in SUBSET Nat /\ 0 \notin VmSlots(phone)
  BY DEF VmSlots
<1>5. slot = FirstOf(VmSlots(phone))
  BY <1>1, <1>2 DEF Scan, VmSlots
<1>6. VmSlots(phone) = {} => slot = None
  BY <1>5 DEF FirstOf
<1>7. VmSlots(phone) # {} => slot \in VmSlots(phone) /\ slot # None
  BY <1>4, <1>5, MinOf DEF FirstOf, None
<1>8. CASE slot = None
  <2>1. SearchTrampoline = Wild
    BY <1>3, <1>8
  <2> QED
    BY <1>7, <1>8, <2>1 DEF RuntimeTells
<1>9. CASE slot # None
  <2>1. slot \in VmSlots(phone) /\ slot \in Nat
    BY <1>4, <1>6, <1>7, <1>9
  <2> HIDE DEF slot
  <2>2. /\ LinkerSlot(slot) = slot - Back(phone, "class_linker_")
        /\ LinkerSlot(slot) - 1 = slot - Back(phone, "intern_table_")
    BY <2>1, MembersStand DEF LinkerSlot
  <2>3. class_linker = ClassLinker(phone, slot)
    BY <1>1, <1>2, <1>9, <2>2 DEF ClassLinker
  <2>4. intern_table = InternTable(phone, slot)
    BY <1>1, <1>2, <2>2 DEF InternTable
  <2> HIDE DEF class_linker, intern_table
  <2>5. hit = FirstOf(InternSlots(phone, slot))
    <3>1. 25..(25 + 99) = 25..124
      OBVIOUS
    <3> QED
      BY <1>1, <2>3, <2>4, <3>1 DEF Scan, InternSlots
  <2>6. InternSlots(phone, slot) \in SUBSET Nat /\ 0 \notin InternSlots(phone, slot)
    BY DEF InternSlots
  <2>7. InternSlots(phone, slot) = {} => hit = None
    BY <2>5 DEF FirstOf
  <2>8. InternSlots(phone, slot) # {} => hit \in InternSlots(phone, slot) /\ hit # None
    BY <2>5, <2>6, MinOf DEF FirstOf, None
  <2> HIDE DEF hit
  <2>9. ASSUME class_linker # None, hit \in InternSlots(phone, slot), hit # None
        PROVE  SearchTrampoline = phone.at[Trampoline]
    <3>1. SearchTrampoline = WordAt(phone, class_linker, hit + TrampolineAfter(phone))
      BY <1>1, <1>3, <2>9, MembersStand
    <3> QED
      BY <2>1, <2>3, <2>9, <3>1 DEF RuntimeTrue
  <2> QED
    BY <1>3, <2>1, <2>3, <2>7, <2>8, <2>9 DEF RuntimeTells
<1> QED
  BY <1>8, <1>9

-----------------------------------------------------------------------------
(***************************************************************************)
(* The theorems, from what the files and the memory hold.                  *)
(***************************************************************************)
\* The answers of a phone p.
PhoneAnswers(p) ==
  /\ phone = p.phone /\ dlopen = {lib \in Libraries : DlOpens(p, lib)}
  /\ \A f \in Fields : f # "quick_to_jni_bridge" =>
       Answers(f) = DlSym(p, "libart.so", SymbolsIn(f))
  /\ Trampolines =
       {IF b = None THEN SearchTrampoline ELSE b : b \in DlSym(p, "libart.so", Trampoline)}
  /\ JniAnswers = DlSym(p, "libandroid_runtime.so", "getJNIEnv")

\* The field of the trampoline is the only one with its name.
LEMMA TrampolineAsked ==
  /\ SymbolsIn("quick_to_jni_bridge") = Trampoline /\ "quick_to_jni_bridge" \in Fields
  /\ \A f \in Fields : f # "quick_to_jni_bridge" => SymbolsIn(f) # Trampoline
  /\ Trampoline \in Asked("libart.so")
<1>1. SymbolsIn("quick_to_jni_bridge") = Trampoline /\ "quick_to_jni_bridge" \in Fields
  BY DEF SymbolsIn, SymbolName, Trampoline, Fields, BridgeFields
<1>2. \A f \in Fields : f # "quick_to_jni_bridge" => SymbolsIn(f) # Trampoline
  BY FieldsInOrder DEF SymbolsIn, SymbolName, Trampoline, Fields, BridgeFields
<1>3. Trampoline \in Asked("libart.so")
  BY <1>1, FieldNames DEF Asked, Trampoline
<1> QED
  BY <1>1, <1>2, <1>3

\* The names that are asked of a library.
LEMMA NamesAsked ==
  /\ \A f \in Fields : SymbolsIn(f) \in Asked("libart.so")
  /\ \A f \in Fields : f # "quick_to_jni_bridge" =>
       SymbolsIn(f) \in Asked("libart.so") \ {Trampoline}
  /\ \A lib \in Libraries : Asked(lib) \subseteq SymbolNames
  /\ "getJNIEnv" \in Asked("libandroid_runtime.so") /\ "getJNIEnv" \in SymbolNames
  /\ "libart.so" \in Libraries /\ "libandroid_runtime.so" \in Libraries
<1>1. \A f \in Fields : SymbolsIn(f) # "getJNIEnv"
  BY FieldsInOrder DEF SymbolsIn, SymbolName, Fields, BridgeFields
<1>2. "getJNIEnv" \in SymbolNames
  BY DEF SymbolNames
<1> QED
  BY <1>1, <1>2, FieldNames, TrampolineAsked DEF Asked, Libraries

\* In the initial state they are those of one of the phones.
LEMMA AnswersOf == ASSUME Init PROVE \E p \in Phones : PhoneAnswers(p)
<1>1. PICK p \in Phones :
        /\ phone = p.phone /\ dlopen = {lib \in Libraries : DlOpens(p, lib)}
        /\ dlsym = [lib \in Libraries |-> [name \in SymbolNames |-> DlSym(p, lib, name)]]
  BY DEF Init
<1>2. \A lib \in Libraries, name \in SymbolNames : dlsym[lib][name] = DlSym(p, lib, name)
  BY <1>1
<1>3. Trampoline \in SymbolNames /\ Trampoline = "art_quick_generic_jni_trampoline"
  BY TrampolineAsked, FieldNames DEF Trampoline
<1>4. Trampolines =
        {IF b = None THEN SearchTrampoline ELSE b : b \in DlSym(p, "libart.so", Trampoline)}
  BY <1>2, <1>3, NamesAsked DEF Trampolines
<1>5. \A f \in Fields : f # "quick_to_jni_bridge" =>
        Answers(f) = DlSym(p, "libart.so", SymbolsIn(f))
  BY <1>2, FieldNames, NamesAsked DEF Answers
<1> QED
  BY <1>1, <1>2, <1>4, <1>5, NamesAsked DEF PhoneAnswers, JniAnswers

\* Phones that tell the truth are truthful, whatever the lookups go through.
LEMMA TrueIsTruthful ==
  ASSUME \A p \in Phones : PhoneTrue(p) PROVE Init => Truthful
<1> SUFFICES ASSUME Init PROVE Truthful
  OBVIOUS
<1>1. PICK p \in Phones : PhoneAnswers(p)
  BY AnswersOf
<1>2. PhoneTrue(p) /\ phone = p.phone
  BY <1>1 DEF PhoneAnswers
<1>3. \A name \in SymbolNames : InText(phone, phone.at[name])
  BY <1>2 DEF PhoneTrue
<1>4. ASSUME NEW f \in Fields, NEW a \in DlSym(p, "libart.so", SymbolsIn(f))
      PROVE  True(a, SymbolsIn(f))
  BY <1>2, <1>3, DlSymFinds, FieldNames, NamesAsked DEF True
<1>5. ASSUME NEW f \in Fields, NEW a \in Answers(f) PROVE True(a, SymbolsIn(f))
  <2>1. CASE f # "quick_to_jni_bridge"
    BY <1>1, <1>4, <1>5, <2>1 DEF PhoneAnswers
  <2>2. CASE f = "quick_to_jni_bridge"
    <3>1. PICK b \in DlSym(p, "libart.so", Trampoline) :
            a = IF b = None THEN SearchTrampoline ELSE b
      <4>1. a \in Trampolines
        BY <1>5, <2>2 DEF Answers
      <4> QED
        BY <1>1, <4>1 DEF PhoneAnswers
    <3>2. SymbolsIn(f) = Trampoline
      BY <2>2, TrampolineAsked
    <3>3. SearchTrampoline \in {None, Wild, phone.at[Trampoline]}
      BY <1>2, SearchFinds DEF PhoneTrue
    <3>4. Trampoline \in SymbolNames /\ True(b, Trampoline)
      BY <1>4, <3>1, <3>2, FieldNames
    <3> QED
      BY <1>3, <3>1, <3>2, <3>3, <3>4 DEF True, Fatal
  <2> QED
    BY <2>1, <2>2
<1>6. ASSUME NEW a \in JniAnswers PROVE True(a, "getJNIEnv")
  BY <1>1, <1>2, <1>3, <1>6, DlSymFinds, NamesAsked DEF PhoneAnswers, True
<1> QED
  BY <1>5, <1>6 DEF Truthful

\* And forthcoming, if their hash tables lead to what they export and the runtime is
\* laid out as the search expects.
LEMMA TellingIsForthcoming ==
  ASSUME \A p \in Phones : PhoneTrue(p) /\ PhoneTells(p) PROVE Init => Forthcoming
<1> SUFFICES ASSUME Init PROVE Forthcoming
  OBVIOUS
<1>1. PICK p \in Phones : PhoneAnswers(p)
  BY AnswersOf
<1>2. PhoneTrue(p) /\ PhoneTells(p) /\ phone = p.phone
  BY <1>1 DEF PhoneAnswers
<1> DEFINE Has(lib, name) == DlOpens(p, lib) /\ NamedSyms(Image(p, lib), name) # {}
<1>3. /\ \A name \in Asked("libart.so") \ {Trampoline} :
           name \in phone.told <=> Has("libart.so", name)
      /\ Trampoline \in phone.told =>
           Has("libart.so", Trampoline) \/ (DlOpens(p, "libart.so") /\ RuntimeTells(phone))
      /\ "getJNIEnv" \in phone.told => Has("libandroid_runtime.so", "getJNIEnv")
      /\ \A lib \in Libraries : DlOpens(p, lib) => Searchable(Image(p, lib), Asked(lib))
  <2>1. /\ \A lib \in Libraries : \A name : Has(lib, name) <=>
             \E f \in FilesOf(p, lib) : NamedSyms(f, name) # {}
        /\ \A lib \in Libraries : DlOpens(p, lib) <=> FilesOf(p, lib) # {}
        /\ \A lib \in Libraries : DlOpens(p, lib) => FilesOf(p, lib) = {Image(p, lib)}
    BY <1>2, DlOpenFinds
  <2> HIDE DEF Has
  <2> QED
    BY <1>2, <2>1, NamesAsked DEF PhoneTells
<1>4. \A name \in SymbolNames : phone.at[name] \notin {None, Wild, Stale}
  BY <1>2 DEF PhoneTrue
<1>5. ASSUME NEW lib \in Libraries, NEW name \in Asked(lib)
      PROVE  /\ \A a \in DlSym(p, lib, name) : Fatal(a) \/ a = None \/ a = phone.at[name]
             /\ DlOpens(p, lib) => Wild \notin DlSym(p, lib, name)
             /\ ~Has(lib, name) => \A a \in DlSym(p, lib, name) : Fatal(a) \/ a = None
             /\ Has(lib, name) => DlSym(p, lib, name) = {phone.at[name]}
  <2>1. name \in SymbolNames
    BY NamesAsked
  <2> QED
    BY <1>2, <1>3, <1>4, <2>1, DlSymFinds
<1> HIDE DEF Has
<1>6. Trampoline \in phone.told => Trampolines \cap {None, Wild} = {}
  <2> SUFFICES ASSUME Trampoline \in phone.told, NEW a \in Trampolines
               PROVE  a \notin {None, Wild}
    OBVIOUS
  <2>1. PICK b \in DlSym(p, "libart.so", Trampoline) :
          a = IF b = None THEN SearchTrampoline ELSE b
    BY <1>1 DEF PhoneAnswers
  <2>2. phone.at[Trampoline] \notin {None, Wild}
    BY <1>4, TrampolineAsked, NamesAsked
  <2>3. DlOpens(p, "libart.so") /\ "libart.so" \in Libraries
    BY <1>3 DEF Has, Libraries
  <2>4. Has("libart.so", Trampoline) =>
          DlSym(p, "libart.so", Trampoline) = {phone.at[Trampoline]}
    BY <1>5, <2>3, TrampolineAsked
  <2>5. RuntimeTells(phone) => SearchTrampoline = phone.at[Trampoline]
    BY <1>2, SearchFinds DEF PhoneTrue
  <2>6. b # Wild
    BY <1>5, <2>1, <2>3, TrampolineAsked
  <2> QED
    BY <1>3, <2>1, <2>2, <2>4, <2>5, <2>6
<1>7. ASSUME NEW f \in Fields, SymbolsIn(f) \in phone.told PROVE None \notin Answers(f)
  <2>1. CASE f = "quick_to_jni_bridge"
    BY <1>6, <1>7, <2>1, TrampolineAsked DEF Answers
  <2>2. CASE f # "quick_to_jni_bridge"
    <3>1. SymbolsIn(f) \in Asked("libart.so") \ {Trampoline} /\ SymbolsIn(f) \in SymbolNames
      BY <2>2, FieldNames, NamesAsked
    <3>2. Has("libart.so", SymbolsIn(f))
      BY <1>3, <1>7, <3>1
    <3>3. Answers(f) = {phone.at[SymbolsIn(f)]}
      BY <1>1, <1>5, <2>2, <3>1, <3>2 DEF PhoneAnswers, Libraries
    <3> QED
      BY <1>4, <3>1, <3>3
  <2> QED
    BY <2>1, <2>2
<1>8. "Clone(Thread)" \notin phone.told =>
        \A a \in Answers("object_clone") : Fatal(a) \/ a = None
  <2>1. "object_clone" \in Fields /\ SymbolsIn("object_clone") = "Clone(Thread)"
    BY FieldsInOrder DEF Fields, SymbolsIn, SymbolName
  <2>2. "Clone(Thread)" \in Asked("libart.so") \ {Trampoline}
    BY <2>1, NamesAsked
  <2> QED
    BY <1>1, <1>3, <1>5, <2>1, <2>2 DEF PhoneAnswers, Libraries
<1>9. ASSUME Trampoline \in phone.told
      PROVE  "libart.so" \in dlopen /\ \A f \in Fields : Wild \notin Answers(f)
  <2>1. DlOpens(p, "libart.so") /\ "libart.so" \in Libraries
    BY <1>3, <1>9 DEF Has, Libraries
  <2>2. \A f \in Fields : f # "quick_to_jni_bridge" => Wild \notin Answers(f)
    BY <1>1, <1>5, <2>1, NamesAsked DEF PhoneAnswers
  <2>3. Wild \notin Answers("quick_to_jni_bridge")
    BY <1>6, <1>9 DEF Answers
  <2> QED
    BY <1>1, <2>1, <2>2, <2>3 DEF PhoneAnswers
<1>10. ASSUME "getJNIEnv" \in phone.told
       PROVE  "libandroid_runtime.so" \in dlopen /\ JniAnswers \cap {None, Wild} = {}
  <2>1. Has("libandroid_runtime.so", "getJNIEnv") /\ "libandroid_runtime.so" \in Libraries
    BY <1>3, <1>10 DEF Libraries
  <2>2. "getJNIEnv" \in Asked("libandroid_runtime.so") /\ "getJNIEnv" \in SymbolNames
    BY <2>1, NamesAsked
  <2>3. JniAnswers = {phone.at["getJNIEnv"]}
    BY <1>1, <1>5, <2>1, <2>2 DEF PhoneAnswers
  <2> QED
    BY <1>1, <1>4, <2>1, <2>2, <2>3 DEF PhoneAnswers, Has
<1> QED
  BY <1>7, <1>8, <1>9, <1>10 DEF Forthcoming, Trampoline

\* What is stored is where the linker put it.
THEOREM PointersAreTrue ==
  ASSUME \A p \in Phones : PhoneTrue(p) PROVE Spec => []PointersTrue
BY TrueIsTruthful, TruthfulPointers, PTL DEF Spec

\* The types: every pointer that is stored leads into code that is in memory, and the
\* files that are open do not outnumber the descriptors.
THEOREM TypeCorrect ==
  ASSUME \A p \in Phones : PhoneTrue(p) PROVE Spec => []TypeOK
BY TrueIsTruthful, TruthfulTypes, PTL DEF Spec

\* A table that a thread finds initialised holds all that the phone tells.
THEOREM TablesAreFull ==
  ASSUME \A p \in Phones : PhoneTrue(p) /\ PhoneTells(p) PROVE Spec => []FoundIfThere
BY TellingIsForthcoming, ForthcomingTables, PTL DEF Spec

\* The process crashes only where the phone lacks what there is no way around.
THEOREM CrashesAreLosses ==
  ASSUME \A p \in Phones : PhoneTrue(p) /\ PhoneTells(p) PROVE Spec => []CrashesOnlyIfLost
BY TellingIsForthcoming, ForthcomingCrashes, PTL DEF Spec
=============================================================================
