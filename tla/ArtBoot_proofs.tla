---------------------------- MODULE ArtBoot_proofs ----------------------------
(***************************************************************************)
(* Proofs about ArtBoot.  Good says of one memory what every function of   *)
(* the library keeps true, so fork may copy it: a copy of the library that *)
(* is not loaded was never refreshed, one that knows the machine runs      *)
(* knows the layout of ArtMethod, and so does one that hooked a method.    *)
(* BootInv adds how far zygote's start-up has come.                        *)
(***************************************************************************)
EXTENDS ArtBoot, TLAPS

AppHook == <<"callApplicationOnCreate", "injected">>

Good(m) ==
  /\ m \in Memory
  /\ \A c \in Copies :
       /\ m.lib[c].onload => m.lib[c].loaded
       /\ m.lib[c].inited => m.lib[c].loaded
       /\ m.lib[c].prepared => m.lib[c].offsets
  /\ \A h \in m.hooked : m.lib[h[2]].offsets

\* What the library did to a memory is not undone.
Later(m, n) ==
  /\ m.hooked \subseteq n.hooked /\ (m.crashed => n.crashed)
  /\ \A c \in Copies : m.lib[c].loaded => n.lib[c].loaded

\* The functions that only write statics of their copy.
OnlyStatics(m, n) == n.slot = m.slot /\ n.crashed = m.crashed /\ n.hooked = m.hooked

\* The hook of JNI_CreateJavaVM stands until it has done its work in zygote.
BootInv ==
  /\ up \subseteq Procs /\ Zygote \in up /\ vm \in BOOLEAN /\ intime \in BOOLEAN
  /\ creates \in 0..MaxCreates /\ mem \in [Procs -> Memory]
  /\ \A p \in Procs : Good(mem[p])
  /\ up # {Zygote} => vm
  /\ intime => mem[Zygote].lib["injected"].loaded
  /\ intime /\ ~vm /\ ~mem[Zygote].crashed => mem[Zygote].slot["JNI_CreateJavaVM"] = "injected"
  /\ intime /\ vm /\ ~mem[Zygote].crashed => AppHook \in mem[Zygote].hooked
  /\ GlobalInjection

-----------------------------------------------------------------------------
(***************************************************************************)
(* The functions of the library.                                           *)
(***************************************************************************)
\* A record of statics may replace that of copy c if it forgets neither that the
\* copy is loaded nor its offsets.
LEMMA SetStatics ==
  ASSUME NEW m, Good(m), NEW c \in Copies, NEW s \in Statics,
         s.onload => s.loaded, s.inited => s.loaded, s.prepared => s.offsets,
         m.lib[c].offsets => s.offsets, m.lib[c].loaded => s.loaded
  PROVE  LET n == [m EXCEPT !.lib[c] = s] IN
         /\ Good(n) /\ Later(m, n) /\ OnlyStatics(m, n)
         /\ n.lib[c] = s
<1> DEFINE n == [m EXCEPT !.lib[c] = s]
<1>1. m \in Memory
  BY DEF Good
<1>2. /\ n.slot = m.slot /\ n.crashed = m.crashed /\ n.hooked = m.hooked
      /\ n.lib = [m.lib EXCEPT ![c] = s] /\ n \in Memory
  BY <1>1 DEF Memory
<1>3. n.lib[c] = s /\ \A d \in Copies \ {c} : n.lib[d] = m.lib[d]
  BY <1>1, <1>2 DEF Memory
<1>4. Good(n)
  <2>1. \A d \in Copies : /\ n.lib[d].onload => n.lib[d].loaded
                          /\ n.lib[d].inited => n.lib[d].loaded
                          /\ n.lib[d].prepared => n.lib[d].offsets
    BY <1>3 DEF Good
  <2>2. \A h \in n.hooked : n.lib[h[2]].offsets
    BY <1>1, <1>2, <1>3 DEF Good, Memory
  <2> HIDE DEF n
  <2> QED
    BY <1>2, <2>1, <2>2 DEF Good
<1>5. \A d \in Copies : m.lib[d].loaded => n.lib[d].loaded
  BY <1>3
<1> QED
  BY <1>2, <1>3, <1>4, <1>5 DEF Later, OnlyStatics

\* CalculateOffsets writes method_offset of the copy, and nothing else.
LEMMA CalculateOffsetsGood ==
  ASSUME NEW m, Good(m), NEW c \in Copies
  PROVE  LET n == CalculateOffsets(m, c) IN
         Good(n) /\ Later(m, n) /\ OnlyStatics(m, n) /\ n.lib[c].offsets
<1> DEFINE s == [m.lib[c] EXCEPT !.offsets = TRUE]
<1>1. m.lib[c] \in Statics
  BY DEF Good, Memory
<1>2. s \in Statics /\ s.offsets /\ s.onload = m.lib[c].onload /\ s.loaded = m.lib[c].loaded
      /\ s.inited = m.lib[c].inited
  BY <1>1 DEF Statics
<1>3. CalculateOffsets(m, c) = [m EXCEPT !.lib[c] = s]
  BY DEF CalculateOffsets
<1> HIDE DEF s
<1>4. (s.onload => s.loaded) /\ (s.inited => s.loaded) /\ (s.prepared => s.offsets)
  BY <1>2 DEF Good
<1> QED
  BY <1>2, <1>3, <1>4, SetStatics

\* The constructor of ArtMethod leaves a copy that is prepared with its offsets.
LEMMA ArtMethodGood ==
  ASSUME NEW m, Good(m), NEW c \in Copies
  PROVE  LET n == ArtMethod(m, c) IN
         /\ Good(n) /\ Later(m, n) /\ OnlyStatics(m, n)
         /\ m.lib[c].prepared => n.lib[c].offsets
<1>1. CASE m.lib[c].offsets \/ ~m.lib[c].prepared
  <2>1. ArtMethod(m, c) = m
    BY <1>1 DEF ArtMethod
  <2> QED
    BY <1>1, <2>1 DEF Later, OnlyStatics
<1>2. CASE ~(m.lib[c].offsets \/ ~m.lib[c].prepared)
  <2>1. ArtMethod(m, c) = CalculateOffsets(m, c)
    BY <1>2 DEF ArtMethod
  <2> QED
    BY <2>1, CalculateOffsetsGood
<1> QED
  BY <1>1, <1>2

\* SetArtPrepared(true) never leaves a copy without its offsets.  In between the flag
\* is set and the offsets may not be known: the copy is not Good there.
LEMMA SetArtPreparedGood ==
  ASSUME NEW m, Good(m), NEW c \in Copies, NEW prepared \in BOOLEAN
  PROVE  LET n == SetArtPrepared(m, c, prepared) IN
         /\ Good(n) /\ Later(m, n) /\ OnlyStatics(m, n)
         /\ prepared => n.lib[c].offsets
<1> DEFINE s == [m.lib[c] EXCEPT !.prepared = prepared]
           set == [m EXCEPT !.lib[c].prepared = prepared]
<1>1. m.lib[c] \in Statics
  BY DEF Good, Memory
<1>2. s \in Statics /\ s.prepared = prepared /\ s.onload = m.lib[c].onload
      /\ s.loaded = m.lib[c].loaded /\ s.inited = m.lib[c].inited
      /\ s.offsets = m.lib[c].offsets
  BY <1>1 DEF Statics
<1>3. set = [m EXCEPT !.lib[c] = s]
  OBVIOUS
<1>4. (s.onload => s.loaded) /\ (s.inited => s.loaded)
  BY <1>2 DEF Good
<1>5. CASE ~prepared \/ m.lib[c].prepared
  <2>1. SetArtPrepared(m, c, prepared) = [m EXCEPT !.lib[c] = s]
    BY <1>3, <1>5 DEF SetArtPrepared
  <2>2. s.prepared => s.offsets
    BY <1>2, <1>5 DEF Good
  <2> HIDE DEF s, set
  <2> QED
    BY <1>2, <1>4, <2>1, <2>2, SetStatics
<1>6. CASE prepared /\ ~m.lib[c].prepared
  <2> DEFINE r == [s EXCEPT !.offsets = TRUE]
  <2>1. set.lib[c] = s
    BY <1>1, <1>3 DEF Good, Memory
  <2>2. SetArtPrepared(m, c, prepared) = ArtMethod(set, c)
    BY <1>6 DEF SetArtPrepared
  <2>3. r \in Statics /\ r.offsets /\ r.loaded = s.loaded /\ r.onload = s.onload
        /\ r.inited = s.inited
    BY <1>2 DEF Statics
  <2>4. SetArtPrepared(m, c, prepared) = [m EXCEPT !.lib[c] = r]
    <3>1. CASE s.offsets
      <4>1. r = s
        BY <1>2, <3>1 DEF Statics
      <4>2. ArtMethod(set, c) = set
        BY <2>1, <3>1 DEF ArtMethod
      <4> QED
        BY <1>3, <2>2, <4>1, <4>2
    <3>2. CASE ~s.offsets
      <4>1. ArtMethod(set, c) = [set EXCEPT !.lib[c] = r]
        BY <1>2, <1>6, <2>1, <3>2 DEF ArtMethod, CalculateOffsets
      <4>2. [set EXCEPT !.lib[c] = r] = [m EXCEPT !.lib[c] = r]
        BY <1>3 DEF Good, Memory
      <4> QED
        BY <2>2, <4>1, <4>2
    <3> QED
      BY <3>1, <3>2
  <2> HIDE DEF r, s, set
  <2> QED
    BY <1>2, <1>4, <2>3, <2>4, SetStatics
<1> QED
  BY <1>5, <1>6

\* ArtMethod::Hook by a copy that knows the layout; without an environment, a crash.
LEMMA HookMethodGood ==
  ASSUME NEW m, Good(m), NEW c \in Copies, NEW method \in Methods, NEW env \in BOOLEAN,
         env => m.lib[c].offsets
  PROVE  LET n == HookMethod(m, c, method, env) IN
         /\ Good(n) /\ Later(m, n)
         /\ IF env THEN <<method, c>> \in n.hooked ELSE n.crashed
<1>1. CASE env
  <2> DEFINE n == [m EXCEPT !.hooked = @ \cup {<<method, c>>}]
  <2>1. /\ n.lib = m.lib /\ n.crashed = m.crashed /\ n.hooked = m.hooked \cup {<<method, c>>}
        /\ n \in Memory
    BY DEF Good, Memory
  <2>2. \A h \in n.hooked : n.lib[h[2]].offsets
    BY <1>1, <2>1 DEF Good
  <2>3. HookMethod(m, c, method, env) = n
    BY <1>1 DEF HookMethod
  <2> HIDE DEF n
  <2> QED
    BY <1>1, <2>1, <2>2, <2>3 DEF Good, Later
<1>2. CASE ~env
  <2> DEFINE n == [m EXCEPT !.crashed = TRUE]
  <2>1. n.lib = m.lib /\ n.crashed /\ n.hooked = m.hooked /\ n \in Memory
    BY DEF Good, Memory
  <2>2. HookMethod(m, c, method, env) = n
    BY <1>2 DEF HookMethod
  <2> HIDE DEF n
  <2> QED
    BY <1>2, <2>1, <2>2 DEF Good, Later
<1> QED
  BY <1>1, <1>2

\* xhook_register and xhook_refresh of a loaded copy; the first time, if they work, they
\* redirect.
LEMMA XHookGood ==
  ASSUME NEW m, Good(m), NEW c \in Copies, NEW symbol \in Symbols, m.lib[c].loaded,
         NEW works \in BOOLEAN
  PROVE  LET n == XHook(m, c, symbol, works) IN
         /\ Good(n) /\ Later(m, n) /\ n.crashed = m.crashed /\ n.hooked = m.hooked
         /\ works /\ ~m.lib[c].inited => n.slot[symbol] = c
<1>1. CASE m.lib[c].inited
  BY <1>1 DEF XHook, Later
<1>2. CASE ~m.lib[c].inited
  <2> DEFINE s == [m.lib[c] EXCEPT !.inited = TRUE]
             k == [m EXCEPT !.lib[c] = s]
             n == IF works THEN [k EXCEPT !.slot[symbol] = c] ELSE k
  <2>0. m.lib[c] \in Statics
    BY DEF Good, Memory
  <2>1. s \in Statics /\ s.loaded /\ s.prepared = m.lib[c].prepared
        /\ s.offsets = m.lib[c].offsets
    BY <2>0 DEF Statics
  <2>2. s.prepared => s.offsets
    BY <2>1 DEF Good
  <2>3. XHook(m, c, symbol, works) = n
    BY <1>2 DEF XHook
  <2>4. Good(k) /\ Later(m, k) /\ OnlyStatics(m, k)
    <3> HIDE DEF s
    <3> QED
      BY <2>1, <2>2, SetStatics
  <2> HIDE DEF s, k
  <2>5. CASE works
    <3>1. /\ n.lib = k.lib /\ n.crashed = k.crashed /\ n.hooked = k.hooked
          /\ n.slot[symbol] = c /\ n \in Memory
      BY <2>4, <2>5 DEF Good, Memory
    <3> HIDE DEF n
    <3> QED
      BY <2>3, <2>4, <3>1 DEF Good, Later, OnlyStatics
  <2>6. CASE ~works
    BY <2>3, <2>4, <2>6 DEF OnlyStatics
  <2> QED
    BY <2>5, <2>6
<1> QED
  BY <1>1, <1>2

\* Loading a copy in zygote hooks JNI_CreateJavaVM, unless that fails.
LEMMA StaticInitializerGood ==
  ASSUME NEW m, Good(m), NEW c \in Copies, NEW zygote \in BOOLEAN,
         NEW outcome \in Outcomes
  PROVE  LET n == static_initializer(m, c, zygote, outcome) IN
         /\ Good(n) /\ Later(m, n) /\ n.crashed = m.crashed /\ n.hooked = m.hooked
         /\ n.lib[c].loaded
         /\ zygote /\ outcome = "hooked" /\ ~m.lib[c].loaded
              => n.slot["JNI_CreateJavaVM"] = c
<1> DEFINE s == [m.lib[c] EXCEPT !.loaded = TRUE]
           k == [m EXCEPT !.lib[c] = s]
<1>0. m.lib[c] \in Statics
  BY DEF Good, Memory
<1>1. s \in Statics /\ s.loaded /\ s.prepared = m.lib[c].prepared
      /\ s.offsets = m.lib[c].offsets /\ s.inited = m.lib[c].inited
  BY <1>0 DEF Statics
<1>2. s.prepared => s.offsets
  BY <1>1 DEF Good
<1>3. Good(k) /\ Later(m, k) /\ OnlyStatics(m, k) /\ k.lib[c] = s
  <2> HIDE DEF s
  <2> QED
    BY <1>1, <1>2, SetStatics
<1>4. static_initializer(m, c, zygote, outcome)
        = IF zygote THEN hook_create_jvm(k, c, outcome) ELSE k
  BY DEF static_initializer
<1> HIDE DEF s, k
<1>5. CASE ~zygote
  BY <1>1, <1>3, <1>4, <1>5 DEF OnlyStatics
<1>6. CASE zygote
  <2> DEFINE j == SetArtPrepared(k, c, FALSE)
             n == XHook(j, c, "JNI_CreateJavaVM", outcome = "hooked")
  <2>1. Good(j) /\ Later(k, j) /\ OnlyStatics(k, j)
    BY <1>3, SetArtPreparedGood
  <2>2. j.lib[c].loaded /\ j.lib[c].inited = k.lib[c].inited
    <3>1. j.lib = [k.lib EXCEPT ![c] = [k.lib[c] EXCEPT !.prepared = FALSE]]
      BY <1>3 DEF SetArtPrepared, Good, Memory
    <3>2. j.lib[c] = [k.lib[c] EXCEPT !.prepared = FALSE] /\ k.lib[c] \in Statics
      BY <1>3, <3>1 DEF Good, Memory
    <3> QED
      BY <1>1, <1>3, <3>2 DEF Statics
  <2>3. static_initializer(m, c, zygote, outcome) = IF outcome = "absent" THEN j ELSE n
    BY <1>4, <1>6 DEF hook_create_jvm
  <2> HIDE DEF j
  <2>4. /\ Good(n) /\ Later(j, n) /\ n.crashed = j.crashed /\ n.hooked = j.hooked
        /\ outcome = "hooked" /\ ~j.lib[c].inited => n.slot["JNI_CreateJavaVM"] = c
    BY <2>1, <2>2, XHookGood DEF Symbols
  <2> HIDE DEF n
  <2>5. n.lib[c].loaded
    BY <2>2, <2>4 DEF Later
  <2>6. outcome = "hooked" /\ ~m.lib[c].loaded => n.slot["JNI_CreateJavaVM"] = c
    BY <1>1, <1>3, <2>2, <2>4 DEF Good
  <2>7. CASE outcome = "absent"
    BY <1>3, <2>1, <2>2, <2>3, <2>7 DEF Later, OnlyStatics
  <2>8. CASE outcome # "absent"
    BY <1>3, <2>1, <2>3, <2>4, <2>5, <2>6, <2>8 DEF Later, OnlyStatics
  <2> QED
    BY <2>7, <2>8
<1> QED
  BY <1>5, <1>6

\* What JNI_CreateJavaVM_Impl adds to the creation of the machine.
LEMMA CreateJavaVMImplGood ==
  ASSUME NEW m, Good(m), NEW c \in Copies, NEW ok \in BOOLEAN
  PROVE  LET n == JNI_CreateJavaVM_Impl(m, c, ok) IN
         /\ Good(n) /\ Later(m, n)
         /\ IF ok THEN <<"callApplicationOnCreate", c>> \in n.hooked ELSE n.crashed
<1> DEFINE k == IF ok THEN SetArtPrepared(m, c, TRUE) ELSE m
<1>1. Good(k) /\ Later(m, k) /\ (ok => k.lib[c].offsets)
  BY SetArtPreparedGood DEF Later
<1>2. JNI_CreateJavaVM_Impl(m, c, ok) = HookMethod(k, c, "callApplicationOnCreate", ok)
  BY DEF JNI_CreateJavaVM_Impl, hook_app_on_create
<1> HIDE DEF k
<1> QED
  BY <1>1, <1>2, HookMethodGood DEF Later, Methods

\* JNI_OnLoad of a loaded copy.
LEMMA OnLoadGood ==
  ASSUME NEW m, Good(m), NEW c \in Copies, NEW zygote \in BOOLEAN, m.lib[c].loaded,
         NEW env \in BOOLEAN, NEW works \in BOOLEAN
  PROVE  LET n == JNI_OnLoad(m, c, zygote, env, works) IN Good(n) /\ Later(m, n)
<1> DEFINE s == [m.lib[c] EXCEPT !.onload = TRUE]
           called == [m EXCEPT !.lib[c] = s]
<1>0. m.lib[c] \in Statics
  BY DEF Good, Memory
<1>1. s \in Statics /\ s.loaded /\ s.prepared = m.lib[c].prepared
      /\ s.offsets = m.lib[c].offsets /\ s.inited = m.lib[c].inited
  BY <1>0 DEF Statics
<1>2. s.prepared => s.offsets
  BY <1>1 DEF Good
<1>3. Good(called) /\ Later(m, called)
  <2> HIDE DEF s
  <2> QED
    BY <1>1, <1>2, SetStatics
<1>4. JNI_OnLoad(m, c, zygote, env, works) =
        IF zygote \/ ~env THEN called
        ELSE test_xhook(test_art_hook(ArtMethod(SetArtPrepared(called, c, TRUE), c), c),
                        c, works)
  BY DEF JNI_OnLoad
<1> HIDE DEF s, called
<1>5. CASE zygote \/ ~env
  BY <1>3, <1>4, <1>5
<1>6. CASE ~(zygote \/ ~env)
  <2> DEFINE k == SetArtPrepared(called, c, TRUE)
             a == ArtMethod(k, c)
             h == HookMethod(a, c, "testOutput", TRUE)
             n == XHook(h, c, "execv", works)
  <2>1. Good(k) /\ Later(called, k) /\ k.lib[c].offsets
    BY <1>3, SetArtPreparedGood
  <2> HIDE DEF k
  <2>2. a = k
    BY <2>1 DEF ArtMethod
  <2>3. Good(h) /\ Later(a, h)
    BY <2>1, <2>2, HookMethodGood DEF Methods
  <2>4. JNI_OnLoad(m, c, zygote, env, works) = n
    BY <1>4, <1>6 DEF test_xhook, test_art_hook, k
  <2> HIDE DEF h, a
  <2>5. h.lib[c].loaded
    BY <1>3, <2>1, <2>2, <2>3 DEF Later
  <2>6. Good(n) /\ Later(h, n)
    BY <2>3, <2>5, XHookGood DEF Symbols
  <2> HIDE DEF n
  <2> QED
    BY <1>3, <2>1, <2>2, <2>3, <2>4, <2>6 DEF Later
<1> QED
  BY <1>5, <1>6

-----------------------------------------------------------------------------
(***************************************************************************)
(* The processes.                                                          *)
(***************************************************************************)
\* The tests of the process name are tests.
LEMMA ZygoteTest == \A p : is_zygote(p) \subseteq BOOLEAN
  BY DEF is_zygote

\* A process that goes on from memory to memory keeps what the others rely on.
LEMMA ChangeOne ==
  ASSUME BootInv, NEW p \in Procs, NEW n, Good(n), Later(mem[p], n),
         mem' = [mem EXCEPT ![p] = n]
  PROVE  /\ mem' \in [Procs -> Memory] /\ \A q \in Procs : Good(mem'[q])
         /\ \A q \in Procs : Later(mem[q], mem'[q])
         /\ mem'[p] = n /\ \A q \in Procs \ {p} : mem'[q] = mem[q]
<1>1. mem' \in [Procs -> Memory]
  BY DEF BootInv, Good
<1>2. mem'[p] = n /\ \A q \in Procs \ {p} : mem'[q] = mem[q]
  BY DEF BootInv
<1> QED
  BY <1>1, <1>2 DEF BootInv, Later

\* The library is injected.
LEMMA InjectBoot == ASSUME BootInv, Inject PROVE BootInv'
<1>1. PICK zygote \in is_zygote(Zygote), outcome \in Outcomes :
        /\ mem' = [mem EXCEPT ![Zygote] =
                      static_initializer(mem[Zygote], "injected", zygote, outcome)]
        /\ intime' = (zygote /\ outcome = "hooked" /\ ~vm)
  BY DEF Inject, BootInv, Procs
<1> DEFINE n == static_initializer(mem[Zygote], "injected", zygote, outcome)
<1>2. zygote \in BOOLEAN /\ Zygote \in Procs /\ ~mem[Zygote].lib["injected"].loaded
  BY ZygoteTest DEF Procs, Inject
<1>3. /\ Good(n) /\ Later(mem[Zygote], n) /\ n.crashed = mem[Zygote].crashed
      /\ n.lib["injected"].loaded
      /\ zygote /\ outcome = "hooked" => n.slot["JNI_CreateJavaVM"] = "injected"
  <2>1. Good(mem[Zygote]) /\ "injected" \in Copies
    BY <1>2 DEF BootInv, Copies
  <2> QED
    BY <1>2, <2>1, StaticInitializerGood
<1> HIDE DEF n
<1>4. /\ mem' \in [Procs -> Memory] /\ \A q \in Procs : Good(mem'[q])
      /\ mem'[Zygote] = n
  BY <1>1, <1>2, <1>3, ChangeOne DEF n
<1>5. intime' => up = {Zygote} /\ ~vm
  BY <1>1 DEF BootInv
<1>6. GlobalInjection'
  BY <1>5, ProcessesAssumption DEF GlobalInjection, Inject
<1> QED
  BY <1>1, <1>2, <1>3, <1>4, <1>5, <1>6 DEF BootInv, Inject

\* The machine is created; if the hook stood, Application.onCreate is hooked with it.
LEMMA CreateBoot == ASSUME BootInv, CreateJavaVM PROVE BootInv'
<1> DEFINE c == mem[Zygote].slot["JNI_CreateJavaVM"]
<1>1. PICK ok \in BOOLEAN :
        /\ vm' = ok
        /\ mem' = IF c = "original" THEN mem
                  ELSE [mem EXCEPT ![Zygote] = JNI_CreateJavaVM_Impl(mem[Zygote], c, ok)]
  BY DEF CreateJavaVM, BootInv, Procs
<1>2. /\ ~vm /\ creates' \in 0..MaxCreates /\ UNCHANGED <<up, intime>> /\ up = {Zygote}
      /\ ~mem[Zygote].crashed /\ Zygote \in Procs
  BY BoundAssumption DEF CreateJavaVM, BootInv, Alive, Procs
<1>3. GlobalInjection'
  BY <1>2, ProcessesAssumption DEF GlobalInjection
<1>4. CASE c = "original"
  BY <1>1, <1>2, <1>3, <1>4 DEF BootInv
<1>5. CASE c # "original"
  <2> DEFINE n == JNI_CreateJavaVM_Impl(mem[Zygote], c, ok)
  <2>1. c \in Copies
    BY <1>2, <1>5 DEF BootInv, Memory, Symbols
  <2>2. /\ Good(n) /\ Later(mem[Zygote], n)
        /\ IF ok THEN <<"callApplicationOnCreate", c>> \in n.hooked ELSE n.crashed
    BY <1>2, <2>1, CreateJavaVMImplGood DEF BootInv
  <2> HIDE DEF n
  <2>3. /\ mem' \in [Procs -> Memory] /\ \A q \in Procs : Good(mem'[q])
        /\ mem'[Zygote] = n
    BY <1>1, <1>2, <1>5, <2>2, ChangeOne DEF n
  <2>4. intime => c = "injected"
    BY <1>2 DEF BootInv
  <2>5. intime => n.lib["injected"].loaded
    BY <2>2 DEF BootInv, Later, Copies
  <2>6. intime /\ ok => AppHook \in n.hooked
    BY <2>2, <2>4 DEF AppHook
  <2> HIDE DEF c
  <2> QED
    BY <1>1, <1>2, <1>3, <2>2, <2>3, <2>5, <2>6 DEF BootInv
<1> QED
  BY <1>4, <1>5

\* An application is born with zygote's memory.
LEMMA ForkBoot == ASSUME BootInv, NEW a \in Apps, Fork(a) PROVE BootInv'
<1>1. /\ a \in Procs /\ a # Zygote /\ Zygote \in Procs /\ vm /\ ~mem[Zygote].crashed
      /\ up' = up \cup {a} /\ mem' = [mem EXCEPT ![a] = mem[Zygote]]
      /\ UNCHANGED <<vm, intime, creates>>
  BY ProcessesAssumption DEF Fork, Procs, Alive
<1>2. /\ mem' \in [Procs -> Memory] /\ mem'[a] = mem[Zygote]
      /\ \A q \in Procs \ {a} : mem'[q] = mem[q]
  BY <1>1 DEF BootInv
<1>3. \A q \in Procs : Good(mem'[q])
  BY <1>1, <1>2 DEF BootInv
<1>4. mem'[Zygote] = mem[Zygote]
  BY <1>1, <1>2
<1>5. GlobalInjection'
  BY <1>1, <1>2 DEF BootInv, GlobalInjection, AppHook, Procs
<1> QED
  BY <1>1, <1>2, <1>3, <1>4, <1>5 DEF BootInv

\* Java code loads the library.
LEMMA LoadBoot == ASSUME BootInv, NEW p \in Procs, LoadLibrary(p) PROVE BootInv'
<1>1. PICK c \in Loads(p), first \in is_zygote(p), second \in is_zygote(p),
           outcome \in Outcomes, env \in BOOLEAN, works \in BOOLEAN :
        /\ Alive(p) /\ vm /\ ~mem[p].lib[c].onload
        /\ LET m == IF mem[p].lib[c].loaded THEN mem[p]
                    ELSE static_initializer(mem[p], c, first, outcome)
           IN mem' = [mem EXCEPT ![p] = JNI_OnLoad(m, c, second, env, works)]
        /\ UNCHANGED <<up, vm, intime, creates>>
  BY Zenon DEF LoadLibrary
<1> DEFINE m == IF mem[p].lib[c].loaded THEN mem[p]
                ELSE static_initializer(mem[p], c, first, outcome)
           n == JNI_OnLoad(m, c, second, env, works)
<1>2. c \in Copies /\ first \in BOOLEAN /\ second \in BOOLEAN
  BY ZygoteTest DEF Loads, Copies
<1>3. Good(m) /\ Later(mem[p], m) /\ m.lib[c].loaded
  BY <1>2, StaticInitializerGood DEF BootInv, Later
<1>4. mem' = [mem EXCEPT ![p] = n]
  BY <1>1
<1> HIDE DEF m
<1>5. Good(n) /\ Later(mem[p], n)
  BY <1>2, <1>3, OnLoadGood DEF Later
<1> HIDE DEF n
<1>6. /\ mem' \in [Procs -> Memory] /\ \A q \in Procs : Good(mem'[q])
      /\ \A q \in Procs : Later(mem[q], mem'[q])
  BY <1>4, <1>5, ChangeOne
<1>7. Zygote \in Procs /\ Later(mem[Zygote], mem'[Zygote])
  BY <1>6 DEF Procs
<1>8. GlobalInjection'
  BY <1>1, <1>6 DEF BootInv, GlobalInjection, Later, Procs
<1> QED
  BY <1>1, <1>6, <1>7, <1>8 DEF BootInv, Later, Copies

-----------------------------------------------------------------------------
\* BootInv is inductive and holds at the start.
LEMMA BootInvAlways == Spec => []BootInv
<1>1. Init => BootInv
  <2> SUFFICES ASSUME Init PROVE BootInv
    OBVIOUS
  <2>1. NoMemory \in Memory
    BY DEF NoMemory, Memory, Fresh, Statics
  <2>2. Good(NoMemory)
    BY <2>1 DEF Good, NoMemory, Fresh
  <2>3. mem \in [Procs -> Memory] /\ \A p \in Procs : Good(mem[p])
    BY <2>1, <2>2 DEF Init
  <2>4. up \subseteq Procs /\ Zygote \in up /\ creates \in 0..MaxCreates
    BY BoundAssumption DEF Init, Procs
  <2> QED
    BY <2>3, <2>4 DEF Init, BootInv, GlobalInjection
<1>2. BootInv /\ [Next]_vars => BootInv'
  <2> SUFFICES ASSUME BootInv, [Next]_vars PROVE BootInv'
    OBVIOUS
  <2>1. CASE UNCHANGED vars
    BY <2>1 DEF vars, BootInv, GlobalInjection
  <2> QED
    BY <2>1, InjectBoot, CreateBoot, ForkBoot, LoadBoot DEF Next
<1> QED
  BY <1>1, <1>2, PTL DEF Spec

\* Every variable keeps its type.
THEOREM TypeCorrect == Spec => []TypeOK
<1>1. BootInv => TypeOK
  BY DEF BootInv, TypeOK, Good
<1> QED
  BY <1>1, BootInvAlways, PTL

\* A copy that hooks Java methods knows the layout of ArtMethod in that process.
THEOREM HooksHaveOffsets == Spec => []HookedWithOffsets
<1>1. BootInv => HookedWithOffsets
  BY DEF BootInv, HookedWithOffsets, Good
<1> QED
  BY <1>1, BootInvAlways, PTL

\* Injected in time, the library hooks Application.onCreate in every application.
THEOREM InjectionIsGlobal == Spec => []GlobalInjection
<1>1. BootInv => GlobalInjection
  BY DEF BootInv
<1> QED
  BY <1>1, BootInvAlways, PTL
=============================================================================
