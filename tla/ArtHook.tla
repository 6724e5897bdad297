------------------------------- MODULE ArtHook -------------------------------
(***************************************************************************)
(* src/cpp/art/ArtMethod.cpp on one Java method, Android M and later: Hook,*)
(* Backup, Clone, InvokeOriginal and DealGCRoot, while threads call the    *)
(* method and a moving collector relocates its class.  What the runtime    *)
(* does with the fields of an ArtMethod is external.                       *)
(***************************************************************************)
EXTENDS Naturals, Sequences

CONSTANTS
  Callers,           \* the threads that call the method
  Kinds,             \* what the method may be: "compiled", "interpreted", "native"
  Versions,          \* "M", whose methods have an entry for calls from the
                     \* interpreter; "N", where they do not, and later
  Suspends,          \* may libart export SuspendVM and ResumeVM, may it lack them?
  QuickToInterpreter, \* does it export art_quick_to_interpreter_bridge?
  InterpreterToCompiled, \* and artInterpreterToCompiledCodeBridge?
  MaxEvents          \* bound: Hooks, moves of the class and calls together

ASSUME KindsAssumption == Kinds \subseteq {"compiled", "interpreted", "native"}
ASSUME VersionsAssumption == Versions \subseteq {"M", "N"}
ASSUME SwitchesAssumption ==
  /\ Suspends \subseteq BOOLEAN
  /\ QuickToInterpreter \in BOOLEAN /\ InterpreterToCompiled \in BOOLEAN
ASSUME BoundsAssumption == MaxEvents \in Nat

NoKey == 0

VARIABLES
  version,    \* of Android
  suspends,   \* does its libart export SuspendVM and ResumeVM?
  kind,       \* what the method was when it was loaded
  meth,       \* its ArtMethod: [decl_class, native, dex, interp, quick, jni]
  clones,     \* the ArtMethods made by Clone; none is ever freed
  key,        \* hooked_method_map[method]: <<>> or <<ArtMethodKey>>
  suspended,  \* is the world stopped?
  hpc,        \* where the thread that hooks is
  pc,         \* where each caller is
  target,     \* the ArtMethod a caller executes: 0 is the method, n is clones[n]
  mine,       \* its local origin_method in DealGCRoot
  depth,      \* how often its call has run the replacement; 2 stands for more
  moves,      \* of the class
  events,     \* bounded by MaxEvents
  \* History: what the properties say happened.
  tested,     \* the class when DealGCRoot last tested it for this caller (line 230)
  raced,      \* did two callers meet in DealGCRoot, which takes no lock?
  torn        \* did a call read the method while Hook wrote it, without SuspendVM?

hooker == <<hpc, suspended>>
thread == <<pc, target, mine, depth, tested>>
phone == <<version, suspends, kind>>
clock == <<moves, events>>
state == <<phone, meth, clones, key, hooker, thread, clock>>
vars == <<state, raced, torn>>

Quick == {"compiled", "interpreter", "jni"}     \* quick_code: where calls go first
Jni   == {"original", "none", "replace"}        \* jni_code: where "jni" goes next
Interp == {"interpreter", "quick"}              \* interpreter_code: where its calls go
Fields == [decl_class : Nat, native : BOOLEAN, dex : BOOLEAN, interp : Interp,
           quick : Quick, jni : Jni]
Key == [decl_class : Nat, dex : BOOLEAN, quick : Quick, jni : Jni, original : Nat]

InClone  == {"setquick", "setjni", "setdex", "setclass"}
Restoring == {"pick", "setquick", "setjni", "setdex", "setclass"}
Writing  == {"dex", "flags", "quick", "interp", "jni"}
InInvoke == {"getkey", "check", "clone", "pick", "load"} \cup InClone

TypeOK ==
  /\ version \in Versions /\ suspends \in Suspends /\ kind \in Kinds /\ meth \in Fields
  /\ clones \in Seq(Fields)
  /\ key = <<>> \/ (Len(key) = 1 /\ key[1] \in Key /\ key[1].original \in 1..Len(clones))
  /\ suspended \in BOOLEAN
  /\ hpc \in {"idle", "backup", "dex", "flags", "quick", "interp", "jni", "resume"}
  /\ pc \in [Callers -> {"idle", "interp", "enter", "jni", "original", "crash"} \cup InInvoke]
  /\ target \in [Callers -> 0..Len(clones)] /\ mine \in [Callers -> 0..Len(clones)]
  /\ depth \in [Callers -> 0..2] /\ moves \in Nat /\ events \in 0..MaxEvents
  /\ tested \in [Callers -> Nat] /\ raced \in BOOLEAN /\ torn \in BOOLEAN

Loaded(k) ==
  [decl_class |-> 0, native |-> (k = "native"), dex |-> (k # "native"),
   quick |-> CASE k = "compiled" -> "compiled" [] k = "interpreted" -> "interpreter"
               [] k = "native" -> "jni",
   interp |-> IF k = "interpreted" THEN "interpreter" ELSE "quick",
   jni |-> IF k = "native" THEN "original" ELSE "none"]

Init ==
  /\ version \in Versions /\ suspends \in Suspends /\ kind \in Kinds
  /\ meth = Loaded(kind) /\ clones = <<>> /\ key = <<>>
  /\ suspended = FALSE /\ hpc = "idle"
  /\ pc = [c \in Callers |-> "idle"] /\ target = [c \in Callers |-> 0]
  /\ mine = [c \in Callers |-> 0] /\ depth = [c \in Callers |-> 0]
  /\ moves = 0 /\ events = 0
  /\ tested = [c \in Callers |-> 0] /\ raced = FALSE /\ torn = FALSE

\* A thread runs Java code, where the collector and SuspendVM may stop it; a
\* fast native method, which Hook makes of the method, is not such a place, save
\* in "load", where it calls the runtime and the runtime allocates (lines 154-161).
AtSafepoint(c) == pc[c] \in {"idle", "interp", "enter", "original", "crash", "load"}

-----------------------------------------------------------------------------
(***************************************************************************)
(* Hook, on the thread that hooks.                                         *)
(***************************************************************************)
\* Mutant: the world is not stopped.
HookBeginRunning ==
  /\ hpc = "idle" /\ events < MaxEvents
  /\ hpc' = "backup" /\ events' = events + 1
  /\ UNCHANGED <<phone, meth, clones, key, suspended, thread, moves>>

\* ScopedSuspendAll; where SuspendVM is missing the world goes on.
HookBegin ==
  /\ hpc = "idle" /\ events < MaxEvents
  /\ suspends => \A c \in Callers : AtSafepoint(c)
  /\ suspended' = suspends
  /\ hpc' = "backup" /\ events' = events + 1
  /\ UNCHANGED <<phone, meth, clones, key, thread, moves>>

\* A copy of the method; what is not native goes to the interpreter if it can.
Clone ==
  IF ~meth.native /\ QuickToInterpreter THEN [meth EXCEPT !.quick = "interpreter"]
  ELSE meth

\* Mutant: a second Hook replaces the entry of the map.
BackupAgain ==
  /\ hpc = "backup" /\ hpc' = "dex"
  /\ clones' = Append(clones, Clone)
  /\ key' = <<[decl_class |-> meth.decl_class, dex |-> meth.dex, quick |-> meth.quick,
               jni |-> meth.jni, original |-> Len(clones')]>>
  /\ UNCHANGED <<phone, meth, suspended, thread, clock>>

\* Mutant: the key is filled before the clone is made.
BackupEarly ==
  /\ hpc = "backup" /\ hpc' = "dex"
  /\ clones' = Append(clones, Clone)
  /\ key' = IF key # <<>> THEN key
            ELSE <<[decl_class |-> meth.decl_class, dex |-> meth.dex,
                    quick |-> meth.quick, jni |-> meth.jni, original |-> Len(clones)]>>
  /\ UNCHANGED <<phone, meth, suspended, thread, clock>>

\* map::insert keeps the entry that is there, the one with the original.
Backup ==
  /\ hpc = "backup" /\ hpc' = "dex"
  /\ clones' = Append(clones, Clone)
  /\ key' = IF key # <<>> THEN key
            ELSE <<[decl_class |-> meth.decl_class, dex |-> meth.dex,
                    quick |-> meth.quick, jni |-> meth.jni, original |-> Len(clones')]>>
  /\ UNCHANGED <<phone, meth, suspended, thread, clock>>

HookField(at, next, field, value) ==
  /\ hpc = at /\ hpc' = next /\ meth' = [meth EXCEPT ![field] = value]
  /\ UNCHANGED <<phone, clones, key, suspended, thread, clock>>

\* Lines 90, 91-108, 111, 112-115 and 117.
HookFields ==
  \/ HookField("dex", "flags", "dex", FALSE)
  \/ HookField("flags", "quick", "native", TRUE)
  \/ HookField("quick", "interp", "quick", "jni")
  \/ HookField("interp", "jni", "interp",
               IF version = "M" /\ InterpreterToCompiled THEN "quick" ELSE meth.interp)
  \/ HookField("jni", "resume", "jni", "replace")

HookEnd ==
  /\ hpc = "resume" /\ hpc' = "idle" /\ suspended' = FALSE
  /\ UNCHANGED <<phone, meth, clones, key, thread, clock>>

-----------------------------------------------------------------------------
(***************************************************************************)
(* The runtime: calls of the method, and the collector.                    *)
(***************************************************************************)
MayRun(c) == ~(suspended /\ AtSafepoint(c))

Goto(c, where) == pc' = [pc EXCEPT ![c] = where]

Call(c) ==
  /\ MayRun(c) /\ pc[c] = "idle" /\ events < MaxEvents
  /\ Goto(c, "enter") \/ (version = "M" /\ Goto(c, "interp"))
  /\ events' = events + 1
  /\ UNCHANGED <<phone, meth, clones, key, hooker, target, mine, depth, tested, moves>>

Executed(c) == IF target[c] = 0 THEN meth ELSE clones[target[c]]

\* A call made by the interpreter on M.
EnterInterpreted(c) ==
  /\ MayRun(c) /\ pc[c] = "interp"
  /\ Goto(c, IF meth.interp = "quick" THEN "enter"
             ELSE IF meth.dex THEN "original" ELSE "crash")
  /\ UNCHANGED <<phone, meth, clones, key, hooker, target, mine, depth, tested, clock>>

Enter(c) ==
  /\ MayRun(c) /\ pc[c] = "enter"
  /\ LET quick == Executed(c).quick IN
       Goto(c, IF quick = "jni" THEN "jni"
               ELSE IF quick = "interpreter" /\ ~Executed(c).dex THEN "crash"
               ELSE "original")
  /\ UNCHANGED <<phone, meth, clones, key, hooker, target, mine, depth, tested, clock>>

JniBridge(c) ==
  /\ pc[c] = "jni"
  /\ LET jni == Executed(c).jni IN
       /\ Goto(c, CASE jni = "replace" -> "getkey" [] jni = "original" -> "original"
                    [] jni = "none" -> "crash")
       /\ depth' = IF jni = "replace" /\ depth[c] < 2 THEN [depth EXCEPT ![c] = @ + 1]
                    ELSE depth
  /\ UNCHANGED <<phone, meth, clones, key, hooker, target, mine, tested, clock>>

Return(c) ==
  /\ MayRun(c) /\ pc[c] = "original" /\ Goto(c, "idle")
  /\ target' = [target EXCEPT ![c] = 0] /\ depth' = [depth EXCEPT ![c] = 0]
  /\ UNCHANGED <<phone, meth, clones, key, hooker, mine, tested, clock>>

\* The collector updates the class of the method, not of its clones: it does not
\* know them.
Move ==
  /\ ~suspended /\ events < MaxEvents /\ \A c \in Callers : AtSafepoint(c)
  /\ moves' = moves + 1 /\ events' = events + 1
  /\ meth' = [meth EXCEPT !.decl_class = moves + 1]
  /\ UNCHANGED <<phone, clones, key, hooker, thread>>

-----------------------------------------------------------------------------
(***************************************************************************)
(* InvokeOriginal, called by the replacement.                              *)
(***************************************************************************)
\* The null key of a method that was never hooked is dereferenced.
GetKey(c) ==
  /\ pc[c] = "getkey" /\ Goto(c, IF key = <<>> THEN "crash" ELSE "check")
  /\ UNCHANGED <<phone, meth, clones, key, hooker, target, mine, depth, tested, clock>>

\* Mutant: a moved class is not noticed.
CheckMovedNever(c) ==
  /\ pc[c] = "check" /\ Goto(c, "load") /\ tested' = [tested EXCEPT ![c] = meth.decl_class]
  /\ UNCHANGED <<phone, meth, clones, key, hooker, target, mine, depth, clock>>

\* DealGCRoot: did the class move since the clone was made?
CheckMoved(c) ==
  /\ pc[c] = "check"
  /\ Goto(c, IF key[1].decl_class = meth.decl_class THEN "load" ELSE "clone")
  /\ tested' = [tested EXCEPT ![c] = meth.decl_class]
  /\ UNCHANGED <<phone, meth, clones, key, hooker, target, mine, depth, clock>>

\* The new clone, of the hooked method, is in the key before it is restored.
CloneAgain(c) ==
  /\ pc[c] = "clone" /\ Goto(c, "pick")
  /\ clones' = Append(clones, Clone)
  /\ key' = <<[key[1] EXCEPT !.original = Len(clones')]>>
  /\ UNCHANGED <<phone, meth, hooker, target, mine, depth, tested, clock>>

Pick(c) ==
  /\ pc[c] = "pick" /\ Goto(c, "setquick")
  /\ mine' = [mine EXCEPT ![c] = key[1].original]
  /\ UNCHANGED <<phone, meth, clones, key, hooker, target, depth, tested, clock>>

RestoreField(c, at, next, field, value) ==
  /\ pc[c] = at /\ Goto(c, next)
  /\ clones' = [clones EXCEPT ![mine[c]][field] = value]
  /\ UNCHANGED <<phone, meth, key, hooker, target, mine, depth, tested, clock>>

\* Lines 239-241.
RestoreFields(c) ==
  \/ RestoreField(c, "setquick", "setjni", "quick", key[1].quick)
  \/ RestoreField(c, "setjni", "setdex", "jni", key[1].jni)
  \/ RestoreField(c, "setdex", "setclass", "dex", key[1].dex)

\* Mutant: a call that had to clone again does not go on to the invocation.
KeyClassGivesUp(c) ==
  /\ pc[c] = "setclass" /\ Goto(c, "idle") /\ mine' = [mine EXCEPT ![c] = 0]
  /\ target' = [target EXCEPT ![c] = 0] /\ depth' = [depth EXCEPT ![c] = 0]
  /\ key' = <<[key[1] EXCEPT !.decl_class = meth.decl_class]>>
  /\ UNCHANGED <<phone, meth, clones, hooker, tested, clock>>

KeyClass(c) ==
  /\ pc[c] = "setclass" /\ Goto(c, "load") /\ mine' = [mine EXCEPT ![c] = 0]
  /\ key' = <<[key[1] EXCEPT !.decl_class = meth.decl_class]>>
  /\ UNCHANGED <<phone, meth, clones, hooker, target, depth, tested, clock>>

\* Method.invoke on original_method.
InvokeClone(c) ==
  /\ MayRun(c) /\ pc[c] = "load" /\ Goto(c, "enter")
  /\ target' = [target EXCEPT ![c] = key[1].original] /\ tested' = [tested EXCEPT ![c] = 0]
  /\ UNCHANGED <<phone, meth, clones, key, hooker, mine, depth, clock>>

InvokeOriginal(c) ==
  \/ GetKey(c) \/ CheckMoved(c) \/ CloneAgain(c) \/ Pick(c) \/ RestoreFields(c)
  \/ KeyClass(c) \/ InvokeClone(c)

\* Every call and hook that may be made was made, or the process is gone.
Rest ==
  /\ \/ \E c \in Callers : pc[c] = "crash"
     \/ hpc = "idle" /\ \A c \in Callers : pc[c] = "idle"
  /\ UNCHANGED state

\* One call restores the clone it has put in the key, and another makes one too, or
\* is about to invoke what the key names (lines 233-234: the lock left out).
Racing ==
  \E c, d \in Callers :
    c # d /\ pc[c] \in Restoring /\ pc[d] \in {"clone", "load"} \cup Restoring

\* Hook, without SuspendVM, writes while a call goes by the fields of the method.
Torn ==
  /\ ~suspends /\ hpc \in Writing
  /\ \E c \in Callers : pc[c] \in {"interp", "enter", "jni"} /\ target[c] = 0

Running(c) ==
  EnterInterpreted(c) \/ Enter(c) \/ JniBridge(c) \/ Return(c) \/ InvokeOriginal(c)

Step ==
  \/ HookBegin \/ Backup \/ HookFields \/ HookEnd \/ Move \/ Rest
  \/ \E c \in Callers : Call(c) \/ Running(c)

Next == Step /\ raced' = (raced \/ Racing') /\ torn' = (torn \/ Torn')

Spec == Init /\ [][Next]_vars

\* The runtime schedules every thread; nobody has to call the method or hook it.
FairSpec ==
  /\ Spec
  /\ WF_state(Backup \/ HookFields \/ HookEnd)
  /\ \A c \in Callers : WF_state(Running(c))

-----------------------------------------------------------------------------
\* No call meets a method whose fields contradict each other: one that goes to the
\* interpreter without bytecode, to the JNI bridge without a function, or to the
\* replacement without a backup (Hook, lines 82-117: "stop the world").  It may where
\* the code itself does not see to it: where libart lacks SuspendVM and a call comes
\* while Hook writes, where two calls make a new clone at once, and on M without the
\* bridge from the interpreter (lines 112-115).
NoHalfHookedCall ==
  ~raced /\ ~torn /\ (version = "M" => InterpreterToCompiled)
    => \A c \in Callers : pc[c] # "crash"

\* A call runs the replacement once: what InvokeOriginal invokes never leads to
\* the replacement again, after a second Hook, after the class has moved, and with
\* other calls beside it (lines 121-132 and 228-243); until one of them comes while
\* another restores a new clone, which lines 233-234 leave to chance.
ReplacementRunsOnce == ~raced => \A c \in Callers : depth[c] <= 1

\* InvokeOriginal never invokes a clone whose class is older than at DealGCRoot's test
\* (lines 228-243: the collector does not update a clone), whatever other calls do; it is
\* where the method's class is unless the collector has moved that since, which it may
\* do in the JNI calls of lines 154-161.
InvokesFreshClass ==
  [][\A c \in Callers :
       InvokeClone(c) => clones'[target'[c]].decl_class \in tested[c]..meth.decl_class]_vars

\* Every call reaches the original in the end (InvokeOriginal, lines 143-170), if no
\* other has met it in DealGCRoot and Hook did not write while it read.
CallsReachOriginal ==
  \A c \in Callers :
    pc[c] \in {"interp", "enter"} ~> pc[c] = "original" \/ raced \/ torn

\* "Clone again, and restore it to the original method" (line 235): what is invoked
\* after the class moved is native only if the original is.
ReclonedIsOriginal ==
  \A c \in Callers :
    pc[c] = "enter" /\ target[c] > 0 => clones[target[c]].native = (kind = "native")
=============================================================================
