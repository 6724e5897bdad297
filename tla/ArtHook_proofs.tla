---------------------------- MODULE ArtHook_proofs ----------------------------
(***************************************************************************)
(* Proofs about ArtHook, one invariant for each thing that must not go     *)
(* wrong, on top of BaseInv:                                               *)
(*   FreshInv  the clone that is invoked names the class at least as it    *)
(*             was when DealGCRoot tested it                               *)
(*   OnceInv   what InvokeOriginal invokes never is the replacement, until *)
(*             two calls have met in DealGCRoot                            *)
(*   WholeInv  no call meets a half-hooked method, until that or until     *)
(*             Hook wrote without SuspendVM while a call read              *)
(***************************************************************************)
EXTENDS ArtHook, SequenceTheorems, TLAPS

Hooking == {"dex", "flags", "quick", "interp", "jni", "resume"}

\* The map has its entry before anything needs it.
Keyed ==
  /\ hpc \in Hooking => key # <<>>
  /\ \A c \in Callers :
       /\ pc[c] \in InInvoke \ {"getkey"} => key # <<>>
       /\ pc[c] \in InClone => mine[c] \in 1..Len(clones)

\* The class is where the last move took it; the key is at most as new.
Classes ==
  /\ meth.decl_class = moves
  /\ key # <<>> => key[1].decl_class <= moves

BaseInv == TypeOK /\ Keyed /\ Classes

Original == clones[key[1].original]

\* The clone of the key is no older than the key; while a call restores one it is new,
\* and one that is about to be invoked is as new as the test found the class.
FreshInv ==
  /\ key # <<>> => Original.decl_class \in key[1].decl_class..moves
  /\ \A c \in Callers :
       /\ tested[c] <= moves
       /\ pc[c] \in Restoring => Original.decl_class = moves
       /\ pc[c] = "load" => tested[c] <= Original.decl_class

\* A new clone is the hooked method until its jni_code is restored, and nobody else has
\* it while a call restores it; any other clone that is executed is none.
JniOfKey ==
  /\ key = <<>> => meth.jni # "replace"
  /\ key # <<>> => key[1].jni # "replace"

Recloning ==
  \A c \in Callers : pc[c] \in InClone => mine[c] = key[1].original

Away ==
  \A c, d \in Callers :
    pc[c] \in Restoring /\ pc[d] \in {"enter", "jni"} => target[d] # key[1].original

Depths ==
  \A c \in Callers :
    /\ depth[c] <= 1
    /\ pc[c] \in {"idle", "interp"} => target[c] = 0
    /\ pc[c] \in {"idle", "interp", "enter", "jni"} /\ target[c] = 0 => depth[c] = 0
    /\ pc[c] \in {"enter", "jni"} /\ target[c] # 0 => clones[target[c]].jni # "replace"

OriginalOnce ==
  key # <<>> /\ (\A c \in Callers : pc[c] \notin {"pick", "setquick", "setjni"})
    => Original.jni # "replace"

OnceInv == ~Racing /\ JniOfKey /\ Recloning /\ Away /\ Depths /\ OriginalOnce

\* The fields a call depends on do not contradict each other.
Whole(m) ==
  /\ m.quick = "interpreter" => m.dex
  /\ m.quick = "jni" => m.jni = "original"

\* The world is stopped while Hook writes, if it can be; the fields are those of a method
\* that was never hooked or, from where Hook writes them for the first time, of one that
\* was.
Stopped ==
  /\ hpc # "idle" => suspended = suspends
  /\ suspended => \A c \in Callers : AtSafepoint(c)

HookedFields ==
  /\ key = <<>> => /\ meth.dex = Loaded(kind).dex /\ meth.native = Loaded(kind).native
                   /\ meth.quick = Loaded(kind).quick /\ meth.jni = Loaded(kind).jni
                   /\ meth.interp = Loaded(kind).interp
  /\ key # <<>> =>
       /\ hpc \notin {"dex"} => ~meth.dex
       /\ hpc \notin {"dex", "flags"} => meth.native
       /\ hpc \notin {"dex", "flags", "quick"} => meth.quick = "jni"
       /\ hpc \notin {"dex", "flags", "quick", "interp"} /\ version = "M" =>
            meth.interp = "quick"
       /\ hpc \notin {"dex", "flags", "quick", "interp", "jni"} => meth.jni = "replace"
       /\ key[1].dex = Loaded(kind).dex /\ key[1].quick = Loaded(kind).quick
       /\ key[1].jni = Loaded(kind).jni

\* How far a new clone is restored.
Restored ==
  \A c \in Callers :
    /\ pc[c] \in {"setjni", "setdex", "setclass"} => clones[mine[c]].quick = key[1].quick
    /\ pc[c] \in {"setdex", "setclass"} => clones[mine[c]].jni = key[1].jni
    /\ pc[c] = "setclass" => clones[mine[c]].dex = key[1].dex

Executing ==
  \A c \in Callers :
    /\ pc[c] # "crash"
    /\ pc[c] = "interp" => version = "M"
    /\ pc[c] = "jni" => Executed(c).quick = "jni"
    /\ pc[c] = "getkey" => key # <<>>
    /\ pc[c] \in {"enter", "jni"} /\ target[c] # 0 => Whole(clones[target[c]])

OriginalWhole ==
  key # <<>> /\ (\A c \in Callers : pc[c] \notin Restoring \ {"setclass"}) => Whole(Original)

WholeInv == ~Torn /\ Stopped /\ HookedFields /\ Restored /\ Executing /\ OriginalWhole

-----------------------------------------------------------------------------
(***************************************************************************)
(* Operators.                                                              *)
(***************************************************************************)
\* What a method is when it is loaded does not contradict itself.
LEMMA LoadedIsWhole ==
  ASSUME NEW k \in Kinds
  PROVE  /\ Loaded(k) \in Fields /\ Loaded(k).decl_class = 0 /\ Whole(Loaded(k))
         /\ Loaded(k).jni # "replace" /\ ~(Loaded(k).native /\ Loaded(k).dex)
         /\ ~Loaded(k).native => Loaded(k).dex
         /\ Loaded(k).interp = "interpreter" => Loaded(k).dex
         /\ Loaded(k).quick \in Quick /\ Loaded(k).jni \in Jni /\ Loaded(k).dex \in BOOLEAN
  BY KindsAssumption DEF Loaded, Fields, Quick, Jni, Interp, Whole

\* A clone differs from the method in quick_code at most, and then it is not native.
LEMMA CloneIsCopy ==
  ASSUME meth \in Fields
  PROVE  /\ Clone \in Fields /\ Clone.decl_class = meth.decl_class /\ Clone.jni = meth.jni
         /\ Clone.dex = meth.dex /\ Clone.native = meth.native
         /\ Clone.quick = meth.quick \/ (Clone.quick = "interpreter" /\ ~meth.native)
  BY DEF Clone, Fields, Quick

\* A new clone is put behind the others, which stay as they are.
LEMMA Appended ==
  ASSUME TypeOK, clones' = Append(clones, Clone)
  PROVE  /\ clones' \in Seq(Fields) /\ Len(clones') = Len(clones) + 1
         /\ clones'[Len(clones) + 1] = Clone
         /\ \A i \in 1..Len(clones) : clones'[i] = clones[i]
<1>1. clones \in Seq(Fields) /\ Clone \in Fields
  BY CloneIsCopy DEF TypeOK
<1> QED
  BY <1>1, AppendProperties

\* The restoring of one field of one clone.
LEMMA RestoredOne ==
  ASSUME TypeOK, NEW i \in 1..Len(clones), NEW e \in Fields,
         clones' = [clones EXCEPT ![i] = e]
  PROVE  /\ clones' \in Seq(Fields) /\ Len(clones') = Len(clones) /\ clones'[i] = e
         /\ \A j \in 1..Len(clones) : j # i => clones'[j] = clones[j]
<1>1. clones \in Seq(Fields)
  BY DEF TypeOK
<1> QED
  BY <1>1, ExceptSeq

\* What a step of RestoreFields does to the clone in hand.
LEMMA RestoreFieldsOne ==
  ASSUME BaseInv, NEW c \in Callers, RestoreFields(c)
  PROVE  /\ key # <<>> /\ key[1] \in Key /\ mine[c] \in 1..Len(clones)
         /\ clones' \in Seq(Fields) /\ Len(clones') = Len(clones)
         /\ clones[mine[c]] \in Fields
         /\ \A j \in 1..Len(clones) : j # mine[c] => clones'[j] = clones[j]
         /\ UNCHANGED <<version, suspends, kind, meth, key, hpc, suspended, target,
                        mine, depth, tested, events, moves>>
         /\ \/ /\ pc[c] = "setquick" /\ pc' = [pc EXCEPT ![c] = "setjni"]
               /\ clones'[mine[c]] = [clones[mine[c]] EXCEPT !.quick = key[1].quick]
            \/ /\ pc[c] = "setjni" /\ pc' = [pc EXCEPT ![c] = "setdex"]
               /\ clones'[mine[c]] = [clones[mine[c]] EXCEPT !.jni = key[1].jni]
            \/ /\ pc[c] = "setdex" /\ pc' = [pc EXCEPT ![c] = "setclass"]
               /\ clones'[mine[c]] = [clones[mine[c]] EXCEPT !.dex = key[1].dex]
<1>1. pc[c] \in {"setquick", "setjni", "setdex"}
  BY DEF RestoreFields, RestoreField
<1>2. key # <<>> /\ key[1] \in Key /\ mine[c] \in 1..Len(clones)
  BY <1>1 DEF BaseInv, Keyed, InInvoke, InClone, TypeOK
<1>3. clones[mine[c]] \in Fields
  BY <1>2 DEF BaseInv, TypeOK
<1> DEFINE o == clones[mine[c]]
<1>4. /\ [o EXCEPT !.quick = key[1].quick] \in Fields
      /\ [o EXCEPT !.jni = key[1].jni] \in Fields
      /\ [o EXCEPT !.dex = key[1].dex] \in Fields
  BY <1>2, <1>3 DEF Fields, Key
<1>5. UNCHANGED <<version, suspends, kind, meth, key, hpc, suspended, target,
                        mine, depth, tested, events, moves>>
  BY DEF RestoreFields, RestoreField, phone, hooker, clock
<1>6. CASE RestoreField(c, "setquick", "setjni", "quick", key[1].quick)
  <2>1. clones' = [clones EXCEPT ![mine[c]] = [o EXCEPT !.quick = key[1].quick]]
    BY <1>6 DEF RestoreField
  <2> QED
    BY <1>2, <1>3, <1>4, <1>5, <1>6, <2>1, RestoredOne DEF RestoreField, Goto, BaseInv
<1>7. CASE RestoreField(c, "setjni", "setdex", "jni", key[1].jni)
  <2>1. clones' = [clones EXCEPT ![mine[c]] = [o EXCEPT !.jni = key[1].jni]]
    BY <1>7 DEF RestoreField
  <2> QED
    BY <1>2, <1>3, <1>4, <1>5, <1>7, <2>1, RestoredOne DEF RestoreField, Goto, BaseInv
<1>8. CASE RestoreField(c, "setdex", "setclass", "dex", key[1].dex)
  <2>1. clones' = [clones EXCEPT ![mine[c]] = [o EXCEPT !.dex = key[1].dex]]
    BY <1>8 DEF RestoreField
  <2> QED
    BY <1>2, <1>3, <1>4, <1>5, <1>8, <2>1, RestoredOne DEF RestoreField, Goto, BaseInv
<1> QED
  BY <1>6, <1>7, <1>8 DEF RestoreFields

\* What a step of HookFields writes.
LEMMA HookFieldsOne ==
  ASSUME BaseInv, HookFields
  PROVE  /\ meth' \in Fields /\ meth'.decl_class = meth.decl_class
         /\ UNCHANGED <<version, suspends, kind, clones, key, suspended, pc, target,
                        mine, depth, tested, events, moves>>
         /\ \/ hpc = "dex" /\ hpc' = "flags" /\ meth' = [meth EXCEPT !.dex = FALSE]
            \/ hpc = "flags" /\ hpc' = "quick" /\ meth' = [meth EXCEPT !.native = TRUE]
            \/ hpc = "quick" /\ hpc' = "interp" /\ meth' = [meth EXCEPT !.quick = "jni"]
            \/ /\ hpc = "interp" /\ hpc' = "jni"
               /\ meth' = [meth EXCEPT !.interp = IF version = "M" /\ InterpreterToCompiled
                                                  THEN "quick" ELSE meth.interp]
            \/ hpc = "jni" /\ hpc' = "resume" /\ meth' = [meth EXCEPT !.jni = "replace"]
<1>1. meth \in Fields
  BY DEF BaseInv, TypeOK
<1>2. UNCHANGED <<version, suspends, kind, clones, key, suspended, pc, target,
                        mine, depth, tested, events, moves>>
  BY DEF HookFields, HookField, phone, thread, clock
<1>3. \/ hpc = "dex" /\ hpc' = "flags" /\ meth' = [meth EXCEPT !.dex = FALSE]
      \/ hpc = "flags" /\ hpc' = "quick" /\ meth' = [meth EXCEPT !.native = TRUE]
      \/ hpc = "quick" /\ hpc' = "interp" /\ meth' = [meth EXCEPT !.quick = "jni"]
      \/ /\ hpc = "interp" /\ hpc' = "jni"
         /\ meth' = [meth EXCEPT !.interp = IF version = "M" /\ InterpreterToCompiled
                                            THEN "quick" ELSE meth.interp]
      \/ hpc = "jni" /\ hpc' = "resume" /\ meth' = [meth EXCEPT !.jni = "replace"]
  BY DEF HookFields, HookField
<1>4. meth' \in Fields /\ meth'.decl_class = meth.decl_class
  BY <1>1, <1>3 DEF Fields, Quick, Jni, Interp
<1> QED
  BY <1>2, <1>3, <1>4

\* What Backup does.
LEMMA BackupOne ==
  ASSUME BaseInv, Backup
  PROVE  /\ clones' \in Seq(Fields) /\ Len(clones') = Len(clones) + 1 /\ Len(clones) \in Nat
         /\ \A i \in 1..Len(clones) : clones'[i] = clones[i]
         /\ clones'[Len(clones) + 1] = Clone
         /\ hpc = "backup" /\ hpc' = "dex"
         /\ key # <<>> => key' = key
         /\ key = <<>> => key' = <<[decl_class |-> meth.decl_class, dex |-> meth.dex,
                                    quick |-> meth.quick, jni |-> meth.jni,
                                    original |-> Len(clones) + 1]>>
         /\ key' # <<>> /\ (key = <<>> => key'[1].original = Len(clones) + 1)
         /\ UNCHANGED <<version, suspends, kind, meth, suspended, pc, target, mine,
                        depth, tested, events, moves>>
<1>1. clones' = Append(clones, Clone)
  BY DEF Backup
<1>2. Len(clones) \in Nat
  BY LenProperties DEF BaseInv, TypeOK
<1>3. /\ clones' \in Seq(Fields) /\ Len(clones') = Len(clones) + 1
      /\ clones'[Len(clones) + 1] = Clone
      /\ \A i \in 1..Len(clones) : clones'[i] = clones[i]
  BY <1>1, Appended DEF BaseInv
<1>4. CASE key = <<>>
  BY <1>2, <1>3, <1>4 DEF Backup, phone, thread, clock
<1>5. CASE key # <<>>
  BY <1>2, <1>3, <1>5 DEF Backup, phone, thread, clock
<1> QED
  BY <1>4, <1>5

\* What CloneAgain does.
LEMMA CloneAgainOne ==
  ASSUME BaseInv, NEW c \in Callers, CloneAgain(c)
  PROVE  /\ clones' \in Seq(Fields) /\ Len(clones') = Len(clones) + 1 /\ Len(clones) \in Nat
         /\ \A i \in 1..Len(clones) : clones'[i] = clones[i]
         /\ clones'[Len(clones) + 1] = Clone
         /\ key # <<>> /\ key[1] \in Key
         /\ key' = <<[key[1] EXCEPT !.original = Len(clones) + 1]>>
         /\ pc[c] = "clone" /\ pc' = [pc EXCEPT ![c] = "pick"]
         /\ UNCHANGED <<version, suspends, kind, meth, hpc, suspended, target, mine,
                        depth, tested, events, moves>>
<1>1. clones' = Append(clones, Clone)
  BY DEF CloneAgain
<1>2. Len(clones) \in Nat
  BY LenProperties DEF BaseInv, TypeOK
<1>3. key # <<>> /\ key[1] \in Key
  BY DEF BaseInv, TypeOK, Keyed, CloneAgain, InInvoke
<1> QED
  BY <1>1, <1>2, <1>3, Appended DEF CloneAgain, BaseInv, phone, hooker, clock, Goto

\* What a caller executes is an ArtMethod.
LEMMA ExecutedIsMethod == ASSUME TypeOK, NEW c \in Callers PROVE Executed(c) \in Fields
<1>1. clones \in Seq(Fields) /\ target[c] \in 0..Len(clones) /\ Len(clones) \in Nat
  BY LenProperties DEF TypeOK
<1>2. CASE target[c] = 0
  BY <1>2 DEF Executed, TypeOK
<1>3. CASE target[c] # 0
  <2>1. target[c] \in 1..Len(clones)
    BY <1>1, <1>3
  <2> QED
    BY <1>1, <1>3, <2>1, ElementOfSeq DEF Executed
<1> QED
  BY <1>2, <1>3

-----------------------------------------------------------------------------
(***************************************************************************)
(* BaseInv.                                                                *)
(***************************************************************************)
\* BaseInv is inductive.
LEMMA NextBaseInv ==
  ASSUME BaseInv, [Next]_vars
  PROVE  BaseInv'
<1>0. raced' \in BOOLEAN /\ torn' \in BOOLEAN
  BY DEF Next, vars, BaseInv, TypeOK
<1>1. CASE HookBegin
  BY <1>0, <1>1, BoundsAssumption, SwitchesAssumption DEF HookBegin, BaseInv, TypeOK, Keyed,
     Classes, Hooking, phone, thread, clock
<1>2. CASE Backup
  <2>1. \/ key' = <<>>
        \/ Len(key') = 1 /\ key'[1] \in Key /\ key'[1].original \in 1..Len(clones')
    BY <1>0, <1>2, BackupOne DEF BaseInv, TypeOK, Key, Fields
  <2>2. TypeOK'
    BY <1>0, <1>2, <2>1, BackupOne DEF BaseInv, TypeOK, InInvoke, InClone
  <2>3. key' # <<>> /\ key'[1].decl_class <= moves
    <3>1. CASE key = <<>>
      BY <1>0, <1>2, <3>1, BackupOne DEF BaseInv, TypeOK, Classes, Fields
    <3>2. CASE key # <<>>
      BY <1>0, <1>2, <3>2, BackupOne DEF BaseInv, Classes
    <3> QED
      BY <3>1, <3>2
  <2>4. Keyed'
    BY <1>0, <1>2, <2>3, BackupOne DEF BaseInv, Keyed
  <2>5. Classes'
    BY <1>0, <1>2, <2>3, BackupOne DEF BaseInv, Classes
  <2> QED
    BY <2>2, <2>4, <2>5 DEF BaseInv
<1>3. CASE HookFields
  <2>1. TypeOK'
    BY <1>0, <1>3, HookFieldsOne DEF BaseInv, TypeOK
  <2>2. Keyed' /\ Classes'
    BY <1>0, <1>3, HookFieldsOne DEF BaseInv, TypeOK, Keyed, Classes, Hooking
  <2> QED
    BY <2>1, <2>2 DEF BaseInv
<1>4. CASE HookEnd
  BY <1>0, <1>4, BoundsAssumption DEF HookEnd, BaseInv, TypeOK, Keyed, Classes, Hooking,
     InInvoke, InClone, phone, hooker, clock, thread
<1>5. CASE Move
  <2>1. moves \in Nat /\ moves' = moves + 1 /\ events' \in 0..MaxEvents
    BY <1>0, <1>5, BoundsAssumption DEF Move, BaseInv, TypeOK
  <2>2. meth' \in Fields /\ meth'.decl_class = moves + 1
    <3>1. meth \in Fields /\ meth' = [meth EXCEPT !.decl_class = moves + 1]
      BY <1>0, <1>5 DEF Move, BaseInv, TypeOK
    <3> QED
      BY <2>1, <3>1 DEF Fields
  <2>3. TypeOK' /\ Keyed'
    BY <1>0, <1>5, <2>1, <2>2 DEF Move, BaseInv, TypeOK, Keyed, phone, hooker, clock, thread
  <2>4. Classes'
    BY <1>0, <1>5, <2>1, <2>2 DEF Move, BaseInv, TypeOK, Classes, Key
  <2> QED
    BY <2>3, <2>4 DEF BaseInv
<1>6. ASSUME NEW c \in Callers, Call(c) PROVE BaseInv'
  <2>1. \E l \in {"enter", "interp"} : pc' = [pc EXCEPT ![c] = l]
    BY <1>0, <1>6 DEF Call, Goto
  <2>2. events' \in 0..MaxEvents
    BY <1>0, <1>6, BoundsAssumption DEF Call, BaseInv, TypeOK
  <2> QED
    BY <1>0, <1>6, <2>1, <2>2 DEF Call, BaseInv, TypeOK, Keyed, Classes, InInvoke,
       InClone, phone, hooker, clock
<1>7. ASSUME NEW c \in Callers, EnterInterpreted(c) PROVE BaseInv'
  <2>1. \E l \in {"enter", "original", "crash"} : pc' = [pc EXCEPT ![c] = l]
    BY <1>0, <1>7 DEF EnterInterpreted, Goto
  <2> QED
    BY <1>0, <1>7, <2>1 DEF EnterInterpreted, BaseInv, TypeOK, Keyed, Classes, InInvoke,
       InClone, phone, hooker, clock
<1>8. ASSUME NEW c \in Callers, Enter(c) PROVE BaseInv'
  <2>1. \E l \in {"jni", "original", "crash"} : pc' = [pc EXCEPT ![c] = l]
    BY <1>0, <1>8 DEF Enter, Goto
  <2> QED
    BY <1>0, <1>8, <2>1 DEF Enter, BaseInv, TypeOK, Keyed, Classes, InInvoke, InClone, phone,
       hooker, clock
<1>9. ASSUME NEW c \in Callers, JniBridge(c) PROVE BaseInv'
  <2>1. Executed(c).jni \in Jni
    BY ExecutedIsMethod DEF BaseInv, Fields
  <2>2. \E l \in {"getkey", "original", "crash"} : pc' = [pc EXCEPT ![c] = l]
    BY <1>0, <1>9, <2>1 DEF JniBridge, Goto, Jni
  <2>3. depth' \in [Callers -> 0..2]
    <3>0. depth \in [Callers -> 0..2]
      BY DEF BaseInv, TypeOK
    <3>1. depth \in [Callers -> 0..2] /\ (depth[c] < 2 => depth[c] + 1 \in 0..2)
      BY <3>0
    <3> QED
      BY <1>9, <3>1 DEF JniBridge
  <2> QED
    BY <1>0, <1>9, <2>2, <2>3 DEF JniBridge, BaseInv, TypeOK, Keyed, Classes, InInvoke,
       InClone, phone, hooker, clock
<1>10. ASSUME NEW c \in Callers, Return(c) PROVE BaseInv'
  BY <1>0, <1>10, BoundsAssumption DEF Return, MayRun, Goto, BaseInv, TypeOK, Keyed,
     Classes, Hooking, InInvoke, InClone, phone, hooker, clock, thread
<1>11. ASSUME NEW c \in Callers, GetKey(c) PROVE BaseInv'
  BY <1>0, <1>11, BoundsAssumption DEF GetKey, Goto, BaseInv, TypeOK, Keyed, Classes,
     Hooking, InInvoke, InClone, phone, hooker, clock, thread
<1>12. ASSUME NEW c \in Callers, CheckMoved(c) PROVE BaseInv'
  BY <1>0, <1>12, BoundsAssumption DEF CheckMoved, Goto, BaseInv, TypeOK, Keyed, Classes,
     Hooking, InInvoke, InClone, phone, hooker, clock, thread
<1>13. ASSUME NEW c \in Callers, CloneAgain(c) PROVE BaseInv'
  <2>1. Len(key') = 1 /\ key'[1] \in Key /\ key'[1].original \in 1..Len(clones')
        /\ key'[1].decl_class = key[1].decl_class
    BY <1>0, <1>13, CloneAgainOne DEF Key
  <2>2. /\ pc' \in [Callers ->
                   {"idle", "interp", "enter", "jni", "original", "crash"} \cup InInvoke]
        /\ target' \in [Callers -> 0..Len(clones')] /\ mine' \in [Callers -> 0..Len(clones')]
    <3>1. pc' = [pc EXCEPT ![c] = "pick"] /\ 0..Len(clones) \subseteq 0..Len(clones')
          /\ target' = target /\ mine' = mine
      BY <1>0, <1>13, CloneAgainOne
    <3> QED
      BY <3>1 DEF BaseInv, TypeOK, InInvoke
  <2>4. TypeOK'
    BY <1>0, <1>13, <2>1, <2>2, CloneAgainOne DEF BaseInv, TypeOK
  <2>3. Keyed' /\ Classes'
    BY <1>0, <1>13, <2>1, CloneAgainOne DEF BaseInv, TypeOK, Keyed, Classes, InInvoke,
       InClone, Hooking
  <2> QED
    BY <2>3, <2>4 DEF BaseInv
<1>14. ASSUME NEW c \in Callers, Pick(c) PROVE BaseInv'
  BY <1>0, <1>14, BoundsAssumption DEF Pick, Goto, BaseInv, TypeOK, Keyed, Classes, Hooking,
     InInvoke, InClone, phone, hooker, clock, thread
<1>15. ASSUME NEW c \in Callers, RestoreFields(c) PROVE BaseInv'
  <2>1. TypeOK'
    BY <1>0, <1>15, RestoreFieldsOne DEF BaseInv, TypeOK, InInvoke, InClone
  <2>2. Keyed' /\ Classes'
    BY <1>0, <1>15, RestoreFieldsOne DEF BaseInv, TypeOK, Keyed, Classes, InInvoke, InClone,
       Hooking
  <2> QED
    BY <2>1, <2>2 DEF BaseInv
<1>16. ASSUME NEW c \in Callers, KeyClass(c) PROVE BaseInv'
  <2>1. key # <<>> /\ key[1] \in Key
    BY <1>0, <1>16 DEF BaseInv, TypeOK, Keyed, KeyClass, InInvoke, InClone
  <2>2. /\ Len(key') = 1 /\ key'[1] \in Key /\ key'[1].original = key[1].original
        /\ key'[1].decl_class = meth.decl_class
    BY <1>0, <1>16, <2>1 DEF BaseInv, TypeOK, KeyClass, Key, Fields
  <2>3. TypeOK'
    BY <1>0, <1>16, <2>1, <2>2 DEF KeyClass, Goto, BaseInv, TypeOK, InInvoke, InClone, phone,
       hooker, clock
  <2>4. Keyed' /\ Classes'
    BY <1>0, <1>16, <2>1, <2>2 DEF KeyClass, Goto, BaseInv, TypeOK, Keyed, Classes, InInvoke,
       InClone, Hooking, phone, hooker, clock, Fields
  <2> QED
    BY <2>3, <2>4 DEF BaseInv
<1>17. ASSUME NEW c \in Callers, InvokeClone(c) PROVE BaseInv'
  <2>1. key # <<>> /\ key[1].original \in 1..Len(clones)
    BY <1>0, <1>17 DEF BaseInv, TypeOK, Keyed, InvokeClone, InInvoke
  <2> QED
    BY <1>0, <1>17, <2>1 DEF InvokeClone, Goto, BaseInv, TypeOK, Keyed, Classes, InInvoke,
       InClone, Hooking, phone, hooker, clock
<1>18. CASE UNCHANGED vars \/ Rest
  BY <1>0, <1>18, BoundsAssumption DEF Rest, vars, state, hooker, clock, thread, phone, BaseInv,
     TypeOK, Keyed, Classes, Hooking, InInvoke, InClone
<1> QED
  BY <1>1, <1>2, <1>3, <1>4, <1>5, <1>6, <1>7, <1>8, <1>9, <1>10, <1>11, <1>12, <1>13,
     <1>14, <1>15, <1>16, <1>17, <1>18 DEF Next, Step, Running, InvokeOriginal

\* ... holds at the start,
LEMMA InitBaseInv == Init => BaseInv
<1> SUFFICES ASSUME Init PROVE BaseInv
  OBVIOUS
<1>1. meth \in Fields /\ meth.decl_class = 0
  BY LoadedIsWhole DEF Init
<1>2. clones \in Seq(Fields) /\ Len(clones) = 0
  BY EmptySeq DEF Init
<1>3. TypeOK
  <2>1. 0 \in 0..Len(clones) /\ 0 \in 0..MaxEvents
    BY <1>2, BoundsAssumption
  <2>2. /\ pc \in [Callers ->
                  {"idle", "interp", "enter", "jni", "original", "crash"} \cup InInvoke]
        /\ target \in [Callers -> 0..Len(clones)] /\ mine \in [Callers -> 0..Len(clones)]
        /\ depth \in [Callers -> 0..2] /\ tested \in [Callers -> Nat]
    BY <2>1 DEF Init
  <2>3. moves \in Nat /\ events \in 0..MaxEvents /\ raced \in BOOLEAN /\ torn \in BOOLEAN
    BY <2>1 DEF Init
  <2> QED
    BY <1>1, <1>2, <2>2, <2>3 DEF Init, TypeOK
<1>4. Keyed /\ Classes
  BY <1>1 DEF Init, Keyed, Classes, Hooking, InInvoke, InClone
<1> QED
  BY <1>3, <1>4 DEF BaseInv

\* ... and always.
LEMMA BaseInvAlways == Spec => []BaseInv
<1>1. BaseInv /\ [Next]_vars => BaseInv'
  BY NextBaseInv
<1> QED
  BY InitBaseInv, <1>1, PTL DEF Spec

\* Every variable keeps its type.
THEOREM TypeCorrect == Spec => []TypeOK
<1>1. BaseInv => TypeOK
  BY DEF BaseInv
<1> QED
  BY <1>1, BaseInvAlways, PTL

-----------------------------------------------------------------------------
(***************************************************************************)
(* FreshInv.                                                               *)
(***************************************************************************)
\* The clone the key names, and its class, stay the same.
LEMMA SameOriginal ==
  ASSUME BaseInv, key' = key, key # <<>>,
         \A i \in 1..Len(clones) : clones'[i].decl_class = clones[i].decl_class
  PROVE  Original'.decl_class = Original.decl_class
  BY DEF BaseInv, TypeOK, Original

\* FreshInv is inductive.
LEMMA NextFreshInv ==
  ASSUME BaseInv, FreshInv, [Next]_vars, BaseInv'
  PROVE  FreshInv'
<1>0. moves \in Nat
  BY DEF BaseInv, TypeOK
<1>1. CASE HookBegin
  BY <1>1 DEF HookBegin, FreshInv, Original, phone, thread
<1>2. CASE Backup
  <2>1. CASE key # <<>>
    <3>1. Original'.decl_class = Original.decl_class
      BY <1>2, <2>1, BackupOne, SameOriginal
    <3> QED
      BY <1>2, <2>1, <3>1, BackupOne DEF FreshInv
  <2>2. CASE key = <<>>
    <3>1. Original'.decl_class = moves
      <4>1. meth \in Fields /\ meth.decl_class = moves
        BY DEF BaseInv, TypeOK, Classes
      <4>2. Clone.decl_class = moves
        BY <4>1, CloneIsCopy
      <4>3. Original' = Clone
        BY <1>2, <2>2, BackupOne DEF Original
      <4> QED
        BY <4>2, <4>3
    <3>2. key'[1].decl_class = moves
      BY <1>2, <2>2, BackupOne DEF BaseInv, Classes
    <3>3. \A c \in Callers : pc[c] \notin Restoring \cup {"load"}
      BY <2>2 DEF BaseInv, Keyed, Restoring, InInvoke, InClone
    <3> QED
      BY <1>0, <1>2, <3>1, <3>2, <3>3, BackupOne DEF FreshInv
  <2> QED
    BY <2>1, <2>2
<1>3. CASE HookFields
  BY <1>3, HookFieldsOne DEF FreshInv, Original
<1>4. CASE HookEnd
  BY <1>4 DEF HookEnd, FreshInv, Original, phone, thread, clock
<1>5. CASE Move
  <2>1. \A d \in Callers : pc[d] \notin Restoring
    BY <1>5 DEF Move, AtSafepoint, Restoring
  <2>2. moves' = moves + 1 /\ UNCHANGED <<key, clones, pc, tested>>
    BY <1>5 DEF Move, thread
  <2>3. key # <<>> => Original.decl_class \in Nat /\ key[1].decl_class \in Nat
    BY <1>0 DEF FreshInv, BaseInv, TypeOK, Key
  <2>4. \A d \in Callers : tested[d] \in Nat
    BY DEF BaseInv, TypeOK
  <2> QED
    BY <1>0, <2>1, <2>2, <2>3, <2>4 DEF FreshInv, Original
<1>6. ASSUME NEW c \in Callers, NEW l, pc' = [pc EXCEPT ![c] = l],
             l \notin Restoring \cup {"load"},
             UNCHANGED <<key, clones, moves>>,
             \A d \in Callers : tested'[d] \in {0, tested[d]}
      PROVE  FreshInv'
  <2>1. \A d \in Callers : pc'[d] = IF d = c THEN l ELSE pc[d]
    BY <1>6 DEF BaseInv, TypeOK
  <2>6. \A d \in Callers : tested[d] \in Nat
    BY DEF BaseInv, TypeOK
  <2>2. \A d \in Callers : tested[d] \in Nat /\ tested'[d] <= tested[d] /\ tested'[d] \in Nat
    BY <1>6, <2>6
  <2>3. key # <<>> => Original.decl_class \in Nat
    BY <1>0 DEF FreshInv, BaseInv, TypeOK, Key
  <2>4. Original' = Original
    BY <1>6 DEF Original
  <2>5. \A d \in Callers : pc[d] = "load" => key # <<>>
    BY DEF BaseInv, Keyed, InInvoke
  <2> QED
    BY <1>0, <1>6, <2>1, <2>2, <2>3, <2>4, <2>5 DEF FreshInv
<1>7. ASSUME NEW c \in Callers,
             \/ Call(c) \/ EnterInterpreted(c) \/ Enter(c) \/ JniBridge(c) \/ Return(c)
             \/ GetKey(c) \/ InvokeClone(c)
      PROVE  FreshInv'
  <2>1. /\ UNCHANGED <<key, clones, moves>>
        /\ tested' = tested \/ tested' = [tested EXCEPT ![c] = 0]
    BY <1>7 DEF Call, EnterInterpreted, Enter, JniBridge, Return, GetKey, InvokeClone,
       clock
  <2>2. \A d \in Callers : tested'[d] \in {0, tested[d]}
    BY <2>1 DEF BaseInv, TypeOK
  <2>3. Executed(c).jni \in Jni
    BY ExecutedIsMethod DEF BaseInv, Fields
  <2>4. \E l \in {"enter", "interp", "original", "crash", "jni", "getkey", "idle", "check"} :
          pc' = [pc EXCEPT ![c] = l]
    BY <1>7, <2>3 DEF Call, EnterInterpreted, Enter, JniBridge, Return, GetKey, InvokeClone,
       Goto, Jni
  <2> QED
    BY <1>6, <2>1, <2>2, <2>4 DEF Restoring
<1>12. ASSUME NEW c \in Callers, CheckMoved(c) PROVE FreshInv'
  <2>1. key # <<>> /\ key[1].decl_class \in Nat /\ meth.decl_class = moves
    BY <1>12 DEF CheckMoved, BaseInv, TypeOK, Keyed, Classes, InInvoke, Key
  <2>2. /\ pc'[c] \in {"load", "clone"}
        /\ pc'[c] = "load" => key[1].decl_class = moves
        /\ tested'[c] = moves
        /\ \A d \in Callers \ {c} : pc'[d] = pc[d] /\ tested'[d] = tested[d]
        /\ UNCHANGED <<key, clones, moves>>
    BY <1>12, <2>1 DEF CheckMoved, Goto, BaseInv, TypeOK, clock
  <2>3. Original' = Original /\ Original.decl_class \in Nat
    BY <1>0, <2>1, <2>2 DEF Original, FreshInv
  <2> QED
    BY <1>0, <2>1, <2>2, <2>3 DEF FreshInv, Restoring
<1>13. ASSUME NEW c \in Callers, CloneAgain(c) PROVE FreshInv'
  <2>1. key'[1].original = Len(clones) + 1 /\ key'[1].decl_class = key[1].decl_class
    BY <1>13, CloneAgainOne DEF Key
  <2>2. Original'.decl_class = moves
    BY <1>13, <2>1, CloneAgainOne, CloneIsCopy DEF Original, BaseInv, TypeOK, Classes
  <2>3. key[1].decl_class \in Nat /\ key[1].decl_class <= moves
    BY <1>13, CloneAgainOne DEF Key, BaseInv, Classes
  <2> QED
    BY <1>0, <1>13, <2>1, <2>2, <2>3, CloneAgainOne DEF FreshInv
<1>14. ASSUME NEW c \in Callers, Pick(c) PROVE FreshInv'
  <2>1. /\ pc[c] = "pick" /\ pc'[c] = "setquick"
        /\ \A d \in Callers \ {c} : pc'[d] = pc[d]
        /\ UNCHANGED <<key, clones, tested, moves>>
    BY <1>14 DEF Pick, Goto, BaseInv, TypeOK, clock
  <2> QED
    BY <2>1 DEF FreshInv, Original, Restoring
<1>15. ASSUME NEW c \in Callers, RestoreFields(c) PROVE FreshInv'
  <2>1. clones'[mine[c]].decl_class = clones[mine[c]].decl_class
    BY <1>15, RestoreFieldsOne DEF Fields
  <2>2. /\ key' = key /\ key # <<>>
        /\ \A i \in 1..Len(clones) : clones'[i].decl_class = clones[i].decl_class
    BY <1>15, <2>1, RestoreFieldsOne
  <2>3. Original'.decl_class = Original.decl_class
    BY <2>2, SameOriginal
  <2>4. /\ pc[c] \in Restoring /\ pc'[c] \in Restoring
        /\ \A d \in Callers \ {c} : pc'[d] = pc[d]
        /\ UNCHANGED <<key, tested, moves>>
    <3>1. pc[c] \in Restoring /\ \E l \in Restoring : pc' = [pc EXCEPT ![c] = l]
      BY <1>15, RestoreFieldsOne DEF Restoring
    <3> QED
      BY <1>15, <3>1, RestoreFieldsOne DEF BaseInv, TypeOK
  <2> QED
    BY <2>3, <2>4 DEF FreshInv, Restoring
<1>16. ASSUME NEW c \in Callers, KeyClass(c) PROVE FreshInv'
  <2>1. key # <<>> /\ key[1] \in Key
    BY <1>16 DEF BaseInv, TypeOK, Keyed, KeyClass, InInvoke, InClone
  <2>2. key'[1].original = key[1].original /\ key'[1].decl_class = moves
    BY <1>16, <2>1 DEF KeyClass, Key, BaseInv, Classes
  <2>3. /\ pc[c] = "setclass" /\ pc'[c] = "load"
        /\ \A d \in Callers \ {c} : pc'[d] = pc[d]
        /\ UNCHANGED <<clones, tested, moves>>
    BY <1>16 DEF KeyClass, Goto, BaseInv, TypeOK, clock
  <2>4. Original' = Original /\ Original.decl_class = moves
    BY <2>2, <2>3 DEF Original, FreshInv, Restoring
  <2> QED
    BY <1>0, <2>1, <2>2, <2>3, <2>4 DEF FreshInv
<1>18. CASE UNCHANGED vars \/ Rest
  BY <1>18 DEF Rest, vars, state, hooker, clock, thread, phone, FreshInv, Original
<1> QED
  BY <1>1, <1>2, <1>3, <1>4, <1>5, <1>7, <1>12, <1>13, <1>14, <1>15, <1>16, <1>18
  DEF Next, Step, Running, InvokeOriginal

\* InvokeOriginal never invokes a clone that is older than the class was at DealGCRoot's
\* test, whatever the other calls, Hook and the collector do in between.
THEOREM ClassIsFresh == Spec => InvokesFreshClass
<1>1. Init => FreshInv
  BY DEF Init, FreshInv, Restoring
<1>2. BaseInv /\ BaseInv' /\ FreshInv /\ [Next]_vars => FreshInv'
  BY NextFreshInv
<1>3. BaseInv /\ FreshInv /\ [Next]_vars =>
        [\A c \in Callers :
           InvokeClone(c) =>
             clones'[target'[c]].decl_class \in tested[c]..meth.decl_class]_vars
  <2> SUFFICES ASSUME BaseInv, FreshInv, NEW c \in Callers, InvokeClone(c)
               PROVE  clones'[target'[c]].decl_class \in tested[c]..meth.decl_class
    OBVIOUS
  <2>1. target'[c] = key[1].original /\ clones' = clones /\ pc[c] = "load" /\ key # <<>>
    BY DEF InvokeClone, BaseInv, TypeOK, Keyed, InInvoke
  <2>2. tested[c] \in Nat /\ meth.decl_class = moves /\ moves \in Nat
        /\ key[1].decl_class \in Nat
    BY <2>1 DEF BaseInv, TypeOK, Classes, Key
  <2> QED
    BY <2>1, <2>2 DEF FreshInv, Original
<1> QED
  BY <1>1, <1>2, <1>3, BaseInvAlways, PTL DEF Spec, InvokesFreshClass

-----------------------------------------------------------------------------
(***************************************************************************)
(* OnceInv.                                                                *)
(***************************************************************************)
\* Nobody has to do with the clone that a call restores but this call.
LEMMA OnlyOne ==
  ASSUME ~Racing, NEW c \in Callers, pc[c] \in Restoring, NEW d \in Callers, d # c
  PROVE  pc[d] \notin {"clone", "load"} \cup Restoring
  BY DEF Racing

\* What keeps the clones keeps which of them are the replacement.
LEMMA ClonesKept ==
  ASSUME BaseInv, \A i \in 1..Len(clones) : clones'[i] = clones[i]
  PROVE  /\ \A c \in Callers : target[c] # 0 => clones'[target[c]] = clones[target[c]]
         /\ key # <<>> => clones'[key[1].original] = clones[key[1].original]
<1>1. Len(clones) \in Nat
  BY LenProperties DEF BaseInv, TypeOK
<1> QED
  BY <1>1 DEF BaseInv, TypeOK

\* A step of one caller that is outside the restoring of a clone, before and after.
LEMMA OnceStep ==
  ASSUME BaseInv, OnceInv, ~Racing', NEW c \in Callers, NEW l, pc' = [pc EXCEPT ![c] = l],
         pc[c] \notin Restoring, l \notin Restoring,
         UNCHANGED <<key, meth, clones, mine>>,
         \A d \in Callers \ {c} : target'[d] = target[d] /\ depth'[d] = depth[d],
         depth'[c] <= 1,
         l \in {"idle", "interp"} => target'[c] = 0,
         l \in {"idle", "interp", "enter", "jni"} /\ target'[c] = 0 => depth'[c] = 0,
         l \in {"enter", "jni"} /\ target'[c] # 0 => clones[target'[c]].jni # "replace",
         \A d \in Callers \ {c} :
           l \in {"enter", "jni"} /\ pc[d] \in Restoring => target'[c] # key[1].original
  PROVE  OnceInv'
<1>1. \A d \in Callers : pc'[d] = IF d = c THEN l ELSE pc[d]
  BY DEF BaseInv, TypeOK
<1>2. JniOfKey' /\ Recloning'
  BY <1>1 DEF OnceInv, JniOfKey, Recloning, InClone, Restoring
<1>3. Away'
  BY <1>1 DEF OnceInv, Away
<1>4. Depths'
  BY <1>1 DEF OnceInv, Depths
<1>5. OriginalOnce'
  BY <1>1 DEF OnceInv, OriginalOnce, Original, Restoring
<1> QED
  BY <1>2, <1>3, <1>4, <1>5 DEF OnceInv

\* OnceInv is inductive as long as no two calls meet in DealGCRoot.
LEMMA NextOnceInv ==
  ASSUME BaseInv, OnceInv, ~Racing', [Next]_vars, BaseInv'
  PROVE  OnceInv'
<1>0. \A c \in Callers : pc[c] \in Restoring => key # <<>>
  BY DEF BaseInv, Keyed, Restoring, InInvoke, InClone
<1>1. CASE HookBegin
  BY <1>1 DEF HookBegin, OnceInv, JniOfKey, Recloning, Away, Depths, OriginalOnce,
     Original, thread
<1>2. CASE Backup
  <2>1. key' # <<>> /\ key'[1].jni # "replace"
    <3>1. CASE key = <<>>
      BY <1>2, <3>1, BackupOne DEF OnceInv, JniOfKey
    <3>2. CASE key # <<>>
      BY <1>2, <3>2, BackupOne DEF OnceInv, JniOfKey
    <3> QED
      BY <3>1, <3>2
  <2>2. \A c \in Callers : pc[c] \in Restoring => key' = key
    BY <1>0, <1>2, BackupOne
  <2>3. Recloning' /\ Away'
    BY <1>2, <2>2, BackupOne DEF OnceInv, Recloning, Away, InClone, Restoring
  <2>4. Depths'
    BY <1>2, BackupOne, ClonesKept DEF OnceInv, Depths
  <2>5. OriginalOnce'
    <3>1. CASE key = <<>>
      BY <1>2, <3>1, BackupOne, CloneIsCopy DEF BaseInv, TypeOK, OnceInv, JniOfKey,
         OriginalOnce, Original
    <3>2. CASE key # <<>>
      BY <1>2, <3>2, BackupOne, ClonesKept DEF OnceInv, OriginalOnce, Original
    <3> QED
      BY <3>1, <3>2
  <2> QED
    BY <2>1, <2>3, <2>4, <2>5 DEF OnceInv, JniOfKey
<1>3. CASE HookFields
  <2>1. key # <<>>
    BY <1>3, HookFieldsOne DEF BaseInv, Keyed, Hooking
  <2> QED
    BY <1>3, <2>1, HookFieldsOne DEF OnceInv, JniOfKey, Recloning, Away, Depths,
       OriginalOnce, Original
<1>4. CASE HookEnd
  BY <1>4 DEF HookEnd, OnceInv, JniOfKey, Recloning, Away, Depths, OriginalOnce,
     Original, thread
<1>5. CASE Move
  <2>1. meth'.jni = meth.jni /\ UNCHANGED <<key, clones, pc, target, mine, depth>>
    BY <1>5 DEF Move, thread, BaseInv, TypeOK, Fields
  <2> QED
    BY <2>1 DEF OnceInv, JniOfKey, Recloning, Away, Depths, OriginalOnce, Original
<1>6. ASSUME NEW c \in Callers, Call(c) PROVE OnceInv'
  <2>1. /\ pc[c] = "idle" /\ \E l \in {"enter", "interp"} : pc' = [pc EXCEPT ![c] = l]
        /\ UNCHANGED <<key, meth, clones, mine, target, depth>>
    BY <1>6 DEF Call, Goto
  <2>2. target[c] = 0 /\ depth[c] = 0
    BY <2>1 DEF OnceInv, Depths
  <2>3. \A d \in Callers : pc[d] \in Restoring => target[c] # key[1].original
    BY <1>0, <2>2 DEF BaseInv, TypeOK
  <2>4. PICK l \in {"enter", "interp", "original", "crash"} : pc' = [pc EXCEPT ![c] = l]
    BY <2>1
  <2>5. /\ pc[c] \notin Restoring /\ l \notin Restoring /\ depth'[c] <= 1
        /\ l \in {"idle", "interp"} => target'[c] = 0
        /\ l \in {"idle", "interp", "enter", "jni"} /\ target'[c] = 0 => depth'[c] = 0
        /\ l \in {"enter", "jni"} /\ target'[c] # 0 => clones[target'[c]].jni # "replace"
    BY <2>1, <2>2, <2>4 DEF Restoring
  <2> QED
    BY <2>1, <2>3, <2>4, <2>5, OnceStep
<1>7. ASSUME NEW c \in Callers, EnterInterpreted(c) PROVE OnceInv'
  <2>1. /\ pc[c] = "interp" /\ UNCHANGED <<key, meth, clones, mine, target, depth>>
        /\ \E l \in {"enter", "original", "crash"} : pc' = [pc EXCEPT ![c] = l]
    BY <1>7 DEF EnterInterpreted, Goto
  <2>2. target[c] = 0 /\ depth[c] = 0
    BY <2>1 DEF OnceInv, Depths
  <2>3. \A d \in Callers : pc[d] \in Restoring => target[c] # key[1].original
    BY <1>0, <2>2 DEF BaseInv, TypeOK
  <2>4. PICK l \in {"enter", "interp", "original", "crash"} : pc' = [pc EXCEPT ![c] = l]
    BY <2>1
  <2>5. /\ pc[c] \notin Restoring /\ l \notin Restoring /\ depth'[c] <= 1
        /\ l \in {"idle", "interp"} => target'[c] = 0
        /\ l \in {"idle", "interp", "enter", "jni"} /\ target'[c] = 0 => depth'[c] = 0
        /\ l \in {"enter", "jni"} /\ target'[c] # 0 => clones[target'[c]].jni # "replace"
    BY <2>1, <2>2, <2>4 DEF Restoring
  <2> QED
    BY <2>1, <2>3, <2>4, <2>5, OnceStep
<1>8. ASSUME NEW c \in Callers, Enter(c) PROVE OnceInv'
  <2>1. /\ pc[c] = "enter" /\ UNCHANGED <<key, meth, clones, mine, target, depth>>
        /\ \E l \in {"jni", "original", "crash"} : pc' = [pc EXCEPT ![c] = l]
    BY <1>8 DEF Enter, Goto
  <2>2. /\ depth[c] <= 1
        /\ target[c] = 0 => depth[c] = 0
        /\ target[c] # 0 => clones[target[c]].jni # "replace"
    BY <2>1 DEF OnceInv, Depths
  <2>3. \A d \in Callers : pc[d] \in Restoring => target[c] # key[1].original
    BY <2>1 DEF OnceInv, Away
  <2>4. PICK l \in {"jni", "original", "crash"} : pc' = [pc EXCEPT ![c] = l]
    BY <2>1
  <2>5. /\ pc[c] \notin Restoring /\ l \notin Restoring /\ depth'[c] <= 1
        /\ l \in {"idle", "interp"} => target'[c] = 0
        /\ l \in {"idle", "interp", "enter", "jni"} /\ target'[c] = 0 => depth'[c] = 0
        /\ l \in {"enter", "jni"} /\ target'[c] # 0 => clones[target'[c]].jni # "replace"
    BY <2>1, <2>2, <2>4 DEF Restoring
  <2> QED
    BY <2>1, <2>3, <2>4, <2>5, OnceStep
<1>9. ASSUME NEW c \in Callers, JniBridge(c) PROVE OnceInv'
  <2>1. Executed(c).jni \in Jni
    BY ExecutedIsMethod DEF BaseInv, Fields
  <2>2. PICK l \in {"getkey", "original", "crash"} : pc' = [pc EXCEPT ![c] = l]
    BY <1>9, <2>1 DEF JniBridge, Goto, Jni
  <2>3. pc[c] = "jni" /\ UNCHANGED <<key, meth, clones, target, mine>>
    BY <1>9 DEF JniBridge
  <2>5. Executed(c).jni = "replace" => depth[c] = 0
    BY <2>3 DEF OnceInv, Depths, Executed
  <2>6. depth'[c] <= 1 /\ \A d \in Callers \ {c} : depth'[d] = depth[d]
    BY <1>9, <2>5 DEF JniBridge, BaseInv, TypeOK, OnceInv, Depths
  <2>7. /\ pc[c] \notin Restoring /\ l \notin Restoring /\ depth'[c] <= 1
        /\ l \in {"idle", "interp"} => target'[c] = 0
        /\ l \in {"idle", "interp", "enter", "jni"} /\ target'[c] = 0 => depth'[c] = 0
        /\ l \in {"enter", "jni"} /\ target'[c] # 0 => clones[target'[c]].jni # "replace"
    BY <2>2, <2>3, <2>6 DEF Restoring
  <2>8. l \notin {"enter", "jni"}
    BY <2>2
  <2> QED
    BY <2>2, <2>3, <2>6, <2>7, <2>8, OnceStep
<1>10. ASSUME NEW c \in Callers, Return(c) PROVE OnceInv'
  <2>1. /\ pc[c] = "original" /\ pc' = [pc EXCEPT ![c] = "idle"]
        /\ UNCHANGED <<key, meth, clones, mine>>
        /\ target'[c] = 0 /\ depth'[c] = 0
        /\ \A d \in Callers \ {c} : target'[d] = target[d] /\ depth'[d] = depth[d]
    BY <1>10 DEF Return, Goto, BaseInv, TypeOK
  <2>2. PICK l \in {"idle"} : pc' = [pc EXCEPT ![c] = l]
    BY <2>1
  <2>3. pc[c] \notin Restoring /\ l \notin Restoring \cup {"enter", "jni"} /\ depth'[c] <= 1
    BY <2>1, <2>2 DEF Restoring
  <2> QED
    BY <2>1, <2>2, <2>3, OnceStep
<1>11. ASSUME NEW c \in Callers, GetKey(c) \/ CheckMoved(c) PROVE OnceInv'
  <2>1. /\ pc[c] \in {"getkey", "check"}
        /\ \E l \in {"crash", "check", "load", "clone"} : pc' = [pc EXCEPT ![c] = l]
        /\ UNCHANGED <<meth, clones, key, target, mine, depth>>
    BY <1>11 DEF GetKey, CheckMoved, Goto
  <2>2. depth[c] <= 1
    BY DEF OnceInv, Depths
  <2>3. PICK l \in {"crash", "check", "load", "clone"} : pc' = [pc EXCEPT ![c] = l]
    BY <2>1
  <2> QED
    BY <2>1, <2>2, <2>3, OnceStep DEF Restoring
<1>13. ASSUME NEW c \in Callers, CloneAgain(c) PROVE OnceInv'
  <2>1. key' # <<>> /\ key'[1].jni = key[1].jni /\ key'[1].original = Len(clones) + 1
        /\ key # <<>>
    BY <1>13, CloneAgainOne DEF Key
  <2>2. pc'[c] = "pick" /\ \A d \in Callers \ {c} : pc'[d] = pc[d]
    BY <1>13, CloneAgainOne DEF BaseInv, TypeOK
  <2>3. \A d \in Callers \ {c} : pc'[d] \notin Restoring
    BY <2>2 DEF Racing, Restoring
  <2>4. Depths'
    BY <1>13, <2>2, CloneAgainOne, ClonesKept DEF OnceInv, Depths
  <2>5. Recloning'
    BY <2>2, <2>3 DEF Recloning, Restoring, InClone
  <2>6. Away'
    <3>1. \A d \in Callers : target'[d] \in 0..Len(clones)
      BY <1>13, CloneAgainOne DEF BaseInv, TypeOK
    <3> QED
      BY <1>13, <2>1, <3>1, CloneAgainOne DEF Away
  <2>7. OriginalOnce'
    BY <2>2 DEF OriginalOnce
  <2>8. JniOfKey'
    BY <2>1 DEF OnceInv, JniOfKey
  <2> QED
    BY <2>4, <2>5, <2>6, <2>7, <2>8 DEF OnceInv
<1>14. ASSUME NEW c \in Callers, Pick(c) PROVE OnceInv'
  <2>1. /\ pc[c] = "pick" /\ pc'[c] = "setquick" /\ mine'[c] = key[1].original
        /\ \A d \in Callers \ {c} : pc'[d] = pc[d] /\ mine'[d] = mine[d]
        /\ UNCHANGED <<key, meth, clones, target, depth>>
    BY <1>14 DEF Pick, Goto, BaseInv, TypeOK
  <2>2. JniOfKey' /\ Recloning' /\ Away'
    BY <2>1 DEF OnceInv, JniOfKey, Recloning, Away, InClone, Restoring
  <2>3. Depths' /\ OriginalOnce'
    BY <2>1 DEF OnceInv, Depths, OriginalOnce
  <2> QED
    BY <2>2, <2>3 DEF OnceInv
<1>15. ASSUME NEW c \in Callers, RestoreFields(c) PROVE OnceInv'
  <2>0. /\ pc[c] \in InClone /\ pc'[c] \in InClone
        /\ \A d \in Callers \ {c} : pc'[d] = pc[d]
        /\ UNCHANGED <<key, meth, target, mine, depth>>
    <3>1. \E l \in InClone : pc' = [pc EXCEPT ![c] = l]
      BY <1>15, RestoreFieldsOne DEF InClone
    <3> QED
      BY <1>15, <3>1, RestoreFieldsOne DEF BaseInv, TypeOK, InClone
  <2>1. /\ pc[c] \in InClone /\ pc'[c] \in InClone /\ mine[c] = key[1].original
        /\ \A d \in Callers \ {c} : pc'[d] = pc[d]
        /\ UNCHANGED <<key, meth, target, mine, depth>>
    BY <2>0 DEF OnceInv, Recloning
  <2>2. \A d \in Callers \ {c} : pc[d] \notin Restoring
    BY <2>1, OnlyOne DEF OnceInv, InClone, Restoring
  <2>3. JniOfKey' /\ Recloning' /\ Away'
    BY <2>1 DEF OnceInv, JniOfKey, Recloning, Away, InClone, Restoring
  <2>4. Depths'
    <3>1. \A d \in Callers : pc'[d] \in {"enter", "jni"} /\ target[d] # 0 =>
            pc[d] = pc'[d] /\ target[d] # mine[c] /\ target[d] \in 1..Len(clones)
      BY <2>1 DEF OnceInv, Away, BaseInv, TypeOK, InClone, Restoring
    <3>2. \A d \in Callers : pc'[d] \in {"enter", "jni"} /\ target[d] # 0 =>
            clones'[target[d]] = clones[target[d]]
      BY <1>15, <3>1, RestoreFieldsOne
    <3> QED
      BY <2>1, <3>1, <3>2 DEF OnceInv, Depths, InClone
  <2>5. OriginalOnce'
    <3>1. CASE pc'[c] = "setjni"
      BY <3>1 DEF OriginalOnce
    <3>2. CASE pc[c] = "setjni"
      <4>1. clones'[mine[c]].jni = key[1].jni
        <5>1. clones[mine[c]] \in Fields
              /\ clones'[mine[c]] = [clones[mine[c]] EXCEPT !.jni = key[1].jni]
          BY <1>15, <3>2, RestoreFieldsOne
        <5> QED
          BY <5>1 DEF Fields
      <4> QED
        BY <1>15, <2>1, <4>1, RestoreFieldsOne DEF OriginalOnce, Original, OnceInv, JniOfKey
    <3>3. CASE pc[c] = "setdex"
      <4>1. clones'[mine[c]].jni = clones[mine[c]].jni
        <5>1. clones[mine[c]] \in Fields
              /\ clones'[mine[c]] = [clones[mine[c]] EXCEPT !.dex = key[1].dex]
          BY <1>15, <3>3, RestoreFieldsOne
        <5> QED
          BY <5>1 DEF Fields
      <4>2. \A d \in Callers : pc[d] \notin {"pick", "setquick", "setjni"}
        BY <2>2, <3>3 DEF Restoring
      <4> QED
        BY <2>1, <4>1, <4>2 DEF OriginalOnce, Original, OnceInv
    <3> QED
      BY <1>15, <3>1, <3>2, <3>3, RestoreFieldsOne DEF BaseInv, TypeOK
  <2> QED
    BY <2>3, <2>4, <2>5 DEF OnceInv
<1>16. ASSUME NEW c \in Callers, KeyClass(c) PROVE OnceInv'
  <2>1. key # <<>> /\ key[1] \in Key
    BY <1>16 DEF BaseInv, TypeOK, Keyed, KeyClass, InInvoke, InClone
  <2>2. key' # <<>> /\ key'[1].original = key[1].original /\ key'[1].jni = key[1].jni
    BY <1>16, <2>1 DEF KeyClass, Key
  <2>3. /\ pc[c] = "setclass" /\ pc'[c] = "load"
        /\ \A d \in Callers \ {c} : pc'[d] = pc[d] /\ mine'[d] = mine[d]
        /\ UNCHANGED <<meth, clones, target, depth>>
    BY <1>16 DEF KeyClass, Goto, BaseInv, TypeOK
  <2>4. JniOfKey' /\ Recloning' /\ Away'
    BY <2>1, <2>2, <2>3 DEF OnceInv, JniOfKey, Recloning, Away, InClone, Restoring
  <2>5. Depths' /\ OriginalOnce'
    BY <2>1, <2>2, <2>3 DEF OnceInv, Depths, OriginalOnce, Original
  <2> QED
    BY <2>4, <2>5 DEF OnceInv
<1>17. ASSUME NEW c \in Callers, InvokeClone(c) PROVE OnceInv'
  <2>1. key # <<>> /\ key[1].original \in 1..Len(clones)
    BY <1>17 DEF BaseInv, TypeOK, Keyed, InvokeClone, InInvoke
  <2>2. /\ pc[c] = "load" /\ pc' = [pc EXCEPT ![c] = "enter"]
        /\ target'[c] = key[1].original
        /\ \A d \in Callers \ {c} : target'[d] = target[d]
        /\ UNCHANGED <<key, meth, clones, mine, depth>>
    BY <1>17 DEF InvokeClone, Goto, hooker, phone, BaseInv, TypeOK
  <2>3. \A d \in Callers : pc[d] \notin Restoring
    BY <2>2, OnlyOne DEF OnceInv, Restoring
  <2>4. Original.jni # "replace"
    BY <2>1, <2>3 DEF OnceInv, OriginalOnce, Restoring
  <2>5. depth[c] <= 1 /\ target'[c] # 0 /\ pc[c] \notin Restoring
    BY <2>1, <2>2 DEF OnceInv, Depths, Restoring
  <2>6. clones[target'[c]].jni # "replace"
    BY <2>2, <2>4 DEF Original
  <2>7. "enter" \notin Restoring
    BY DEF Restoring
  <2> QED
    BY <2>2, <2>3, <2>5, <2>6, <2>7, OnceStep
<1>18. CASE UNCHANGED vars \/ Rest
  BY <1>18 DEF Rest, vars, state, hooker, clock, thread, phone, OnceInv, JniOfKey,
     Recloning, Away, Depths, OriginalOnce, Original
<1> QED
  BY <1>1, <1>2, <1>3, <1>4, <1>5, <1>6, <1>7, <1>8, <1>9, <1>10, <1>11, <1>13,
     <1>14, <1>15, <1>16, <1>17, <1>18 DEF Next, Step, Running, InvokeOriginal

\* OnceInv holds at the start.
LEMMA InitOnceInv == Init => OnceInv
<1> SUFFICES ASSUME Init PROVE OnceInv
  OBVIOUS
<1>1. ~Racing /\ JniOfKey /\ OriginalOnce
  BY LoadedIsWhole DEF Init, Racing, JniOfKey, OriginalOnce, Restoring
<1>2. Recloning /\ Away /\ Depths
  BY DEF Init, Recloning, Away, Depths, Restoring, InClone
<1> QED
  BY <1>1, <1>2 DEF OnceInv

\* A meeting of two calls in DealGCRoot is not forgotten.
LEMMA RacingIsSeen ==
  ASSUME [Next]_vars, ~raced', ~raced => ~Racing
  PROVE  ~raced /\ ~Racing'
<1>1. CASE Next
  BY <1>1 DEF Next
<1>2. CASE UNCHANGED vars
  BY <1>2 DEF vars, state, thread, Racing
<1> QED
  BY <1>1, <1>2

\* A call runs the replacement once: what InvokeOriginal invokes, the first clone or
\* one made again after the class moved, never leads to the replacement again, until
\* two calls have met in DealGCRoot.
THEOREM OnceOnly == Spec => []ReplacementRunsOnce
<1> DEFINE Inv == ~raced => OnceInv
<1>1. Init => Inv
  BY InitOnceInv
<1>2. BaseInv /\ BaseInv' /\ Inv /\ [Next]_vars => Inv'
  <2> SUFFICES ASSUME BaseInv, BaseInv', Inv, [Next]_vars, ~raced' PROVE OnceInv'
    OBVIOUS
  <2>1. ~raced /\ ~Racing'
    BY RacingIsSeen DEF OnceInv
  <2> QED
    BY <2>1, NextOnceInv
<1>3. Inv => ReplacementRunsOnce
  BY DEF OnceInv, Depths, ReplacementRunsOnce
<1> QED
  BY <1>1, <1>2, <1>3, BaseInvAlways, PTL DEF Spec

-----------------------------------------------------------------------------
(***************************************************************************)
(* WholeInv.                                                               *)
(***************************************************************************)
SafeInv == BaseInv /\ OnceInv /\ WholeInv

\* While Hook does not write, a method is whole, or leads to the replacement and has a
\* backup.
LEMMA MethodIsWhole ==
  ASSUME BaseInv, HookedFields, hpc \notin Writing
  PROVE  /\ meth.quick = "interpreter" => meth.dex
         /\ meth.quick = "jni" => meth.jni = "original" \/ (meth.jni = "replace" /\ key # <<>>)
         /\ version = "M" => meth.interp = "quick" \/ meth.dex
<1>1. CASE key = <<>>
  <2>1. /\ Whole(Loaded(kind)) /\ Loaded(kind).interp \in Interp
        /\ Loaded(kind).interp = "interpreter" => Loaded(kind).dex
    BY LoadedIsWhole DEF BaseInv, TypeOK, Fields
  <2> QED
    BY <1>1, <2>1 DEF HookedFields, Whole, Interp
<1>2. CASE key # <<>>
  BY <1>2 DEF HookedFields, Writing
<1> QED
  BY <1>1, <1>2

\* No caller makes a step while the world is stopped.
LEMMA CallersWait ==
  ASSUME Stopped, NEW c \in Callers,
         \/ Call(c) \/ EnterInterpreted(c) \/ Enter(c) \/ JniBridge(c) \/ Return(c)
         \/ InvokeOriginal(c)
  PROVE  ~suspended
  BY DEF Stopped, AtSafepoint, MayRun, Call, EnterInterpreted, Enter, JniBridge, Return,
     InvokeOriginal, GetKey, CheckMoved, CloneAgain, Pick, RestoreFields, RestoreField,
     KeyClass,
     InvokeClone

\* No caller goes by the fields of the method while Hook writes them.
LEMMA ReadersApart ==
  ASSUME WholeInv, NEW c \in Callers, pc[c] \in {"interp", "enter", "jni"}, target[c] = 0,
         EnterInterpreted(c) \/ Enter(c) \/ JniBridge(c)
  PROVE  hpc \notin Writing
<1>1. ~suspended
  BY CallersWait DEF WholeInv
<1>2. hpc \in Writing => ~suspends
  BY <1>1 DEF WholeInv, Stopped, Writing
<1> QED
  BY <1>2 DEF WholeInv, Torn

\* A step of a caller that changes nothing but where it is and what it holds.
LEMMA OnlyMoves ==
  ASSUME SafeInv, ~Torn', NEW c \in Callers, ~suspended, NEW l, pc' = [pc EXCEPT ![c] = l],
         l \notin {"interp", "jni", "crash", "setjni", "setdex", "setclass"},
         l = "getkey" => key # <<>>,
         l = "enter" => target'[c] = 0,
         pc[c] \in Restoring \ {"setclass"} => l \in Restoring \ {"setclass"},
         UNCHANGED <<version, suspends, kind, meth, clones, key, hpc, suspended>>,
         \A d \in Callers \ {c} : mine'[d] = mine[d] /\ target'[d] = target[d]
  PROVE  WholeInv'
<1> USE DEF SafeInv, WholeInv
<1>1. pc \in [Callers ->
                  {"idle", "interp", "enter", "jni", "original", "crash"} \cup InInvoke]
  BY DEF BaseInv, TypeOK
<1>2. Stopped' /\ HookedFields'
  BY DEF Stopped, HookedFields
<1>3. Restored'
  BY <1>1 DEF Restored
<1>4. Executing'
  BY <1>1 DEF Executing, Executed
<1>5. OriginalWhole'
  BY <1>1 DEF OriginalWhole, Original
<1> QED
  BY <1>2, <1>3, <1>4, <1>5

\* WholeInv is inductive where the interpreter of M has its bridge, until Hook writes
\* while a call reads or two calls meet in DealGCRoot.
LEMMA NextWholeInv ==
  ASSUME version = "M" => InterpreterToCompiled,
         SafeInv, ~Torn', [Next]_vars, BaseInv', OnceInv'
  PROVE  WholeInv'
<1>1. CASE HookBegin
  <2>1. hpc = "idle" /\ hpc' = "backup" /\ suspended' = suspends
        /\ (suspends => \A c \in Callers : AtSafepoint(c))
    BY <1>1 DEF HookBegin
  <2>2. UNCHANGED <<version, suspends, kind, meth, clones, key, pc, target, mine>>
    BY <1>1 DEF HookBegin, phone, thread
  <2>3. Stopped'
    BY <2>1, <2>2 DEF Stopped, AtSafepoint
  <2> QED
    BY <2>1, <2>2, <2>3 DEF SafeInv, WholeInv, HookedFields, Restored, Executing,
       Executed, OriginalWhole, Original
<1>2. CASE Backup
  <2>1. Stopped'
    BY <1>2, BackupOne DEF SafeInv, WholeInv, Stopped, AtSafepoint
  <2>2. Restored'
    <3>1. \A c \in Callers : pc[c] \in InClone =>
            key' = key /\ clones'[mine[c]] = clones[mine[c]]
      BY <1>2, BackupOne DEF SafeInv, BaseInv, Keyed, InInvoke, InClone
    <3> QED
      BY <1>2, <3>1, BackupOne DEF SafeInv, WholeInv, Restored, InClone
  <2>3. Executing'
    BY <1>2, BackupOne, ClonesKept DEF SafeInv, WholeInv, Executing, Executed
  <2>4. CASE key = <<>>
    <3>1. /\ key' # <<>> /\ key'[1].original = Len(clones) + 1
          /\ key'[1].dex = meth.dex /\ key'[1].quick = meth.quick /\ key'[1].jni = meth.jni
      <4>1. key' = <<[decl_class |-> meth.decl_class, dex |-> meth.dex, quick |-> meth.quick,
                      jni |-> meth.jni, original |-> Len(clones) + 1]>>
        BY <1>2, <2>4, BackupOne DEF SafeInv
      <4>2. key' # <<>> /\ key'[1].original = Len(clones) + 1
        BY <4>1
      <4>3. key'[1].dex = meth.dex /\ key'[1].quick = meth.quick /\ key'[1].jni = meth.jni
        BY <4>1
      <4> QED
        BY <4>2, <4>3
    <3>2. HookedFields'
      BY <1>2, <2>4, <3>1, BackupOne DEF SafeInv, WholeInv, HookedFields
    <3>3. Whole(Clone)
      <4>1. Whole(Loaded(kind)) /\ (~Loaded(kind).native => Loaded(kind).dex)
        BY LoadedIsWhole DEF SafeInv, BaseInv, TypeOK
      <4>2. Whole(meth) /\ (~meth.native => meth.dex)
        BY <2>4, <4>1 DEF SafeInv, WholeInv, HookedFields, Whole
      <4> QED
        BY <4>2, CloneIsCopy DEF SafeInv, BaseInv, TypeOK, Whole
    <3>4. OriginalWhole'
      BY <1>2, <3>1, <3>3, BackupOne DEF SafeInv, OriginalWhole, Original, Whole
    <3> QED
      BY <2>1, <2>2, <2>3, <3>2, <3>4 DEF WholeInv
  <2>5. CASE key # <<>>
    <3>1. HookedFields'
      BY <1>2, <2>5, BackupOne DEF SafeInv, WholeInv, HookedFields
    <3>2. OriginalWhole'
      BY <1>2, <2>5, BackupOne, ClonesKept DEF SafeInv, WholeInv, OriginalWhole,
         Original, Whole
    <3> QED
      BY <2>1, <2>2, <2>3, <3>1, <3>2 DEF WholeInv
  <2> QED
    BY <2>4, <2>5
<1>3. CASE HookFields
  <2>1. hpc # "idle" /\ hpc' # "idle" /\ key # <<>> /\ meth \in Fields
    BY <1>3, HookFieldsOne DEF SafeInv, BaseInv, TypeOK, Keyed, Hooking
  <2>2. Stopped'
    BY <1>3, <2>1, HookFieldsOne DEF SafeInv, WholeInv, Stopped, AtSafepoint
  <2>6. meth'.quick \in {meth.quick, "jni"}
    BY <1>3, <2>1, HookFieldsOne DEF SafeInv, Fields
  <2>3. Restored' /\ Executing' /\ OriginalWhole'
    BY <1>3, <2>6, HookFieldsOne DEF SafeInv, WholeInv, Restored, Executing, Executed,
       OriginalWhole, Original
  <2>5. HookedFields'
    <3>1. UNCHANGED <<key, kind, version>>
      BY <1>3, HookFieldsOne DEF SafeInv
    <3>2. CASE hpc = "dex" /\ hpc' = "flags" /\ meth' = [meth EXCEPT !.dex = FALSE]
      BY <2>1, <3>1, <3>2 DEF SafeInv, WholeInv, HookedFields, Fields
    <3>3. CASE hpc = "flags" /\ hpc' = "quick" /\ meth' = [meth EXCEPT !.native = TRUE]
      BY <2>1, <3>1, <3>3 DEF SafeInv, WholeInv, HookedFields, Fields
    <3>4. CASE hpc = "quick" /\ hpc' = "interp" /\ meth' = [meth EXCEPT !.quick = "jni"]
      BY <2>1, <3>1, <3>4 DEF SafeInv, WholeInv, HookedFields, Fields
    <3>5. CASE /\ hpc = "interp" /\ hpc' = "jni"
               /\ meth' = [meth EXCEPT !.interp = IF version = "M" /\ InterpreterToCompiled
                                                  THEN "quick" ELSE meth.interp]
      BY <2>1, <3>1, <3>5 DEF SafeInv, WholeInv, HookedFields, Fields
    <3>6. CASE hpc = "jni" /\ hpc' = "resume" /\ meth' = [meth EXCEPT !.jni = "replace"]
      BY <2>1, <3>1, <3>6 DEF SafeInv, WholeInv, HookedFields, Fields
    <3> QED
      BY <1>3, <3>2, <3>3, <3>4, <3>5, <3>6, HookFieldsOne DEF SafeInv
  <2> QED
    BY <2>2, <2>3, <2>5 DEF WholeInv
<1>4. CASE HookEnd
  BY <1>4 DEF HookEnd, BaseInv, TypeOK, SafeInv, WholeInv, Stopped, HookedFields,
     Restored, Executing, OriginalWhole, Original, Executed, phone, hooker, clock, thread
<1>5. CASE Move
  <2>1. \A c \in Callers : AtSafepoint(c)
    BY <1>5 DEF Move
  <2>2. /\ meth'.dex = meth.dex /\ meth'.native = meth.native /\ meth'.quick = meth.quick
        /\ meth'.jni = meth.jni /\ meth'.interp = meth.interp
    BY <1>5 DEF Move, SafeInv, BaseInv, TypeOK, Fields
  <2>3. UNCHANGED <<version, suspends, kind, clones, key, hpc, suspended, pc, target, mine>>
    BY <1>5 DEF Move, phone, hooker, clock, thread
  <2>4. Stopped' /\ HookedFields'
    BY <2>2, <2>3 DEF SafeInv, WholeInv, Stopped, HookedFields, AtSafepoint
  <2> QED
    BY <2>1, <2>3, <2>4 DEF SafeInv, WholeInv, Restored, Executing, Executed,
       OriginalWhole, Original, AtSafepoint
<1>6. ASSUME NEW c \in Callers, Call(c) PROVE WholeInv'
  <2>1. ~suspended
    BY <1>6, CallersWait DEF SafeInv, WholeInv
  <2>2. \E l \in {"enter", "interp"} :
          pc' = [pc EXCEPT ![c] = l] /\ (l = "interp" => version = "M")
    BY <1>6 DEF Call, Goto
  <2>3. /\ pc[c] = "idle" /\ target[c] = 0
        /\ UNCHANGED <<version, suspends, kind, meth, clones, key, hpc, suspended, mine,
                       target>>
    BY <1>6 DEF Call, phone, hooker, clock, SafeInv, OnceInv, Depths
  <2>4. Stopped' /\ HookedFields'
    BY <2>1, <2>2, <2>3 DEF SafeInv, WholeInv, Stopped, HookedFields
  <2>7. pc = [d \in Callers |-> pc[d]]
    BY DEF SafeInv, BaseInv, TypeOK
  <2>8. pc'[c] \in {"enter", "interp"} /\ \A d \in Callers \ {c} : pc'[d] = pc[d]
    BY <2>2, <2>7
  <2>5. Restored' /\ OriginalWhole'
    <3>1. Restored'
      BY <2>3, <2>8 DEF SafeInv, WholeInv, Restored
    <3>2. OriginalWhole'
      BY <2>3, <2>8 DEF SafeInv, WholeInv, OriginalWhole, Original, Restoring
    <3> QED
      BY <3>1, <3>2
  <2>6. Executing'
    BY <2>2, <2>3 DEF SafeInv, WholeInv, BaseInv, TypeOK, Executing, Executed
  <2> QED
    BY <2>4, <2>5, <2>6 DEF WholeInv
<1>7. ASSUME NEW c \in Callers, EnterInterpreted(c) PROVE WholeInv'
  <2>1. ~suspended
    BY <1>7, CallersWait DEF SafeInv, WholeInv
  <2>2. /\ pc[c] = "interp" /\ version = "M" /\ target[c] = 0
        /\ UNCHANGED <<version, suspends, kind, meth, clones, key, hpc, suspended, target,
                       mine>>
    BY <1>7 DEF EnterInterpreted, phone, hooker, clock, SafeInv, WholeInv, Executing, OnceInv,
       Depths
  <2>4. hpc \notin Writing
    BY <1>7, <2>2, ReadersApart DEF SafeInv
  <2>3. PICK l \in {"enter", "original"} : pc' = [pc EXCEPT ![c] = l]
    BY <1>7, <2>2, <2>4, MethodIsWhole DEF EnterInterpreted, Goto, SafeInv, WholeInv
  <2> QED
    BY <2>1, <2>2, <2>3, OnlyMoves DEF Restoring
<1>8. ASSUME NEW c \in Callers, Enter(c) PROVE WholeInv'
  <2>1. ~suspended
    BY <1>8, CallersWait DEF SafeInv, WholeInv
  <2>2. /\ pc[c] = "enter"
        /\ UNCHANGED <<version, suspends, kind, meth, clones, key, hpc, suspended, target,
                       mine>>
    BY <1>8 DEF Enter, phone, hooker, clock
  <2>6. target[c] = 0 => hpc \notin Writing
    BY <1>8, <2>2, ReadersApart DEF SafeInv
  <2>3. Executed(c).quick = "interpreter" => Executed(c).dex
    BY <2>2, <2>6, MethodIsWhole DEF SafeInv, WholeInv, Executing, Executed, Whole
  <2>4. CASE Executed(c).quick # "jni"
    <3>1. pc' = [pc EXCEPT ![c] = "original"]
      BY <1>8, <2>3, <2>4 DEF Enter, Goto
    <3> QED
      BY <2>1, <2>2, <3>1, OnlyMoves DEF Restoring
  <2>5. CASE Executed(c).quick = "jni"
    <3>1. pc' = [pc EXCEPT ![c] = "jni"]
      BY <1>8, <2>5 DEF Enter, Goto
    <3>2. Stopped' /\ HookedFields'
      BY <2>1, <2>2 DEF SafeInv, WholeInv, Stopped, HookedFields
    <3>3. Restored' /\ OriginalWhole'
      BY <2>2, <3>1 DEF SafeInv, WholeInv, BaseInv, TypeOK, Restored, OriginalWhole,
         Original, Restoring
    <3>4. Executing'
      BY <2>2, <2>5, <3>1 DEF SafeInv, WholeInv, BaseInv, TypeOK, Executing, Executed
    <3> QED
      BY <3>2, <3>3, <3>4 DEF WholeInv
  <2> QED
    BY <2>4, <2>5
<1>9. ASSUME NEW c \in Callers, JniBridge(c) PROVE WholeInv'
  <2>1. ~suspended
    BY <1>9, CallersWait DEF SafeInv, WholeInv
  <2>2. /\ pc[c] = "jni"
        /\ UNCHANGED <<version, suspends, kind, meth, clones, key, hpc, suspended, target,
                       mine>>
    BY <1>9 DEF JniBridge, phone, hooker, clock
  <2>3. Executed(c).quick = "jni"
    BY <2>2 DEF SafeInv, WholeInv, Executing
  <2>6. target[c] = 0 => hpc \notin Writing
    BY <1>9, <2>2, ReadersApart DEF SafeInv
  <2>4. Executed(c).jni = "original" \/ (Executed(c).jni = "replace" /\ key # <<>>)
    BY <2>2, <2>3, <2>6, MethodIsWhole DEF SafeInv, WholeInv, Executing, Executed, Whole
  <2>5. \E l \in {"original", "getkey"} :
          pc' = [pc EXCEPT ![c] = l] /\ (l = "getkey" => key # <<>>)
    BY <1>9, <2>4 DEF JniBridge, Goto
  <2> QED
    BY <2>1, <2>2, <2>5, OnlyMoves DEF Restoring
<1>10. ASSUME NEW c \in Callers, Return(c) PROVE WholeInv'
  <2>1. ~suspended
    BY <1>10, CallersWait DEF SafeInv, WholeInv
  <2>2. /\ pc[c] = "original" /\ pc' = [pc EXCEPT ![c] = "idle"]
        /\ UNCHANGED <<version, suspends, kind, meth, clones, key, hpc, suspended, mine>>
        /\ \A d \in Callers \ {c} : target'[d] = target[d]
    BY <1>10 DEF Return, Goto, phone, hooker, SafeInv, BaseInv, TypeOK
  <2> QED
    BY <2>1, <2>2, OnlyMoves DEF Restoring
<1>11. ASSUME NEW c \in Callers, GetKey(c) PROVE WholeInv'
  <2>1. ~suspended
    BY <1>11, CallersWait DEF SafeInv, WholeInv, InvokeOriginal
  <2>2. /\ pc[c] = "getkey"
        /\ UNCHANGED <<version, suspends, kind, meth, clones, key, hpc, suspended, target,
                       mine>>
    BY <1>11 DEF GetKey, phone, hooker, clock
  <2>3. pc' = [pc EXCEPT ![c] = "check"]
    BY <1>11, <2>2 DEF GetKey, Goto, SafeInv, WholeInv, Executing
  <2> QED
    BY <2>1, <2>2, <2>3, OnlyMoves DEF Restoring
<1>12. ASSUME NEW c \in Callers, CheckMoved(c) PROVE WholeInv'
  <2>1. ~suspended
    BY <1>12, CallersWait DEF SafeInv, WholeInv, InvokeOriginal
  <2>2. /\ pc[c] = "check"
        /\ UNCHANGED <<version, suspends, kind, meth, clones, key, hpc, suspended, target,
                       mine>>
    BY <1>12 DEF CheckMoved, phone, hooker, clock
  <2>3. \E l \in {"load", "clone"} : pc' = [pc EXCEPT ![c] = l]
    BY <1>12 DEF CheckMoved, Goto
  <2> QED
    BY <2>1, <2>2, <2>3, OnlyMoves DEF Restoring
<1>13. ASSUME NEW c \in Callers, CloneAgain(c) PROVE WholeInv'
  <2>1. ~suspended
    BY <1>13, CallersWait DEF SafeInv, WholeInv, InvokeOriginal
  <2>2. /\ key' # <<>> /\ key # <<>> /\ key'[1].dex = key[1].dex /\ key'[1].quick = key[1].quick
        /\ key'[1].jni = key[1].jni
    BY <1>13, CloneAgainOne DEF SafeInv, Key
  <2>3. /\ pc[c] = "clone" /\ pc' = [pc EXCEPT ![c] = "pick"]
        /\ UNCHANGED <<version, suspends, kind, meth, hpc, suspended, target, mine>>
    BY <1>13, CloneAgainOne DEF SafeInv
  <2>4. pc'[c] = "pick" /\ \A d \in Callers \ {c} : pc'[d] = pc[d]
    BY <2>3 DEF SafeInv, BaseInv, TypeOK
  <2>5. \A d \in Callers : pc'[d] \notin InClone
    BY <2>4 DEF OnceInv, Racing, Restoring, InClone
  <2>6. Stopped' /\ HookedFields'
    BY <2>1, <2>2, <2>3 DEF SafeInv, WholeInv, Stopped, HookedFields
  <2>7. Restored' /\ OriginalWhole'
    BY <2>4, <2>5 DEF Restored, OriginalWhole, Restoring, InClone
  <2>8. Executing'
    BY <1>13, <2>2, <2>3, <2>4, CloneAgainOne, ClonesKept
    DEF SafeInv, WholeInv, Executing, Executed
  <2> QED
    BY <2>6, <2>7, <2>8 DEF WholeInv
<1>14. ASSUME NEW c \in Callers, Pick(c) PROVE WholeInv'
  <2>1. ~suspended
    BY <1>14, CallersWait DEF SafeInv, WholeInv, InvokeOriginal
  <2>2. /\ pc[c] = "pick" /\ pc' = [pc EXCEPT ![c] = "setquick"]
        /\ UNCHANGED <<version, suspends, kind, meth, clones, key, hpc, suspended, target>>
        /\ \A d \in Callers \ {c} : mine'[d] = mine[d] /\ target'[d] = target[d]
    BY <1>14 DEF Pick, Goto, phone, hooker, clock, SafeInv, BaseInv, TypeOK
  <2> QED
    BY <2>1, <2>2, OnlyMoves DEF Restoring
<1>15. ASSUME NEW c \in Callers, RestoreFields(c) PROVE WholeInv'
  <2>1. ~suspended
    BY <1>15, CallersWait DEF SafeInv, WholeInv, InvokeOriginal
  <2>2. /\ pc[c] \in InClone /\ mine[c] = key[1].original
        /\ UNCHANGED <<version, suspends, kind, meth, key, hpc, suspended, target, mine>>
        /\ key # <<>> /\ key[1] \in Key /\ clones[mine[c]] \in Fields
    BY <1>15, RestoreFieldsOne DEF SafeInv, OnceInv, Recloning, InClone
  <2>3. PICK l \in {"setjni", "setdex", "setclass"} : pc' = [pc EXCEPT ![c] = l]
    BY <1>15, RestoreFieldsOne DEF SafeInv
  <2>4. \A d \in Callers : pc'[d] = IF d = c THEN l ELSE pc[d]
    BY <2>3 DEF SafeInv, BaseInv, TypeOK
  <2>5. \A d \in Callers \ {c} : pc'[d] \notin Restoring
    BY <2>2, <2>4, OnlyOne DEF SafeInv, OnceInv, InClone, Restoring
  <2>6. Stopped' /\ HookedFields'
    BY <2>1, <2>2 DEF SafeInv, WholeInv, Stopped, HookedFields
  <2>7. Executing'
    <3>1. \A d \in Callers : pc'[d] \in {"enter", "jni"} /\ target[d] # 0 =>
            d # c /\ target[d] # mine[c] /\ target[d] \in 1..Len(clones)
      BY <2>2, <2>3, <2>4 DEF SafeInv, OnceInv, Away, BaseInv, TypeOK, InClone, Restoring
    <3>2. \A d \in Callers : pc'[d] \in {"enter", "jni"} /\ target[d] # 0 =>
            clones'[target[d]] = clones[target[d]]
      BY <1>15, <3>1, RestoreFieldsOne DEF SafeInv
    <3> QED
      BY <2>2, <2>3, <2>4, <3>1, <3>2 DEF SafeInv, WholeInv, Executing, Executed
  <2>8. CASE /\ pc[c] = "setquick" /\ pc' = [pc EXCEPT ![c] = "setjni"]
             /\ clones'[mine[c]] = [clones[mine[c]] EXCEPT !.quick = key[1].quick]
    <3>1. pc'[c] = "setjni" /\ clones'[mine[c]].quick = key[1].quick
      BY <2>2, <2>8 DEF SafeInv, BaseInv, TypeOK, Fields
    <3> QED
      BY <2>2, <2>5, <2>6, <2>7, <3>1 DEF WholeInv, Restored, OriginalWhole, Restoring
  <2>9. CASE /\ pc[c] = "setjni" /\ pc' = [pc EXCEPT ![c] = "setdex"]
             /\ clones'[mine[c]] = [clones[mine[c]] EXCEPT !.jni = key[1].jni]
    <3>1. pc'[c] = "setdex" /\ clones'[mine[c]].jni = key[1].jni
          /\ clones'[mine[c]].quick = clones[mine[c]].quick
      BY <2>2, <2>9 DEF SafeInv, BaseInv, TypeOK, Fields
    <3>2. clones[mine[c]].quick = key[1].quick
      BY <2>9 DEF SafeInv, WholeInv, Restored
    <3> QED
      BY <2>2, <2>5, <2>6, <2>7, <3>1, <3>2 DEF WholeInv, Restored, OriginalWhole, Restoring
  <2>10. CASE /\ pc[c] = "setdex" /\ pc' = [pc EXCEPT ![c] = "setclass"]
              /\ clones'[mine[c]] = [clones[mine[c]] EXCEPT !.dex = key[1].dex]
    <3>1. pc'[c] = "setclass" /\ clones'[mine[c]].dex = key[1].dex
          /\ clones'[mine[c]].quick = clones[mine[c]].quick
          /\ clones'[mine[c]].jni = clones[mine[c]].jni
      BY <2>2, <2>10 DEF SafeInv, BaseInv, TypeOK, Fields
    <3>2. clones[mine[c]].quick = key[1].quick /\ clones[mine[c]].jni = key[1].jni
      BY <2>10 DEF SafeInv, WholeInv, Restored
    <3>4. Whole(Loaded(kind))
      BY LoadedIsWhole DEF SafeInv, BaseInv, TypeOK
    <3>5. OriginalWhole'
      BY <2>2, <3>1, <3>2, <3>4 DEF SafeInv, WholeInv, HookedFields, Whole,
         OriginalWhole, Original
    <3>6. Restored'
      BY <2>2, <2>5, <3>1, <3>2 DEF Restored, Restoring
    <3> QED
      BY <2>6, <2>7, <3>5, <3>6 DEF WholeInv
  <2> QED
    BY <1>15, <2>8, <2>9, <2>10, RestoreFieldsOne DEF SafeInv
<1>16. ASSUME NEW c \in Callers, KeyClass(c) PROVE WholeInv'
  <2>1. ~suspended
    BY <1>16, CallersWait DEF SafeInv, WholeInv, InvokeOriginal
  <2>2. key # <<>> /\ key[1] \in Key
    BY <1>16 DEF SafeInv, BaseInv, TypeOK, Keyed, KeyClass, InInvoke, InClone
  <2>3. /\ key' # <<>> /\ key'[1].original = key[1].original /\ key'[1].jni = key[1].jni
        /\ key'[1].quick = key[1].quick /\ key'[1].dex = key[1].dex
    BY <1>16, <2>2 DEF KeyClass, Key
  <2>4. /\ pc[c] = "setclass" /\ pc' = [pc EXCEPT ![c] = "load"]
        /\ UNCHANGED <<version, suspends, kind, meth, clones, hpc, suspended, target>>
    BY <1>16 DEF KeyClass, Goto, phone, hooker
  <2>5. /\ pc'[c] = "load"
        /\ \A d \in Callers \ {c} : pc[d] \notin Restoring /\ pc'[d] = pc[d]
    BY <2>4, OnlyOne DEF SafeInv, OnceInv, Restoring, BaseInv, TypeOK
  <2>6. Stopped' /\ HookedFields'
    BY <2>1, <2>2, <2>3, <2>4 DEF SafeInv, WholeInv, Stopped, HookedFields
  <2>7. Restored' /\ Executing'
    BY <2>2, <2>3, <2>4, <2>5 DEF SafeInv, WholeInv, Restored, Executing, Executed, Restoring
  <2>8. OriginalWhole'
    BY <2>2, <2>3, <2>4, <2>5 DEF SafeInv, WholeInv, OriginalWhole, Original, Restoring
  <2> QED
    BY <2>6, <2>7, <2>8 DEF WholeInv
<1>17. ASSUME NEW c \in Callers, InvokeClone(c) PROVE WholeInv'
  <2>1. ~suspended
    BY <1>17, CallersWait DEF SafeInv, WholeInv, InvokeOriginal
  <2>2. key # <<>> /\ key[1].original \in 1..Len(clones)
    BY <1>17 DEF SafeInv, BaseInv, TypeOK, Keyed, InvokeClone, InInvoke
  <2>3. /\ pc[c] = "load" /\ pc' = [pc EXCEPT ![c] = "enter"]
        /\ target' = [target EXCEPT ![c] = key[1].original]
        /\ UNCHANGED <<version, suspends, kind, meth, clones, key, hpc, suspended, mine>>
    BY <1>17 DEF InvokeClone, Goto, hooker, clock, phone
  <2>4. \A d \in Callers : pc[d] \notin Restoring
    BY <2>3, OnlyOne DEF SafeInv, OnceInv, Restoring
  <2>5. Whole(Original)
    BY <2>2, <2>4 DEF SafeInv, WholeInv, OriginalWhole
  <2>6. Stopped' /\ HookedFields'
    BY <2>1, <2>3 DEF SafeInv, WholeInv, Stopped, HookedFields
  <2>7. Restored' /\ OriginalWhole'
    BY <2>3 DEF SafeInv, WholeInv, BaseInv, TypeOK, Restored, OriginalWhole, Original,
       Restoring
  <2>8. Executing'
    BY <2>3, <2>5 DEF SafeInv, WholeInv, BaseInv, TypeOK, Executing, Executed, Original
  <2> QED
    BY <2>6, <2>7, <2>8 DEF WholeInv
<1>18. CASE UNCHANGED vars \/ Rest
  <2>1. UNCHANGED <<version, suspends, kind, meth, clones, key, hpc, suspended, pc, target,
                    mine>>
    BY <1>18 DEF Rest, vars, state, hooker, clock, thread, phone
  <2>2. Stopped' /\ HookedFields'
    BY <2>1 DEF SafeInv, WholeInv, Stopped, HookedFields, AtSafepoint
  <2>3. Restored' /\ Executing' /\ OriginalWhole'
    BY <2>1 DEF SafeInv, WholeInv, Restored, Executing, Executed, OriginalWhole, Original
  <2> QED
    BY <2>2, <2>3 DEF WholeInv
<1> QED
  BY <1>1, <1>2, <1>3, <1>4, <1>5, <1>6, <1>7, <1>8, <1>9, <1>10, <1>11, <1>12, <1>13,
     <1>14, <1>15, <1>16, <1>17, <1>18 DEF Next, Step, Running, InvokeOriginal

\* What Hook wrote while a call read is not forgotten.
LEMMA TornIsSeen ==
  ASSUME [Next]_vars, ~torn', ~torn => ~Torn
  PROVE  ~torn /\ ~Torn'
<1>1. CASE Next
  BY <1>1 DEF Next
<1>2. CASE UNCHANGED vars
  BY <1>2 DEF vars, state, phone, hooker, thread, Torn
<1> QED
  BY <1>1, <1>2

\* No call meets a half-hooked method, where the interpreter of M has its bridge, until
\* two calls have met in DealGCRoot or Hook, without SuspendVM, wrote while one read.
THEOREM HookIsWhole == Spec => []NoHalfHookedCall
<1> DEFINE Bridged == version = "M" => InterpreterToCompiled
           Inv == /\ BaseInv
                  /\ ~raced => OnceInv
                  /\ ~torn => ~Torn
                  /\ ~raced /\ ~torn /\ Bridged => WholeInv
<1>1. Init => Inv
  <2> SUFFICES ASSUME Init PROVE ~Torn /\ WholeInv
    BY InitBaseInv, InitOnceInv
  <2>1. ~Torn /\ Stopped /\ HookedFields
    BY DEF Init, Torn, Stopped, HookedFields, Writing
  <2>2. Restored /\ Executing /\ OriginalWhole
    BY DEF Init, Restored, Executing, OriginalWhole
  <2> QED
    BY <2>1, <2>2 DEF WholeInv
<1>2. Inv /\ [Next]_vars => Inv'
  <2> SUFFICES ASSUME Inv, [Next]_vars PROVE Inv'
    OBVIOUS
  <2>1. BaseInv'
    BY NextBaseInv
  <2>2. ~raced' => ~raced /\ ~Racing'
    BY RacingIsSeen DEF OnceInv
  <2>3. ~raced' => OnceInv'
    BY <2>1, <2>2, NextOnceInv
  <2>4. ~torn' => ~torn /\ ~Torn'
    BY TornIsSeen
  <2>5. ASSUME ~raced', ~torn', Bridged' PROVE WholeInv'
    <3>1. version' = version
      BY DEF Next, Step, Running, Rest, HookBegin, Backup, HookFields, HookField, HookEnd,
         Move, Call, EnterInterpreted, Enter, JniBridge, Return, InvokeOriginal, GetKey,
         CheckMoved, CloneAgain, Pick, RestoreFields, RestoreField, KeyClass, InvokeClone,
         vars, state, phone
    <3> QED
      BY <2>1, <2>2, <2>3, <2>4, <2>5, <3>1, NextWholeInv DEF SafeInv
  <2> QED
    BY <2>1, <2>3, <2>4, <2>5
<1>3. Inv => NoHalfHookedCall
  BY DEF WholeInv, Executing, NoHalfHookedCall
<1> QED
  BY <1>1, <1>2, <1>3, PTL DEF Spec

=============================================================================
