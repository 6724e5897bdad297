--------------------------- MODULE XhRefresh_proofs ---------------------------
(***************************************************************************)
(* What one refresh after another does, for every set of files, addresses, *)
(* hooks and ignores.                                                      *)
(*                                                                         *)
(* Two inductive invariants.  WalkInv adds to the types that the trees are *)
(* finite, that the new one is empty between refreshes, and where the walk *)
(* stands; it carries the bookkeeping of items.  HookInv adds what the     *)
(* loop of hook_impl has done so far, and which items are still the lines  *)
(* of maps they were made from; it carries what the slots hold.  Neither   *)
(* asks anything of the files that come and go while maps is read.         *)
(***************************************************************************)
EXTENDS XhRefresh, FiniteSetTheorems, SequenceTheorems, TLAPS

\* A mapping names its file.
Named(m) == m = NoMapping \/ m.path \in Paths

FilesNamed == \A b \in Bases : Named(at[b]) /\ Named(snap[b])

\* Between two refreshes the new tree is empty (refresh_impl moves it into the old
\* one, lines 443-462), and hook_impl leaves nothing to hook.
Rests == (pc = "idle" => refreshed = {}) /\ (pc # "hook" => todo = <<>>)

\* The walk is at a line that names a file, from the moment it matched.
AtLine == pc \in {"find", "hook"} => pos \in Bases /\ snap[pos].path \in Paths

TreesFinite == IsFiniteSet(map_info) /\ IsFiniteSet(refreshed)

WalkInv == TypeOK /\ FilesNamed /\ Rests /\ AtLine /\ TreesFinite /\ OneItemPerPath /\ NoLeak

-----------------------------------------------------------------------------
\* Only a refresh leaves "idle", and it sets inited (line 569 ff.): hooks are
\* registered before the first one.
Fresh == ~inited => pc = "idle" /\ complete = {}

\* The queue is left to walk from some hook on.
TodoIsRest ==
  /\ Len(todo) <= Len(hook_info)
  /\ \A n \in 1..Len(todo) : todo[n] = hook_info[n + Len(hook_info) - Len(todo)]

\* The items of the new tree are lines of maps that have been read.
Listed ==
  pc # "idle" => \A mi \in refreshed : mi.base <= pos /\ snap[mi.base].path = mi.path

\* The file being hooked has an item in the new tree and is not complete.
BeingHooked ==
  pc = "hook" => Here.path \notin complete /\ [path |-> Here.path, base |-> pos] \in refreshed

\* The first l hooks of the queue have gone into the slots of file p at b.
Hooked(p, b, l) ==
  \A n \in 1..l :
    LET h == hook_info[n] IN
    Wanted(h, p) /\ (\A k \in (n + 1)..l : hook_info[k].sym # h.sym)
      => slot[b][h.sym] = h.new

\* ... as far as the loop of hook_impl has come.
HookedSoFar ==
  pc = "hook" /\ pos \notin anew => Hooked(Here.path, pos, Len(hook_info) - Len(todo))

\* An item that may be carried over as it is: the walk has not come to its base, or
\* found its file there.
Current(mi) == pc = "idle" \/ mi.base > pos \/ snap[mi.base].path = mi.path

\* ... all of them where such an item says so, in either tree.
ItemsHooked ==
  \A mi \in map_info \cup refreshed :
    mi.path \in complete /\ mi.base \notin anew /\ Current(mi) =>
      Hooked(mi.path, mi.base, Len(hook_info))

\* A slot leads to the original or to a hook on its symbol.
SlotsKnown ==
  \A b \in Bases, s \in Syms :
    slot[b][s] = Original \/ \E h \in Hooks : h.sym = s /\ slot[b][s] = h.new

OldsKnown == \A h \in Hooks : old[h] \in {Original, NoFunc}

SlotInv == WalkInv /\ Fresh /\ TodoIsRest /\ Listed /\ BeingHooked
HookInv == SlotInv /\ HookedSoFar /\ ItemsHooked

-----------------------------------------------------------------------------
(***************************************************************************)
(* The items.                                                              *)
(***************************************************************************)
\* The initial state is in the invariant.
LEMMA InitWalkInv == Init => WalkInv
<1> SUFFICES ASSUME Init PROVE WalkInv
  OBVIOUS
<1>1. TypeOK
  <2>1. /\ hook_info \in Seq(Hooks) /\ ignore_info \in Seq(Ignores) /\ todo \in Seq(Hooks)
    BY DEF Init
  <2>2. snap \in [Bases -> Mappings] /\ at \in [Bases -> Mappings]
    BY DEF Init, Mappings, NoMapping, Kinds
  <2>3. slot \in [Bases -> [Syms -> Funcs]] /\ old \in [Hooks -> Funcs \cup {NoFunc}]
    BY DEF Init, Funcs
  <2>4. /\ inited \in BOOLEAN /\ pos \in Bases \cup {0} /\ complete \subseteq Paths
        /\ anew \subseteq Bases
        /\ map_info \subseteq Items /\ refreshed \subseteq Items /\ items \in Nat
        /\ pc \in {"idle", "line", "find", "hook"}
    BY DEF Init
  <2>5. refreshes \in 0..MaxRefreshes /\ loads \in 0..MaxLoads
    BY BoundsAssumption DEF Init
  <2> QED
    BY <2>1, <2>2, <2>3, <2>4, <2>5 DEF TypeOK
<1>2. FilesNamed /\ Rests /\ AtLine
  BY DEF Init, FilesNamed, Named, Rests, AtLine
<1>3. TreesFinite /\ OneItemPerPath /\ NoLeak
  BY FS_EmptySet DEF Init, TreesFinite, OneItemPerPath, NoLeak
<1> QED
  BY <1>1, <1>2, <1>3 DEF WalkInv

\* A non-empty set of naturals has a least element: the library's well-founded
\* induction, for <.
LEMMA LeastNatural ==
  ASSUME NEW S \in SUBSET Nat, S # {} PROVE \E m \in S : \A k \in S : m <= k
<1>1. PICK m \in S : \A k \in S : <<k, m>> \notin OpToRel(<, Nat)
  BY NatLessThanWellFounded, WFMin
<1>2. \A k \in S : m <= k
  <2> SUFFICES ASSUME NEW k \in S PROVE m <= k
    OBVIOUS
  <2>1. k < m => <<k, m>> \in OpToRel(<, Nat)
    BY DEF OpToRel
  <2>2. ~(k < m)
    BY <1>1, <2>1, Zenon
  <2> QED
    BY <2>2
<1> QED
  BY <1>2

\* fgets reads the lines in the order of their addresses.
LEMMA NextLine ==
  ASSUME LinesAfter(pos) # {}
  PROVE  (CHOOSE b \in LinesAfter(pos) : \A c \in LinesAfter(pos) : b <= c)
           \in LinesAfter(pos)
<1>1. LinesAfter(pos) \subseteq Nat
  BY BasesAssumption DEF LinesAfter
<1>2. \E b \in LinesAfter(pos) : \A c \in LinesAfter(pos) : b <= c
  BY <1>1, LeastNatural
<1> QED
  BY <1>2

\* Registering, mapping and unmapping leave the trees alone.
LEMMA OutsideKeepsWalk ==
  ASSUME WalkInv,
         \/ \E h \in Hooks : Register(h)
         \/ \E i \in Ignores : Ignore(i)
         \/ \E b \in Bases, m \in Mappings : Map(b, m)
         \/ \E b \in Bases : Unmap(b)
  PROVE  WalkInv'
<1> USE DEF WalkInv, queues, trees, file, memory
<1>1. TypeOK'
  <2>1. ASSUME NEW h \in Hooks, Register(h) PROVE TypeOK'
    BY <2>1 DEF Register, TypeOK
  <2>2. ASSUME NEW i \in Ignores, Ignore(i) PROVE TypeOK'
    BY <2>2 DEF Ignore, TypeOK
  <2>3. ASSUME NEW b \in Bases, NEW m \in Mappings, Map(b, m) PROVE TypeOK'
    <3>1. slot' \in [Bases -> [Syms -> Funcs]]
      BY <2>3 DEF Map, TypeOK, Funcs
    <3> QED
      BY <2>3, <3>1, BoundsAssumption DEF Map, TypeOK
  <2>4. ASSUME NEW b \in Bases, Unmap(b) PROVE TypeOK'
    BY <2>4 DEF Unmap, TypeOK, NoMapping, Mappings, Kinds
  <2> QED
    BY <2>1, <2>2, <2>3, <2>4
<1>2. FilesNamed'
  BY DEF Register, Ignore, Map, Unmap, FilesNamed, Named, TypeOK, Mappings
<1>3. /\ Rests' /\ AtLine' /\ TreesFinite' /\ OneItemPerPath' /\ NoLeak'
  BY DEF Register, Ignore, Map, Unmap, Rests, AtLine, TreesFinite, OneItemPerPath, NoLeak
<1> QED
  BY <1>1, <1>2, <1>3

\* clear frees the old tree; the new one is empty.
LEMMA ClearKeepsWalk == ASSUME WalkInv, Clear PROVE WalkInv'
<1> USE DEF WalkInv, Clear, file, memory
<1>1. items' = Cardinality(refreshed)
  BY FS_CardinalityType DEF TypeOK, TreesFinite, NoLeak
<1>2. TypeOK'
  <2>1. hook_info' \in Seq(Hooks) /\ ignore_info' \in Seq(Ignores)
    OBVIOUS
  <2> QED
    BY <1>1, <2>1, FS_CardinalityType DEF TypeOK, TreesFinite
<1>3. FilesNamed' /\ Rests' /\ AtLine' /\ OneItemPerPath'
  BY DEF FilesNamed, Rests, AtLine, OneItemPerPath
<1>4. TreesFinite' /\ NoLeak'
  BY <1>1, FS_EmptySet, FS_CardinalityType DEF TreesFinite, NoLeak
<1> QED
  BY <1>2, <1>3, <1>4

\* Opening the file, filling the buffer and reading a line.
LEMMA ReadKeepsWalk == ASSUME WalkInv, Open \/ Refill \/ Line PROVE WalkInv'
<1> USE DEF WalkInv, queues, trees, file, memory
<1>1. CASE Open
  <2>1. TypeOK'
    BY <1>1, BoundsAssumption DEF Open, TypeOK
  <2>2. FilesNamed' /\ Rests' /\ AtLine' /\ OneItemPerPath'
    BY <1>1 DEF Open, FilesNamed, Rests, AtLine, OneItemPerPath
  <2>3. refreshed' = refreshed
    BY <1>1 DEF Open, Rests
  <2>4. TreesFinite' /\ NoLeak'
    BY <1>1, <2>3 DEF Open, TreesFinite, NoLeak
  <2> QED
    BY <2>1, <2>2, <2>4
<1>2. CASE Line
  <2>1. PICK b \in LinesAfter(pos) : TRUE
    BY <1>2 DEF Line
  <2>2. pos' \in LinesAfter(pos)
    BY <1>2, NextLine DEF Line, TypeOK
  <2>3. pos' \in Bases /\ snap[pos'].path \in Paths
    BY <2>2 DEF LinesAfter, FilesNamed, Named
  <2>4. TypeOK'
    BY <1>2, <2>3 DEF Line, TypeOK
  <2>5. /\ FilesNamed' /\ Rests' /\ AtLine' /\ TreesFinite' /\ OneItemPerPath' /\ NoLeak'
    BY <1>2, <2>3
       DEF Line, FilesNamed, Rests, AtLine, TreesFinite, OneItemPerPath, NoLeak
  <2> QED
    BY <2>4, <2>5
<1>3. CASE Refill
  <2>1. snap' \in [Bases -> Mappings]
    BY <1>3 DEF Refill, TypeOK
  <2>2. TypeOK'
    BY <1>3, <2>1 DEF Refill, TypeOK
  <2>3. FilesNamed'
    BY <1>3 DEF Refill, FilesNamed
  <2>4. Rests' /\ AtLine' /\ TreesFinite' /\ OneItemPerPath' /\ NoLeak'
    BY <1>3 DEF Refill, Rests, AtLine, TreesFinite, OneItemPerPath, NoLeak
  <2> QED
    BY <2>2, <2>3, <2>4
<1> QED
  BY <1>1, <1>2, <1>3

\* What may be found in the tree is there.
LEMMA ItemFound ==
  ASSUME NEW tree, NEW p \in PathsOf(tree)
  PROVE  ItemOf(tree, p) \in tree /\ ItemOf(tree, p).path = p
BY DEF PathsOf, ItemOf

\* The line's item leaves the old tree or is made, and goes into the new one.
LEMMA FindKeepsWalk == ASSUME WalkInv, Find PROVE WalkInv'
<1> USE DEF WalkInv, queues, file, memory
<1> DEFINE p == Here.path  new == [path |-> p, base |-> pos]
<1>1. pos \in Bases /\ p \in Paths /\ new \in Items
  BY DEF Find, AtLine, Here, Items
<1>2. FilesNamed' /\ AtLine'
  BY DEF Find, Update, Create, BeginHook, FilesNamed, AtLine
<1>3. Rests'
  BY DEF Find, Update, Create, BeginHook, Rests
<1>4. IsFiniteSet(refreshed) /\ Cardinality(refreshed) \in Nat
  BY FS_CardinalityType DEF TreesFinite
<1>5. IsFiniteSet(map_info) /\ Cardinality(map_info) \in Nat
  BY FS_CardinalityType DEF TreesFinite
<1>6. IsFiniteSet(refreshed \cup {new})
  BY <1>4, FS_AddElement
<1>7. p \notin PathsOf(refreshed) =>
        Cardinality(refreshed \cup {new}) = Cardinality(refreshed) + 1
  <2>1. p \notin PathsOf(refreshed) => new \notin refreshed
    BY DEF PathsOf
  <2> QED
    BY <1>4, <2>1, FS_AddElement
<1>8. CASE p \in PathsOf(map_info)
  <2> DEFINE mi == ItemOf(map_info, p)
  <2>1. mi \in map_info /\ mi.path = p
    BY <1>8, ItemFound
  <2>2. p \notin PathsOf(refreshed)
    BY <2>1 DEF PathsOf, OneItemPerPath
  <2> HIDE DEF mi, p
  <2>3. /\ map_info' = map_info \ {mi} /\ refreshed' = refreshed \cup {new}
        /\ items' = items
    BY <1>8, <2>2 DEF Find, Update, BeginHook, p, mi
  <2>4. /\ IsFiniteSet(map_info \ {mi})
        /\ Cardinality(map_info \ {mi}) = Cardinality(map_info) - 1
    BY <1>5, <2>1, FS_RemoveElement
  <2>5. TypeOK'
    BY <1>1, <1>8, <2>3 DEF Find, Update, BeginHook, TypeOK, p
  <2>6. TreesFinite'
    BY <1>6, <2>3, <2>4 DEF TreesFinite
  <2>7. NoLeak'
    BY <1>4, <1>5, <1>7, <2>2, <2>3, <2>4 DEF NoLeak
  <2>8. OneItemPerPath'
    BY <2>1, <2>2, <2>3 DEF OneItemPerPath, PathsOf
  <2> QED
    BY <1>2, <1>3, <2>5, <2>6, <2>7, <2>8
<1>9. CASE p \notin PathsOf(map_info)
  <2>1. Create /\ map_info' = map_info
    BY <1>9 DEF Find, Create
  <2>2. CASE refreshed' = refreshed /\ items' = items
    <3>1. TypeOK'
      BY <2>1, <2>2 DEF Find, Create, BeginHook, TypeOK
    <3>2. TreesFinite' /\ NoLeak' /\ OneItemPerPath'
      BY <2>1, <2>2 DEF TreesFinite, NoLeak, OneItemPerPath
    <3> QED
      BY <1>2, <1>3, <3>1, <3>2
  <2>3. CASE /\ p \notin PathsOf(refreshed)
             /\ refreshed' = refreshed \cup {new} /\ items' = items + 1
    <3>1. TypeOK'
      BY <1>1, <2>1, <2>3 DEF Find, Create, BeginHook, TypeOK
    <3>2. TreesFinite'
      BY <1>6, <2>1, <2>3 DEF TreesFinite
    <3>3. NoLeak'
      BY <1>4, <1>5, <1>7, <2>1, <2>3 DEF NoLeak
    <3>4. OneItemPerPath'
      BY <1>9, <2>1, <2>3 DEF OneItemPerPath, PathsOf
    <3> QED
      BY <1>2, <1>3, <3>1, <3>2, <3>3, <3>4
  <2> QED
    BY <2>1, <2>2, <2>3 DEF Create
<1> QED
  BY <1>8, <1>9

\* hook_impl writes slots and *old_func only.
LEMMA ReplaceType ==
  ASSUME TypeOK, NEW b \in Bases, NEW h \in Hooks, Replace(b, h) \/ UNCHANGED memory
  PROVE  slot' \in [Bases -> [Syms -> Funcs]] /\ old' \in [Hooks -> Funcs \cup {NoFunc}]
<1>1. h.sym \in Syms /\ h.new \in Funcs
  BY HooksAssumption DEF Funcs
<1>2. slot[b][h.sym] \in Funcs
  BY <1>1 DEF TypeOK
<1>3. CASE slot' = slot /\ old' = old
  BY <1>3 DEF TypeOK
<1>4. CASE /\ old' = [old EXCEPT ![h] = slot[b][h.sym]]
           /\ slot' = [slot EXCEPT ![b][h.sym] = h.new]
  <2>1. slot[b] \in [Syms -> Funcs] /\ [slot[b] EXCEPT ![h.sym] = h.new] \in [Syms -> Funcs]
    BY <1>1 DEF TypeOK
  <2>2. slot' \in [Bases -> [Syms -> Funcs]]
    BY <1>4, <2>1 DEF TypeOK
  <2>3. old' \in [Hooks -> Funcs \cup {NoFunc}]
    BY <1>2, <1>4 DEF TypeOK
  <2> QED
    BY <2>2, <2>3
<1> QED
  BY <1>3, <1>4 DEF Replace, memory

\* The loop of hook_impl and its ends.
LEMMA HookKeepsWalk ==
  ASSUME WalkInv, HookNext \/ HookDone \/ HookAbandoned PROVE WalkInv'
<1> USE DEF WalkInv, queues, trees, file
<1>1. /\ FilesNamed' /\ AtLine' /\ TreesFinite' /\ OneItemPerPath' /\ NoLeak'
  BY DEF HookNext, HookDone, HookAbandoned, FilesNamed, AtLine, TreesFinite,
     OneItemPerPath, NoLeak
<1>2. Rests'
  BY DEF HookNext, HookDone, HookAbandoned, Rests
<1>3. pc = "hook" /\ pos \in Bases /\ Here.path \in Paths
  BY DEF HookNext, HookDone, HookAbandoned, AtLine, Here
<1>4. CASE HookNext
  <2>1. Head(todo) \in Hooks /\ Tail(todo) \in Seq(Hooks) /\ <<>> \in Seq(Hooks)
    BY <1>4, HeadTailProperties DEF HookNext, TypeOK
  <2>2. todo' \in Seq(Hooks)
    BY <1>4, <2>1 DEF HookNext
  <2>3. slot' \in [Bases -> [Syms -> Funcs]] /\ old' \in [Hooks -> Funcs \cup {NoFunc}]
    BY <1>3, <1>4, <2>1, ReplaceType DEF HookNext
  <2>4. TypeOK'
    BY <1>4, <2>2, <2>3 DEF HookNext, TypeOK
  <2> QED
    BY <1>1, <1>2, <2>4
<1>5. CASE HookDone
  <2>1. TypeOK'
    BY <1>3, <1>5 DEF HookDone, TypeOK, memory
  <2> QED
    BY <1>1, <1>2, <2>1
<1>6. CASE HookAbandoned
  <2>1. todo' \in Seq(Hooks)
    BY <1>6 DEF HookAbandoned
  <2>2. TypeOK'
    BY <1>6, <2>1 DEF HookAbandoned, TypeOK, memory
  <2> QED
    BY <1>1, <1>2, <2>2
<1> QED
  BY <1>4, <1>5, <1>6

\* What is left in the old tree is freed; the new one takes its place.
LEMMA DoneKeepsWalk == ASSUME WalkInv, Done PROVE WalkInv'
<1> USE DEF WalkInv, Done, queues, file, memory
<1>1. items' = Cardinality(refreshed) /\ Cardinality(refreshed) \in Nat
  BY FS_CardinalityType DEF TypeOK, TreesFinite, NoLeak
<1>2. TypeOK'
  BY <1>1 DEF TypeOK
<1>3. FilesNamed' /\ AtLine' /\ OneItemPerPath'
  BY DEF FilesNamed, AtLine, OneItemPerPath
<1>4. TreesFinite' /\ NoLeak'
  BY <1>1, FS_EmptySet DEF TreesFinite, NoLeak
<1>5. Rests'
  BY DEF Rests
<1> QED
  BY <1>2, <1>3, <1>4, <1>5

\* WalkInv is inductive.
LEMMA NextWalkInv == WalkInv /\ [Next]_vars => WalkInv'
<1>1. ASSUME WalkInv, UNCHANGED vars PROVE WalkInv'
  BY <1>1 DEF vars, queues, trees, file, memory, WalkInv, TypeOK, FilesNamed, Rests,
     AtLine, TreesFinite, OneItemPerPath, NoLeak
<1> QED
  BY <1>1, OutsideKeepsWalk, ClearKeepsWalk, ReadKeepsWalk, FindKeepsWalk, HookKeepsWalk,
     DoneKeepsWalk DEF Next, RefreshStep

\* The invariant of the walk holds at every reachable state.
LEMMA WalkInvAlways == Spec => []WalkInv
<1>1. Init => WalkInv
  BY InitWalkInv
<1>2. WalkInv /\ [Next]_vars => WalkInv'
  BY NextWalkInv
<1> QED
  BY <1>1, <1>2, PTL DEF Spec

\* Every variable keeps its type.
THEOREM TypeCorrect == Spec => []TypeOK
<1>1. WalkInv => TypeOK
  BY DEF WalkInv
<1> QED
  BY <1>1, WalkInvAlways, PTL

\* No path has two items, whatever the maps file lists and however often.
THEOREM OneItem == Spec => []OneItemPerPath
<1>1. WalkInv => OneItemPerPath
  BY DEF WalkInv
<1> QED
  BY <1>1, WalkInvAlways, PTL

\* No item is lost and none is freed twice.
THEOREM ItemsAccounted == Spec => []NoLeak
<1>1. WalkInv => NoLeak
  BY DEF WalkInv
<1> QED
  BY <1>1, WalkInvAlways, PTL

-----------------------------------------------------------------------------
(***************************************************************************)
(* The loop of hook_impl.                                                  *)
(***************************************************************************)
\* The queue does not change during a walk, and a walk's file is hooked once.
LEMMA NextSlotInv == SlotInv /\ [Next]_vars => SlotInv'
<1> SUFFICES ASSUME SlotInv, [Next]_vars PROVE SlotInv'
  OBVIOUS
<1>1. WalkInv /\ WalkInv'
  BY NextWalkInv DEF SlotInv
<1> USE DEF SlotInv, queues, trees, file, memory
<1>2. todo = <<>> => Len(todo) = 0
  OBVIOUS
<1>3. CASE pc = "idle" /\ pc' = "idle"
  <2>1. Fresh'
    BY <1>3 DEF Next, RefreshStep, Register, Ignore, Clear, Map, Unmap, Open, Refill,
       Line, Find, HookNext, HookDone, HookAbandoned, Done, Fresh, vars
  <2>2. todo' = <<>> /\ hook_info' \in Seq(Hooks)
    BY <1>1, <1>3 DEF WalkInv, Rests, TypeOK
  <2>3. TodoIsRest'
    BY <2>2 DEF TodoIsRest
  <2>4. Listed' /\ BeingHooked'
    BY <1>3 DEF Listed, BeingHooked
  <2> QED
    BY <1>1, <2>1, <2>3, <2>4
<1>4. CASE Open /\ pc' # "idle"
  <2>1. refreshed' = {}
    BY <1>1, <1>4 DEF Open, WalkInv, Rests
  <2>2. Fresh' /\ TodoIsRest' /\ Listed' /\ BeingHooked'
    BY <1>4, <2>1 DEF Open, Fresh, TodoIsRest, Listed, BeingHooked
  <2> QED
    BY <1>1, <2>2
<1>5. ASSUME pc # "idle", NEW b \in Bases, NEW m \in Mappings, Map(b, m) \/ Unmap(b)
      PROVE SlotInv'
  BY <1>1, <1>5 DEF Map, Unmap, Fresh, TodoIsRest, Listed, BeingHooked, Here
<1>6. CASE Line
  <2>1. pos' \in LinesAfter(pos)
    BY <1>6, NextLine DEF Line
  <2>2. pos' \in Bases /\ pos' > pos
    BY <2>1 DEF LinesAfter
  <2>3. pos \in Nat /\ pos' \in Nat /\ \A mi \in refreshed : mi.base \in Nat
    <3>1. pos \in Bases \cup {0} /\ refreshed \subseteq Items
      BY <1>1 DEF WalkInv, TypeOK
    <3>2. Bases \subseteq Nat
      BY BasesAssumption
    <3>3. \A mi \in Items : mi.base \in Nat
      BY <3>2 DEF Items
    <3> QED
      BY <2>2, <3>1, <3>2, <3>3
  <2>4. refreshed' = refreshed /\ snap' = snap /\ pc = "line" /\ pc' \in {"line", "find"}
    BY <1>6 DEF Line
  <2>5. Listed'
    BY <2>2, <2>3, <2>4 DEF Listed
  <2>6. Fresh' /\ TodoIsRest' /\ BeingHooked'
    BY <1>6 DEF Line, Fresh, TodoIsRest, BeingHooked
  <2> QED
    BY <1>1, <2>5, <2>6
<1>14. CASE Refill
  <2>1. \A mi \in refreshed : mi.base \in Bases /\ mi.base \in Nat
    BY <1>1, BasesAssumption DEF WalkInv, TypeOK, Items
  <2>2. pos \in Nat
    BY <1>1, BasesAssumption DEF WalkInv, TypeOK
  <2>3. \A mi \in refreshed : mi.base <= pos => snap'[mi.base] = snap[mi.base]
    BY <1>14, <2>1, <2>2 DEF Refill
  <2>4. Listed'
    BY <1>14, <2>3 DEF Refill, Listed
  <2>5. Fresh' /\ TodoIsRest' /\ BeingHooked'
    BY <1>14 DEF Refill, Fresh, TodoIsRest, BeingHooked
  <2> QED
    BY <1>1, <2>4, <2>5
<1>7. CASE Find
  <2>1. hook_info \in Seq(Hooks)
    BY <1>1 DEF WalkInv, TypeOK
  <2>2. Fresh'
    BY <1>7 DEF Find, Update, Create, BeginHook, Fresh
  <2>6. pos \in Nat
    BY <1>1, BasesAssumption DEF WalkInv, TypeOK
  <2>7. /\ refreshed' \subseteq refreshed \cup {[path |-> Here.path, base |-> pos]}
        /\ snap' = snap /\ pos' = pos /\ pc = "find"
    BY <1>7 DEF Find, Update, Create, BeginHook
  <2>8. Listed'
    BY <2>6, <2>7 DEF Listed, Here
  <2>3. hook_info' = hook_info /\ (todo' = todo \/ todo' = hook_info)
    BY <1>7 DEF Find, Update, Create, BeginHook
  <2>4. TodoIsRest'
    BY <2>1, <2>3 DEF TodoIsRest
  <2>5. BeingHooked'
    BY <1>7 DEF Find, Update, Create, BeginHook, BeingHooked, Here
  <2> QED
    BY <1>1, <2>2, <2>4, <2>5, <2>8
<1>8. CASE HookNext
  <2>1. todo \in Seq(Hooks) /\ todo # <<>> /\ hook_info \in Seq(Hooks)
    BY <1>1, <1>8 DEF WalkInv, TypeOK, HookNext
  <2>2. /\ Len(Tail(todo)) = Len(todo) - 1
        /\ \A n \in 1..Len(Tail(todo)) : Tail(todo)[n] = todo[n + 1]
    BY <2>1, HeadTailProperties
  <2>3. hook_info' = hook_info /\ (todo' = Tail(todo) \/ todo' = <<>>)
    BY <1>8 DEF HookNext
  <2>4. TodoIsRest'
    <3>1. /\ Len(todo) \in Nat /\ Len(hook_info) \in Nat /\ Len(todo) <= Len(hook_info)
          /\ \A n \in 1..Len(todo) : todo[n] = hook_info[n + Len(hook_info) - Len(todo)]
      BY <2>1 DEF TodoIsRest
    <3>2. CASE todo' = <<>>
      BY <2>3, <3>1, <3>2 DEF TodoIsRest
    <3>3. CASE todo' = Tail(todo)
      <4> DEFINE k == Len(Tail(todo))
      <4>1. k \in Nat /\ Len(todo) = k + 1
        BY <2>2, <3>1, <2>1, HeadTailProperties
      <4>2. \A n \in 1..k : Tail(todo)[n] = todo[n + 1]
        BY <2>2
      <4> HIDE DEF k
      <4>3. ASSUME NEW n \in 1..k
            PROVE  Tail(todo)[n] = hook_info[n + Len(hook_info) - k]
        <5>1. n + 1 \in 1..Len(todo) /\ n \in Int
          BY <4>1
        <5>2. todo[n + 1] = hook_info[n + 1 + Len(hook_info) - Len(todo)]
          BY <3>1, <5>1
        <5>3. n + 1 + Len(hook_info) - Len(todo) = n + Len(hook_info) - k
          BY <3>1, <4>1, <5>1
        <5> QED
          BY <4>2, <5>2, <5>3
      <4> QED
        <5>1. Len(Tail(todo)) = k /\ k <= Len(hook_info)
          BY <3>1, <4>1 DEF k
        <5> QED
          BY <2>3, <3>3, <4>3, <5>1, Zenon DEF TodoIsRest
    <3> QED
      BY <2>3, <3>2, <3>3
  <2>5. Fresh' /\ Listed' /\ BeingHooked'
    BY <1>8 DEF HookNext, Fresh, Listed, BeingHooked, Here
  <2> QED
    BY <1>1, <2>4, <2>5
<1>9. CASE HookDone \/ HookAbandoned
  <2>1. hook_info' = hook_info /\ todo' = <<>> /\ hook_info \in Seq(Hooks)
    BY <1>1, <1>9 DEF HookDone, HookAbandoned, WalkInv, TypeOK
  <2>2. TodoIsRest'
    BY <2>1 DEF TodoIsRest
  <2>3. Fresh' /\ Listed' /\ BeingHooked'
    BY <1>9 DEF HookDone, HookAbandoned, Fresh, Listed, BeingHooked
  <2> QED
    BY <1>1, <2>2, <2>3
<1>10. CASE Done
  <2>1. Fresh'
    BY <1>10 DEF Done, Fresh
  <2>2. TodoIsRest'
    BY <1>10 DEF Done, TodoIsRest
  <2>3. Listed' /\ BeingHooked'
    BY <1>10 DEF Done, Listed, BeingHooked
  <2> QED
    BY <1>1, <2>1, <2>2, <2>3
<1>11. CASE UNCHANGED vars
  BY <1>1, <1>11 DEF vars, Fresh, TodoIsRest, Listed, BeingHooked, Here
<1>12. CASE pc = "idle" /\ pc' # "idle"
  BY <1>4, <1>12 DEF Next, RefreshStep, Register, Ignore, Clear, Map, Unmap, Open, Refill,
     Line, Find, HookNext, HookDone, HookAbandoned, Done, vars
<1>13. CASE pc # "idle"
  <2>1. /\ ~(\E h \in Hooks : Register(h)) /\ ~(\E i \in Ignores : Ignore(i))
        /\ ~Clear /\ ~Open
    BY <1>13 DEF Register, Ignore, Clear, Open
  <2>2. \/ \E b \in Bases, m \in Mappings : Map(b, m)
        \/ \E b \in Bases : Unmap(b)
        \/ RefreshStep \/ UNCHANGED vars
    BY <2>1 DEF Next
  <2>3. ASSUME NEW b \in Bases, NEW m \in Mappings, Map(b, m) PROVE SlotInv'
    BY <1>5, <1>13, <2>3
  <2>4. ASSUME NEW b \in Bases, Unmap(b) PROVE SlotInv'
    <3>1. NoMapping \in Mappings
      BY DEF NoMapping, Mappings, Kinds
    <3> QED
      BY <1>5, <1>13, <2>4, <3>1
  <2> QED
    BY <1>6, <1>7, <1>8, <1>9, <1>10, <1>11, <1>14, <2>2, <2>3, <2>4 DEF RefreshStep
<1> QED
  BY <1>3, <1>12, <1>13

\* At the start no slot is redirected.
LEMMA InitSlotInv == Init => SlotInv
<1> SUFFICES ASSUME Init PROVE SlotInv
  OBVIOUS
<1>1. Fresh /\ TodoIsRest /\ Listed /\ BeingHooked
  BY DEF Init, Fresh, TodoIsRest, Listed, BeingHooked
<1> QED
  BY <1>1, InitWalkInv DEF SlotInv

\* The invariant of the slots holds at every reachable state.
LEMMA SlotInvAlways == Spec => []SlotInv
<1>1. Init => SlotInv
  BY InitSlotInv
<1>2. SlotInv /\ [Next]_vars => SlotInv'
  BY NextSlotInv
<1> QED
  BY <1>1, <1>2, PTL DEF Spec

\* What one turn of the loop writes: the slot of the hook at the head of todo, and
\* only when it is wanted in the file.
LEMMA HookWrites ==
  ASSUME SlotInv, HookNext
  PROVE  LET h == Head(todo) IN
         /\ h \in Hooks /\ InQueue(hook_info, h) /\ pos \in Bases
         /\ h.sym \in Syms
         /\ h = hook_info[Len(hook_info) - Len(todo) + 1]
         /\ Wanted(h, Here.path) => slot'[pos][h.sym] = h.new
         /\ slot' # slot => Wanted(h, Here.path)
         /\ \A b \in Bases, s \in Syms : b # pos \/ s # h.sym => slot'[b][s] = slot[b][s]
<1> DEFINE h == Head(todo)
<1>1. /\ todo \in Seq(Hooks) /\ todo # <<>> /\ hook_info \in Seq(Hooks) /\ pc = "hook"
      /\ slot \in [Bases -> [Syms -> Funcs]]
  BY DEF SlotInv, WalkInv, TypeOK, HookNext
<1>2. h = todo[1] /\ h \in Hooks /\ 1 \in 1..Len(todo) /\ Len(todo) \in Nat
  BY <1>1
<1>3. Len(hook_info) \in Nat /\ Len(todo) <= Len(hook_info)
  BY <1>1 DEF SlotInv, TodoIsRest
<1>4. h = hook_info[Len(hook_info) - Len(todo) + 1]
  <2>1. todo[1] = hook_info[1 + Len(hook_info) - Len(todo)]
    BY <1>2 DEF SlotInv, TodoIsRest
  <2>2. 1 + Len(hook_info) - Len(todo) = Len(hook_info) - Len(todo) + 1
    BY <1>2, <1>3
  <2> QED
    BY <1>2, <2>1, <2>2
<1>5. InQueue(hook_info, h)
  <2>1. Len(hook_info) - Len(todo) + 1 \in DOMAIN hook_info
    BY <1>1, <1>2, <1>3
  <2> QED
    BY <1>4, <2>1 DEF InQueue
<1>6. pos \in Bases /\ h.sym \in Syms
  BY <1>1, <1>2, HooksAssumption DEF SlotInv, WalkInv, AtLine
<1> HIDE DEF h
<1>7. IF Here.path \in h.files /\ IgnoredBy(Here.path, h.sym) = {}
      THEN Replace(pos, h) ELSE slot' = slot
  BY DEF HookNext, memory, h
<1>8. Wanted(h, Here.path) <=> Here.path \in h.files /\ IgnoredBy(Here.path, h.sym) = {}
  BY <1>5 DEF Wanted
<1>9. slot' = slot \/ slot' = [slot EXCEPT ![pos][h.sym] = h.new]
  BY <1>7 DEF Replace, memory
<1>10. \A b \in Bases, s \in Syms : b # pos \/ s # h.sym => slot'[b][s] = slot[b][s]
  BY <1>1, <1>6, <1>9
<1>11. Wanted(h, Here.path) => slot'[pos][h.sym] = h.new
  BY <1>1, <1>6, <1>7, <1>8 DEF Replace, memory
<1> QED
  BY <1>2, <1>4, <1>5, <1>6, <1>7, <1>8, <1>10, <1>11 DEF h

\* No slot of a library that its line of maps told of is redirected unless asked for.
THEOREM RedirectsOnlyAsked == Spec => OnlyAsked
<1> DEFINE Asked ==
      \A b \in Bases, s \in Syms :
        slot'[b][s] # slot[b][s] /\ at'[b] = at[b] /\ at[b] = snap[b] =>
          \E h \in Hooks : h.sym = s /\ slot'[b][s] = h.new /\ Wanted(h, at[b].path)
<1>1. SlotInv /\ [Next]_vars => Asked
  <2> SUFFICES ASSUME SlotInv, [Next]_vars, NEW b \in Bases, NEW s \in Syms,
                      slot'[b][s] # slot[b][s], at'[b] = at[b], at[b] = snap[b]
               PROVE  \E h \in Hooks : h.sym = s /\ slot'[b][s] = h.new
                                         /\ Wanted(h, at[b].path)
    OBVIOUS
  <2>1. CASE HookNext
    <3> DEFINE h == Head(todo)
    <3>1. b = pos /\ s = h.sym /\ slot' # slot /\ h \in Hooks
      BY <2>1, HookWrites
    <3>2. Wanted(h, Here.path) /\ slot'[b][s] = h.new
      BY <2>1, <3>1, HookWrites
    <3>3. Here.path = at[b].path
      BY <3>1 DEF Here
    <3> QED
      BY <3>1, <3>2, <3>3
  <2>2. ASSUME NEW c \in Bases, NEW m \in Mappings, Map(c, m) PROVE FALSE
    <3>1. slot' = [slot EXCEPT ![c] = [t \in Syms |-> Original]]
          /\ at' = [at EXCEPT ![c] = m] /\ at[c] = NoMapping /\ m.path # NoPath
      BY <2>2 DEF Map
    <3>2. slot \in [Bases -> [Syms -> Funcs]] /\ at \in [Bases -> Mappings]
      BY DEF SlotInv, WalkInv, TypeOK
    <3>3. b = c
      BY <3>1, <3>2
    <3>4. at'[b] = m
      BY <3>1, <3>2, <3>3
    <3> QED
      BY <3>1, <3>3, <3>4 DEF NoMapping
  <2>3. ASSUME slot' = slot PROVE FALSE
    BY <2>3
  <2> QED
    BY <2>1, <2>2, <2>3 DEF Next, RefreshStep, Register, Ignore, Clear, Unmap, Open, Refill,
       Line, Find, HookDone, HookAbandoned, Done, vars, memory
<1> QED
  BY <1>1, SlotInvAlways, PTL DEF Spec, OnlyAsked

-----------------------------------------------------------------------------
(***************************************************************************)
(* What a slot holds.                                                      *)
(***************************************************************************)
\* No two hooks name the same symbol.
SymbolsApart == \A h, g \in Hooks : h.sym = g.sym => h = g

\* A slot is either as the linker left it or leads to a hook on its symbol; where
\* no two hooks share a symbol, what was replaced is the original.
LEMMA NextSlotsKnown ==
  ASSUME SymbolsApart, SlotInv, SlotsKnown, OldsKnown, [Next]_vars
  PROVE  SlotsKnown' /\ OldsKnown'
<1>1. slot \in [Bases -> [Syms -> Funcs]] /\ old \in [Hooks -> Funcs \cup {NoFunc}]
  BY DEF SlotInv, WalkInv, TypeOK
<1>2. CASE HookNext
  <2> DEFINE h == Head(todo)
  <2>1. h \in Hooks /\ h.sym \in Syms /\ pos \in Bases
    BY <1>2, HookWrites
  <2> HIDE DEF h
  <2>2. Replace(pos, h) \/ UNCHANGED memory
    BY <1>2 DEF HookNext, h
  <2>3. CASE slot' = slot /\ old' = old
    BY <2>3 DEF SlotsKnown, OldsKnown
  <2>4. CASE /\ slot[pos][h.sym] # h.new
             /\ old' = [old EXCEPT ![h] = slot[pos][h.sym]]
             /\ slot' = [slot EXCEPT ![pos][h.sym] = h.new]
    <3>1. slot[pos][h.sym] = Original
      BY <2>1, <2>4 DEF SlotsKnown, SymbolsApart
    <3>2. OldsKnown'
      BY <1>1, <2>4, <3>1 DEF OldsKnown
    <3>3. ASSUME NEW b \in Bases, NEW s \in Syms
          PROVE  slot'[b][s] = Original \/ \E g \in Hooks : g.sym = s /\ slot'[b][s] = g.new
      <4>1. CASE b = pos /\ s = h.sym
        <5>1. slot'[b][s] = h.new
          BY <1>1, <2>1, <2>4, <4>1
        <5> QED
          BY <2>1, <4>1, <5>1
      <4>2. CASE ~(b = pos /\ s = h.sym)
        <5>1. slot'[b][s] = slot[b][s]
          BY <1>1, <2>1, <2>4, <4>2
        <5> QED
          BY <5>1 DEF SlotsKnown
      <4> QED
        BY <4>1, <4>2
    <3> QED
      BY <3>2, <3>3 DEF SlotsKnown
  <2> QED
    BY <2>2, <2>3, <2>4 DEF Replace, memory
<1>3. ASSUME NEW c \in Bases, NEW m \in Mappings, Map(c, m)
      PROVE  SlotsKnown' /\ OldsKnown'
  <2>1. old' = old /\ slot' = [slot EXCEPT ![c] = [t \in Syms |-> Original]]
    BY <1>3 DEF Map
  <2>2. SlotsKnown'
    BY <1>1, <2>1 DEF SlotsKnown
  <2> QED
    BY <2>1, <2>2 DEF OldsKnown
<1>4. ASSUME slot' = slot, old' = old PROVE SlotsKnown' /\ OldsKnown'
  BY <1>4 DEF SlotsKnown, OldsKnown
<1> QED
  BY <1>2, <1>3, <1>4 DEF Next, RefreshStep, Register, Ignore, Clear, Unmap, Open, Refill,
     Line, Find, HookDone, HookAbandoned, Done, vars, memory

\* Where no two hooks share a symbol, calling the saved function always ends in the
\* original: the run with two hooks on one symbol shows that the condition is needed.
THEOREM NoCycles == ASSUME SymbolsApart PROVE Spec => []NoOldFuncCycle
<1>1. Init => SlotsKnown /\ OldsKnown
  BY DEF Init, SlotsKnown, OldsKnown
<1>2. SlotInv /\ SlotsKnown /\ OldsKnown /\ [Next]_vars => SlotsKnown' /\ OldsKnown'
  BY NextSlotsKnown
<1>3. OldsKnown => NoOldFuncCycle
  <2> SUFFICES ASSUME OldsKnown, NEW S \in (SUBSET Hooks) \ {{}}
               PROVE  \E h \in S : old[h] \notin {g.new : g \in S}
    BY DEF NoOldFuncCycle
  <2>1. PICK h \in S : h \in Hooks
    OBVIOUS
  <2>2. old[h] \in {Original, NoFunc}
    BY <2>1 DEF OldsKnown
  <2>3. \A g \in S : g.new \notin {Original, NoFunc}
    BY HooksAssumption
  <2> QED
    BY <2>1, <2>2, <2>3
<1> QED
  BY <1>1, <1>2, <1>3, SlotInvAlways, PTL DEF Spec

-----------------------------------------------------------------------------
(***************************************************************************)
(* What is hooked stays hooked.                                            *)
(***************************************************************************)
\* An ignore of all symbols that stops the loop silences every later hook too:
\* leaving the loop there (line 370) loses nothing.
LEMMA AllSilences ==
  ASSUME ignore_info \in Seq(Ignores), NEW p, NEW s, NEW t, IgnoredBy(p, s) = {All}
  PROVE  IgnoredBy(p, t) # {}
<1> DEFINE N(x) == {n \in DOMAIN ignore_info :
                      p \in ignore_info[n].files /\ ignore_info[n].sym \in {All, x}}
<1>1. PICK n \in N(s) : ignore_info[n].sym = All
  BY DEF IgnoredBy
<1>2. n \in N(t) /\ N(t) \in SUBSET Nat
  BY <1>1
<1>3. PICK m \in N(t) : \A k \in N(t) : m <= k
  BY <1>2, LeastNatural
<1>4. ignore_info[m].sym \in IgnoredBy(p, t)
  BY <1>3 DEF IgnoredBy
<1> QED
  BY <1>4

\* The loop of hook_impl goes one hook further, or to the end.
LEMMA LoopHooks ==
  ASSUME SlotInv, HookedSoFar, HookNext PROVE HookedSoFar'
<1> SUFFICES ASSUME pos \notin anew PROVE HookedSoFar'
  BY DEF HookedSoFar, HookNext, file
<1> DEFINE h == Head(todo)  d == Len(hook_info) - Len(todo)
<1>1. /\ pc = "hook" /\ todo \in Seq(Hooks) /\ todo # <<>> /\ hook_info \in Seq(Hooks)
      /\ pos \in Bases /\ ignore_info \in Seq(Ignores)
  BY HookWrites DEF HookNext, SlotInv, WalkInv, TypeOK
<1>2. d \in Nat /\ Len(hook_info) \in Nat
  BY <1>1 DEF SlotInv, TodoIsRest
<1>3. /\ hook_info' = hook_info /\ ignore_info' = ignore_info /\ Here' = Here
      /\ pc' = "hook" /\ pos' = pos
  BY <1>1 DEF HookNext, queues, file, Here
<1>4. /\ h = hook_info[d + 1]
      /\ Wanted(h, Here.path) => slot'[pos][h.sym] = h.new
      /\ \A s \in Syms : s # h.sym => slot'[pos][s] = slot[pos][s]
      /\ slot' # slot => Wanted(h, Here.path)
  BY <1>1, HookWrites
<1>5. Hooked(Here.path, pos, d)
  BY <1>1 DEF HookedSoFar
<1>6. \A g, p : Wanted(g, p)' <=> Wanted(g, p)
  BY <1>3 DEF Wanted, InQueue, IgnoredBy
<1>7. \A n \in 1..Len(hook_info) : hook_info[n] \in Hooks /\ hook_info[n].sym \in Syms
  BY <1>1, HooksAssumption
<1> HIDE DEF h, d
<1>8. CASE todo' = Tail(todo)
  <2>1. Len(hook_info') - Len(todo') = d + 1 /\ d + 1 <= Len(hook_info)
    <3>1. Len(Tail(todo)) = Len(todo) - 1 /\ Len(todo) \in Nat \ {0}
      BY <1>1, HeadTailProperties
    <3> QED
      BY <1>2, <1>3, <1>8, <3>1 DEF d
  <2>2. ASSUME NEW n \in 1..(d + 1), Wanted(hook_info[n], Here.path),
               \A k \in (n + 1)..(d + 1) : hook_info[k].sym # hook_info[n].sym
        PROVE  slot'[pos][hook_info[n].sym] = hook_info[n].new
    <3>1. CASE n = d + 1
      BY <1>4, <2>2, <3>1
    <3>2. CASE n # d + 1
      <4>1. n \in 1..d /\ d + 1 \in (n + 1)..(d + 1)
        BY <1>2, <3>2
      <4>2. h.sym # hook_info[n].sym
        BY <1>4, <2>2, <4>1
      <4>3. \A k \in (n + 1)..d : k \in (n + 1)..(d + 1)
        BY <1>2, <4>1
      <4>4. slot[pos][hook_info[n].sym] = hook_info[n].new
        BY <1>5, <2>2, <4>1, <4>3 DEF Hooked
      <4>5. hook_info[n].sym \in Syms
        BY <1>2, <1>7, <2>1, <4>1
      <4> QED
        BY <1>4, <4>2, <4>4, <4>5
    <3> QED
      BY <3>1, <3>2
  <2>3. ASSUME NEW l, l = d + 1 PROVE Hooked(Here.path, pos, l)'
    BY <1>3, <1>6, <2>2, <2>3 DEF Hooked
  <2> QED
    BY <1>3, <2>1, <2>3 DEF HookedSoFar
<1>9. CASE todo' # Tail(todo)
  <2>1. todo' = <<>> /\ Here.path \in h.files /\ IgnoredBy(Here.path, h.sym) = {All}
    BY <1>9 DEF HookNext, h
  <2>2. ~Wanted(h, Here.path) /\ slot' = slot
    BY <1>4, <2>1 DEF Wanted
  <2>3. \A g : ~Wanted(g, Here.path)
    BY <1>1, <2>1, AllSilences DEF Wanted
  <2>4. \A l : Hooked(Here.path, pos, l)'
    BY <1>3, <1>6, <2>3 DEF Hooked, Here
  <2> QED
    BY <2>4 DEF HookedSoFar
<1> QED
  BY <1>8, <1>9

\* Hooked speaks of the queues and of the slots of one base only.
LEMMA HookedKept ==
  ASSUME hook_info' = hook_info, ignore_info' = ignore_info, NEW p, NEW b, NEW l,
         hook_info \in Seq(Hooks), l \in Nat, l <= Len(hook_info),
         \A s \in Syms : slot'[b][s] = slot[b][s], Hooked(p, b, l)
  PROVE  Hooked(p, b, l)'
<1>1. \A g, q : Wanted(g, q)' <=> Wanted(g, q)
  BY DEF Wanted, InQueue, IgnoredBy
<1>2. \A n \in 1..l : hook_info[n].sym \in Syms
  BY HooksAssumption
<1> QED
  BY <1>1, <1>2 DEF Hooked

\* The items that promise their hooks promised them before, and their slots stay.
LEMMA ItemsKept ==
  ASSUME SlotInv, ItemsHooked, hook_info' = hook_info, ignore_info' = ignore_info,
         map_info' \cup refreshed' \subseteq Items,
         \A mi \in map_info' \cup refreshed' :
           mi.path \in complete' /\ mi.base \notin anew' /\ Current(mi)' =>
             /\ mi \in map_info \cup refreshed
             /\ mi.path \in complete /\ mi.base \notin anew /\ Current(mi)
             /\ \A s \in Syms : slot'[mi.base][s] = slot[mi.base][s]
  PROVE  ItemsHooked'
<1>1. hook_info \in Seq(Hooks)
  BY DEF SlotInv, WalkInv, TypeOK
<1> SUFFICES ASSUME NEW mi \in map_info' \cup refreshed', mi.path \in complete',
                    mi.base \notin anew', Current(mi)'
             PROVE  Hooked(mi.path, mi.base, Len(hook_info))'
  BY DEF ItemsHooked
<1>2. Hooked(mi.path, mi.base, Len(hook_info))
  BY DEF ItemsHooked
<1> QED
  BY <1>1, <1>2, HookedKept

\* A new walk starts with nothing hooked; what is left as it was stays hooked.
LEMMA FindKeepsHooked ==
  ASSUME SlotInv, HookInv, Find PROVE HookedSoFar' /\ ItemsHooked'
<1> DEFINE p == Here.path
<1>1. hook_info \in Seq(Hooks) /\ (map_info' \cup refreshed' \subseteq Items)
  BY NextSlotInv DEF Next, RefreshStep, SlotInv, WalkInv, TypeOK
<1>2. /\ hook_info' = hook_info /\ ignore_info' = ignore_info /\ slot' = slot
      /\ snap' = snap /\ pos' = pos /\ Here' = Here /\ pc = "find"
  BY DEF Find, queues, file, memory, Here
<1>3. pc' # "idle" /\ \A mi : Current(mi)' <=> Current(mi)
  BY <1>2 DEF Find, Update, Create, BeginHook, Current
<1>4. CASE pc' = "hook"
  <2>1. /\ todo' = hook_info /\ complete' = complete \ {p} /\ map_info' \subseteq map_info
        /\ refreshed' = refreshed \cup {[path |-> p, base |-> pos]}
        /\ anew' = anew \ {pos}
    BY <1>4 DEF Find, Update, Create, BeginHook
  <2>2. Len(hook_info') - Len(todo') = 0
    BY <1>1, <1>2, <2>1
  <2>3. HookedSoFar'
    BY <2>2 DEF HookedSoFar, Hooked
  <2>4. ASSUME NEW mi \in map_info' \cup refreshed', mi.path \in complete',
               mi.base \notin anew', Current(mi)'
        PROVE  /\ mi \in map_info \cup refreshed
               /\ mi.path \in complete /\ mi.base \notin anew /\ Current(mi)
    <3>1. mi.path # p /\ mi.path \in complete /\ mi \in map_info \cup refreshed
      BY <2>1, <2>4
    <3>2. Current(mi)
      BY <1>3, <2>4
    <3>3. mi.base # pos
      <4>1. pos \in Nat
        BY BasesAssumption DEF SlotInv, WalkInv, TypeOK
      <4> QED
        BY <1>2, <3>1, <3>2, <4>1 DEF Current, Here
    <3> QED
      BY <2>1, <2>4, <3>1, <3>2, <3>3
  <2>5. ItemsHooked'
    BY <1>1, <1>2, <2>4, ItemsKept DEF HookInv
  <2> QED
    BY <2>3, <2>5
<1>5. CASE pc' # "hook"
  <2>1. complete' = complete /\ anew' = anew
    BY <1>5 DEF Find, Update, Create, BeginHook
  <2>2. map_info' \cup refreshed' \subseteq map_info \cup refreshed
    <3>1. CASE p \in PathsOf(map_info)
      <4> DEFINE mi == ItemOf(map_info, p)
      <4>1. mi \in map_info /\ mi.path = p /\ mi \in Items
        BY <3>1, ItemFound DEF SlotInv, WalkInv, TypeOK
      <4> HIDE DEF mi
      <4>2. \/ refreshed' = refreshed
            \/ mi.base = pos /\ refreshed' = refreshed \cup {[path |-> p, base |-> pos]}
        BY <1>5, <3>1 DEF Find, Update, BeginHook, mi
      <4>3. map_info' \subseteq map_info
        BY <3>1 DEF Find, Update
      <4>4. mi = [path |-> mi.path, base |-> mi.base]
        BY <4>1 DEF Items
      <4> QED
        BY <4>1, <4>2, <4>3, <4>4
    <3>2. CASE p \notin PathsOf(map_info)
      BY <1>5, <3>2 DEF Find, Create, BeginHook
    <3> QED
      BY <3>1, <3>2
  <2>3. ItemsHooked'
    BY <1>1, <1>2, <1>3, <2>1, <2>2, ItemsKept DEF HookInv
  <2> QED
    BY <1>5, <2>3 DEF HookedSoFar
<1> QED
  BY <1>4, <1>5

\* The loop writes no slot of an item that promises its hooks, and its end makes a
\* path complete whose hooks are all in.
LEMMA LoopKeepsHooked ==
  ASSUME HookInv, HookNext \/ HookDone \/ HookAbandoned
  PROVE  HookedSoFar' /\ ItemsHooked'
<1>1. /\ SlotInv /\ hook_info \in Seq(Hooks) /\ (map_info \cup refreshed \subseteq Items)
      /\ slot \in [Bases -> [Syms -> Funcs]] /\ pos \in Nat
  BY BasesAssumption DEF HookInv, SlotInv, WalkInv, TypeOK
<1>2. /\ hook_info' = hook_info /\ ignore_info' = ignore_info /\ anew' = anew
      /\ map_info' = map_info /\ refreshed' = refreshed /\ pc = "hook"
      /\ snap' = snap /\ pos' = pos /\ pc' # "idle"
  BY <1>1 DEF HookNext, HookDone, HookAbandoned, queues, trees, file
<1>3. Here.path \notin complete /\ [path |-> Here.path, base |-> pos] \in refreshed
  BY <1>1, <1>2 DEF SlotInv, BeingHooked
<1>4. \A mi : Current(mi)' <=> Current(mi)
  BY <1>2 DEF Current
<1>5. CASE HookNext
  <2>1. HookedSoFar'
    BY <1>1, <1>5, LoopHooks DEF HookInv
  <2>2. complete' = complete
    BY <1>5 DEF HookNext
  <2>3. \A mi \in map_info \cup refreshed :
          mi.path \in complete /\ Current(mi) => mi.base # pos
    BY <1>1, <1>2, <1>3 DEF Current, Here
  <2>4. \A mi \in map_info \cup refreshed : mi.base \in Bases
    BY <1>1 DEF Items
  <2>5. \A b \in Bases, s \in Syms : b # pos => slot'[b][s] = slot[b][s]
    BY <1>1, <1>5, HookWrites
  <2>6. ItemsHooked'
    BY <1>1, <1>2, <1>4, <2>2, <2>3, <2>4, <2>5, ItemsKept DEF HookInv
  <2> QED
    BY <2>1, <2>6
<1>6. CASE HookDone
  <2>1. todo = <<>> /\ complete' = complete \cup {Here.path} /\ slot' = slot /\ pc' = "line"
    BY <1>6 DEF HookDone, memory
  <2>2. Len(hook_info) - Len(todo) = Len(hook_info)
    BY <1>1, <2>1
  <2>3. pos \notin anew => Hooked(Here.path, pos, Len(hook_info))
    BY <1>2, <2>2 DEF HookInv, HookedSoFar
  <2>4. ASSUME NEW mi \in map_info \cup refreshed, mi.path \in complete',
               mi.base \notin anew, Current(mi)
        PROVE  Hooked(mi.path, mi.base, Len(hook_info))
    <3>1. CASE mi.path = Here.path
      <4>1. mi = [path |-> Here.path, base |-> pos]
        BY <1>3, <3>1 DEF HookInv, SlotInv, WalkInv, OneItemPerPath
      <4> QED
        BY <2>3, <2>4, <3>1, <4>1
    <3>2. CASE mi.path # Here.path
      BY <2>1, <2>4, <3>2 DEF HookInv, ItemsHooked
    <3> QED
      BY <3>1, <3>2
  <2>5. ASSUME NEW mi \in map_info \cup refreshed, mi.path \in complete',
               mi.base \notin anew, Current(mi)
        PROVE  Hooked(mi.path, mi.base, Len(hook_info))'
    BY <1>1, <1>2, <2>1, <2>4, <2>5, HookedKept
  <2>6. ItemsHooked'
    BY <1>2, <1>4, <2>5 DEF ItemsHooked
  <2> QED
    BY <2>1, <2>6 DEF HookedSoFar
<1>7. CASE HookAbandoned
  <2>1. complete' = complete /\ slot' = slot /\ pc' = "line"
    BY <1>7 DEF HookAbandoned, memory
  <2>2. ItemsHooked'
    BY <1>1, <1>2, <1>4, <2>1, ItemsKept DEF HookInv
  <2> QED
    BY <2>1, <2>2 DEF HookedSoFar
<1> QED
  BY <1>5, <1>6, <1>7

\* A file that comes takes its base out of what is promised, whenever it comes.
LEMMA MappingKeepsHooked ==
  ASSUME HookInv, NEW b \in Bases, NEW m \in Mappings, Map(b, m) \/ Unmap(b)
  PROVE  HookedSoFar' /\ ItemsHooked'
<1>1. /\ SlotInv /\ hook_info \in Seq(Hooks) /\ (map_info \cup refreshed \subseteq Items)
      /\ slot \in [Bases -> [Syms -> Funcs]]
  BY DEF HookInv, SlotInv, WalkInv, TypeOK
<1>2. /\ hook_info' = hook_info /\ ignore_info' = ignore_info /\ complete' = complete
      /\ map_info' = map_info /\ refreshed' = refreshed /\ pc' = pc
      /\ snap' = snap /\ pos' = pos /\ todo' = todo /\ Here' = Here
  BY DEF Map, Unmap, queues, trees, file, Here
<1>3. /\ anew \subseteq anew'
      /\ \A c \in Bases : c \notin anew' => \A s \in Syms : slot'[c][s] = slot[c][s]
  <2>1. CASE Map(b, m)
    <3>1. anew' = anew \cup {b} /\ slot' = [slot EXCEPT ![b] = [s \in Syms |-> Original]]
      BY <2>1 DEF Map
    <3> QED
      BY <1>1, <3>1
  <2>2. CASE Unmap(b)
    BY <2>2 DEF Unmap, memory
  <2> QED
    BY <2>1, <2>2
<1>4. \A mi : Current(mi)' <=> Current(mi)
  BY <1>2 DEF Current
<1>5. \A mi \in map_info \cup refreshed : mi.base \in Bases
  BY <1>1 DEF Items
<1>6. ItemsHooked'
  BY <1>1, <1>2, <1>3, <1>4, <1>5, ItemsKept DEF HookInv
<1>7. HookedSoFar'
  <2> SUFFICES ASSUME pc = "hook", pos \notin anew'
               PROVE  Hooked(Here.path, pos, Len(hook_info) - Len(todo))'
    BY <1>2 DEF HookedSoFar
  <2>1. Hooked(Here.path, pos, Len(hook_info) - Len(todo))
    BY <1>3 DEF HookInv, HookedSoFar
  <2>2. pos \in Bases /\ \A s \in Syms : slot'[pos][s] = slot[pos][s]
    BY <1>1, <1>3 DEF SlotInv, WalkInv, AtLine
  <2>3. /\ Len(hook_info) - Len(todo) \in Nat
        /\ Len(hook_info) - Len(todo) <= Len(hook_info)
    <3>1. Len(hook_info) \in Nat /\ Len(todo) \in Nat /\ Len(todo) <= Len(hook_info)
      BY <1>1 DEF SlotInv, WalkInv, TypeOK, TodoIsRest
    <3> QED
      BY <3>1
  <2>4. ASSUME NEW l \in Nat, l = Len(hook_info) - Len(todo), l <= Len(hook_info),
               Hooked(Here.path, pos, l)
        PROVE  Hooked(Here.path, pos, l)'
    BY <1>1, <1>2, <2>2, <2>4, HookedKept
  <2> QED
    BY <1>2, <2>1, <2>3, <2>4
<1> QED
  BY <1>6, <1>7

\* The first registration, and clear.
LEMMA CallsKeepHooked ==
  ASSUME HookInv,
         \/ \E h \in Hooks : Register(h)
         \/ \E i \in Ignores : Ignore(i)
         \/ Clear
  PROVE  HookedSoFar' /\ ItemsHooked'
<1>1. SlotInv /\ pc = "idle" /\ pc' = "idle" /\ refreshed = {} /\ refreshed' = refreshed
  BY DEF HookInv, SlotInv, WalkInv, Rests, Register, Ignore, Clear, trees
<1>2. HookedSoFar'
  BY <1>1 DEF HookedSoFar
<1>3. CASE (\E h \in Hooks : Register(h)) \/ (\E i \in Ignores : Ignore(i))
  <2>1. complete' = {}
    BY <1>1, <1>3 DEF Register, Ignore, SlotInv, Fresh
  <2> QED
    BY <1>2, <2>1 DEF ItemsHooked
<1>4. CASE Clear
  BY <1>1, <1>2, <1>4 DEF Clear, ItemsHooked
<1> QED
  BY <1>3, <1>4

\* Reading further makes no item current that was not.
LEMMA ReadingKeepsHooked ==
  ASSUME HookInv, Open \/ Refill \/ Line \/ Done PROVE HookedSoFar' /\ ItemsHooked'
<1>1. /\ SlotInv /\ hook_info \in Seq(Hooks) /\ (map_info \cup refreshed \subseteq Items)
      /\ pos \in Nat
  BY BasesAssumption DEF HookInv, SlotInv, WalkInv, TypeOK
<1>2. /\ hook_info' = hook_info /\ ignore_info' = ignore_info /\ slot' = slot
      /\ anew' = anew /\ complete' = complete /\ pc' # "hook"
      /\ map_info' \cup refreshed' \subseteq map_info \cup refreshed
  BY <1>1 DEF Open, Refill, Line, Done, queues, trees, memory, SlotInv, WalkInv
<1>3. \A mi \in map_info \cup refreshed : mi.base \in Bases /\ mi.base \in Nat
  BY <1>1, BasesAssumption DEF Items
<1>4. ASSUME NEW mi \in map_info' \cup refreshed', Current(mi)' PROVE Current(mi)
  <2>1. CASE Open
    BY <2>1 DEF Open, Current
  <2>2. CASE Refill
    <3>1. /\ pos' = pos /\ pc' = "line"
          /\ snap' = [b \in Bases |-> IF b > pos THEN at[b] ELSE snap[b]]
      BY <2>2 DEF Refill
    <3>2. mi.base \in Bases
      BY <1>2, <1>3
    <3> QED
      BY <1>4, <3>1, <3>2 DEF Current
  <2>3. CASE Line
    <3>1. pos' \in LinesAfter(pos)
      BY <2>3, NextLine DEF Line
    <3>2. pos' \in Nat /\ pos' > pos
      BY <3>1, BasesAssumption DEF LinesAfter
    <3>3. snap' = snap /\ pc' # "idle" /\ mi.base \in Nat
      BY <1>2, <1>3, <2>3 DEF Line
    <3> QED
      BY <1>1, <1>4, <3>2, <3>3 DEF Current
  <2>4. CASE Done
    BY <1>1, <2>4 DEF Done, Current, SlotInv, Listed
  <2> QED
    BY <2>1, <2>2, <2>3, <2>4
<1>5. ItemsHooked'
  BY <1>1, <1>2, <1>4, ItemsKept DEF HookInv
<1> QED
  BY <1>2, <1>5 DEF HookedSoFar

\* HookInv is inductive, whatever files come and go and wherever they are mapped.
LEMMA NextHookInv == ASSUME HookInv, [Next]_vars PROVE HookInv'
<1>1. SlotInv'
  BY NextSlotInv DEF HookInv
<1>2. SlotInv
  BY DEF HookInv
<1>3. CASE UNCHANGED vars
  <2>1. \A mi : Current(mi)' <=> Current(mi)
    BY <1>3 DEF vars, file, Current
  <2>2. \A l, p, b : Hooked(p, b, l)' <=> Hooked(p, b, l)
    BY <1>3 DEF vars, queues, memory, Hooked, Wanted, InQueue, IgnoredBy
  <2>3. ItemsHooked'
    BY <1>3, <2>1, <2>2 DEF vars, queues, trees, HookInv, ItemsHooked
  <2>4. HookedSoFar'
    BY <1>3, <2>2 DEF vars, queues, file, Here, HookInv, HookedSoFar
  <2> QED
    BY <1>1, <2>3, <2>4 DEF HookInv
<1>4. CASE Find
  BY <1>1, <1>2, <1>4, FindKeepsHooked DEF HookInv
<1>5. CASE HookNext \/ HookDone \/ HookAbandoned
  BY <1>1, <1>5, LoopKeepsHooked DEF HookInv
<1>6. ASSUME NEW b \in Bases, NEW m \in Mappings, Map(b, m) PROVE HookInv'
  BY <1>1, <1>6, MappingKeepsHooked DEF HookInv
<1>7. ASSUME NEW b \in Bases, Unmap(b) PROVE HookInv'
  <2>1. NoMapping \in Mappings
    BY DEF NoMapping, Mappings, Kinds
  <2> QED
    BY <1>1, <1>7, <2>1, MappingKeepsHooked DEF HookInv
<1>8. CASE \/ \E h \in Hooks : Register(h)
           \/ \E i \in Ignores : Ignore(i)
           \/ Clear
  BY <1>1, <1>8, CallsKeepHooked DEF HookInv
<1>9. CASE Open \/ Refill \/ Line \/ Done
  BY <1>1, <1>9, ReadingKeepsHooked DEF HookInv
<1> QED
  BY <1>3, <1>4, <1>5, <1>6, <1>7, <1>8, <1>9 DEF Next, RefreshStep

\* A hook is not lost because its library was seen before, moved, or was listed twice.
THEOREM HooksAreKept == Spec => []HookedMeansHooked
<1>1. Init => HookInv
  BY InitSlotInv DEF Init, HookInv, HookedSoFar, ItemsHooked
<1>2. HookInv /\ [Next]_vars => HookInv'
  BY NextHookInv
<1>3. HookInv => HookedMeansHooked
  <2> SUFFICES ASSUME HookInv, pc = "idle", NEW mi \in map_info,
                      mi.path \in complete, mi.base \notin anew
               PROVE  \A n \in DOMAIN hook_info :
                        LET h == hook_info[n] IN
                        Wanted(h, mi.path) /\
                        (\A k \in (n + 1)..Len(hook_info) : hook_info[k].sym # h.sym)
                          => slot[mi.base][h.sym] = h.new
    BY DEF HookedMeansHooked
  <2>1. DOMAIN hook_info = 1..Len(hook_info)
    BY DEF HookInv, SlotInv, WalkInv, TypeOK
  <2>2. Hooked(mi.path, mi.base, Len(hook_info))
    BY DEF HookInv, ItemsHooked, Current
  <2> QED
    BY <2>1, <2>2 DEF Hooked
<1> QED
  BY <1>1, <1>2, <1>3, PTL DEF Spec
=============================================================================
