------------------------------ MODULE XhRefresh ------------------------------
(***************************************************************************)
(* One refresh of src/cpp/xhook/xh_core.c, line by line of /proc/self/maps:*)
(* which files are chosen, the move of map items from the old tree to the  *)
(* new one, hook_impl over the hook and ignore queues, and the GOT slots   *)
(* and *old_func that xh_elf_replace_function writes.  The environment maps*)
(* and unmaps files at any time, at any address, while maps is being read  *)
(* too.  XhCore shows that one thread at a time is in here.                *)
(***************************************************************************)
EXTENDS Naturals, FiniteSets, Sequences

CONSTANTS
  Paths, Bases,     \* pathnames; addresses, as naturals: maps lists them in order
  Syms,             \* symbol names
  Hooks,            \* the hook_infos: [files: SUBSET Paths, sym: Syms, new: function]
  Ignores,          \* the ignore_infos: [files: SUBSET Paths, sym: Syms or All]
  All,              \* ignore_info->symbol = NULL
  Original,         \* the function a slot resolves to when its file is loaded
  MaxRefreshes, MaxLoads, \* bounds: refreshes begun, files mapped
  NoPath, NoFunc

Kinds == {"elf",   \* r..p, offset 0, an ELF header: a loaded library
          "data",  \* r..p, offset 0, no ELF header there
          "other"} \* a line that the tests of lines 329-355 skip

ASSUME BasesAssumption == Bases \subseteq Nat \ {0} /\ IsFiniteSet(Bases)
ASSUME BoundsAssumption == MaxRefreshes \in Nat /\ MaxLoads \in Nat
ASSUME HooksAssumption ==
  /\ \A h \in Hooks : h.files \subseteq Paths /\ h.sym \in Syms
  /\ \A i \in Ignores : i.files \subseteq Paths /\ i.sym \in Syms \cup {All}
  /\ All \notin Syms /\ NoPath \notin Paths
  /\ \A h, g \in Hooks : h.new = g.new => h = g
  /\ \A h \in Hooks : h.new \notin {Original, NoFunc}

NoMapping == [path |-> NoPath, kind |-> "other"]

VARIABLES
  hook_info, ignore_info,  \* the queues
  inited,                  \* set by the first refresh, reset by clear
  map_info, refreshed,     \* the trees: sets of items [path, base]
  items,                   \* items malloc'ed and not freed
  snap, pos,               \* the maps file read, and the line fgets is at
  todo,                    \* the hook_infos hook_impl has still to look at
  at, slot,                \* what is mapped at a base, and its GOT slots
  old,                     \* *old_func of every hook
  complete,                \* paths whose last hook_impl reached its end
  anew,                    \* history: bases a file was mapped at since hook_impl
                           \* last began there
  refreshes, loads, pc

queues == <<hook_info, ignore_info>>
trees  == <<map_info, refreshed, items>>
file   == <<snap, pos>>
memory == <<slot, old>>
vars == <<queues, inited, trees, file, todo, at, memory, complete, anew, refreshes, loads,
          pc>>

Funcs == {h.new : h \in Hooks} \cup {Original}
Items == [path : Paths, base : Bases]
Mappings == [path : Paths \cup {NoPath}, kind : Kinds]

PathsOf(tree) == {mi.path : mi \in tree}
ItemOf(tree, p) == CHOOSE mi \in tree : mi.path = p

TypeOK ==
  /\ hook_info \in Seq(Hooks) /\ ignore_info \in Seq(Ignores)
  /\ inited \in BOOLEAN
  /\ map_info \subseteq Items /\ refreshed \subseteq Items /\ items \in Nat
  /\ snap \in [Bases -> Mappings] /\ pos \in Bases \cup {0}
  /\ todo \in Seq(Hooks)
  /\ at \in [Bases -> Mappings] /\ slot \in [Bases -> [Syms -> Funcs]]
  /\ old \in [Hooks -> Funcs \cup {NoFunc}]
  /\ complete \subseteq Paths /\ anew \subseteq Bases
  /\ refreshes \in 0..MaxRefreshes /\ loads \in 0..MaxLoads
  /\ pc \in {"idle", "line", "find", "hook"}

Init ==
  /\ hook_info = <<>> /\ ignore_info = <<>> /\ inited = FALSE
  /\ map_info = {} /\ refreshed = {} /\ items = 0
  /\ snap = [b \in Bases |-> NoMapping] /\ pos = 0 /\ todo = <<>>
  /\ at = [b \in Bases |-> NoMapping]
  /\ slot = [b \in Bases |-> [s \in Syms |-> Original]]
  /\ old = [h \in Hooks |-> NoFunc]
  /\ complete = {} /\ anew = {} /\ refreshes = 0 /\ loads = 0 /\ pc = "idle"

-----------------------------------------------------------------------------
(***************************************************************************)
(* The application and the linker.                                         *)
(***************************************************************************)
InQueue(q, x) == \E n \in DOMAIN q : q[n] = x

Register(h) ==
  /\ pc = "idle" /\ ~inited /\ ~InQueue(hook_info, h)
  /\ hook_info' = Append(hook_info, h)
  /\ UNCHANGED <<ignore_info, inited, trees, file, todo, at, memory, complete,
                 anew, refreshes, loads, pc>>

Ignore(i) ==
  /\ pc = "idle" /\ ~inited /\ ~InQueue(ignore_info, i)
  /\ ignore_info' = Append(ignore_info, i)
  /\ UNCHANGED <<hook_info, inited, trees, file, todo, at, memory, complete,
                 anew, refreshes, loads, pc>>

\* The slots that were written stay as they are: clear does not unhook.
Clear ==
  /\ pc = "idle"
  /\ hook_info' = <<>> /\ ignore_info' = <<>> /\ inited' = FALSE
  /\ map_info' = {} /\ items' = items - Cardinality(map_info)
  /\ complete' = {}
  /\ UNCHANGED <<refreshed, file, todo, at, memory, anew, refreshes, loads, pc>>

\* A file is mapped; the dynamic linker resolves the slots of a library.
Map(b, m) ==
  /\ loads < MaxLoads /\ at[b] = NoMapping /\ m.path # NoPath
  /\ at' = [at EXCEPT ![b] = m]
  /\ slot' = [slot EXCEPT ![b] = [s \in Syms |-> Original]]
  /\ anew' = anew \cup {b} /\ loads' = loads + 1
  /\ UNCHANGED <<queues, inited, trees, file, todo, old, complete, refreshes, pc>>

Unmap(b) ==
  /\ at[b] # NoMapping /\ at' = [at EXCEPT ![b] = NoMapping]
  /\ UNCHANGED <<queues, inited, trees, file, todo, memory, complete, anew, refreshes,
                 loads, pc>>

-----------------------------------------------------------------------------
(***************************************************************************)
(* xh_core_refresh_impl.                                                   *)
(***************************************************************************)
\* The lines after base b that are left to read.
LinesAfter(b) == {c \in Bases : c > b /\ snap[c] # NoMapping}
Here == snap[pos]

\* The symbol of the first ignore_info that silences symbol s of file p, if any:
\* both ignore loops (264-274 and 364-374) stop at it.
IgnoredBy(p, s) ==
  LET N == {n \in DOMAIN ignore_info :
              p \in ignore_info[n].files /\ ignore_info[n].sym \in {All, s}}
  IN {ignore_info[n].sym : n \in {m \in N : \A k \in N : m <= k}}

\* "If we need to hook this elf?": the first hook_info whose pattern matches
\* decides, and its symbol must not be ignored.
Match(p) ==
  \E n \in DOMAIN hook_info :
    /\ p \in hook_info[n].files
    /\ \A k \in 1..(n - 1) : p \notin hook_info[k].files
    /\ IgnoredBy(p, hook_info[n].sym) = {}

\* fopen, which may fail and then leaves everything as it is.
Open ==
  /\ pc = "idle" /\ refreshes < MaxRefreshes
  /\ inited' = TRUE /\ refreshes' = refreshes + 1
  /\ \/ snap' = at /\ pos' = 0 /\ refreshed' = {} /\ pc' = "line"
     \/ UNCHANGED <<snap, pos, refreshed, pc>>
  /\ UNCHANGED <<queues, map_info, items, todo, at, memory, complete, anew, loads>>

\* stdio's buffer is read from the kernel again: what is still to come is as it is now.
Refill ==
  /\ pc = "line" /\ snap' = [b \in Bases |-> IF b > pos THEN at[b] ELSE snap[b]]
  /\ UNCHANGED <<queues, inited, trees, pos, todo, at, memory, complete, anew, refreshes,
                 loads, pc>>

check_elfheader(base) == at[base].kind = "elf"

\* fgets, the tests of the line, the match, and the header check, which fails
\* on other data and catches SIGSEGV when the page is gone.
Line ==
  /\ pc = "line" /\ LinesAfter(pos) # {}
  /\ pos' = CHOOSE b \in LinesAfter(pos) : \A c \in LinesAfter(pos) : b <= c
  /\ LET m == snap[pos'] IN
       pc' = IF m.kind # "other" /\ Match(m.path) /\ check_elfheader(pos')
             THEN "find" ELSE "line"
  /\ UNCHANGED <<queues, inited, trees, snap, todo, at, memory, complete, anew, refreshes,
                 loads>>

BeginHook ==
  /\ pc' = "hook" /\ todo' = hook_info /\ complete' = complete \ {Here.path}
  /\ anew' = anew \ {pos}

\* Mutant: a repeated item is not freed.
CreateLeaking ==
  /\ items' = items + 1
  /\ IF Here.path \in PathsOf(refreshed)
     THEN pc' = "line" /\ UNCHANGED <<refreshed, todo, complete, anew>>
     ELSE refreshed' = refreshed \cup {[path |-> Here.path, base |-> pos]} /\ BeginHook
  /\ UNCHANGED map_info

\* malloc and strdup, which may fail; the first line of a file is the one that
\* counts, the item of a repeated one is freed again.
Create ==
  /\ \/ pc' = "line" /\ UNCHANGED <<refreshed, items, todo, complete, anew>>
     \/ /\ Here.path \notin PathsOf(refreshed)
        /\ refreshed' = refreshed \cup {[path |-> Here.path, base |-> pos]}
        /\ items' = items + 1 /\ BeginHook
  /\ UNCHANGED map_info

\* Mutant: the item keeps its place in the old tree.
UpdateKept(mi) ==
  /\ refreshed' = refreshed \cup {mi} /\ pc' = "line"
  /\ UNCHANGED <<map_info, items, todo, complete, anew>>

\* Mutant: a library that moved is not hooked again.
UpdateNotRehooked(mi) ==
  /\ map_info' = map_info \ {mi}
  /\ refreshed' = refreshed \cup {[path |-> Here.path, base |-> pos]}
  /\ pc' = "line" /\ UNCHANGED <<items, todo, complete, anew>>

\* The item leaves the old tree; if the new tree has its path already it is
\* freed; it is hooked again if its base address changed.
Update(mi) ==
  /\ map_info' = map_info \ {mi}
  /\ IF Here.path \in PathsOf(refreshed)
     THEN items' = items - 1 /\ pc' = "line" /\ UNCHANGED <<refreshed, todo, complete, anew>>
     ELSE /\ refreshed' = refreshed \cup {[path |-> Here.path, base |-> pos]}
          /\ UNCHANGED items
          /\ IF mi.base # pos THEN BeginHook
             ELSE pc' = "line" /\ UNCHANGED <<todo, complete, anew>>

Find ==
  /\ pc = "find"
  /\ IF Here.path \in PathsOf(map_info)
     THEN Update(ItemOf(map_info, Here.path)) ELSE Create
  /\ UNCHANGED <<queues, inited, file, at, memory, refreshes, loads>>

\* Mutant: a slot that already holds new_func is written again.
ReplaceAlways(b, h) ==
  /\ old'  = [old EXCEPT ![h] = slot[b][h.sym]]
  /\ slot' = [slot EXCEPT ![b][h.sym] = h.new]

\* xh_elf_replace_function on the slot of h.sym in the library at b.
Replace(b, h) ==
  IF slot[b][h.sym] = h.new THEN UNCHANGED memory
  ELSE /\ old'  = [old EXCEPT ![h] = slot[b][h.sym]]
       /\ slot' = [slot EXCEPT ![b][h.sym] = h.new]

\* Mutant: hook_impl does not look at the ignore queue.
HookNextUnfiltered ==
  LET h == Head(todo) IN
    /\ pc = "hook" /\ todo # <<>> /\ at[pos].kind = "elf"
    /\ todo' = Tail(todo)
    /\ IF Here.path \in h.files THEN Replace(pos, h) ELSE UNCHANGED memory
    /\ UNCHANGED <<queues, inited, trees, file, at, complete, anew, refreshes, loads, pc>>

\* One turn of hook_impl's loop: the queue is walked in order; an ignore of all
\* symbols ends the walk, an ignore of this one skips it.
HookNext ==
  LET h == Head(todo)  by == IgnoredBy(Here.path, h.sym) IN
    /\ pc = "hook" /\ todo # <<>> /\ at[pos].kind = "elf"
    /\ IF Here.path \in h.files /\ by = {} THEN Replace(pos, h) ELSE UNCHANGED memory
    /\ todo' = IF Here.path \in h.files /\ by = {All} THEN <<>> ELSE Tail(todo)
    /\ UNCHANGED <<queues, inited, trees, file, at, complete, anew, refreshes, loads, pc>>

HookDone ==
  /\ pc = "hook" /\ todo = <<>> /\ pc' = "line"
  /\ complete' = complete \cup {Here.path}
  /\ UNCHANGED <<queues, inited, trees, file, todo, at, memory, anew, refreshes, loads>>

\* xh_elf_init fails, or SIGSEGV is caught: what is left to hook is dropped.
HookAbandoned ==
  /\ pc = "hook" /\ pc' = "line" /\ todo' = <<>>
  /\ UNCHANGED <<queues, inited, trees, file, at, memory, complete, anew, refreshes,
                 loads>>

\* Mutant: the items of the new tree are freed with those of the old one.
DoneFreesBoth ==
  /\ pc = "line" /\ LinesAfter(pos) = {} /\ pc' = "idle"
  /\ items' = items - Cardinality(map_info) - Cardinality(refreshed)
  /\ map_info' = refreshed /\ refreshed' = {}
  /\ UNCHANGED <<queues, inited, file, todo, at, memory, complete, anew, refreshes, loads>>

\* End of the file: free what is left in the old tree, keep the new one.
Done ==
  /\ pc = "line" /\ LinesAfter(pos) = {} /\ pc' = "idle"
  /\ items' = items - Cardinality(map_info)
  /\ map_info' = refreshed /\ refreshed' = {}
  /\ UNCHANGED <<queues, inited, file, todo, at, memory, complete, anew, refreshes, loads>>

RefreshStep == Refill \/ Line \/ Find \/ HookNext \/ HookDone \/ HookAbandoned \/ Done

Next ==
  \/ \E h \in Hooks : Register(h)
  \/ \E i \in Ignores : Ignore(i)
  \/ Clear
  \/ \E b \in Bases, m \in Mappings : Map(b, m)
  \/ \E b \in Bases : Unmap(b)
  \/ Open
  \/ RefreshStep

Spec == Init /\ [][Next]_vars

-----------------------------------------------------------------------------
\* A path has one item, in one of the two trees: an item found in the old tree
\* never meets its own path in the new one (lines 390-405), and no item is
\* freed twice.
OneItemPerPath ==
  \A mi, mj \in map_info \cup refreshed :
    mi.path = mj.path => mi = mj /\ ~(mi \in map_info /\ mi \in refreshed)

\* Every item malloc'ed and not freed is in a tree: lines 402, 432, 443-455 and
\* clear lose none and free none twice.
NoLeak == items = Cardinality(map_info) + Cardinality(refreshed)

Wanted(h, p) == InQueue(hook_info, h) /\ p \in h.files /\ IgnoredBy(p, h.sym) = {}

\* A slot of a library is only ever redirected by a registered hook that names
\* the library and that no ignore silences there (lines 259-278, 360-380), as long
\* as the library is the one its line of maps told of: hook_impl goes by the line's
\* name, and by then another library may be there.
OnlyAsked ==
  [][\A b \in Bases, s \in Syms :
       slot'[b][s] # slot[b][s] /\ at'[b] = at[b] /\ at[b] = snap[b] =>
         \E h \in Hooks : h.sym = s /\ slot'[b][s] = h.new /\ Wanted(h, at[b].path)]_vars

\* A library whose item says it was hooked calls, through each slot a wanted hook
\* names, the last such hook: a hook is not lost because its library was seen
\* before, moved, or was listed twice (lines 389-439).  It is lost, and the item
\* does not tell, when the library is mapped anew at its item's address.
HookedMeansHooked ==
  pc = "idle" =>
    \A mi \in map_info :
      /\ mi.path \in complete /\ mi.base \notin anew
      /\ at[mi.base] = [path |-> mi.path, kind |-> "elf"]
      => \A n \in DOMAIN hook_info :
          LET h == hook_info[n] IN
          Wanted(h, mi.path) /\ (\A k \in (n + 1)..Len(hook_info) : hook_info[k].sym # h.sym)
            => slot[mi.base][h.sym] = h.new

\* Calling the function saved in *old_func ends in a function that is not a
\* hook: no set of hooks forward to each other only (lines 455-470 of xh_elf.c).
NoOldFuncCycle ==
  \A S \in (SUBSET Hooks) \ {{}} : \E h \in S : old[h] \notin {g.new : g \in S}

\* "If we need to hook this elf?": a library is passed over only if no
\* registered hook is wanted in it (lines 357-382).
PassesOverOnlyUnwanted ==
  [][Line /\ pc' = "line" /\ snap[pos'].kind = "elf" /\ at[pos'] = snap[pos'] =>
       \A h \in Hooks : ~Wanted(h, snap[pos'].path)]_vars
=============================================================================
