-------------------------------- MODULE XhElf --------------------------------
(***************************************************************************)
(* What hook_impl of xh_core.c does to one loaded file: xh_elf_init over   *)
(* its dynamic section, then xh_elf_hook for each hook: look the symbol up,*)
(* walk the three relocation sections and replace the function in each slot*)
(* that refers to it, changing the protection of the slot's page around the*)
(* write.  The file may be unmapped under it at any time.                  *)
(***************************************************************************)
EXTENDS XhElfLookup, XhPackedReloc, FiniteSets

CONSTANTS
  Images,     \* the files that may be loaded, a function: see ImagesAssumption
  Hooks,      \* the queue of hooks: [sym: symbol, new: function]
  Original,   \* Original[s]: the function the linker resolves symbol s to
  NoFunc,
  MaxCalls    \* bound: calls of hook_impl

\* relplt and reldyn are the sections as sequences of words, relandroid one of
\* bytes; refs is what the linker put there: [sec, off, sym, type].
ASSUME ImagesAssumption ==
  \A k \in DOMAIN Images :
    DOMAIN Images[k] = {"dyn", "gnu", "elf", "hash", "relplt", "reldyn", "relandroid",
                  "refs", "page", "prot", "whole"}
ASSUME HooksAssumption == Hooks \in Seq({Hooks[m] : m \in DOMAIN Hooks})
ASSUME CallsAssumption == MaxCalls \in Nat

JUMP_SLOT == 1  GLOB_DAT == 2  ABS == 3
Types == 4   \* r_info is r_sym * Types + r_type

VARIABLES
  file,      \* the file that is loaded; never changes
  mapped,    \* is it still in memory?
  slot,      \* its GOT slots: the words its relocations name
  prot,      \* the protection of its pages: "r" or "rw"
  old,       \* *old_func of every hook
  n,         \* the hook xh_elf_hook is called for
  symidx, sect, pos, iter, addr, old_prot,  \* locals of the calls
  mishaps,   \* what went wrong in this call of hook_impl
  loose,     \* the pages a fault or a failed mprotect left as they were in hand
  calls, pc

img == Images[file]  \* as the linker wrote it

memory == <<slot, prot, old>>
locals == <<symidx, sect, pos, iter, addr, old_prot>>
vars == <<file, mapped, memory, n, locals, mishaps, loose, calls, pc>>

Sections == <<"plt", "dyn", "android">>
Slots == DOMAIN slot
hook == Hooks[n]

TypeOK ==
  /\ file \in DOMAIN Images /\ mapped \in BOOLEAN
  /\ DOMAIN slot = DOMAIN img.page /\ DOMAIN prot = DOMAIN img.prot
  /\ \A p \in DOMAIN prot : prot[p] \in {"r", "rw"}
  /\ \A m \in DOMAIN Hooks : old[m] \in {NoFunc} \cup {slot[a] : a \in Slots}
                                        \cup {Original[r.sym] : r \in img.refs}
  /\ n \in 0..Len(Hooks) /\ symidx \in DOMAIN img.gnu.symtab
  /\ sect \in 1..3 /\ pos \in 0..(Len(img.relplt) + Len(img.reldyn) + 3)
  /\ addr \in 0..(Word - 1) /\ old_prot \in {"r", "rw"}
  /\ mishaps \subseteq {"fault", "init", "hook"} /\ loose \subseteq DOMAIN prot
  /\ calls \in 0..MaxCalls
  /\ pc \in {"idle", "init", "next", "find", "section", "rel", "already", "prot",
             "save", "write", "restore"}

Init ==
  /\ file \in DOMAIN Images /\ mapped = TRUE
  /\ slot = [a \in DOMAIN img.page |->
               Original[(CHOOSE r \in img.refs : r.off = a).sym]]
  /\ prot = img.prot
  /\ old = [m \in DOMAIN Hooks |-> NoFunc]
  /\ n = 0 /\ symidx = 0 /\ sect = 1 /\ pos = 0 /\ iter = Zero
  /\ addr = 0 /\ old_prot = "r"
  /\ mishaps = {} /\ loose = {} /\ calls = 0 /\ pc = "idle"

-----------------------------------------------------------------------------
\* dlclose or munmap by another thread.
Unmap ==
  /\ mapped /\ mapped' = FALSE
  /\ UNCHANGED <<file, memory, n, locals, mishaps, loose, calls, pc>>

-----------------------------------------------------------------------------
(***************************************************************************)
(* xh_elf_init.                                                            *)
(***************************************************************************)
\* The tags of the dynamic section, up to DT_NULL.
Tags ==
  {img.dyn[k] : k \in {k \in DOMAIN img.dyn : \A j \in 1..k : img.dyn[j] # "NULL"}}

is_use_rela == "PLTREL_RELA" \in Tags
is_use_gnu_hash == "GNU_HASH" \in Tags   \* wherever DT_HASH stands

\* A segment that is missing, an entry that points below the file or a packed
\* section without its magic number: init returns XH_ERRNO_FORMAT at once.
Malformed == "MALFORMED" \in Tags

xh_elf_check ==
  {"STRTAB", "SYMTAB"} \subseteq Tags /\ {"HASH", "GNU_HASH"} \cap Tags # {}

Call ==
  /\ pc = "idle" /\ calls < MaxCalls
  /\ calls' = calls + 1 /\ mishaps' = {} /\ n' = 0 /\ pc' = "init"
  /\ UNCHANGED <<file, mapped, memory, locals, loose>>

ElfInit ==
  /\ pc = "init" /\ mapped
  /\ IF ~Malformed /\ xh_elf_check THEN pc' = "next" /\ UNCHANGED mishaps
     ELSE pc' = "idle" /\ mishaps' = {"init"}
  /\ UNCHANGED <<file, mapped, memory, n, locals, loose, calls>>

-----------------------------------------------------------------------------
(***************************************************************************)
(* xh_elf_hook.                                                            *)
(***************************************************************************)
NextHook ==
  /\ pc = "next"
  /\ IF n < Len(Hooks) THEN n' = n + 1 /\ pc' = "find" ELSE pc' = "idle" /\ UNCHANGED n
  /\ UNCHANGED <<file, mapped, memory, locals, mishaps, loose, calls>>

FindSymidx ==
  IF is_use_gnu_hash THEN GnuHashLookup(img.gnu, hook.sym, img.hash[hook.sym])
  ELSE HashLookup(img.elf, hook.sym, img.hash[hook.sym])

\* A symbol the file does not know is no error.
Find ==
  /\ pc = "find" /\ mapped
  /\ symidx' = FindSymidx
  /\ IF symidx' = NotFound THEN pc' = "next" /\ UNCHANGED sect
     ELSE pc' = "section" /\ sect' = 1
  /\ UNCHANGED <<file, mapped, memory, n, pos, iter, addr, old_prot, mishaps, loose, calls>>

SectionTags == <<"JMPREL", "REL", "ANDROID_REL">>

\* Mutant: the last section is followed by another.
NextSectionAlways == pc' = "section" /\ sect' = sect + 1

NextSection == IF sect = 3 THEN pc' = "next" /\ UNCHANGED sect
               ELSE pc' = "section" /\ sect' = sect + 1

\* The packed iterator reads the head of its section at once.
ReadsBytes == sect = 3 /\ "ANDROID_REL" \in Tags

\* The iterator over the section is initialised, if the file has the section.
Section ==
  /\ pc = "section" /\ (mapped \/ ~ReadsBytes)
  /\ IF SectionTags[sect] \in Tags
     THEN /\ pos' = 0 /\ pc' = "rel" /\ UNCHANGED sect
          /\ iter' = IF sect = 3 THEN IterInit(img.relandroid) ELSE iter
     ELSE NextSection /\ UNCHANGED <<pos, iter>>
  /\ UNCHANGED <<file, mapped, memory, n, symidx, addr, old_prot, mishaps, loose, calls>>

Words == IF sect = 1 THEN img.relplt ELSE img.reldyn
\* Has the iterator something left to read?
MoreToRead == IF sect = 3 THEN iter.index < iter.count ELSE pos < Len(Words)

Stride == IF is_use_rela THEN 3 ELSE 2

\* Does xh_elf_find_and_replace_func take the relocation for one of the symbol?
Refers(info) ==
  /\ info \div Types = symidx
  /\ info % Types \in IF sect = 1 THEN {JUMP_SLOT} ELSE {GLOB_DAT, ABS}

\* One turn of the loop over a section; off and info are what the iterator
\* returned, when it returned something.
Relocation(some, off, info) ==
  IF ~some THEN NextSection /\ UNCHANGED addr
  ELSE /\ IF Refers(info) THEN addr' = off /\ pc' = "already"
          ELSE UNCHANGED <<addr, pc>>
       /\ UNCHANGED sect

PlainRel ==
  /\ sect # 3
  /\ Relocation(MoreToRead, Words[pos + 1], Words[pos + 2])
  /\ pos' = (IF MoreToRead THEN pos + Stride ELSE pos) /\ UNCHANGED iter

PackedRel ==
  /\ sect = 3
  /\ iter' = IterNext(img.relandroid, iter, is_use_rela)
  /\ Relocation(iter'.ok, iter'.off, iter'.info) /\ UNCHANGED pos

Rel ==
  /\ pc = "rel" /\ (mapped \/ ~MoreToRead) /\ (PlainRel \/ PackedRel)
  /\ UNCHANGED <<file, mapped, memory, n, symidx, old_prot, mishaps, loose, calls>>

\* The next relocation, or the next section after the first one of .rel.plt.
Continue == IF sect = 1 THEN NextSection ELSE pc' = "rel" /\ UNCHANGED sect

\* An error leaves xh_elf_hook; hook_impl goes on with the next hook.
HookError ==
  /\ pc' = "next" /\ mishaps' = mishaps \cup {"hook"}
  /\ UNCHANGED <<file, mapped, memory, n, locals, loose, calls>>

-----------------------------------------------------------------------------
(***************************************************************************)
(* xh_elf_replace_function, on the slot at addr.                           *)
(***************************************************************************)
page == img.page[addr]

\* "Already replaced?"
Already ==
  /\ pc = "already" /\ mapped /\ addr \in Slots
  /\ IF slot[addr] = hook.new THEN Continue ELSE pc' = "prot" /\ UNCHANGED sect
  /\ UNCHANGED <<file, mapped, memory, n, symidx, pos, iter, addr, old_prot, mishaps,
                 loose, calls>>

\* The page's line in the maps file, and mprotect; both fail for a page that is gone.
GetAddrProtect    == mapped /\ old_prot' = prot[page]
SetAddrProtect(p) == mapped /\ prot' = [prot EXCEPT ![page] = p]

\* Mutant: a page that is only readable is left so.
ProtectNot ==
  /\ pc = "prot"
  /\ \/ HookError
     \/ /\ GetAddrProtect /\ pc' = "save"
        /\ UNCHANGED <<file, mapped, memory, n, symidx, sect, pos, iter, addr, mishaps,
                       loose, calls>>

\* Lines 459-474.  The maps file may not open, and does not list a page that is
\* gone; mprotect may fail.
Protect ==
  /\ pc = "prot"
  /\ \/ HookError
     \/ /\ GetAddrProtect /\ SetAddrProtect("rw") /\ pc' = "save"
        /\ UNCHANGED <<file, mapped, slot, old, n, symidx, sect, pos, iter, addr, mishaps,
                       loose, calls>>

\* Mutant: the slot is written before the old function is saved.
SaveLate ==
  /\ pc = "save" /\ mapped
  /\ slot' = [slot EXCEPT ![addr] = hook.new]
  /\ old' = old /\ pc' = "write"
  /\ UNCHANGED <<file, mapped, prot, n, locals, mishaps, loose, calls>>

Save ==
  /\ pc = "save" /\ mapped
  /\ old' = [old EXCEPT ![n] = slot[addr]] /\ pc' = "write"
  /\ UNCHANGED <<file, mapped, slot, prot, n, locals, mishaps, loose, calls>>

Write ==
  /\ pc = "write" /\ mapped /\ prot[page] = "rw"
  /\ slot' = [slot EXCEPT ![addr] = hook.new] /\ pc' = "restore"
  /\ UNCHANGED <<file, mapped, prot, old, n, locals, mishaps, loose, calls>>

\* Mutant: a page that was read-only stays writable.
RestoreNot ==
  /\ pc = "restore" /\ Continue
  /\ UNCHANGED <<file, mapped, memory, n, symidx, pos, iter, addr, old_prot, mishaps,
                 loose, calls>>

\* A failure to restore the protection is only logged.
Restore ==
  /\ pc = "restore"
  /\ \/ old_prot = "rw" /\ UNCHANGED <<prot, loose>>
     \/ old_prot # "rw" /\ SetAddrProtect(old_prot) /\ UNCHANGED loose
     \/ old_prot # "rw" /\ loose' = loose \cup {page} /\ UNCHANGED prot
  /\ Continue
  /\ UNCHANGED <<file, mapped, slot, old, n, symidx, pos, iter, addr, old_prot, mishaps,
                 calls>>

-----------------------------------------------------------------------------
\* Does the next step of the call touch memory that is not there, or a page it
\* may not write?
Segv ==
  \/ /\ ~mapped
     /\ \/ pc \in {"init", "find", "already", "save", "write"}
        \/ pc = "section" /\ ReadsBytes
        \/ pc = "rel" /\ MoreToRead
  \/ pc = "already" /\ addr \notin Slots
  \/ pc = "write" /\ prot[page] # "rw"

\* siglongjmp leaves hook_impl wherever it is (xh_core_hook, XhCore).
Fault ==
  /\ Segv /\ pc' = "idle" /\ mishaps' = mishaps \cup {"fault"}
  /\ loose' = IF pc \in {"save", "write"} THEN loose \cup {page} ELSE loose
  /\ UNCHANGED <<file, mapped, memory, n, locals, calls>>

\* No call is left to make.
Rest == pc = "idle" /\ calls = MaxCalls /\ UNCHANGED vars

Next ==
  \/ Unmap \/ Call \/ ElfInit \/ NextHook \/ Find \/ Section \/ Rel
  \/ Already \/ Protect \/ Save \/ Write \/ Restore \/ Fault \/ Rest

Spec == Init /\ [][Next]_vars

-----------------------------------------------------------------------------
\* Whenever a slot leads to a hook, *old_func leads to what the slot held before
\* any hook: a thread that calls through the slot in the middle of a replacement,
\* after a fault, or after a second call of hook_impl still reaches the original
\* (lines 455-481).
OldIsOriginal ==
  \A a \in Slots, m \in DOMAIN Hooks :
    slot[a] = Hooks[m].new => old[m] = Original[Hooks[m].sym]

\* A call that met no mishap has redirected every slot that a relocation of the
\* symbol names, in all three sections and under either hash table, and no other
\* slot (lines 928-1046 with the lookups and the packed iterator).
HookedExactly ==
  pc = "idle" /\ calls > 0 /\ mishaps = {} /\ img.whole =>
    \A r \in img.refs :
      LET M == {m \in DOMAIN Hooks : Hooks[m].sym = r.sym /\ r.type # 0} IN
      IF M = {} THEN slot[r.off] = Original[r.sym]
      ELSE \E m \in M : slot[r.off] = Hooks[m].new

\* When a call is over every page has the protection it was loaded with, also if
\* hooks failed, but for the page in hand at a fault or a failed mprotect: errors
\* after the protection was changed never lose track of it (lines 459-490).
PagesRestored ==
  pc = "idle" => \A p \in DOMAIN prot \ loose : prot[p] = img.prot[p]

\* xhook raises no SIGSEGV of its own: there is one only if the file was unmapped
\* under it ("segmentation fault sometimes", lines 481, 770 and 806).  No decoded
\* offset leads astray, be the packed section whole or cut short, and no slot is
\* written while its page is read-only.
FaultsOnlyWhenUnmapped == "fault" \in mishaps => ~mapped
=============================================================================
