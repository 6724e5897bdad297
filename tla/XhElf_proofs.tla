----------------------------- MODULE XhElf_proofs -----------------------------
(***************************************************************************)
(* Proofs about XhElf.  PagesRestored needs no hypothesis.  The others are *)
(* about files that a linker wrote (XhElfFiles): what hook_impl does with  *)
(* them, through faults, errors and repeated calls, for every file and     *)
(* every queue of hooks.  The last parts are about what it reads: in any   *)
(* hash table that is laid out as a linker does the lookups find every     *)
(* name there is, and from any packing the iterator gets the relocations.  *)
(***************************************************************************)
EXTENDS XhElfFiles, FiniteSetTheorems, NaturalsInduction, WellFoundedInduction, TLAPS

-----------------------------------------------------------------------------
(***************************************************************************)
(* Invariants.                                                             *)
(***************************************************************************)
InHand  == {"save", "write", "restore"}   \* the page has the protection of the write
AtSlot  == {"already", "prot"} \cup InHand
InSection == {"rel"} \cup AtSlot
Walking == {"section"} \cup InSection
Hooking == {"find"} \cup Walking

\* Outside a replacement every page but the loose ones is as it was; within one, the
\* page in hand is writable and old_prot remembers what it was.
PageInv ==
  /\ DOMAIN prot = DOMAIN img.prot
  /\ pc \notin InHand => \A p \in DOMAIN prot \ loose : prot[p] = img.prot[p]
  /\ pc \in InHand =>
       /\ \A p \in DOMAIN prot \ (loose \cup {page}) : prot[p] = img.prot[p]
       /\ page \in DOMAIN prot => prot[page] = "rw"
       /\ page \in DOMAIN prot \ loose => old_prot = img.prot[page]

\* The types, without what old holds.
TypedMemory ==
  /\ file \in DOMAIN Images /\ mapped \in BOOLEAN
  /\ DOMAIN slot = DOMAIN img.page /\ DOMAIN prot = DOMAIN img.prot
  /\ DOMAIN old = DOMAIN Hooks
  /\ \A p \in DOMAIN prot : prot[p] \in {"r", "rw"}
  /\ mishaps \subseteq {"fault", "init", "hook"} /\ loose \subseteq DOMAIN prot
  /\ calls \in 0..MaxCalls

Positions(im) == 0..(Len(im.relplt) + Len(im.reldyn) + 3)
Addresses == 0..(Word - 1)

TypedLocals ==
  /\ n \in 0..Len(Hooks) /\ symidx \in DOMAIN img.gnu.symtab
  /\ sect \in 1..3 /\ pos \in Positions(img)
  /\ addr \in Addresses /\ old_prot \in {"r", "rw"}
  /\ pc \in {"idle", "init", "next"} \cup Hooking

Typed == TypedMemory /\ TypedLocals

\* Where xh_elf_hook is: the symbol it walks for, the section, the relocation it read
\* last, and the slot that one is of.
Place(It, N) ==
  /\ pc \in Hooking => n \in DOMAIN Hooks
  /\ pc \in Walking => symidx = SymidxOf(img, n) /\ symidx # NotFound
  /\ pc \in InSection =>
       /\ SectionTags[sect] \in TagsIn(img)
       /\ sect # 3 => pos % Step(img) = 0
       /\ sect = 3 => \E j \in 0..N : iter = It[j]
  /\ pc \in AtSlot => addr \in Slots /\ HookedAt(img, n, addr)

Untouched(a) == \A r \in img.refs : r.off = a => slot[a] = Original[r.sym]
Replaced(a) == \E m \in DOMAIN Hooks : HookedAt(img, m, a) /\ slot[a] = Hooks[m].new

\* A slot is as the linker left it or leads to a hook for its symbol.
SlotInv ==
  /\ \A a \in Slots : Untouched(a) \/ Replaced(a)
  /\ pc \in {"prot", "save", "write"} => slot[addr] # hook.new
  /\ pc = "restore" => slot[addr] = hook.new

BaseInv(It, N) ==
  /\ Linked(img, It, N) /\ Typed /\ Place(It, N) /\ SlotInv /\ FaultsOnlyWhenUnmapped

\* *old_func holds nothing or the original, and that before the slot is written.
OldInv ==
  /\ OldIsOriginal
  /\ \A m \in DOMAIN Hooks :
       old[m] = NoFunc \/ \E r \in img.refs : r.sym = Hooks[m].sym /\ old[m] = Original[r.sym]
  /\ pc = "write" => old[n] = Original[hook.sym]

HookDone(m) == \A a \in Slots : HookedAt(img, m, a) => Replaced(a)
DoneIn(It, N, s) == \A a \in Slots : FoundIn(img, It, N, s, symidx, a) => Replaced(a)

\* What a relocation that was read names is replaced, or is in hand.
Passed(off, info) == Takes(symidx, sect, info) => Replaced(off) \/ (pc \in AtSlot /\ off = addr)

Seen(It, N) ==
  /\ sect # 3 =>
       /\ \A p \in Starts(img, sect) : p < pos =>
            Passed(WordsIn(img, sect)[p + 1], WordsIn(img, sect)[p + 2])
       /\ pc \in AtSlot =>
            \E p \in Starts(img, sect) : /\ WordsIn(img, sect)[p + 1] = addr
                                         /\ Takes(symidx, sect, WordsIn(img, sect)[p + 2])
  /\ sect = 3 =>
       \E j \in 0..N : iter = It[j] /\ \A k \in 1..j : Passed(It[k].off, It[k].info)

\* The hooks before this one are done, and so are, for this one, the sections before
\* this one and the relocations before the one in hand.
WalkInv(It, N) ==
  mishaps = {} =>
    /\ pc = "init" => n = 0
    /\ pc = "idle" /\ calls > 0 => \A m \in DOMAIN Hooks : HookDone(m)
    /\ pc = "next" => \A m \in 1..n : HookDone(m)
    /\ pc \in Hooking => \A m \in 1..(n - 1) : HookDone(m)
    /\ pc \in Walking => \A s \in 1..(sect - 1) : DoneIn(It, N, s)
    /\ pc \in InSection => Seen(It, N)

-----------------------------------------------------------------------------
(***************************************************************************)
(* The protection of the pages.                                            *)
(***************************************************************************)
\* The file that is loaded never changes.
LEMMA SameFile == ASSUME [Next]_vars PROVE file' = file /\ img' = img
<1>1. file' = file
  BY DEF Next, vars, Unmap, Call, ElfInit, NextHook, Find, Section, Rel, Already, Protect,
     HookError, Save, Write, Restore, Fault, Rest
<1> QED
  BY <1>1 DEF img

\* A step of the walk keeps the pages, and hands none over.
LEMMA PagesKept ==
  ASSUME PageInv, img' = img, prot' = prot, loose' = loose,
         pc \notin InHand, pc' \notin InHand
  PROVE  PageInv'
  BY DEF PageInv

\* Every step keeps track of the page in hand.
LEMMA NextPageInv == ASSUME PageInv, [Next]_vars PROVE PageInv'
<1>0. img' = img
  BY SameFile
<1>1. CASE Unmap
  BY <1>0, <1>1 DEF Unmap, PageInv, memory, locals, page
<1>2. CASE Call
  BY <1>0, <1>2, PagesKept DEF Call, memory, InHand
<1>3. CASE ElfInit
  BY <1>0, <1>3, PagesKept DEF ElfInit, memory, InHand
<1>4. CASE NextHook
  BY <1>0, <1>4, PagesKept DEF NextHook, memory, InHand
<1>5. CASE Find
  BY <1>0, <1>5, PagesKept DEF Find, memory, InHand
<1>6. CASE Section
  BY <1>0, <1>6, PagesKept DEF Section, NextSection, memory, InHand
<1>7. CASE Rel
  BY <1>0, <1>7, PagesKept DEF Rel, PlainRel, PackedRel, Relocation, NextSection, memory,
     InHand
<1>8. CASE Already
  BY <1>0, <1>8, PagesKept DEF Already, Continue, NextSection, memory, InHand
<1>9. CASE Protect
  <2>1. CASE HookError
    BY <1>0, <1>9, <2>1, PagesKept DEF Protect, HookError, memory, InHand
  <2>2. CASE ~HookError
    <3>1. /\ pc = "prot" /\ pc' = "save" /\ UNCHANGED <<loose, addr>>
          /\ old_prot' = prot[page] /\ prot' = [prot EXCEPT ![page] = "rw"]
      BY <1>9, <2>2 DEF Protect, GetAddrProtect, SetAddrProtect
    <3>2. page' = page
      BY <1>0, <3>1 DEF page
    <3> QED
      BY <1>0, <3>1, <3>2 DEF PageInv, InHand
  <2> QED
    BY <2>1, <2>2
<1>10. CASE Save \/ Write
  BY <1>0, <1>10 DEF Save, Write, PageInv, InHand, locals, page
<1>11. CASE Restore
  <2>1. /\ pc = "restore" /\ pc' \notin InHand /\ UNCHANGED <<addr, old_prot>>
    BY <1>11 DEF Restore, Continue, NextSection, InHand
  <2>2. page' = page
    BY <1>0, <2>1 DEF page
  <2>3. \/ old_prot = "rw" /\ UNCHANGED <<prot, loose>>
        \/ prot' = [prot EXCEPT ![page] = old_prot] /\ UNCHANGED loose
        \/ loose' = loose \cup {page} /\ UNCHANGED prot
    BY <1>11 DEF Restore, SetAddrProtect
  <2> QED
    BY <1>0, <2>1, <2>2, <2>3 DEF PageInv, InHand
<1>12. CASE Fault
  BY <1>0, <1>12 DEF Fault, Segv, memory, locals, PageInv, InHand, page
<1>13. CASE Rest \/ UNCHANGED vars
  BY <1>0, <1>13 DEF Rest, vars, memory, locals, PageInv, page
<1> QED
  BY <1>1, <1>2, <1>3, <1>4, <1>5, <1>6, <1>7, <1>8, <1>9, <1>10, <1>11, <1>12,
     <1>13 DEF Next

\* PageInv always holds.
LEMMA PageInvAlways == Spec => []PageInv
<1>1. Init => PageInv
  BY DEF Init, PageInv, InHand
<1>2. PageInv /\ [Next]_vars => PageInv'
  BY NextPageInv
<1> QED
  BY <1>1, <1>2, PTL DEF Spec

\* A call of hook_impl leaves every page with the protection it was loaded with, but
\* for those in hand at a fault or a failed mprotect: for any file, a malformed one too.
THEOREM PagesAreRestored == Spec => []PagesRestored
<1>1. PageInv => PagesRestored
  BY DEF PageInv, PagesRestored, InHand
<1> QED
  BY <1>1, PageInvAlways, PTL

-----------------------------------------------------------------------------
(***************************************************************************)
(* What the walk reads.                                                    *)
(***************************************************************************)
\* The queue of hooks is a finite sequence.
LEMMA HooksAreFinite == Len(Hooks) \in Nat /\ DOMAIN Hooks = 1..Len(Hooks)
  BY HooksAssumption

\* The operators of the walk are those of the file.
LEMMA WalkReads ==
  /\ is_use_rela = Rela(img) /\ Stride = Step(img) /\ Words = WordsIn(img, sect)
  /\ FindSymidx = SymidxOf(img, n)
  /\ \A info : Refers(info) = Takes(symidx, sect, info)
  BY DEF is_use_rela, Rela, Stride, Step, Words, WordsIn, FindSymidx, SymidxOf,
     is_use_gnu_hash, Tags, TagsIn, hook, Refers, Takes

\* A relocation the walk takes is of a slot the hook is for.
LEMMA TakenIsHooked ==
  ASSUME NEW im, Laid(im), Resolves(im), NEW m \in DOMAIN Hooks, NEW s, NEW off, NEW info,
         SymidxOf(im, m) # NotFound, NamesSlot(im, s, off, info),
         Takes(SymidxOf(im, m), s, info)
  PROVE  off \in DOMAIN im.page /\ HookedAt(im, m, off)
  BY DEF Laid, Resolves, NamesSlot, HookedAt

\* The relocation a plain section is read at starts there.
LEMMA PlainStart ==
  ASSUME NEW im, Laid(im), NEW s \in 1..2, NEW p \in Nat, p % Step(im) = 0,
         p < Len(WordsIn(im, s))
  PROVE  /\ p \in Starts(im, s) /\ (p + Step(im)) % Step(im) = 0 /\ p + Step(im) \in Nat
         /\ \A q \in Starts(im, s) : q < p + Step(im) => q <= p
<1>1. Len(WordsIn(im, s)) \in Nat
  BY DEF Laid, WordsIn
<1>2. p \in Starts(im, s)
  BY <1>1 DEF Starts
<1>3. Step(im) \in {2, 3}
  BY DEF Step
<1>4. CASE Step(im) = 2
  BY <1>1, <1>2, <1>4 DEF Starts
<1>5. CASE Step(im) = 3
  BY <1>1, <1>2, <1>5 DEF Starts
<1> QED
  BY <1>3, <1>4, <1>5

\* A relocation of the packed section is the next one of the decoder's run; where it
\* returns none the run is at its end.
LEMMA PackedNext ==
  ASSUME NEW im, NEW It, NEW N, Decoded(im, It, N), NEW j \in 0..N,
         NEW it, it = IterNext(im.relandroid, It[j], Rela(im))
  PROVE  /\ it.ok => j + 1 \in 1..N /\ it = It[j + 1]
         /\ ~it.ok => j = N
<1>1. N \in Nat
  BY DEF Decoded
<1>2. CASE j = N
  BY <1>2 DEF Decoded
<1>3. CASE j # N
  BY <1>1, <1>3 DEF Decoded
<1> QED
  BY <1>2, <1>3

-----------------------------------------------------------------------------
(***************************************************************************)
(* BaseInv.                                                                *)
(***************************************************************************)
\* What one turn of the loop over a plain section reads, and where that leaves it.
LEMMA PlainRelOne ==
  ASSUME NEW It, NEW N, BaseInv(It, N), pc = "rel", sect # 3, PlainRel
  PROVE  /\ iter' = iter /\ pos \in Nat /\ pos % Step(img) = 0
         /\ \/ /\ pos >= Len(WordsIn(img, sect)) /\ pos' = pos /\ NextSection /\ addr' = addr
            \/ /\ pos \in Starts(img, sect) /\ pos' = pos + Step(img) /\ sect' = sect
               /\ pos' % Step(img) = 0
               /\ \A q \in Starts(img, sect) : q < pos' => q <= pos
               /\ \/ /\ Takes(symidx, sect, WordsIn(img, sect)[pos + 2])
                     /\ addr' = WordsIn(img, sect)[pos + 1] /\ pc' = "already"
                     /\ addr' \in Slots /\ HookedAt(img, n, addr')
                  \/ /\ ~Takes(symidx, sect, WordsIn(img, sect)[pos + 2])
                     /\ addr' = addr /\ pc' = pc
<1>1. /\ Laid(img) /\ Resolves(img) /\ Relocates(img, It, N) /\ sect \in 1..2
      /\ n \in DOMAIN Hooks /\ symidx = SymidxOf(img, n) /\ symidx # NotFound
      /\ SectionTags[sect] \in TagsIn(img) /\ DOMAIN slot = DOMAIN img.page
  BY DEF BaseInv, Linked, Typed, TypedMemory, TypedLocals, Place, InSection, Walking, Hooking
<1>2. pos \in Nat /\ pos % Step(img) = 0 /\ iter' = iter
  BY <1>1 DEF BaseInv, Typed, TypedLocals, Positions, Place, InSection, Laid, PlainRel
<1>3. Len(WordsIn(img, sect)) \in Nat
  BY <1>1 DEF Laid, WordsIn
<1>4. MoreToRead <=> pos < Len(WordsIn(img, sect))
  BY WalkReads DEF MoreToRead
<1>5. CASE ~MoreToRead
  <2>1. pos >= Len(WordsIn(img, sect))
    BY <1>2, <1>3, <1>4, <1>5
  <2>2. pos' = pos /\ NextSection /\ addr' = addr
    BY <1>5 DEF PlainRel, Relocation
  <2> QED
    BY <1>2, <2>1, <2>2
<1>6. CASE MoreToRead
  <2>1. /\ pos \in Starts(img, sect) /\ (pos + Step(img)) % Step(img) = 0
        /\ \A q \in Starts(img, sect) : q < pos + Step(img) => q <= pos
    BY <1>1, <1>2, <1>4, <1>6, PlainStart
  <2>2. /\ pos' = pos + Step(img) /\ sect' = sect
        /\ IF Takes(symidx, sect, WordsIn(img, sect)[pos + 2])
           THEN addr' = WordsIn(img, sect)[pos + 1] /\ pc' = "already"
           ELSE addr' = addr /\ pc' = pc
    BY <1>6, WalkReads DEF PlainRel, Relocation
  <2>3. NamesSlot(img, sect, WordsIn(img, sect)[pos + 1], WordsIn(img, sect)[pos + 2])
    BY <1>1, <2>1 DEF Relocates
  <2>4. Takes(symidx, sect, WordsIn(img, sect)[pos + 2]) =>
          /\ WordsIn(img, sect)[pos + 1] \in Slots
          /\ HookedAt(img, n, WordsIn(img, sect)[pos + 1])
    BY <1>1, <2>3, TakenIsHooked DEF Slots
  <2> QED
    BY <1>2, <2>1, <2>2, <2>4
<1> QED
  BY <1>5, <1>6

\* The same for the packed section.
LEMMA PackedRelOne ==
  ASSUME NEW It, NEW N, BaseInv(It, N), pc = "rel", PackedRel, NEW j \in 0..N, iter = It[j]
  PROVE  /\ pos' = pos /\ sect = 3
         /\ \/ j = N /\ NextSection /\ addr' = addr
            \/ /\ j + 1 \in 1..N /\ iter' = It[j + 1] /\ sect' = sect
               /\ \/ /\ Takes(symidx, 3, It[j + 1].info)
                     /\ addr' = It[j + 1].off /\ pc' = "already"
                     /\ addr' \in Slots /\ HookedAt(img, n, addr')
                  \/ ~Takes(symidx, 3, It[j + 1].info) /\ addr' = addr /\ pc' = pc
<1>1. /\ Laid(img) /\ Resolves(img) /\ Relocates(img, It, N) /\ Decoded(img, It, N)
      /\ n \in DOMAIN Hooks /\ symidx = SymidxOf(img, n) /\ symidx # NotFound
      /\ SectionTags[sect] \in TagsIn(img) /\ DOMAIN slot = DOMAIN img.page
  BY DEF BaseInv, Linked, Typed, TypedMemory, TypedLocals, Place, InSection, Walking, Hooking
<1>2. sect = 3 /\ pos' = pos /\ iter' = IterNext(img.relandroid, It[j], Rela(img))
      /\ Relocation(iter'.ok, iter'.off, iter'.info)
  BY WalkReads DEF PackedRel
<1>3. /\ iter'.ok => j + 1 \in 1..N /\ iter' = It[j + 1]
      /\ ~iter'.ok => j = N
  BY <1>1, <1>2, PackedNext
<1>4. CASE ~iter'.ok
  BY <1>2, <1>3, <1>4 DEF Relocation
<1>5. CASE iter'.ok
  <2>1. /\ sect' = sect
        /\ IF Takes(symidx, 3, It[j + 1].info) THEN addr' = It[j + 1].off /\ pc' = "already"
           ELSE addr' = addr /\ pc' = pc
    BY <1>2, <1>3, <1>5, WalkReads DEF Relocation
  <2>2. NamesSlot(img, 3, It[j + 1].off, It[j + 1].info)
    BY <1>1, <1>2, <1>3, <1>5 DEF Relocates, SectionTags
  <2>3. Takes(symidx, 3, It[j + 1].info) =>
          It[j + 1].off \in Slots /\ HookedAt(img, n, It[j + 1].off)
    BY <1>1, <2>2, TakenIsHooked DEF Slots
  <2> QED
    BY <1>2, <1>3, <1>5, <2>1, <2>3
<1> QED
  BY <1>4, <1>5

\* A slot that leads to a hook for its symbol does so for good.
LEMMA ReplacedStays ==
  ASSUME img' = img, n \in DOMAIN Hooks,
         \/ slot' = slot
         \/ slot' = [slot EXCEPT ![addr] = hook.new] /\ HookedAt(img, n, addr)
  PROVE  /\ Slots' = Slots
         /\ \A a \in Slots : Replaced(a) => Replaced(a)'
         /\ \A a \in Slots : Untouched(a) => Untouched(a)' \/ Replaced(a)'
<1>1. Slots' = Slots
  BY DEF Slots
<1>2. ASSUME NEW a \in Slots, slot'[a] = slot[a]
      PROVE  (Replaced(a) => Replaced(a)') /\ (Untouched(a) => Untouched(a)')
  BY <1>2 DEF Replaced, Untouched
<1>3. ASSUME NEW a \in Slots, slot'[a] # slot[a] PROVE Replaced(a)'
  <2>1. a = addr /\ slot'[a] = Hooks[n].new /\ HookedAt(img, n, a)
    BY <1>3 DEF Slots, hook
  <2> QED
    BY <2>1 DEF Replaced
<1> QED
  BY <1>1, <1>2, <1>3

\* The same for a step that leaves the slots alone.
LEMMA SlotsKept ==
  ASSUME img' = img, slot' = slot
  PROVE  /\ Slots' = Slots
         /\ \A a \in Slots : Replaced(a) => Replaced(a)'
         /\ \A a \in Slots : Untouched(a) => Untouched(a)' \/ Replaced(a)'
  BY DEF Slots, Replaced, Untouched

\* After the last relocation of a section comes the next section, or the next hook.
LEMMA NextSectionOne ==
  ASSUME sect \in 1..3, NextSection
  PROVE  \/ sect = 3 /\ pc' = "next" /\ sect' = sect
         \/ sect # 3 /\ pc' = "section" /\ sect' = sect + 1 /\ sect' \in 1..3
  BY DEF NextSection

\* After a slot comes the next relocation; .rel.plt has one of a symbol.
LEMMA ContinueOne ==
  ASSUME sect \in 1..3, Continue
  PROVE  \/ sect = 1 /\ pc' = "section" /\ sect' = 2
         \/ sect # 1 /\ pc' = "rel" /\ sect' = sect
  BY DEF Continue, NextSection

\* BaseInv is inductive.
LEMMA NextBaseInv ==
  ASSUME NEW It, NEW N, BaseInv(It, N), PageInv, [Next]_vars
  PROVE  BaseInv(It, N)'
<1>0. file' = file /\ img' = img
  BY SameFile
<1>a. Linked(img, It, N)'
  BY <1>0 DEF BaseInv
<1>b. Laid(img) /\ Resolves(img) /\ Decoded(img, It, N)
  BY DEF BaseInv, Linked
<1>c. Len(Hooks) \in Nat /\ DOMAIN Hooks = 1..Len(Hooks)
  BY HooksAreFinite
<1>d. /\ 0 \in Positions(img)
      /\ \A s \in 1..2 : \A p \in Starts(img, s) : p + Step(img) \in Positions(img)
  <2>1. img.relplt \in Seq(Nat) /\ img.reldyn \in Seq(Nat)
    BY <1>b DEF Laid
  <2>2. PICK a \in Nat, b \in Nat : a = Len(img.relplt) /\ b = Len(img.reldyn)
    BY <2>1
  <2>3. Positions(img) = 0..(a + b + 3)
    BY <2>2 DEF Positions
  <2>4. Step(img) \in {2, 3}
    BY DEF Step
  <2>5. ASSUME NEW s \in 1..2, NEW p \in Starts(img, s) PROVE p + Step(img) \in Positions(img)
    <3>1. Len(WordsIn(img, s)) = a \/ Len(WordsIn(img, s)) = b
      BY <2>2 DEF WordsIn
    <3>2. PICK l \in Nat : l = Len(WordsIn(img, s)) /\ (l = a \/ l = b)
      BY <3>1
    <3>3. p \in 0..(l - 1)
      BY <3>2 DEF Starts
    <3> QED
      BY <2>3, <2>4, <3>2, <3>3
  <2> QED
    BY <2>3, <2>5
<1> USE <1>0
<1>1. CASE Unmap
  BY <1>1, <1>a DEF Unmap, BaseInv, Typed, TypedMemory, TypedLocals, Place, SlotInv,
     Untouched, Replaced, Slots, hook,
     FaultsOnlyWhenUnmapped, memory, locals
<1>2. CASE Call
  <2>1. /\ pc' = "init" /\ n' = 0 /\ mishaps' = {} /\ calls' \in 0..MaxCalls
        /\ UNCHANGED <<mapped, slot, prot, old, symidx, sect, pos, addr, old_prot, loose>>
    BY <1>2, CallsAssumption DEF Call, BaseInv, Typed, TypedMemory, memory, locals
  <2>2. Typed'
    <3>1. TypedMemory'
      BY <1>c, <2>1 DEF BaseInv, Typed, TypedMemory
    <3>2. TypedLocals'
      BY <1>c, <2>1 DEF BaseInv, Typed, TypedLocals
    <3> QED
      BY <3>1, <3>2 DEF Typed
  <2>3. Place(It, N)' /\ FaultsOnlyWhenUnmapped'
    BY <2>1 DEF Place, FaultsOnlyWhenUnmapped, Hooking, Walking, InSection, AtSlot, InHand
  <2>4. SlotInv'
    BY <2>1, SlotsKept DEF BaseInv, SlotInv
  <2> QED
    BY <1>a, <2>2, <2>3, <2>4 DEF BaseInv
<1>3. CASE ElfInit
  <2>1. /\ pc' \in {"next", "idle"} /\ mishaps' \in {mishaps, {"init"}} /\ n' = n
        /\ UNCHANGED <<mapped, slot, prot, old, symidx, sect, pos, addr, old_prot, loose,
                       calls>>
    BY <1>3 DEF ElfInit, memory, locals
  <2>2. Typed'
    <3>1. TypedMemory'
      BY <2>1 DEF BaseInv, Typed, TypedMemory
    <3>2. TypedLocals'
      BY <2>1 DEF BaseInv, Typed, TypedLocals
    <3> QED
      BY <3>1, <3>2 DEF Typed
  <2>3. Place(It, N)' /\ FaultsOnlyWhenUnmapped'
    BY <2>1 DEF BaseInv, Place, FaultsOnlyWhenUnmapped, Hooking, Walking, InSection, AtSlot,
       InHand
  <2>4. SlotInv'
    BY <2>1, SlotsKept DEF BaseInv, SlotInv
  <2> QED
    BY <1>a, <2>2, <2>3, <2>4 DEF BaseInv
<1>4. CASE NextHook
  <2>1. /\ \/ pc' = "find" /\ n' \in DOMAIN Hooks
           \/ pc' = "idle" /\ n' = n
        /\ UNCHANGED <<mapped, slot, prot, old, symidx, sect, pos, addr, old_prot, mishaps,
                       loose, calls>>
    BY <1>4, <1>c DEF NextHook, memory, locals, BaseInv, Typed, TypedLocals
  <2>2. Typed'
    <3>1. TypedMemory'
      BY <1>c, <2>1 DEF BaseInv, Hooking, Typed, TypedMemory
    <3>2. TypedLocals'
      BY <1>c, <2>1 DEF BaseInv, Hooking, Typed, TypedLocals
    <3> QED
      BY <3>1, <3>2 DEF Typed
  <2>3. Place(It, N)' /\ FaultsOnlyWhenUnmapped'
    BY <2>1 DEF BaseInv, Place, FaultsOnlyWhenUnmapped, Hooking, Walking, InSection, AtSlot,
       InHand
  <2>4. SlotInv'
    BY <2>1, SlotsKept DEF BaseInv, SlotInv
  <2> QED
    BY <1>a, <2>2, <2>3, <2>4 DEF BaseInv
<1>5. CASE Find
  <2>1. /\ pc = "find" /\ symidx' = SymidxOf(img, n)
        /\ \/ symidx' = NotFound /\ pc' = "next" /\ sect' = sect
           \/ symidx' # NotFound /\ pc' = "section" /\ sect' = 1
        /\ UNCHANGED <<mapped, slot, prot, old, n, pos, addr, old_prot, mishaps, loose,
                       calls>>
    BY <1>5, WalkReads DEF Find, memory
  <2>2. n \in DOMAIN Hooks
    BY <2>1 DEF BaseInv, Place, Hooking
  <2>3. Typed'
    <3>1. TypedMemory'
      BY <1>b, <2>1, <2>2 DEF BaseInv, Resolves, Hooking, Walking, Typed, TypedMemory
    <3>2. TypedLocals'
      BY <1>b, <2>1, <2>2 DEF BaseInv, Resolves, Hooking, Walking, Typed, TypedLocals
    <3> QED
      BY <3>1, <3>2 DEF Typed
  <2>4. Place(It, N)' /\ FaultsOnlyWhenUnmapped'
    BY <2>1, <2>2 DEF BaseInv, Place, FaultsOnlyWhenUnmapped, Hooking, Walking, InSection,
       AtSlot, InHand
  <2>5. SlotInv'
    BY <2>1, SlotsKept DEF BaseInv, SlotInv
  <2> QED
    BY <1>a, <2>3, <2>4, <2>5 DEF BaseInv
<1>6. CASE Section
  <2>1. /\ pc = "section"
        /\ UNCHANGED <<mapped, slot, prot, old, n, symidx, addr, old_prot, mishaps, loose,
                       calls>>
    BY <1>6 DEF Section, memory
  <2>2. /\ n \in DOMAIN Hooks /\ symidx = SymidxOf(img, n) /\ symidx # NotFound /\ sect \in 1..3
    BY <2>1 DEF BaseInv, Place, Typed, TypedLocals, Hooking, Walking
  <2>3. \/ /\ SectionTags[sect] \in TagsIn(img) /\ pos' = 0 /\ pc' = "rel" /\ sect' = sect
           /\ sect = 3 => iter' = It[0]
        \/ NextSection /\ pos' = pos
    BY <1>6, <1>b DEF Section, Tags, TagsIn, Decoded
  <2>4. Typed'
    <3>1. TypedMemory'
      BY <1>d, <2>1, <2>2, <2>3, NextSectionOne DEF BaseInv, Hooking, Walking, InSection,
         Typed, TypedMemory
    <3>2. TypedLocals'
      BY <1>d, <2>1, <2>2, <2>3, NextSectionOne DEF BaseInv, Hooking, Walking, InSection,
         Typed, TypedLocals
    <3> QED
      BY <3>1, <3>2 DEF Typed
  <2>5. Place(It, N)' /\ FaultsOnlyWhenUnmapped'
    <3>1. 0 \in 0..N /\ 0 % Step(img) = 0
      BY <1>b DEF Decoded, Step
    <3> QED
      BY <2>1, <2>2, <2>3, <3>1, NextSectionOne DEF BaseInv, Place, FaultsOnlyWhenUnmapped,
         Hooking, Walking, InSection, AtSlot, InHand
  <2>6. SlotInv'
    BY <2>1, <2>3, SlotsKept, NextSectionOne, <2>2 DEF BaseInv, SlotInv
  <2> QED
    BY <1>a, <2>4, <2>5, <2>6 DEF BaseInv
<1>7. CASE Rel
  <2>1. /\ pc = "rel"
        /\ UNCHANGED <<mapped, slot, prot, old, n, symidx, old_prot, mishaps, loose, calls>>
    BY <1>7 DEF Rel, memory
  <2>2. /\ n \in DOMAIN Hooks /\ symidx = SymidxOf(img, n) /\ symidx # NotFound /\ sect \in 1..3
        /\ SectionTags[sect] \in TagsIn(img) /\ pos \in Positions(img) /\ addr \in Addresses
    BY <2>1 DEF BaseInv, Place, Typed, TypedLocals, Hooking, Walking, InSection
  <2>3. \A a \in Slots : a \in Addresses
    BY <1>b DEF BaseInv, Typed, TypedMemory, Slots, Laid, Addresses
  <2>4. \/ NextSection /\ pos' = pos /\ addr' = addr
        \/ /\ sect' = sect /\ pos' \in Positions(img)
           /\ sect # 3 => pos' % Step(img) = 0
           /\ sect = 3 => \E j \in 0..N : iter' = It[j]
           /\ \/ pc' = "already" /\ addr' \in Slots /\ HookedAt(img, n, addr')
              \/ pc' = "rel" /\ addr' = addr
    <3>1. CASE PlainRel
      <4>1. sect # 3 /\ sect \in 1..2
        BY <2>2, <3>1 DEF PlainRel
      <4> QED
        BY <1>d, <2>1, <2>2, <3>1, <4>1, PlainRelOne
    <3>2. CASE PackedRel
      <4>1. sect = 3
        BY <3>2 DEF PackedRel
      <4>2. PICK j \in 0..N : iter = It[j]
        BY <2>1, <4>1 DEF BaseInv, Place, InSection
      <4>3. j + 1 \in 1..N => j + 1 \in 0..N
        BY <1>b DEF Decoded
      <4> QED
        BY <2>1, <2>2, <3>2, <4>1, <4>2, <4>3, PackedRelOne
    <3> QED
      BY <1>7, <3>1, <3>2 DEF Rel
  <2>5. Typed'
    <3>1. TypedMemory'
      BY <2>1 DEF BaseInv, Typed, TypedMemory
    <3>2. TypedLocals'
      BY <2>1, <2>2, <2>3, <2>4, NextSectionOne DEF BaseInv, Typed, TypedLocals, Hooking,
         Walking,
         InSection, AtSlot
    <3> QED
      BY <3>1, <3>2 DEF Typed
  <2>6. Place(It, N)' /\ FaultsOnlyWhenUnmapped'
    <3>1. FaultsOnlyWhenUnmapped'
      BY <2>1 DEF BaseInv, FaultsOnlyWhenUnmapped
    <3>2. Slots' = Slots
      BY <2>1 DEF Slots
    <3>3. Place(It, N)'
      BY <2>1, <2>2, <2>4, <3>2, NextSectionOne DEF Place, Hooking, Walking, InSection,
         AtSlot,
         InHand
    <3> QED
      BY <3>1, <3>3
  <2>7. pc' \in {"next", "section", "already", "rel"}
    BY <2>2, <2>4, NextSectionOne
  <2>8. SlotInv'
    BY <2>1, <2>7, SlotsKept DEF BaseInv, SlotInv
  <2> QED
    BY <1>a, <2>5, <2>6, <2>8 DEF BaseInv
<1>e. pc \in AtSlot =>
        /\ addr \in Slots /\ HookedAt(img, n, addr) /\ page \in DOMAIN prot
        /\ n \in DOMAIN Hooks /\ symidx = SymidxOf(img, n) /\ symidx # NotFound
        /\ SectionTags[sect] \in TagsIn(img) /\ sect \in 1..3
        /\ sect # 3 => pos % Step(img) = 0
        /\ sect = 3 => \E j \in 0..N : iter = It[j]
  BY <1>b DEF BaseInv, Typed, TypedMemory, TypedLocals, Place, Slots, Laid, page, InSection,
     Walking, Hooking
<1>8. CASE Already
  <2>1. /\ pc = "already" /\ pc \in AtSlot
        /\ \/ Continue
           \/ slot[addr] # hook.new /\ pc' = "prot" /\ sect' = sect
        /\ UNCHANGED <<mapped, slot, prot, old, n, symidx, pos, iter, addr, old_prot,
                       mishaps, loose, calls>>
    BY <1>8 DEF Already, memory, AtSlot
  <2>2. Typed'
    <3>1. TypedMemory'
      BY <2>1 DEF BaseInv, Typed, TypedMemory
    <3>2. TypedLocals'
      BY <2>1, <1>e, ContinueOne DEF BaseInv, Typed, TypedLocals, Hooking, Walking,
         InSection,
         AtSlot
    <3> QED
      BY <3>1, <3>2 DEF Typed
  <2>3. Place(It, N)' /\ FaultsOnlyWhenUnmapped'
    BY <2>1, <1>e, ContinueOne DEF BaseInv, Place, FaultsOnlyWhenUnmapped, Slots, Hooking,
       Walking, InSection, AtSlot, InHand
  <2>4. SlotInv'
    BY <2>1, <1>e, SlotsKept, ContinueOne DEF BaseInv, SlotInv, hook
  <2> QED
    BY <1>a, <2>2, <2>3, <2>4 DEF BaseInv
<1>9. CASE Protect
  <2>1. pc = "prot" /\ pc \in AtSlot
    BY <1>9 DEF Protect, AtSlot
  <2>2. CASE HookError
    <3>1. /\ pc' = "next" /\ mishaps' = mishaps \cup {"hook"}
          /\ UNCHANGED <<mapped, slot, prot, old, n, symidx, sect, pos, iter, addr, old_prot,
                         loose, calls>>
      BY <2>2 DEF HookError, memory, locals
    <3>2. Typed'
      BY <3>1 DEF BaseInv, Typed, TypedMemory, TypedLocals
    <3>3. Place(It, N)' /\ FaultsOnlyWhenUnmapped'
      BY <3>1 DEF BaseInv, Place, FaultsOnlyWhenUnmapped, Hooking, Walking, InSection,
         AtSlot,
         InHand
    <3>4. SlotInv'
      BY <3>1, SlotsKept DEF BaseInv, SlotInv
    <3> QED
      BY <1>a, <3>2, <3>3, <3>4 DEF BaseInv
  <2>3. CASE ~HookError
    <3>1. /\ pc' = "save" /\ old_prot' = prot[page] /\ prot' = [prot EXCEPT ![page] = "rw"]
          /\ UNCHANGED <<mapped, slot, old, n, symidx, sect, pos, iter, addr, mishaps,
                         loose, calls>>
      BY <1>9, <2>3 DEF Protect, GetAddrProtect, SetAddrProtect
    <3>2. TypedMemory'
      BY <3>1 DEF BaseInv, Typed, TypedMemory
    <3>3. TypedLocals'
      BY <2>1, <3>1, <1>e DEF BaseInv, Typed, TypedMemory, TypedLocals, Hooking, Walking,
         InSection, AtSlot, InHand
    <3>4. Place(It, N)' /\ FaultsOnlyWhenUnmapped'
      BY <2>1, <3>1, <1>e DEF BaseInv, Place, FaultsOnlyWhenUnmapped, Slots, Hooking,
         Walking,
         InSection, AtSlot, InHand
    <3>5. SlotInv'
      BY <2>1, <3>1, SlotsKept DEF BaseInv, SlotInv, hook
    <3> QED
      BY <1>a, <3>2, <3>3, <3>4, <3>5 DEF BaseInv, Typed
  <2> QED
    BY <2>2, <2>3
<1>10. CASE Save
  <2>1. /\ pc = "save" /\ pc' = "write" /\ old' = [old EXCEPT ![n] = slot[addr]]
        /\ UNCHANGED <<mapped, slot, prot, n, symidx, sect, pos, iter, addr, old_prot,
                       mishaps, loose, calls>>
    BY <1>10 DEF Save, locals
  <2>2. TypedMemory'
    BY <2>1 DEF BaseInv, Typed, TypedMemory
  <2>3. TypedLocals'
    BY <2>1 DEF BaseInv, Typed, TypedLocals, Hooking, Walking, InSection, AtSlot, InHand
  <2>4. Place(It, N)' /\ FaultsOnlyWhenUnmapped'
    BY <2>1 DEF BaseInv, Place, FaultsOnlyWhenUnmapped, Slots, Hooking, Walking, InSection,
       AtSlot, InHand
  <2>5. SlotInv'
    BY <2>1, SlotsKept DEF BaseInv, SlotInv, hook
  <2> QED
    BY <1>a, <2>2, <2>3, <2>4, <2>5 DEF BaseInv, Typed
<1>11. CASE Write
  <2>1. /\ pc = "write" /\ pc' = "restore" /\ slot' = [slot EXCEPT ![addr] = hook.new]
        /\ UNCHANGED <<mapped, prot, old, n, symidx, sect, pos, iter, addr, old_prot,
                       mishaps, loose, calls>>
    BY <1>11 DEF Write, locals
  <2>2. TypedMemory'
    BY <2>1 DEF BaseInv, Typed, TypedMemory
  <2>3. TypedLocals'
    BY <2>1 DEF BaseInv, Typed, TypedLocals, Hooking, Walking, InSection, AtSlot, InHand
  <2>4. Place(It, N)' /\ FaultsOnlyWhenUnmapped'
    BY <2>1 DEF BaseInv, Place, FaultsOnlyWhenUnmapped, Slots, Hooking, Walking, InSection,
       AtSlot, InHand
  <2>5. SlotInv'
    <3>1. addr \in Slots /\ n \in DOMAIN Hooks /\ HookedAt(img, n, addr)
      BY <2>1, <1>e DEF AtSlot, InHand
    <3>2. slot'[addr] = hook.new
      BY <2>1, <3>1 DEF Slots
    <3> QED
      BY <2>1, <3>1, <3>2, ReplacedStays DEF BaseInv, SlotInv, hook
  <2> QED
    BY <1>a, <2>2, <2>3, <2>4, <2>5 DEF BaseInv, Typed
<1>12. CASE Restore
  <2>1. /\ pc = "restore" /\ pc \in AtSlot /\ Continue
        /\ UNCHANGED <<mapped, slot, old, n, symidx, pos, iter, addr, old_prot, mishaps,
                       calls>>
        /\ \/ UNCHANGED <<prot, loose>>
           \/ prot' = [prot EXCEPT ![page] = old_prot] /\ loose' = loose
           \/ loose' = loose \cup {page} /\ prot' = prot
    BY <1>12 DEF Restore, SetAddrProtect, AtSlot, InHand
  <2>2. TypedMemory'
    BY <2>1, <1>e DEF BaseInv, Typed, TypedMemory, TypedLocals
  <2>3. TypedLocals'
    BY <2>1, <1>e, ContinueOne DEF BaseInv, Typed, TypedLocals, Hooking, Walking, InSection
  <2>4. Place(It, N)' /\ FaultsOnlyWhenUnmapped'
    BY <2>1, <1>e, ContinueOne DEF BaseInv, Place, FaultsOnlyWhenUnmapped, Slots, Hooking,
       Walking, InSection, AtSlot, InHand
  <2>5. SlotInv'
    BY <2>1, <1>e, SlotsKept, ContinueOne DEF BaseInv, SlotInv
  <2> QED
    BY <1>a, <2>2, <2>3, <2>4, <2>5 DEF BaseInv, Typed
<1>13. CASE Fault
  <2>1. /\ pc' = "idle" /\ mishaps' = mishaps \cup {"fault"}
        /\ loose' = loose \/ (pc \in AtSlot /\ loose' = loose \cup {page})
        /\ UNCHANGED <<mapped, slot, prot, old, n, symidx, sect, pos, iter, addr, old_prot,
                       calls>>
    BY <1>13 DEF Fault, memory, locals, AtSlot, InHand
  <2>2. ~mapped
    <3>1. pc \in AtSlot => addr \in Slots
      BY <1>e
    <3>2. pc = "write" => prot[page] = "rw"
      BY <1>e DEF PageInv, AtSlot, InHand
    <3> QED
      BY <1>13, <3>1, <3>2 DEF Fault, Segv, AtSlot
  <2>3. TypedMemory'
    BY <2>1, <1>e DEF BaseInv, Typed, TypedMemory
  <2>4. TypedLocals'
    BY <2>1 DEF BaseInv, Typed, TypedLocals
  <2>5. Place(It, N)' /\ FaultsOnlyWhenUnmapped'
    BY <2>1, <2>2 DEF Place, FaultsOnlyWhenUnmapped, Hooking, Walking, InSection, AtSlot,
       InHand
  <2>6. SlotInv'
    BY <2>1, SlotsKept DEF BaseInv, SlotInv
  <2> QED
    BY <1>a, <2>3, <2>4, <2>5, <2>6 DEF BaseInv, Typed
<1>14. CASE Rest \/ UNCHANGED vars
  <2>1. UNCHANGED <<mapped, slot, prot, old, n, symidx, sect, pos, iter, addr, old_prot,
                    mishaps, loose, calls, pc>>
    BY <1>14 DEF Rest, vars, memory, locals
  <2>2. Typed'
    BY <2>1 DEF BaseInv, Typed, TypedMemory, TypedLocals
  <2>3. Place(It, N)' /\ FaultsOnlyWhenUnmapped'
    BY <2>1 DEF BaseInv, Place, FaultsOnlyWhenUnmapped, Slots
  <2>4. SlotInv'
    BY <2>1, SlotsKept DEF BaseInv, SlotInv, hook
  <2> QED
    BY <1>a, <2>2, <2>3, <2>4 DEF BaseInv
<1> QED
  BY <1>1, <1>2, <1>3, <1>4, <1>5, <1>6, <1>7, <1>8, <1>9, <1>10, <1>11, <1>12, <1>13,
     <1>14 DEF Next

-----------------------------------------------------------------------------
(***************************************************************************)
(* What *old_func holds.                                                   *)
(***************************************************************************)
\* Before a slot is written it holds the original of the symbol, not another hook.
LEMMA InHandIsOriginal ==
  ASSUME HooksApart, NEW It, NEW N, BaseInv(It, N), pc \in {"prot", "save", "write"}
  PROVE  /\ n \in DOMAIN Hooks /\ addr \in Slots
         /\ \E r \in img.refs : r.sym = hook.sym /\ slot[addr] = Original[hook.sym]
<1>1. /\ n \in DOMAIN Hooks /\ addr \in Slots /\ HookedAt(img, n, addr)
      /\ slot[addr] # Hooks[n].new
  BY DEF BaseInv, Place, SlotInv, Hooking, Walking, InSection, AtSlot, InHand, hook
<1>2. PICK r \in img.refs : r.off = addr /\ r.sym = Hooks[n].sym
  BY <1>1 DEF HookedAt
<1>3. \A q \in img.refs : q.off = addr => q = r
  BY <1>2 DEF BaseInv, Linked, Laid
<1>4. ~Replaced(addr)
  BY <1>1, <1>2, <1>3 DEF Replaced, HookedAt, HooksApart
<1>5. slot[addr] = Original[r.sym]
  BY <1>1, <1>2, <1>4 DEF BaseInv, SlotInv, Untouched
<1> QED
  BY <1>1, <1>2, <1>5 DEF hook

\* A step that leaves the slots and *old_func alone keeps OldInv.
LEMMA OldKept ==
  ASSUME OldInv, img' = img, slot' = slot, old' = old, pc' # "write" \/ UNCHANGED <<pc, n>>
  PROVE  OldInv'
<1>1. OldIsOriginal'
  BY DEF OldInv, OldIsOriginal, Slots
<1>2. \A m \in DOMAIN Hooks :
        \/ old'[m] = NoFunc
        \/ \E r \in img'.refs : r.sym = Hooks[m].sym /\ old'[m] = Original[r.sym]
  BY DEF OldInv
<1>3. pc' = "write" => old'[n'] = Original[hook'.sym]
  BY DEF OldInv, hook
<1> QED
  BY <1>1, <1>2, <1>3 DEF OldInv

\* OldInv is inductive, for hooks that do not share symbols or functions.
LEMMA NextOldInv ==
  ASSUME HooksApart, NEW It, NEW N, BaseInv(It, N), OldInv, [Next]_vars
  PROVE  OldInv'
<1>0. img' = img
  BY SameFile
<1>1. CASE Save
  <2>1. /\ pc = "save" /\ pc' = "write" /\ old' = [old EXCEPT ![n] = slot[addr]]
        /\ slot' = slot /\ n' = n /\ DOMAIN old = DOMAIN Hooks
    BY <1>1 DEF Save, BaseInv, Typed, TypedMemory
  <2>2. /\ n \in DOMAIN Hooks
        /\ \E r \in img.refs : r.sym = hook.sym /\ slot[addr] = Original[hook.sym]
    BY <2>1, InHandIsOriginal
  <2>3. old'[n] = Original[Hooks[n].sym] /\ \A m \in DOMAIN Hooks \ {n} : old'[m] = old[m]
    BY <2>1, <2>2 DEF hook
  <2>4. OldIsOriginal'
    BY <2>1, <2>3 DEF OldInv, OldIsOriginal, Slots
  <2>5. \A m \in DOMAIN Hooks :
          \/ old'[m] = NoFunc
          \/ \E r \in img'.refs : r.sym = Hooks[m].sym /\ old'[m] = Original[r.sym]
    BY <1>0, <2>2, <2>3 DEF OldInv, hook
  <2>6. pc' = "write" => old'[n'] = Original[hook'.sym]
    BY <2>1, <2>3 DEF hook
  <2> QED
    BY <2>4, <2>5, <2>6 DEF OldInv
<1>2. CASE Write
  <2>1. /\ pc = "write" /\ pc' = "restore" /\ slot' = [slot EXCEPT ![addr] = hook.new]
        /\ UNCHANGED <<old, n>>
    BY <1>2 DEF Write
  <2>2. n \in DOMAIN Hooks /\ addr \in Slots /\ old[n] = Original[Hooks[n].sym]
    BY <2>1, InHandIsOriginal DEF OldInv, hook
  <2>3. Slots' = Slots /\ \A a \in Slots : slot'[a] = IF a = addr THEN Hooks[n].new ELSE slot[a]
    BY <2>1 DEF Slots, hook
  <2>4. \A m \in DOMAIN Hooks : Hooks[m].new = Hooks[n].new => m = n
    BY <2>2 DEF HooksApart
  <2>5. OldIsOriginal'
    BY <2>1, <2>2, <2>3, <2>4 DEF OldInv, OldIsOriginal
  <2> QED
    BY <1>0, <2>1, <2>5 DEF OldInv
<1>3. CASE ~Save /\ ~Write
  <2>1. slot' = slot /\ old' = old
    BY <1>3 DEF Next, vars, memory, Unmap, Call, ElfInit, NextHook, Find, Section, Rel,
       Already,
       Protect, HookError, Restore, Fault, Rest
  <2>2. pc' # "write" \/ UNCHANGED <<pc, n>>
    BY <1>3 DEF Next, vars, Unmap, Call, ElfInit, NextHook, Find, Section, Rel, PlainRel,
       PackedRel,
       Relocation, NextSection, Already, Continue, Protect, HookError, Restore, Fault, Rest
  <2> QED
    BY <1>0, <2>1, <2>2, OldKept
<1> QED
  BY <1>1, <1>2, <1>3

-----------------------------------------------------------------------------
(***************************************************************************)
(* What is replaced.                                                       *)
(***************************************************************************)
\* No step takes a slot back.
LEMMA NextKeepsReplaced ==
  ASSUME NEW It, NEW N, BaseInv(It, N), [Next]_vars
  PROVE  /\ Slots' = Slots
         /\ \A a \in Slots : Replaced(a) => Replaced(a)'
<1>0. img' = img
  BY SameFile
<1>1. CASE Write
  <2>1. n \in DOMAIN Hooks /\ HookedAt(img, n, addr) /\ slot' = [slot EXCEPT ![addr] = hook.new]
    BY <1>1 DEF Write, BaseInv, Place, Hooking, Walking, InSection, AtSlot, InHand
  <2> QED
    BY <1>0, <2>1, ReplacedStays
<1>2. CASE ~Write
  <2>1. slot' = slot
    BY <1>2 DEF Next, vars, memory, Unmap, Call, ElfInit, NextHook, Find, Section, Rel,
       Already,
       Protect, HookError, Save, Restore, Fault, Rest
  <2> QED
    BY <1>0, <2>1, SlotsKept
<1> QED
  BY <1>1, <1>2

\* The hooks that are done stay done, and so do the sections.
LEMMA DoneStays ==
  ASSUME NEW It, NEW N, img' = img, Slots' = Slots, \A a \in Slots : Replaced(a) => Replaced(a)'
  PROVE  /\ \A m : HookDone(m) => HookDone(m)'
         /\ \A s : symidx' = symidx /\ DoneIn(It, N, s) => DoneIn(It, N, s)'
  BY DEF HookDone, DoneIn

\* What a hook is for is in one of the three sections.
LEMMA SectionsDone ==
  ASSUME NEW It, NEW N, BaseInv(It, N), Complete(img, It, N), pc \in Walking,
         \A s \in 1..3 : DoneIn(It, N, s)
  PROVE  HookDone(n)
<1>1. n \in DOMAIN Hooks /\ symidx = SymidxOf(img, n) /\ Slots = DOMAIN img.page
  BY DEF BaseInv, Place, Hooking, Typed, TypedMemory, Slots
<1>2. ASSUME NEW a \in Slots, HookedAt(img, n, a) PROVE Replaced(a)
  <2>1. PICK s \in 1..3 : FoundIn(img, It, N, s, symidx, a)
    BY <1>1, <1>2 DEF Complete
  <2> QED
    BY <2>1 DEF DoneIn
<1> QED
  BY <1>2 DEF HookDone

\* A section that is done is followed by the next one, or the hook is done.
LEMMA NextSectionDone ==
  ASSUME NEW It, NEW N, BaseInv(It, N), Complete(img, It, N), [Next]_vars,
         WalkInv(It, N), mishaps = {}, pc \in Walking, DoneIn(It, N, sect), NextSection,
         UNCHANGED <<n, symidx>>
  PROVE  WalkInv(It, N)'
<1>0. img' = img
  BY SameFile
<1>1. Slots' = Slots /\ \A a \in Slots : Replaced(a) => Replaced(a)'
  BY NextKeepsReplaced
<1>2. n \in DOMAIN Hooks /\ n \in Nat /\ sect \in 1..3
  BY HooksAreFinite DEF BaseInv, Place, Hooking, Typed, TypedLocals
<1>3. (\A m \in 1..(n - 1) : HookDone(m)) /\ \A s \in 1..(sect - 1) : DoneIn(It, N, s)
  BY DEF WalkInv, Hooking
<1>4. \A s \in 1..sect : DoneIn(It, N, s)
  BY <1>2, <1>3
<1>5. CASE sect = 3 /\ pc' = "next"
  <2>1. HookDone(n)
    BY <1>4, <1>5, SectionsDone
  <2>2. \A m \in 1..n : HookDone(m)
    BY <1>2, <1>3, <2>1
  <2>3. \A m \in 1..n' : HookDone(m)'
    BY <1>0, <1>1, <2>2, DoneStays
  <2> QED
    BY <1>5, <2>3 DEF WalkInv, Hooking, Walking, InSection, AtSlot, InHand
<1>6. CASE pc' = "section" /\ sect' = sect + 1
  <2>1. (\A m \in 1..(n' - 1) : HookDone(m)') /\ \A s \in 1..(sect' - 1) : DoneIn(It, N, s)'
    BY <1>0, <1>1, <1>2, <1>3, <1>4, <1>6, DoneStays
  <2> QED
    BY <1>6, <2>1 DEF WalkInv, Hooking, Walking, InSection, AtSlot, InHand
<1> QED
  BY <1>2, <1>5, <1>6, NextSectionOne

\* A slot that is replaced is followed by the next relocation; in .rel.plt it was the
\* only one of its symbol, so the section is done.
LEMMA ContinueDone ==
  ASSUME NEW It, NEW N, BaseInv(It, N), Complete(img, It, N), [Next]_vars,
         WalkInv(It, N), mishaps = {}, pc \in AtSlot, Replaced(addr), Continue,
         UNCHANGED <<n, symidx, pos, iter, addr>>
  PROVE  WalkInv(It, N)'
<1>0. img' = img
  BY SameFile
<1>1. Slots' = Slots /\ \A a \in Slots : Replaced(a) => Replaced(a)'
  BY NextKeepsReplaced
<1>2. n \in DOMAIN Hooks /\ symidx = SymidxOf(img, n) /\ sect \in 1..3 /\ addr \in Slots
  BY DEF BaseInv, Place, Hooking, Walking, InSection, Typed, TypedLocals
<1>3. /\ \A m \in 1..(n - 1) : HookDone(m)
      /\ \A s \in 1..(sect - 1) : DoneIn(It, N, s)
      /\ Seen(It, N)
  BY DEF WalkInv, Hooking, Walking, InSection
<1>4. CASE sect = 1
  <2>1. PICK p \in Starts(img, 1) : WordsIn(img, 1)[p + 1] = addr
                                    /\ Takes(symidx, 1, WordsIn(img, 1)[p + 2])
    BY <1>3, <1>4 DEF Seen
  <2>2. ASSUME NEW a \in Slots, FoundIn(img, It, N, 1, symidx, a) PROVE Replaced(a)
    <3>1. PICK q \in Starts(img, 1) : WordsIn(img, 1)[q + 1] = a
                                      /\ Takes(symidx, 1, WordsIn(img, 1)[q + 2])
      BY <2>2 DEF FoundIn
    <3>2. p = q
      BY <1>2, <2>1, <3>1 DEF Complete, WordsIn
    <3> QED
      BY <2>1, <3>1, <3>2
  <2>3. DoneIn(It, N, sect)
    BY <1>4, <2>2 DEF DoneIn
  <2>4. NextSection
    BY <1>4 DEF Continue
  <2> QED
    BY <2>3, <2>4, NextSectionDone DEF Walking, InSection
<1>5. CASE sect # 1
  <2>1. pc' = "rel" /\ sect' = sect
    BY <1>5 DEF Continue
  <2>2. ASSUME NEW off, NEW info, Passed(off, info) PROVE Passed(off, info)'
    <3>1. Takes(symidx, sect, info) => Replaced(off) /\ off \in Slots
      BY <1>2, <2>2 DEF Passed, Replaced, HookedAt, BaseInv, Linked, Laid, Typed,
         TypedMemory,
         Slots
    <3> QED
      BY <1>1, <2>1, <3>1 DEF Passed
  <2>3. Seen(It, N)'
    BY <1>0, <1>3, <2>1, <2>2 DEF Seen, AtSlot, InHand
  <2>4. (\A m \in 1..(n' - 1) : HookDone(m)') /\ \A s \in 1..(sect' - 1) : DoneIn(It, N, s)'
    BY <1>0, <1>1, <1>3, <2>1, DoneStays
  <2> QED
    BY <2>1, <2>3, <2>4 DEF WalkInv, Hooking, Walking, InSection, AtSlot, InHand
<1> QED
  BY <1>4, <1>5

\* One turn of the loop over a section keeps what was seen.
LEMMA RelDone ==
  ASSUME NEW It, NEW N, BaseInv(It, N), Complete(img, It, N), [Next]_vars,
         WalkInv(It, N), mishaps = {}, Rel
  PROVE  WalkInv(It, N)'
<1>0. img' = img
  BY SameFile
<1>1. Slots' = Slots /\ \A a \in Slots : Replaced(a) => Replaced(a)'
  BY NextKeepsReplaced
<1>2. pc = "rel" /\ UNCHANGED <<n, symidx, slot>>
  BY DEF Rel, memory
<1>3. /\ n \in DOMAIN Hooks /\ symidx = SymidxOf(img, n) /\ sect \in 1..3
      /\ SectionTags[sect] \in TagsIn(img) /\ Slots = DOMAIN img.page /\ Laid(img)
  BY <1>2 DEF BaseInv, Place, Hooking, Walking, InSection, Typed, TypedMemory, TypedLocals,
     Slots, Linked
<1>4. /\ \A m \in 1..(n - 1) : HookDone(m)
      /\ \A s \in 1..(sect - 1) : DoneIn(It, N, s)
      /\ Seen(It, N)
  BY <1>2 DEF WalkInv, Hooking, Walking, InSection
<1>5. ASSUME sect' = sect, pc' \in {"rel", "already"}, Seen(It, N)' PROVE WalkInv(It, N)'
  <2>1. (\A m \in 1..(n' - 1) : HookDone(m)') /\ \A s \in 1..(sect' - 1) : DoneIn(It, N, s)'
    BY <1>0, <1>1, <1>2, <1>4, <1>5, DoneStays
  <2> QED
    BY <1>5, <2>1 DEF WalkInv, Hooking, Walking, InSection, AtSlot, InHand
<1>6. ASSUME NEW off, NEW info, Passed(off, info), sect' = sect PROVE Passed(off, info)'
  <2>1. Takes(symidx, sect, info) => Replaced(off)
    BY <1>2, <1>6 DEF Passed, AtSlot, InHand
  <2>2. Replaced(off) => off \in Slots
    BY <1>3 DEF Replaced, HookedAt, Laid
  <2> QED
    BY <1>1, <1>2, <1>6, <2>1, <2>2 DEF Passed
<1>7. CASE PlainRel
  <2>1. sect # 3 /\ sect \in 1..2
    BY <1>3, <1>7 DEF PlainRel
  <2>2. \A p \in Starts(img, sect) : p < pos =>
          Passed(WordsIn(img, sect)[p + 1], WordsIn(img, sect)[p + 2])
    BY <1>4, <2>1 DEF Seen
  <2>3. CASE pos >= Len(WordsIn(img, sect)) /\ pos' = pos /\ NextSection /\ addr' = addr
    <3>1. \A p \in Starts(img, sect) : p < pos
      <4>1. pos \in Nat /\ Len(WordsIn(img, sect)) \in Nat
        BY <1>2, <1>3, <1>7, <2>1, PlainRelOne DEF Laid, WordsIn
      <4> QED
        BY <2>3, <4>1 DEF Starts
    <3>2. ASSUME NEW a \in Slots, FoundIn(img, It, N, sect, symidx, a) PROVE Replaced(a)
      BY <1>2, <2>1, <2>2, <3>1, <3>2 DEF FoundIn, Passed, AtSlot, InHand
    <3>3. DoneIn(It, N, sect)
      BY <3>2 DEF DoneIn
    <3> QED
      BY <1>2, <2>3, <3>3, NextSectionDone DEF Walking, InSection
  <2>4. CASE ~(pos >= Len(WordsIn(img, sect)) /\ pos' = pos /\ NextSection /\ addr' = addr)
    <3>1. /\ pos \in Starts(img, sect) /\ pos' = pos + Step(img) /\ sect' = sect
          /\ \A q \in Starts(img, sect) : q < pos' => q <= pos
          /\ \/ /\ Takes(symidx, sect, WordsIn(img, sect)[pos + 2])
                /\ addr' = WordsIn(img, sect)[pos + 1] /\ pc' = "already"
             \/ ~Takes(symidx, sect, WordsIn(img, sect)[pos + 2]) /\ pc' = pc
      BY <1>2, <1>7, <2>1, <2>4, PlainRelOne
    <3>2. ASSUME NEW p \in Starts(img, sect), p = pos
          PROVE  Passed(WordsIn(img, sect)[p + 1], WordsIn(img, sect)[p + 2])'
      BY <1>0, <1>2, <3>1, <3>2 DEF Passed, AtSlot
    <3>3. ASSUME NEW p \in Starts(img, sect), p < pos'
          PROVE  Passed(WordsIn(img, sect)[p + 1], WordsIn(img, sect)[p + 2])'
      <4>1. p = pos \/ p < pos
        <5>1. p \in Int /\ pos \in Int /\ p <= pos
          BY <3>1, <3>3 DEF Starts
        <5> QED
          BY <5>1
      <4>2. CASE p = pos
        BY <3>2, <4>2
      <4>3. CASE p < pos
        BY <1>0, <1>6, <2>2, <3>1, <4>3
      <4> QED
        BY <4>1, <4>2, <4>3
    <3>4. pc' \in AtSlot => \E p \in Starts(img, sect) :
            WordsIn(img, sect)[p + 1] = addr' /\ Takes(symidx, sect, WordsIn(img,
            sect)[p + 2])
      BY <1>2, <3>1 DEF AtSlot, InHand
    <3>5. Seen(It, N)'
      BY <1>0, <1>2, <2>1, <3>1, <3>3, <3>4 DEF Seen
    <3> QED
      BY <1>2, <1>5, <3>1, <3>5
  <2> QED
    BY <2>3, <2>4
<1>8. CASE PackedRel
  <2>1. sect = 3
    BY <1>8 DEF PackedRel
  <2>2. PICK j \in 0..N : iter = It[j] /\ \A k \in 1..j : Passed(It[k].off, It[k].info)
    BY <1>4, <2>1 DEF Seen
  <2>3. j \in Nat /\ N \in Nat
    BY DEF BaseInv, Linked, Decoded
  <2>4. CASE j = N /\ NextSection
    <3>1. ASSUME NEW a \in Slots, FoundIn(img, It, N, sect, symidx, a) PROVE Replaced(a)
      BY <1>2, <2>1, <2>2, <2>4, <3>1 DEF FoundIn, Passed, AtSlot, InHand
    <3>2. DoneIn(It, N, sect)
      BY <3>1 DEF DoneIn
    <3> QED
      BY <1>2, <2>4, <3>2, NextSectionDone DEF Walking, InSection
  <2>5. CASE ~(j = N /\ NextSection)
    <3>1. /\ j + 1 \in 1..N /\ iter' = It[j + 1] /\ sect' = sect
          /\ \/ Takes(symidx, 3, It[j + 1].info) /\ addr' = It[j + 1].off /\ pc' = "already"
             \/ ~Takes(symidx, 3, It[j + 1].info) /\ pc' = pc
      BY <1>2, <1>8, <2>2, <2>5, PackedRelOne
    <3>2. Passed(It[j + 1].off, It[j + 1].info)'
      BY <1>2, <2>1, <3>1 DEF Passed, AtSlot
    <3>3. \A k \in 1..j : Passed(It[k].off, It[k].info)'
      BY <1>6, <2>2, <3>1
    <3>4. \A k \in 1..(j + 1) : Passed(It[k].off, It[k].info)'
      BY <2>3, <3>2, <3>3
    <3>5. j + 1 \in 0..N
      BY <2>3, <3>1
    <3>6. Seen(It, N)'
      BY <2>1, <3>1, <3>4, <3>5 DEF Seen
    <3> QED
      BY <1>2, <1>5, <3>1, <3>6
  <2> QED
    BY <2>4, <2>5
<1> QED
  BY <1>7, <1>8 DEF Rel

\* WalkInv is inductive, for a file that is whole.
LEMMA NextWalkInv ==
  ASSUME NEW It, NEW N, BaseInv(It, N), Complete(img, It, N), WalkInv(It, N), [Next]_vars
  PROVE  WalkInv(It, N)'
<1>0. img' = img
  BY SameFile
<1>1. Slots' = Slots /\ \A a \in Slots : Replaced(a) => Replaced(a)'
  BY NextKeepsReplaced
<1>2. \A m : HookDone(m) => HookDone(m)'
  BY <1>0, <1>1, DoneStays
<1>3. Len(Hooks) \in Nat /\ DOMAIN Hooks = 1..Len(Hooks) /\ n \in 0..Len(Hooks) /\ sect \in 1..3
  BY HooksAreFinite DEF BaseInv, Typed, TypedLocals
<1>4. CASE Call
  BY <1>4 DEF Call, WalkInv, Hooking, Walking, InSection, AtSlot, InHand
<1>5. CASE mishaps # {} /\ ~Call
  <2>1. mishaps' # {}
    BY <1>5 DEF Next, vars, Unmap, ElfInit, NextHook, Find, Section, Rel, Already,
       Protect, HookError, Save, Write, Restore, Fault, Rest
  <2> QED
    BY <2>1 DEF WalkInv
<1>6. ASSUME mishaps' # {} PROVE WalkInv(It, N)'
  BY <1>6 DEF WalkInv
<1>7. CASE mishaps = {} /\ ElfInit
  <2>1. pc = "init" /\ pc' \in {"next", "idle"} /\ n' = n /\ (pc' = "idle" => mishaps' # {})
    BY <1>7 DEF ElfInit
  <2>2. n' = 0
    BY <1>7, <2>1 DEF WalkInv
  <2> QED
    BY <1>6, <2>1, <2>2 DEF WalkInv, Hooking, Walking, InSection, AtSlot, InHand
<1>8. CASE mishaps = {} /\ NextHook
  <2>1. /\ pc = "next" /\ UNCHANGED calls
        /\ IF n < Len(Hooks) THEN n' = n + 1 /\ pc' = "find" ELSE n' = n /\ pc' = "idle"
    BY <1>8 DEF NextHook
  <2>2. \A m \in 1..n : HookDone(m)'
    BY <1>2, <1>8, <2>1 DEF WalkInv
  <2>3. CASE n < Len(Hooks)
    <3>1. \A m \in 1..(n' - 1) : HookDone(m)'
      BY <1>3, <2>1, <2>2, <2>3
    <3> QED
      BY <2>1, <2>3, <3>1 DEF WalkInv, Hooking, Walking, InSection, AtSlot, InHand
  <2>4. CASE ~(n < Len(Hooks))
    <3>1. \A m \in DOMAIN Hooks : HookDone(m)'
      BY <1>3, <2>2, <2>4
    <3> QED
      BY <2>1, <2>4, <3>1 DEF WalkInv, Hooking, Walking, InSection, AtSlot, InHand
  <2> QED
    BY <2>3, <2>4
<1>9. CASE mishaps = {} /\ Find
  <2>1. /\ pc = "find" /\ symidx' = SymidxOf(img, n) /\ n' = n
        /\ \/ symidx' = NotFound /\ pc' = "next"
           \/ pc' = "section" /\ sect' = 1
    BY <1>9, WalkReads DEF Find
  <2>2. n \in DOMAIN Hooks /\ \A m \in 1..(n - 1) : HookDone(m)
    BY <1>9, <2>1 DEF BaseInv, Place, WalkInv, Hooking
  <2>3. \A m \in 1..(n' - 1) : HookDone(m)'
    BY <1>2, <2>1, <2>2
  <2>4. CASE symidx' = NotFound /\ pc' = "next"
    <3>1. HookDone(n)
      BY <2>1, <2>2, <2>4 DEF HookDone, Complete, BaseInv, Typed, TypedMemory, Slots
    <3>2. \A m \in 1..n' : HookDone(m)'
      <4>1. \A m \in 1..n : m \in 1..(n - 1) \/ m = n
        BY <1>3
      <4> QED
        BY <1>2, <2>1, <2>2, <3>1, <4>1
    <3> QED
      BY <2>4, <3>2 DEF WalkInv, Hooking, Walking, InSection, AtSlot, InHand
  <2>5. CASE pc' = "section" /\ sect' = 1
    BY <2>3, <2>5 DEF WalkInv, Walking, InSection, AtSlot, InHand
  <2> QED
    BY <2>1, <2>4, <2>5
<1>10. CASE mishaps = {} /\ Section
  <2>1. pc = "section" /\ UNCHANGED <<n, symidx, slot>>
    BY <1>10 DEF Section, memory
  <2>2. CASE SectionTags[sect] \in TagsIn(img)
    <3>1. /\ pos' = 0 /\ pc' = "rel" /\ sect' = sect /\ (sect = 3 => iter' = It[0])
      BY <1>10, <2>2 DEF Section, Tags, TagsIn, BaseInv, Linked, Decoded
    <3>2. Seen(It, N)'
      <4>1. N \in Nat
        BY DEF BaseInv, Linked, Decoded
      <4>2. sect # 3 => \A p \in Starts(img, sect) : ~(p < pos')
        BY <3>1 DEF Starts
      <4>3. 0 \in 0..N /\ \A k \in 1..0 : FALSE
        BY <4>1
      <4> QED
        BY <1>0, <3>1, <4>2, <4>3 DEF Seen, AtSlot, InHand
    <3>3. (\A m \in 1..(n' - 1) : HookDone(m)') /\ \A s \in 1..(sect' - 1) : DoneIn(It, N,
    s)'
      BY <1>0, <1>1, <1>10, <2>1, <3>1, DoneStays DEF WalkInv, Hooking, Walking
    <3> QED
      BY <3>1, <3>2, <3>3 DEF WalkInv, Hooking, Walking, InSection, AtSlot, InHand
  <2>3. CASE SectionTags[sect] \notin TagsIn(img)
    <3>1. NextSection /\ DoneIn(It, N, sect)
      BY <1>10, <2>3 DEF Section, Tags, TagsIn, DoneIn, FoundIn
    <3> QED
      BY <1>10, <2>1, <3>1, NextSectionDone DEF Walking
  <2> QED
    BY <2>2, <2>3
<1>11. CASE mishaps = {} /\ Rel
  BY <1>11, RelDone
<1>12. ASSUME mishaps = {}, pc \in AtSlot, pc' \in AtSlot,
              UNCHANGED <<n, symidx, sect, pos, iter, addr, calls>>
       PROVE  WalkInv(It, N)'
  <2>1. /\ \A m \in 1..(n - 1) : HookDone(m)
        /\ \A s \in 1..(sect - 1) : DoneIn(It, N, s)
        /\ Seen(It, N)
    BY <1>12 DEF WalkInv, Hooking, Walking, InSection
  <2>2. ASSUME NEW off, NEW info, Passed(off, info) PROVE Passed(off, info)'
    <3>1. Replaced(off) => off \in Slots
      BY DEF Replaced, HookedAt, BaseInv, Linked, Laid, Typed, TypedMemory, Slots
    <3> QED
      BY <1>1, <1>12, <2>2, <3>1 DEF Passed
  <2>3. Seen(It, N)'
    BY <1>0, <1>12, <2>1, <2>2 DEF Seen
  <2>4. (\A m \in 1..(n' - 1) : HookDone(m)') /\ \A s \in 1..(sect' - 1) : DoneIn(It, N, s)'
    BY <1>0, <1>1, <1>12, <2>1, DoneStays
  <2> QED
    BY <1>12, <2>3, <2>4 DEF WalkInv, Hooking, Walking, InSection, AtSlot, InHand
<1>13. CASE mishaps = {} /\ Already
  <2>1. /\ pc = "already" /\ pc \in AtSlot /\ UNCHANGED <<n, symidx, pos, iter, addr, calls>>
        /\ \/ slot[addr] = hook.new /\ Continue
           \/ pc' = "prot" /\ sect' = sect
    BY <1>13 DEF Already, AtSlot
  <2>2. slot[addr] = hook.new => Replaced(addr)
    BY <2>1 DEF BaseInv, Place, Hooking, Walking, InSection, Replaced, hook
  <2> QED
    BY <1>12, <1>13, <2>1, <2>2, ContinueDone DEF AtSlot
<1>14. CASE mishaps = {} /\ Restore
  <2>1. /\ pc = "restore" /\ pc \in AtSlot /\ Continue
        /\ UNCHANGED <<n, symidx, pos, iter, addr>>
    BY <1>14 DEF Restore, AtSlot, InHand
  <2>2. Replaced(addr)
    BY <2>1 DEF BaseInv, Place, SlotInv, Hooking, Walking, InSection, Replaced, hook
  <2> QED
    BY <1>14, <2>1, <2>2, ContinueDone
<1>15. CASE mishaps = {} /\ Protect
  <2>1. \/ mishaps' # {}
        \/ /\ pc = "prot" /\ pc' = "save"
           /\ UNCHANGED <<n, symidx, sect, pos, iter, addr, calls>>
    BY <1>15 DEF Protect, HookError
  <2> QED
    BY <1>6, <1>12, <1>15, <2>1 DEF AtSlot, InHand
<1>16. CASE mishaps = {} /\ (Save \/ Write)
  <2>1. /\ pc \in {"save", "write"} /\ pc' \in {"write", "restore"}
        /\ UNCHANGED <<n, symidx, sect, pos, iter, addr, calls>>
    BY <1>16 DEF Save, Write, locals
  <2> QED
    BY <1>12, <1>16, <2>1 DEF AtSlot, InHand
<1>17. CASE mishaps = {} /\ Fault
  BY <1>6, <1>17 DEF Fault
<1>18. CASE mishaps = {} /\ (Unmap \/ Rest \/ UNCHANGED vars)
  <2>1. UNCHANGED <<slot, n, symidx, sect, pos, iter, addr, mishaps, calls, pc>>
    BY <1>18 DEF Unmap, Rest, vars, memory, locals
  <2> QED
    BY <1>0, <2>1 DEF WalkInv, HookDone, DoneIn, Seen, Passed, Replaced, Slots
<1> QED
  BY <1>4, <1>5, <1>7, <1>8, <1>9, <1>10, <1>11, <1>13, <1>14, <1>15, <1>16, <1>17,
     <1>18 DEF Next

-----------------------------------------------------------------------------
(***************************************************************************)
(* The theorems about linked files.                                        *)
(***************************************************************************)
\* The invariant: with the decoder's run over the packed section, everything above.
LinkedInv ==
  /\ PageInv
  /\ \E It, N : BaseInv(It, N) /\ (img.whole => Complete(img, It, N) /\ WalkInv(It, N))

\* What a file that is loaded starts as.
LEMMA InitBaseInv ==
  ASSUME Init, NEW It, NEW N, Linked(img, It, N)
  PROVE  BaseInv(It, N) /\ WalkInv(It, N)
<1>1. Laid(img)
  BY DEF Linked
<1>2. TypedMemory
  BY <1>1, CallsAssumption DEF Init, TypedMemory, Laid
<1>3. TypedLocals
  <2>1. Len(Hooks) \in Nat
    BY HooksAreFinite
  <2>2. 0 \in Positions(img)
    <3>1. PICK a \in Nat, b \in Nat : a = Len(img.relplt) /\ b = Len(img.reldyn)
      BY <1>1 DEF Laid
    <3>2. Positions(img) = 0..(a + b + 3)
      BY <3>1 DEF Positions
    <3> QED
      BY <3>2
  <2>3. 0 \in DOMAIN img.gnu.symtab /\ 0 \in Addresses
    BY <1>1 DEF Laid, NotFound, Addresses
  <2> QED
    BY <2>1, <2>2, <2>3 DEF Init, TypedLocals
<1>4. Place(It, N)
  BY DEF Init, Place, Hooking, Walking, InSection, AtSlot, InHand
<1>5. SlotInv
  <2>1. ASSUME NEW a \in Slots, NEW r \in img.refs, r.off = a PROVE slot[a] = Original[r.sym]
    <3>1. a \in DOMAIN img.page /\ (CHOOSE q \in img.refs : q.off = a) = r
      BY <1>1, <2>1 DEF Init, Slots, Laid
    <3> QED
      BY <3>1 DEF Init
  <2> QED
    BY <2>1 DEF Init, SlotInv, Untouched
<1>6. FaultsOnlyWhenUnmapped /\ WalkInv(It, N)
  BY DEF Init, FaultsOnlyWhenUnmapped, WalkInv, Hooking, Walking, InSection, AtSlot, InHand
<1> QED
  BY <1>2, <1>3, <1>4, <1>5, <1>6 DEF BaseInv, Typed

\* *old_func starts as nothing.
LEMMA InitOldInv == ASSUME FilesLinked, HooksApart, Init PROVE OldInv
<1>1. ASSUME NEW a \in Slots, NEW m \in DOMAIN Hooks PROVE slot[a] # Hooks[m].new
  <2>1. PICK r \in img.refs : r = CHOOSE q \in img.refs : q.off = a
    BY <1>1 DEF Init, FilesLinked, Linked, Laid, img, Slots
  <2>2. slot[a] = Original[r.sym]
    BY <1>1, <2>1 DEF Init, Slots
  <2> QED
    BY <2>2 DEF HooksApart, Init, img
<1> QED
  BY <1>1 DEF Init, OldInv, OldIsOriginal

\* LinkedInv always holds, and with hooks apart so does OldInv.
LEMMA LinkedInvAlways == ASSUME FilesLinked PROVE Spec => []LinkedInv
<1>1. Init => LinkedInv
  <2> SUFFICES ASSUME Init PROVE LinkedInv
    OBVIOUS
  <2>1. PICK It, N : Linked(img, It, N) /\ (img.whole => Complete(img, It, N))
    BY DEF Init, FilesLinked, img
  <2>2. PageInv
    BY DEF Init, PageInv, InHand
  <2> QED
    BY <2>1, <2>2, InitBaseInv DEF LinkedInv
<1>2. LinkedInv /\ [Next]_vars => LinkedInv'
  <2> SUFFICES ASSUME LinkedInv, [Next]_vars PROVE LinkedInv'
    OBVIOUS
  <2>1. PICK It, N : BaseInv(It, N) /\ (img.whole => Complete(img, It, N) /\ WalkInv(It, N))
    BY DEF LinkedInv
  <2>2. img' = img /\ PageInv /\ PageInv'
    BY SameFile, NextPageInv DEF LinkedInv
  <2>3. BaseInv(It, N)'
    BY <2>1, <2>2, NextBaseInv
  <2>4. img.whole => Complete(img, It, N) /\ WalkInv(It, N)'
    BY <2>1, NextWalkInv
  <2> QED
    BY <2>2, <2>3, <2>4 DEF LinkedInv
<1> QED
  BY <1>1, <1>2, PTL DEF Spec

\* What a saved function may be, at every reachable state.
LEMMA OldInvAlways == ASSUME FilesLinked, HooksApart PROVE Spec => []OldInv
<1>1. Init => OldInv
  BY InitOldInv
<1>2. LinkedInv /\ OldInv /\ [Next]_vars => OldInv'
  BY NextOldInv DEF LinkedInv
<1> QED
  BY <1>1, <1>2, LinkedInvAlways, PTL DEF Spec

\* xhook raises no SIGSEGV of its own on a file a linker wrote.
THEOREM FaultsAreUnmaps == ASSUME FilesLinked PROVE Spec => []FaultsOnlyWhenUnmapped
<1>1. LinkedInv => FaultsOnlyWhenUnmapped
  BY DEF LinkedInv, BaseInv
<1> QED
  BY <1>1, LinkedInvAlways, PTL

\* A call without mishaps redirects the slots of the hooked symbols, and no other, in a
\* file that is whole.
THEOREM ExactlyTheHooked == ASSUME FilesLinked PROVE Spec => []HookedExactly
<1>1. LinkedInv => HookedExactly
  <2> SUFFICES ASSUME LinkedInv, pc = "idle", calls > 0, mishaps = {}, img.whole,
                      NEW r \in img.refs
               PROVE  LET M == {m \in DOMAIN Hooks : Hooks[m].sym = r.sym /\ r.type # 0} IN
                      IF M = {} THEN slot[r.off] = Original[r.sym]
                      ELSE \E m \in M : slot[r.off] = Hooks[m].new
    BY DEF HookedExactly
  <2> DEFINE M == {m \in DOMAIN Hooks : Hooks[m].sym = r.sym /\ r.type # 0}
  <2>1. PICK It, N : BaseInv(It, N) /\ Complete(img, It, N) /\ WalkInv(It, N)
    BY DEF LinkedInv
  <2>2. r.off \in Slots /\ \A q \in img.refs : q.off = r.off => q = r
    BY <2>1 DEF BaseInv, Linked, Laid, Typed, TypedMemory, Slots
  <2>3. \A m \in DOMAIN Hooks : HookedAt(img, m, r.off) <=> m \in M
    BY <2>2 DEF HookedAt
  <2>4. CASE M = {}
    <3>1. Untouched(r.off)
      BY <2>1, <2>2, <2>3, <2>4 DEF BaseInv, SlotInv, Replaced
    <3> QED
      BY <2>4, <3>1 DEF Untouched
  <2>5. CASE M # {}
    <3>1. PICK m \in DOMAIN Hooks : m \in M
      BY <2>5
    <3>2. Replaced(r.off)
      BY <2>1, <2>2, <2>3, <3>1 DEF WalkInv, HookDone
    <3> QED
      BY <2>3, <2>5, <3>2 DEF Replaced
  <2> QED
    BY <2>4, <2>5
<1> QED
  BY <1>1, LinkedInvAlways, PTL

\* *old_func leads to the original by the time a slot leads to the hook, whatever
\* faults, errors and repeated calls came before.
THEOREM OldFuncIsOriginal == ASSUME FilesLinked, HooksApart PROVE Spec => []OldIsOriginal
<1>1. OldInv => OldIsOriginal
  BY DEF OldInv
<1> QED
  BY <1>1, OldInvAlways, PTL

\* The types: no symbol index, position, address or protection the code computes is out
\* of range, and *old_func holds nothing or an original.
THEOREM TypeCorrect == ASSUME FilesLinked, HooksApart PROVE Spec => []TypeOK
<1>1. LinkedInv /\ OldInv => TypeOK
  <2> SUFFICES ASSUME LinkedInv, OldInv PROVE TypeOK
    OBVIOUS
  <2>1. TypedMemory /\ TypedLocals
    BY DEF LinkedInv, BaseInv, Typed
  <2>2. \A m \in DOMAIN Hooks : old[m] \in {NoFunc} \cup {Original[r.sym] : r \in img.refs}
    BY DEF OldInv
  <2> QED
    BY <2>1, <2>2 DEF TypeOK, TypedMemory, TypedLocals, Positions, Addresses, Hooking,
       Walking,
       InSection, AtSlot, InHand
<1> QED
  BY <1>1, LinkedInvAlways, OldInvAlways, PTL

-----------------------------------------------------------------------------
(***************************************************************************)
(* The hash tables.  That a walk over a chain ends, and where, is proved   *)
(* by induction on the place of a symbol in its chain.                     *)
(***************************************************************************)
\* A non-empty set of naturals has a least element.
LEMMA LeastNatural ==
  ASSUME NEW S \in SUBSET Nat, S # {} PROVE \E m \in S : \A k \in S : m <= k
<1>1. PICK m \in S : \A k \in S : <<k, m>> \notin OpToRel(<, Nat)
  BY NatLessThanWellFounded, WFMin
<1>2. \A k \in S : m <= k
  <2> SUFFICES ASSUME NEW k \in S PROVE m <= k
    OBVIOUS
  <2>1. k < m => <<k, m>> \in OpToRel(<, Nat)
    BY DEF OpToRel
  <2>2. ~(k < m)
    BY <1>1, <2>1, Zenon
  <2> QED
    BY <2>2
<1> QED
  BY <1>2

\* Induction over the naturals, for a set.
LEMMA NatSetInduction ==
  ASSUME NEW S \in SUBSET Nat, 0 \in S, \A k \in S : k + 1 \in S PROVE S = Nat
<1> SUFFICES ASSUME Nat \ S # {} PROVE FALSE
  OBVIOUS
<1>1. PICK m \in Nat \ S : \A k \in Nat \ S : m <= k
  BY LeastNatural
<1>2. m # 0 /\ m - 1 \in Nat /\ m - 1 + 1 = m
  BY <1>1
<1>3. m - 1 \in S
  BY <1>1, <1>2
<1> QED
  BY <1>1, <1>2, <1>3

\* Min of a set of naturals is its least element.
LEMMA MinOf ==
  ASSUME NEW S \in SUBSET Nat, S # {}
  PROVE  Min(S) \in S /\ \A x \in S : Min(S) <= x
<1>1. \E m \in S : \A x \in S : m <= x
  BY LeastNatural
<1> QED
  BY <1>1 DEF Min

\* A non-empty set of naturals up to M has a greatest element.
LEMMA GreatestUpTo ==
  ASSUME NEW M \in Nat, NEW S \in SUBSET (0..M), S # {}
  PROVE  \E m \in S : \A x \in S : x <= m
<1> DEFINE T == {k \in Nat : k <= M /\ M - k \in S}
<1>1. \A x \in S : M - x \in T
  OBVIOUS
<1>2. T \in SUBSET Nat /\ T # {}
  BY <1>1
<1>3. PICK m \in T : \A k \in T : m <= k
  BY <1>2, LeastNatural
<1>4. \A x \in S : x <= M - m
  <2> SUFFICES ASSUME NEW x \in S PROVE x <= M - m
    OBVIOUS
  <2>1. M - x \in T
    BY <1>1
  <2>2. m <= M - x
    BY <1>3, <2>1
  <2> QED
    BY <1>3, <2>2
<1> QED
  BY <1>3, <1>4

\* The indices of a symbol table are an interval.
LEMMA Indices ==
  ASSUME NEW t, Numbered(t), 0 \in DOMAIN t.symtab
  PROVE  \E M \in Nat : DOMAIN t.symtab = 0..M
<1>1. Cardinality(DOMAIN t.symtab) \in Nat
  BY FS_CardinalityType DEF Numbered
<1>2. Cardinality(DOMAIN t.symtab) - 1 \in Nat
  BY <1>1 DEF Numbered
<1> QED
  BY <1>2 DEF Numbered

-----------------------------------------------------------------------------
\* Index i is of the symbol s of a table t, or s is not in t.
Finds(i, t, s) ==
  /\ i \in DOMAIN t.symtab
  /\ i # NotFound => t.symtab[i] = s
  /\ i = NotFound => \A j \in DOMAIN t.symtab \ {0} : t.symtab[j] # s

\* What the walk over the chain makes of index i, W what it makes of the next.
Walks(W, t, s) ==
  W = [i \in DOMAIN t.symtab |->
         IF i = 0 THEN NotFound ELSE IF t.symtab[i] = s THEN i ELSE W[t.chain[i]]]

\* A walk over chains that lead down in some order comes to an end.
LEMMA WalkExists ==
  ASSUME NEW t, NEW s, NEW M \in Nat, NEW rank \in [DOMAIN t.symtab -> 0..M],
         \A i \in DOMAIN t.symtab \ {0} :
           /\ t.chain[i] \in DOMAIN t.symtab
           /\ t.chain[i] # 0 => rank[t.chain[i]] < rank[i]
  PROVE  \E W : Walks(W, t, s)
<1> DEFINE D == DOMAIN t.symtab
           Val(W,
           i) == IF i = 0 THEN NotFound ELSE IF t.symtab[i] = s THEN i ELSE W[t.chain[i]]
           Upto(W, m) == \A i \in D : i = 0 \/ rank[i] < m => W[i] = Val(W, i)
           S == {m \in Nat : \E W : W = [i \in D |-> W[i]] /\ Upto(W, m)}
<1>1. 0 \in S
  <2> DEFINE W == [i \in D |-> NotFound]
  <2>1. W = [i \in D |-> W[i]]
    OBVIOUS
  <2>2. Upto(W, 0)
    OBVIOUS
  <2> HIDE DEF W, Upto
  <2> QED
    BY <2>1, <2>2
<1>2. ASSUME NEW m \in S PROVE m + 1 \in S
  <2>1. PICK W : W = [i \in D |-> W[i]] /\ Upto(W, m)
    OBVIOUS
  <2> DEFINE Q == [i \in D |-> IF i # 0 /\ rank[i] = m THEN Val(W, i) ELSE W[i]]
  <2>2. Q = [i \in D |-> Q[i]]
    OBVIOUS
  <2>3. \A i \in D : i = 0 \/ rank[i] < m => Q[i] = W[i]
    OBVIOUS
  <2>4. ASSUME NEW i \in D, i = 0 \/ rank[i] < m + 1 PROVE Q[i] = Val(Q, i)
    <3>1. CASE i = 0
      BY <2>1, <2>3, <3>1
    <3>2. CASE i # 0
      <4>1. t.chain[i] \in D /\ (t.chain[i] = 0 \/ rank[t.chain[i]] < m)
        BY <2>4, <3>2
      <4>2. Q[t.chain[i]] = W[t.chain[i]]
        BY <2>3, <4>1
      <4>3. Q[i] = Val(W, i)
        BY <2>1, <2>4, <3>2
      <4> HIDE DEF Q
      <4> QED
        BY <3>2, <4>2, <4>3
    <3> QED
      BY <3>1, <3>2
  <2>5. Upto(Q, m + 1)
    BY <2>4
  <2> HIDE DEF Q, Upto
  <2> QED
    BY <2>2, <2>5
<1>3. M + 1 \in S
  BY <1>1, <1>2, NatSetInduction
<1>4. PICK W : W = [i \in D |-> W[i]] /\ Upto(W, M + 1)
  BY <1>3
<1>5. \A i \in D : W[i] = Val(W, i)
  BY <1>4
<1>6. W = [i \in D |-> Val(W, i)]
  BY <1>4, <1>5
<1> QED
  BY <1>6 DEF Walks

\* HashLookup is the walk from the bucket.
LEMMA HashLookupWalks ==
  ASSUME NEW t, NEW s, NEW hash, \E W : Walks(W, t, s)
  PROVE  \E W : Walks(W, t, s) /\ HashLookup(t, s, hash) = W[t.bucket[hash % t.bucket_cnt]]
<1> DEFINE Is(f) == f = [i \in DOMAIN t.symtab |->
              IF i = 0 THEN NotFound ELSE IF t.symtab[i] = s THEN i ELSE f[t.chain[i]]]
           V == CHOOSE f : Is(f)
<1>1. \A f : Is(f) <=> Walks(f, t, s)
  BY DEF Walks
<1>2. Is(V)
  BY <1>1
<1>3. HashLookup(t, s, hash) = V[t.bucket[hash % t.bucket_cnt]]
  BY DEF HashLookup
<1> QED
  BY <1>1, <1>2, <1>3

\* In a SYSV table a linker laid out a symbol is found under its name or not at all,
\* and every name of the table is found.
LEMMA HashLookupFinds ==
  ASSUME NEW t, NEW hash, NEW s, SysvLaid(t, hash), 0 \in DOMAIN t.symtab,
         hash[s] \in Nat, \A i \in DOMAIN t.symtab \ {0} : hash[t.symtab[i]] \in Nat
  PROVE  Finds(HashLookup(t, s, hash[s]), t, s)
<1> DEFINE D == DOMAIN t.symtab
           named == D \ {0}
           B(i) == Bucket(t, hash, i)
           b == hash[s] % t.bucket_cnt
<1>1. PICK M \in Nat : D = 0..M
  BY Indices DEF SysvLaid
<1>2. /\ t.bucket_cnt \in Nat \ {0}
      /\ \A k \in 0..(t.bucket_cnt - 1) : t.bucket[k] \in D
      /\ \A i \in named : t.chain[i] \in D
      /\ \A i \in named : \/ t.bucket[B(i)] = i
                          \/ \E j \in named : B(j) = B(i) /\ t.chain[j] = i
  BY DEF SysvLaid, Numbered, NotFound
<1>3. PICK rank \in [D -> 0..M] : \A i \in named : t.chain[i] # 0 => rank[t.chain[i]] < rank[i]
  <2>1. CASE \A i \in named : t.chain[i] < i
    <3> DEFINE r == [i \in D |-> i]
    <3>1. r \in [D -> 0..M] /\ \A i \in named : t.chain[i] # 0 => r[t.chain[i]] < r[i]
      BY <1>1, <1>2, <2>1
    <3> QED
      BY <3>1
  <2>2. CASE \A i \in named : t.chain[i] = 0 \/ t.chain[i] > i
    <3> DEFINE r == [i \in D |-> M - i]
    <3>1. r \in [D -> 0..M]
      BY <1>1
    <3>2. \A i \in named : t.chain[i] # 0 => r[t.chain[i]] < r[i]
      BY <1>1, <1>2, <2>2
    <3> QED
      BY <3>1, <3>2
  <2> QED
    BY <2>1, <2>2 DEF SysvLaid, NotFound
<1>4. PICK W : Walks(W, t, s) /\ HashLookup(t, s, hash[s]) = W[t.bucket[b]]
  <2>1. \E W : Walks(W, t, s)
    BY <1>2, <1>3, WalkExists
  <2> QED
    BY <2>1, HashLookupWalks
<1>5. \A i \in D : W[i] = IF i = 0 THEN 0 ELSE IF t.symtab[i] = s THEN i ELSE W[t.chain[i]]
  BY <1>4 DEF Walks, NotFound
<1>6. b \in 0..(t.bucket_cnt - 1) /\ t.bucket[b] \in D
  BY <1>2
<1>7. \A i \in D : W[i] \in D /\ (W[i] # 0 => t.symtab[W[i]] = s)
  <2> DEFINE Good(i) == W[i] \in D /\ (W[i] # 0 => t.symtab[W[i]] = s)
             S == {m \in Nat : \A i \in D : rank[i] < m => Good(i)}
  <2>1. 0 \in S
    BY <1>3
  <2>2. ASSUME NEW m \in S PROVE m + 1 \in S
    <3> SUFFICES ASSUME NEW i \in D, rank[i] < m + 1 PROVE Good(i)
      OBVIOUS
    <3>1. CASE i = 0 \/ t.symtab[i] = s
      BY <1>5, <3>1
    <3>2. CASE i # 0 /\ t.symtab[i] # s
      <4>1. W[i] = W[t.chain[i]] /\ t.chain[i] \in D
        BY <1>2, <1>5, <3>2
      <4>2. CASE t.chain[i] = 0
        BY <1>5, <4>1, <4>2
      <4>3. CASE t.chain[i] # 0
        <5>1. rank[t.chain[i]] < rank[i] /\ rank[i] \in Nat /\ rank[t.chain[i]] \in Nat
          BY <1>3, <3>2, <4>1, <4>3
        <5>2. rank[t.chain[i]] < m
          BY <5>1
        <5>3. Good(t.chain[i])
          BY <4>1, <5>2
        <5> QED
          BY <4>1, <5>3
      <4> QED
        BY <4>2, <4>3
    <3> QED
      BY <3>1, <3>2
  <2>3. M + 1 \in S
    BY <2>1, <2>2, NatSetInduction
  <2> QED
    BY <1>3, <2>3
<1>8. ASSUME W[t.bucket[b]] = 0, NEW j \in named, t.symtab[j] = s PROVE FALSE
  <2>1. B(j) = b
    BY <1>8 DEF Bucket
  <2> DEFINE S == {m \in Nat : \A i \in named : B(i) = b /\ M - rank[i] < m => W[i] = 0}
  <2>2. 0 \in S
    BY <1>3
  <2>3. ASSUME NEW m \in S PROVE m + 1 \in S
    <3> SUFFICES ASSUME NEW i \in named, B(i) = b, M - rank[i] < m + 1 PROVE W[i] = 0
      OBVIOUS
    <3>1. CASE t.bucket[B(i)] = i
      BY <1>8, <3>1
    <3>2. ASSUME NEW k \in named, B(k) = B(i), t.chain[k] = i PROVE W[i] = 0
      <4>1. rank[i] < rank[k] /\ rank[i] \in 0..M /\ rank[k] \in 0..M
        BY <1>3, <3>2
      <4>2. M - rank[k] < m
        BY <4>1
      <4>3. W[k] = 0
        BY <3>2, <4>2
      <4> QED
        BY <1>5, <3>2, <4>3
    <3> QED
      BY <1>2, <3>1, <3>2
  <2>4. M + 1 \in S
    BY <2>2, <2>3, NatSetInduction
  <2>5. W[j] = 0
    BY <1>3, <2>1, <2>4
  <2> QED
    BY <1>5, <1>8, <2>5
<1> QED
  BY <1>4, <1>6, <1>7, <1>8 DEF Finds, NotFound

\* FirstOf finds a symbol if there is one.
LEMMA FirstOfThem ==
  ASSUME NEW S \in SUBSET Nat, 0 \notin S
  PROVE  /\ FirstOf(S) # NotFound => FirstOf(S) \in S
         /\ S # {} => FirstOf(S) # NotFound
  BY MinOf DEF FirstOf, NotFound

\* The same for a GNU table, whose undefined symbols are searched one by one: no bloom
\* filter, bucket or end of a chain hides a name.
LEMMA GnuHashLookupFinds ==
  ASSUME NEW t, NEW hash, NEW s, GnuLaid(t, hash), 0 \in DOMAIN t.symtab,
         t.symtab[0] # s, hash[s] \in Nat
  PROVE  Finds(GnuHashLookup(t, s, hash[s]), t, s)
<1> DEFINE D == DOMAIN t.symtab
           named == {i \in D : i >= t.symoffset}
           B(i) == Bucket(t, hash, i)
           Fellows(i) == {j \in named : B(j) = B(i)}
           b == hash[s] % t.bucket_cnt
           first == t.bucket[b]
           Hash(i) == t.chain[i - t.symoffset]
           ends == {i \in D : i >= first /\ Hash(i) % 2 = 1}
           found == {i \in first..Min(ends) :
                       Hash(i) \div 2 = hash[s] \div 2 /\ t.symtab[i] = s}
           undef == {i \in D : i < t.symoffset /\ t.symtab[i] = s}
<1>1. PICK M \in Nat : D = 0..M
  BY Indices DEF GnuLaid
<1>2. /\ t.bucket_cnt \in Nat \ {0} /\ t.symoffset \in Nat \ {0}
      /\ \A k \in 0..(t.bucket_cnt - 1) : t.bucket[k] \in named \cup {0}
      /\ \A i \in named :
           /\ t.bucket[B(i)] \in Fellows(i)
           /\ InBloom(t, hash[t.symtab[i]])
           /\ Hash(i) \div 2 = hash[t.symtab[i]] \div 2
           /\ Hash(i) % 2 = 1 <=> \A j \in Fellows(i) : j <= i
  BY DEF GnuLaid, Numbered
<1>3. \A i \in named : \A j \in Fellows(i) :
        t.bucket[B(i)] <= j /\ (i <= j => i..j \subseteq Fellows(i))
  BY DEF GnuLaid
<1>4. b \in 0..(t.bucket_cnt - 1) /\ first \in named \cup {0} /\ first \in Nat
  BY <1>1, <1>2
<1>4a. t.symoffset \in Nat /\ 0 < t.symoffset
  <2>1. t.symoffset \in Nat \ {0}
    BY <1>2
  <2> QED
    BY <2>1
<1>5. ASSUME first \in named
      PROVE  /\ ends \in SUBSET Nat /\ ends # {} /\ Min(ends) \in D
             /\ found \subseteq D \ {0}
  <2>1. Fellows(first) \in SUBSET (0..M) /\ first \in Fellows(first)
    BY <1>1, <1>5
  <2>2. PICK m \in Fellows(first) : \A x \in Fellows(first) : x <= m
    BY <2>1, GreatestUpTo
  <2>3. Fellows(m) = Fellows(first)
    BY <2>2
  <2>4. m \in ends
    BY <1>2, <2>1, <2>2, <2>3
  <2>5. ends \in SUBSET Nat /\ ends # {}
    BY <1>1, <2>4
  <2>6. Min(ends) \in D
    BY <2>5, MinOf
  <2>7. found \subseteq D \ {0}
    <3>1. \A i \in first..Min(ends) : i \in D \ {0}
      <4>1. Min(ends) \in 0..M /\ first \in Nat /\ first # 0
        <5>1. first \in 0..M /\ first >= t.symoffset
          BY <1>1, <1>5
        <5> HIDE DEF first
        <5>2. first \in Nat /\ first # 0
          BY <1>4a, <5>1
        <5> QED
          BY <1>1, <2>6, <5>2
      <4> HIDE DEF ends, first
      <4> QED
        BY <1>1, <4>1
    <3> QED
      BY <3>1
  <2> QED
    BY <2>5, <2>6, <2>7
<1>6. undef \in SUBSET Nat /\ 0 \notin undef
  BY <1>1
<1>7. GnuHashLookupDef(t, s, hash[s]) =
        IF ~InBloom(t, hash[s]) \/ first < t.symoffset THEN NotFound ELSE FirstOf(found)
  BY DEF GnuHashLookupDef, Undefined
<1>8. GnuHashLookup(t, s, hash[s]) =
        IF GnuHashLookupDef(t, s, hash[s]) # NotFound THEN GnuHashLookupDef(t, s, hash[s])
        ELSE FirstOf(undef)
  BY DEF GnuHashLookup, GnuHashLookupUndef
<1>9. GnuHashLookupDef(t, s, hash[s]) # NotFound =>
        GnuHashLookupDef(t, s, hash[s]) \in found /\ first \in named
  <2>1. CASE first \in named
    <3>1. found \in SUBSET Nat /\ 0 \notin found
      BY <1>1, <1>5, <2>1
    <3>2. FirstOf(found) # NotFound => FirstOf(found) \in found
      BY <3>1, FirstOfThem
    <3> HIDE DEF found, first, named, b
    <3> QED
      BY <1>7, <2>1, <3>2
  <2>2. CASE first = 0
    <3>1. first < t.symoffset
      BY <1>4a, <2>2
    <3> QED
      BY <1>7, <3>1
  <2> QED
    BY <1>4, <2>1, <2>2
<1>10. ASSUME NEW j \in named, t.symtab[j] = s
       PROVE  GnuHashLookupDef(t, s, hash[s]) # NotFound
  <2>1. B(j) = b /\ first \in Fellows(j) /\ first <= j /\ InBloom(t, hash[s])
    BY <1>2, <1>3, <1>10 DEF Bucket
  <2>2. first \in named /\ ~(first < t.symoffset)
    BY <1>1, <1>2, <2>1
  <2>3. ends \in SUBSET Nat /\ ends # {}
    BY <1>5, <2>2
  <2>4. \A e \in ends : j <= e
    <3> SUFFICES ASSUME NEW e \in ends, e < j PROVE FALSE
      BY <1>1
    <3>1. j \in Fellows(first) /\ first <= j
      BY <2>1
    <3>2. e \in first..j
      BY <1>1, <1>4
    <3>3. e \in Fellows(first)
      BY <1>3, <2>2, <3>1, <3>2
    <3>4. j \in Fellows(e)
      BY <3>1, <3>3
    <3>5. j <= e
      BY <1>2, <3>3, <3>4
    <3> QED
      BY <1>1, <3>5
  <2>5. j <= Min(ends) /\ Min(ends) \in Nat
    BY <2>3, <2>4, MinOf
  <2>6. Hash(j) \div 2 = hash[s] \div 2
    BY <1>2, <1>10
  <2>7. j \in found
    BY <1>1, <1>4, <1>10, <2>1, <2>5, <2>6
  <2>8. found \in SUBSET Nat /\ 0 \notin found
    BY <1>1, <1>5, <2>2
  <2> QED
    BY <1>7, <2>1, <2>2, <2>7, <2>8, FirstOfThem
<1>11. ASSUME NEW j \in D, j < t.symoffset, t.symtab[j] = s PROVE FirstOf(undef) # NotFound
  BY <1>6, <1>11, FirstOfThem
<1>12. \A j \in D : j \in named \/ j < t.symoffset
  BY <1>1, <1>2
<1>13. FirstOf(undef) # NotFound => FirstOf(undef) \in undef
  BY <1>6, FirstOfThem
<1> DEFINE i == GnuHashLookup(t, s, hash[s])
<1>14. CASE GnuHashLookupDef(t, s, hash[s]) # NotFound
  <2>1. i \in found /\ first \in named
    BY <1>8, <1>9, <1>14
  <2>2. i \in D /\ t.symtab[i] = s /\ i # NotFound
    BY <1>5, <2>1 DEF NotFound
  <2> QED
    BY <2>2 DEF Finds
<1>15. CASE GnuHashLookupDef(t, s, hash[s]) = NotFound
  <2>1. i = FirstOf(undef)
    BY <1>8, <1>15
  <2>2. i # NotFound => i \in D /\ t.symtab[i] = s
    BY <1>13, <2>1
  <2>3. i = NotFound => \A j \in D : t.symtab[j] # s
    BY <1>10, <1>11, <1>12, <1>15, <2>1
  <2> QED
    BY <2>2, <2>3 DEF Finds, NotFound
<1> QED
  BY <1>14, <1>15

-----------------------------------------------------------------------------
\* The lookup of a file whose tables a linker laid out.
LEMMA TablesResolve ==
  ASSUME NEW im, Laid(im), Tables(im), NEW m \in DOMAIN Hooks
  PROVE  Finds(SymidxOf(im, m), im.gnu, Hooks[m].sym)
<1> DEFINE s == Hooks[m].sym
<1>1. /\ im.elf.symtab = im.gnu.symtab /\ 0 \in DOMAIN im.gnu.symtab
      /\ im.gnu.symtab[0] # s /\ im.hash[s] \in Nat
      /\ \A i \in DOMAIN im.gnu.symtab \ {0} : im.hash[im.gnu.symtab[i]] \in Nat
  BY DEF Tables, Laid, NotFound
<1>2. CASE "GNU_HASH" \in TagsIn(im)
  <2>1. SymidxOf(im, m) = GnuHashLookup(im.gnu, s, im.hash[s]) /\ GnuLaid(im.gnu, im.hash)
    BY <1>2 DEF SymidxOf, Tables
  <2>2. Finds(GnuHashLookup(im.gnu, s, im.hash[s]), im.gnu, s)
    BY <1>1, <2>1, GnuHashLookupFinds
  <2> QED
    BY <2>1, <2>2
<1>3. CASE "GNU_HASH" \notin TagsIn(im)
  <2>1. SymidxOf(im, m) = HashLookup(im.elf, s, im.hash[s]) /\ SysvLaid(im.elf, im.hash)
    BY <1>3 DEF SymidxOf, Tables
  <2>2. /\ 0 \in DOMAIN im.elf.symtab
        /\ \A i \in DOMAIN im.elf.symtab \ {0} : im.hash[im.elf.symtab[i]] \in Nat
    BY <1>1
  <2>3. Finds(HashLookup(im.elf, s, im.hash[s]), im.elf, s)
    BY <1>1, <2>1, <2>2, HashLookupFinds
  <2> QED
    BY <1>1, <2>1, <2>3 DEF Finds
<1> QED
  BY <1>2, <1>3

\* What a linker wrote reads as what it linked.
LEMMA WrittenIsLinked ==
  ASSUME NEW im, NEW It, NEW N, Laid(im), Tables(im), Decoded(im, It, N), Relocates(im, It, N),
         im.whole => Whole(im, It, N)
  PROVE  Linked(im, It, N) /\ (im.whole => Complete(im, It, N))
<1>1. Resolves(im)
  BY TablesResolve DEF Finds, Resolves
<1>2. ASSUME im.whole PROVE Complete(im, It, N)
  <2> SUFFICES ASSUME NEW m \in DOMAIN Hooks
               PROVE  /\ \A a \in DOMAIN im.page : HookedAt(im, m, a) =>
                           /\ SymidxOf(im, m) # NotFound
                           /\ \E s \in 1..3 : FoundIn(im, It, N, s, SymidxOf(im, m), a)
                      /\ \A p, q \in Starts(im, 1) :
                           /\ Takes(SymidxOf(im, m), 1, im.relplt[p + 2])
                           /\ Takes(SymidxOf(im, m), 1, im.relplt[q + 2])
                           => p = q
    BY DEF Complete
  <2>1. SymidxOf(im, m) \in DOMAIN im.gnu.symtab
    BY <1>1 DEF Resolves
  <2>2. ASSUME NEW a \in DOMAIN im.page, HookedAt(im, m, a)
        PROVE  /\ SymidxOf(im, m) # NotFound
               /\ \E s \in 1..3 : FoundIn(im, It, N, s, SymidxOf(im, m), a)
    <3>1. PICK r \in im.refs : r.off = a /\ r.sym = Hooks[m].sym /\ r.type # 0
      BY <2>2 DEF HookedAt
    <3>2. PICK i \in DOMAIN im.gnu.symtab \ {NotFound}, s \in 1..3 :
            im.gnu.symtab[i] = r.sym /\ FoundIn(im, It, N, s, i, r.off)
      BY <1>2, <3>1 DEF Whole
    <3>3. SymidxOf(im, m) # NotFound
      BY <3>1, <3>2, TablesResolve DEF Finds, NotFound
    <3>4. SymidxOf(im, m) = i
      BY <1>2, <2>1, <3>1, <3>2, <3>3, TablesResolve DEF Finds, Whole
    <3> QED
      BY <3>1, <3>2, <3>3, <3>4
  <2> QED
    BY <1>2, <2>1, <2>2 DEF Whole
<1> QED
  BY <1>1, <1>2 DEF Linked

-----------------------------------------------------------------------------
(***************************************************************************)
(* The packed relocations.  After relocation j the iterator has, of what   *)
(* the linker packed, the place, the group and the relocation.             *)
(***************************************************************************)
FieldNames ==
  {"ok", "cur", "count", "size", "flags", "delta", "index", "group", "off", "info", "val"}

\* The iterator x after relocation j of the packing p.
After(x, p, j) ==
  /\ DOMAIN x = FieldNames /\ x.ok = TRUE /\ x.cur = p.at[j][9]
  /\ x.count = p.count /\ x.index = j
  /\ p.group[j].first \in Nat /\ p.group[j].size \in Nat
  /\ x.size = p.group[j].size /\ x.flags = p.group[j].flags
  /\ x.group = j - p.group[j].first + 1
  /\ ByDelta(p.group[j]) => x.delta = p.rel[j].delta
  /\ x.off = p.rel[j].off /\ x.info = p.rel[j].info

\* The iterator before field k of relocation j: it has what was read so far.
Before(x, p, j, k) ==
  LET g == p.group[j]
      r == p.rel[j]
      Has(l) == k > l \/ g.first # j
  IN /\ DOMAIN x = FieldNames /\ x.ok = TRUE /\ x.cur = p.at[j][k]
     /\ x.count = p.count /\ x.index = j - 1
     /\ Has(1) => x.size = g.size
     /\ Has(2) => x.flags = g.flags
     /\ Has(3) /\ ByDelta(g) => x.delta = r.delta
     /\ Has(4) /\ ByInfo(g) => x.info = r.info
     /\ k > 5 => x.group = j - g.first
     /\ x.off = IF k > 6 /\ ~ByDelta(g) THEN r.off ELSE p.rel[j - 1].off
     /\ k > 7 => x.info = r.info

\* Field k is read into the iterator, and after the fields of a group it starts.
Reads(bytes, rela, x, k) ==
  LET OfGroup(field) == ReadField(bytes, x, field, TRUE, rela)
      Own(field) == ReadField(bytes, x, field, FALSE, rela)
  IN CASE k = 1 -> OfGroup("size")
       [] k = 2 -> OfGroup("flags")
       [] k = 3 -> OfGroup("delta")
       [] k = 4 -> OfGroup("info")
       [] k = 5 -> [OfGroup("val") EXCEPT !.group = 0]
       [] k = 6 -> Own("off")
       [] k = 7 -> Own("info")
       [] k = 8 -> Own("val")

\* The iterator y has v in one field, after x.
OneRead(x, y, field, v, to) ==
  /\ DOMAIN y = FieldNames /\ y.ok = TRUE /\ y.cur = to
  /\ y[field] = IF field = "off" THEN (x.off + v) % Word ELSE v
  /\ \A other \in FieldNames \ {"ok", "cur", field} : y[other] = x[other]

\* One value is decoded into one field, and nothing else of the iterator changes.
LEMMA ReadsOne ==
  ASSUME NEW bytes, NEW x, DOMAIN x = FieldNames, NEW field \in FieldNames \ {"ok", "cur"},
         NEW v, NEW to, Codes(bytes, x.cur, v, to)
  PROVE  OneRead(x, Read(bytes, x, field), field, v, to)
<1> DEFINE d == Sleb(bytes, x.cur)
           y == Read(bytes, x, field)
<1>1. d.ok = TRUE /\ d.cur = to /\ d.value = v
  BY DEF Codes
<1>2. y = [x EXCEPT !.ok = TRUE, !.cur = to,
                    ![field] = IF field = "off" THEN (x[field] + v) % Word ELSE v]
  BY <1>1 DEF Read
<1>3. "ok" \in DOMAIN x /\ "cur" \in DOMAIN x /\ field \in DOMAIN x
  BY DEF FieldNames
<1>4. field # "ok" /\ field # "cur"
  OBVIOUS
<1> QED
  BY <1>2, <1>3, <1>4 DEF OneRead

\* With the flags of its group an iterator reads the fields the group has.
LEMMA SameFlags ==
  ASSUME NEW x, NEW g, x.flags = g.flags
  PROVE  /\ ByInfo(x) = ByInfo(g) /\ ByDelta(x) = ByDelta(g)
         /\ ByAddend(x) = ByAddend(g) /\ Addends(x) = Addends(g)
  BY DEF ByInfo, ByDelta, ByAddend, Addends

\* The fields one by one.
LEMMA FieldsAre ==
  ASSUME NEW p, NEW j, NEW rela
  PROVE  LET f == Fields(p, j, rela)
             g == p.group[j]
             r == p.rel[j]
         IN /\ (f[1].there <=> g.first = j) /\ f[1].value = g.size
            /\ (f[2].there <=> g.first = j) /\ f[2].value = g.flags
            /\ (f[3].there <=> g.first = j /\ ByDelta(g)) /\ f[3].value = r.delta
            /\ (f[4].there <=> g.first = j /\ ByInfo(g)) /\ f[4].value = r.info
            /\ (f[5].there <=> g.first = j /\ Addends(g) /\ ByAddend(g))
            /\ (f[6].there <=> ~ByDelta(g)) /\ f[6].value = r.delta
            /\ (f[7].there <=> ~ByInfo(g)) /\ f[7].value = r.info
            /\ (f[8].there <=> Addends(g) /\ ~ByAddend(g) /\ rela)
  BY DEF Fields

\* The fields in their order.
ReadInOrder(bytes, rela, x) ==
  /\ Reads(bytes, rela, x, 1) = ReadField(bytes, x, "size", TRUE, rela)
  /\ Reads(bytes, rela, x, 2) = ReadField(bytes, x, "flags", TRUE, rela)
  /\ Reads(bytes, rela, x, 3) = ReadField(bytes, x, "delta", TRUE, rela)
  /\ Reads(bytes, rela, x, 4) = ReadField(bytes, x, "info", TRUE, rela)
  /\ Reads(bytes, rela, x, 5) =
       [ReadField(bytes, x, "val", TRUE, rela) EXCEPT !.group = 0]
  /\ Reads(bytes, rela, x, 6) = ReadField(bytes, x, "off", FALSE, rela)
  /\ Reads(bytes, rela, x, 7) = ReadField(bytes, x, "info", FALSE, rela)
  /\ Reads(bytes, rela, x, 8) = ReadField(bytes, x, "val", FALSE, rela)

\* They are read in their order.
LEMMA ReadsInOrder ==
  ASSUME NEW bytes, NEW rela, NEW x PROVE ReadInOrder(bytes, rela, x)
<1>1. Reads(bytes, rela, x, 1) = ReadField(bytes, x, "size", TRUE, rela)
  BY DEF Reads
<1>2. Reads(bytes, rela, x, 2) = ReadField(bytes, x, "flags", TRUE, rela)
  BY DEF Reads
<1>3. Reads(bytes, rela, x, 3) = ReadField(bytes, x, "delta", TRUE, rela)
  BY DEF Reads
<1>4. Reads(bytes, rela, x, 4) = ReadField(bytes, x, "info", TRUE, rela)
  BY DEF Reads
<1>5. Reads(bytes, rela, x, 5) = [ReadField(bytes, x, "val", TRUE, rela) EXCEPT !.group = 0]
  BY DEF Reads
<1>6. Reads(bytes, rela, x, 6) = ReadField(bytes, x, "off", FALSE, rela)
  BY DEF Reads
<1>7. Reads(bytes, rela, x, 7) = ReadField(bytes, x, "info", FALSE, rela)
  BY DEF Reads
<1>8. Reads(bytes, rela, x, 8) = ReadField(bytes, x, "val", FALSE, rela)
  BY DEF Reads
<1> QED
  BY <1>1, <1>2, <1>3, <1>4, <1>5, <1>6, <1>7, <1>8 DEF ReadInOrder

\* What reading a field comes to.
ReadsAs(bytes, rela, x) ==
  LET R(k) == Reads(bytes, rela, x, k)
      D(name) == Read(bytes, x, name)
  IN /\ R(1) = D("size") /\ R(2) = D("flags")
     /\ R(3) = IF ByDelta(x) THEN D("delta") ELSE x
     /\ R(4) = IF ByInfo(x) THEN D("info") ELSE x
     /\ R(5) = [IF ~(Addends(x) /\ ByAddend(x)) THEN x
                ELSE IF rela THEN D("val") ELSE [x EXCEPT !.ok = FALSE] EXCEPT !.group = 0]
     /\ R(6) = IF ByDelta(x) THEN x ELSE D("off")
     /\ R(7) = IF ByInfo(x) THEN x ELSE D("info")
     /\ R(8) = IF Addends(x) /\ ~ByAddend(x) /\ rela THEN D("val") ELSE x

\* It comes to decoding one value, or to nothing, or to a failure.
LEMMA ReadsAre ==
  ASSUME NEW bytes, NEW rela \in BOOLEAN, NEW x, x.ok = TRUE PROVE ReadsAs(bytes, rela, x)
<1> DEFINE R(k) == Reads(bytes, rela, x, k)
           D(name) == Read(bytes, x, name)
           F(name, ofGroup) == ReadField(bytes, x, name, ofGroup, rela)
<1>1. /\ R(1) = F("size", TRUE) /\ R(2) = F("flags", TRUE) /\ R(3) = F("delta", TRUE)
      /\ R(4) = F("info", TRUE) /\ R(5) = [F("val", TRUE) EXCEPT !.group = 0]
      /\ R(6) = F("off", FALSE) /\ R(7) = F("info", FALSE) /\ R(8) = F("val", FALSE)
  <2>1. ReadInOrder(bytes, rela, x)
    BY ReadsInOrder
  <2> QED
    BY <2>1 DEF ReadInOrder
<1>2. /\ F("size", TRUE) = D("size") /\ F("flags", TRUE) = D("flags")
      /\ F("delta", TRUE) = IF ByDelta(x) THEN D("delta") ELSE x
      /\ F("off", FALSE) = IF ByDelta(x) THEN x ELSE D("off")
  BY DEF ReadField, Encoded
<1>3. /\ F("info", TRUE) = IF ByInfo(x) THEN D("info") ELSE x
      /\ F("info", FALSE) = IF ByInfo(x) THEN x ELSE D("info")
  <2>1. Encoded(x, "info", TRUE, rela) <=> ByInfo(x)
    BY DEF Encoded, ByInfo
  <2>2. Encoded(x, "info", FALSE, rela) <=> ~ByInfo(x)
    BY DEF Encoded, ByInfo
  <2> QED
    BY <2>1, <2>2 DEF ReadField
<1>4. /\ F("val", TRUE) = IF ~(Addends(x) /\ ByAddend(x)) THEN x
                          ELSE IF rela THEN D("val") ELSE [x EXCEPT !.ok = FALSE]
      /\ F("val", FALSE) = IF Addends(x) /\ ~ByAddend(x) /\ rela THEN D("val") ELSE x
  <2>1. Encoded(x, "val", TRUE, rela) <=> Addends(x) /\ ByAddend(x)
    BY DEF Encoded, ByAddend
  <2>2. Encoded(x, "val", FALSE, rela) <=> Addends(x) /\ ~ByAddend(x) /\ rela
    BY DEF Encoded, ByAddend
  <2> QED
    BY <2>1, <2>2 DEF ReadField
<1> HIDE DEF R, D, F
<1>5. /\ R(1) = D("size") /\ R(2) = D("flags")
      /\ R(3) = IF ByDelta(x) THEN D("delta") ELSE x
      /\ R(4) = IF ByInfo(x) THEN D("info") ELSE x
      /\ R(5) = [IF ~(Addends(x) /\ ByAddend(x)) THEN x
                 ELSE IF rela THEN D("val") ELSE [x EXCEPT !.ok = FALSE] EXCEPT !.group = 0]
      /\ R(6) = IF ByDelta(x) THEN x ELSE D("off")
      /\ R(7) = IF ByInfo(x) THEN x ELSE D("info")
      /\ R(8) = IF Addends(x) /\ ~ByAddend(x) /\ rela THEN D("val") ELSE x
  BY <1>1, <1>2, <1>3, <1>4
<1> QED
  BY <1>5 DEF R, D, ReadsAs

\* A field of a group is read where the relocation is its first, and one of its own
\* always.
LEMMA FieldIsRead ==
  ASSUME NEW bytes, NEW rela \in BOOLEAN, NEW x, NEW p, NEW j \in Nat, NEW k \in 1..8,
         Before(x, p, j, k), FieldAt(bytes, rela, p, j, k), p.group[j].first = j \/ k > 5,
         p.rel[j].off = (p.rel[j - 1].off + p.rel[j].delta) % Word
  PROVE  Before(Reads(bytes, rela, x, k), p, j, k + 1)
<1> DEFINE g == p.group[j]
           r == p.rel[j]
           there == Fields(p, j, rela)[k].there
           value == Fields(p, j, rela)[k].value
           Named(y, name) == OneRead(x, y, name, value, p.at[j][k + 1])
<1>1. /\ DOMAIN x = FieldNames /\ x.ok = TRUE /\ x.cur = p.at[j][k]
      /\ k > 2 => x.flags = g.flags
  BY DEF Before
<1>2. ASSUME there, NEW name \in FieldNames \ {"ok", "cur"}
      PROVE  Named(Read(bytes, x, name), name)
  <2>1. Codes(bytes, x.cur, value, p.at[j][k + 1])
    BY <1>1, <1>2 DEF FieldAt
  <2> HIDE DEF value
  <2> QED
    BY <1>1, <2>1, ReadsOne
<1>3. ~there => p.at[j][k + 1] = x.cur
  BY <1>1 DEF FieldAt
<1>4. k > 2 => /\ ByInfo(x) = ByInfo(g) /\ ByDelta(x) = ByDelta(g)
               /\ ByAddend(x) = ByAddend(g) /\ Addends(x) = Addends(g)
  BY <1>1, SameFlags
<1>5. there /\ k = 5 => rela
  BY DEF FieldAt, GroupAddend
<1>6. ReadsAs(bytes, rela, x)
  BY <1>1, ReadsAre
<1> HIDE DEF Named, there, value
<1>7. CASE k = 1
  <2>1. there /\ value = g.size
    BY <1>7, FieldsAre DEF there, value
  <2>2. Reads(bytes, rela, x, k) = Read(bytes, x, "size")
    BY <1>4, <1>5, <1>6, <1>7, <2>1 DEF ReadsAs
  <2>3. there => Named(Read(bytes, x, "size"), "size")
    BY <1>2 DEF FieldNames
  <2> QED
    BY <1>3, <1>7, <2>1, <2>2, <2>3 DEF Before, Named, OneRead, FieldNames
<1>8. CASE k = 2
  <2>1. there /\ value = g.flags
    BY <1>8, FieldsAre DEF there, value
  <2>2. Reads(bytes, rela, x, k) = Read(bytes, x, "flags")
    BY <1>4, <1>5, <1>6, <1>8, <2>1 DEF ReadsAs
  <2>3. there => Named(Read(bytes, x, "flags"), "flags")
    BY <1>2 DEF FieldNames
  <2> QED
    BY <1>3, <1>8, <2>1, <2>2, <2>3 DEF Before, Named, OneRead, FieldNames
<1>9. CASE k = 3
  <2>1. (there <=> ByDelta(g)) /\ value = r.delta
    BY <1>9, FieldsAre DEF there, value
  <2>2. Reads(bytes, rela, x, k) = IF there THEN Read(bytes, x, "delta") ELSE x
    BY <1>4, <1>5, <1>6, <1>9, <2>1 DEF ReadsAs
  <2>3. there => Named(Read(bytes, x, "delta"), "delta")
    BY <1>2 DEF FieldNames
  <2> QED
    BY <1>3, <1>9, <2>1, <2>2, <2>3 DEF Before, Named, OneRead, FieldNames
<1>10. CASE k = 4
  <2>1. (there <=> ByInfo(g)) /\ value = r.info
    BY <1>10, FieldsAre DEF there, value
  <2>2. Reads(bytes, rela, x, k) = IF there THEN Read(bytes, x, "info") ELSE x
    BY <1>4, <1>5, <1>6, <1>10, <2>1 DEF ReadsAs
  <2>3. there => Named(Read(bytes, x, "info"), "info")
    BY <1>2 DEF FieldNames
  <2> QED
    BY <1>3, <1>10, <2>1, <2>2, <2>3 DEF Before, Named, OneRead, FieldNames
<1>11. CASE k = 5
  <2>1. (there <=> Addends(g) /\ ByAddend(g))
    BY <1>11, FieldsAre DEF there, value
  <2>2. Reads(bytes, rela, x, k) =
          [IF there THEN Read(bytes, x, "val") ELSE x EXCEPT !.group = 0]
    BY <1>4, <1>5, <1>6, <1>11, <2>1 DEF ReadsAs
  <2>3. there => Named(Read(bytes, x, "val"), "val")
    BY <1>2 DEF FieldNames
  <2> QED
    BY <1>3, <1>11, <2>1, <2>2, <2>3 DEF Before, Named, OneRead, FieldNames
<1>12. CASE k = 6
  <2>1. (there <=> ~ByDelta(g)) /\ value = r.delta
    BY <1>12, FieldsAre DEF there, value
  <2>2. Reads(bytes, rela, x, k) = IF there THEN Read(bytes, x, "off") ELSE x
    BY <1>4, <1>5, <1>6, <1>12, <2>1 DEF ReadsAs
  <2>3. there => Named(Read(bytes, x, "off"), "off")
    BY <1>2 DEF FieldNames
  <2> QED
    BY <1>3, <1>12, <2>1, <2>2, <2>3 DEF Before, Named, OneRead, FieldNames
<1>13. CASE k = 7
  <2>1. (there <=> ~ByInfo(g)) /\ value = r.info
    BY <1>13, FieldsAre DEF there, value
  <2>2. Reads(bytes, rela, x, k) = IF there THEN Read(bytes, x, "info") ELSE x
    BY <1>4, <1>5, <1>6, <1>13, <2>1 DEF ReadsAs
  <2>3. there => Named(Read(bytes, x, "info"), "info")
    BY <1>2 DEF FieldNames
  <2> QED
    BY <1>3, <1>13, <2>1, <2>2, <2>3 DEF Before, Named, OneRead, FieldNames
<1>14. CASE k = 8
  <2>1. (there <=> Addends(g) /\ ~ByAddend(g) /\ rela)
    BY <1>14, FieldsAre DEF there, value
  <2>2. Reads(bytes, rela, x, k) = IF there THEN Read(bytes, x, "val") ELSE x
    BY <1>4, <1>5, <1>6, <1>14, <2>1 DEF ReadsAs
  <2>3. there => Named(Read(bytes, x, "val"), "val")
    BY <1>2 DEF FieldNames
  <2> QED
    BY <1>3, <1>14, <2>1, <2>2, <2>3 DEF Before, Named, OneRead, FieldNames
<1>15. k = 1 \/ k = 2 \/ k = 3 \/ k = 4 \/ k = 5 \/ k = 6 \/ k = 7 \/ k = 8
  OBVIOUS
<1> QED
  BY <1>7, <1>8, <1>9, <1>10, <1>11, <1>12, <1>13, <1>14, <1>15, Zenon

\* Where the field is lost the read fails.
LEMMA FieldIsLost ==
  ASSUME NEW bytes, NEW rela \in BOOLEAN, NEW x, NEW p, NEW j \in Nat, NEW k \in 1..8,
         Before(x, p, j, k), FieldLost(bytes, rela, p, j, k),
         p.group[j].first = j \/ k > 5
  PROVE  Reads(bytes, rela, x, k).ok = FALSE
<1> DEFINE g == p.group[j]
           there == Fields(p, j, rela)[k].there
<1>1. /\ DOMAIN x = FieldNames /\ x.ok = TRUE /\ x.cur = p.at[j][k]
      /\ k > 2 => x.flags = g.flags
  BY DEF Before
<1>2. k > 2 => /\ ByInfo(x) = ByInfo(g) /\ ByDelta(x) = ByDelta(g)
               /\ ByAddend(x) = ByAddend(g) /\ Addends(x) = Addends(g)
  BY <1>1, SameFlags
<1>3. there /\ ((k = 5 /\ ~rela) \/ ~Sleb(bytes, x.cur).ok)
  BY <1>1 DEF FieldLost, GroupAddend
<1>4. ReadsAs(bytes, rela, x)
  BY <1>1, ReadsAre
<1>5. ~Sleb(bytes, x.cur).ok =>
        \A field \in FieldNames \ {"ok", "cur"} : Read(bytes, x, field).ok = FALSE
  <2> SUFFICES ASSUME ~Sleb(bytes, x.cur).ok, NEW field \in FieldNames \ {"ok", "cur"}
               PROVE  Read(bytes, x, field).ok = FALSE
    OBVIOUS
  <2> DEFINE d == Sleb(bytes, x.cur)
  <2>1. d.ok = FALSE
    BY DEF Sleb
  <2>2. field # "ok" /\ field \in DOMAIN x /\ "ok" \in DOMAIN x /\ "cur" \in DOMAIN x
    BY <1>1 DEF FieldNames
  <2> HIDE DEF d
  <2>3. Read(bytes, x, field) =
          [x EXCEPT !.ok = d.ok, !.cur = d.cur,
                    ![field] = IF ~d.ok THEN @
                               ELSE IF field = "off" THEN (@ + d.value) % Word ELSE d.value]
    BY DEF Read, d
  <2> QED
    BY <2>1, <2>2, <2>3
<1>6. ~Sleb(bytes, x.cur).ok =>
        /\ Read(bytes, x, "size").ok = FALSE /\ Read(bytes, x, "flags").ok = FALSE
        /\ Read(bytes, x, "delta").ok = FALSE /\ Read(bytes, x, "info").ok = FALSE
        /\ Read(bytes, x, "val").ok = FALSE /\ Read(bytes, x, "off").ok = FALSE
  BY <1>5 DEF FieldNames
<1> HIDE DEF there
<1>7. CASE k = 1
  <2>2. Reads(bytes, rela, x, k) = Read(bytes, x, "size")
    BY <1>2, <1>4, <1>7 DEF ReadsAs
  <2> QED
    BY <1>3, <1>6, <1>7, <2>2
<1>8. CASE k = 2
  <2>2. Reads(bytes, rela, x, k) = Read(bytes, x, "flags")
    BY <1>2, <1>4, <1>8 DEF ReadsAs
  <2> QED
    BY <1>3, <1>6, <1>8, <2>2
<1>9. CASE k = 3
  <2>1. ByDelta(g)
    BY <1>3, <1>9, FieldsAre DEF there
  <2>2. Reads(bytes, rela, x, k) = Read(bytes, x, "delta")
    BY <1>2, <1>4, <1>9, <2>1 DEF ReadsAs
  <2> QED
    BY <1>3, <1>6, <1>9, <2>2
<1>10. CASE k = 4
  <2>1. ByInfo(g)
    BY <1>3, <1>10, FieldsAre DEF there
  <2>2. Reads(bytes, rela, x, k) = Read(bytes, x, "info")
    BY <1>2, <1>4, <1>10, <2>1 DEF ReadsAs
  <2> QED
    BY <1>3, <1>6, <1>10, <2>2
<1>11. CASE k = 5
  <2>1. Addends(g) /\ ByAddend(g)
    BY <1>3, <1>11, FieldsAre DEF there
  <2> DEFINE y == IF rela THEN Read(bytes, x, "val") ELSE [x EXCEPT !.ok = FALSE]
  <2>2. Reads(bytes, rela, x, k) = [y EXCEPT !.group = 0]
    <3>1. Addends(x) /\ ByAddend(x)
      BY <1>2, <1>11, <2>1
    <3> QED
      BY <1>4, <1>11, <3>1 DEF ReadsAs
  <2>3. y.ok = FALSE
    BY <1>1, <1>3, <1>6 DEF FieldNames
  <2> HIDE DEF y
  <2> QED
    BY <2>2, <2>3
<1>12. CASE k = 6
  <2>1. ~ByDelta(g)
    BY <1>3, <1>12, FieldsAre DEF there
  <2>2. Reads(bytes, rela, x, k) = Read(bytes, x, "off")
    BY <1>2, <1>4, <1>12, <2>1 DEF ReadsAs
  <2> QED
    BY <1>3, <1>6, <1>12, <2>2
<1>13. CASE k = 7
  <2>1. ~ByInfo(g)
    BY <1>3, <1>13, FieldsAre DEF there
  <2>2. Reads(bytes, rela, x, k) = Read(bytes, x, "info")
    BY <1>2, <1>4, <1>13, <2>1 DEF ReadsAs
  <2> QED
    BY <1>3, <1>6, <1>13, <2>2
<1>14. CASE k = 8
  <2>1. Addends(g) /\ ~ByAddend(g) /\ rela
    BY <1>3, <1>14, FieldsAre DEF there
  <2>2. Reads(bytes, rela, x, k) = Read(bytes, x, "val")
    <3>1. Addends(x) /\ ~ByAddend(x) /\ rela
      BY <1>2, <1>14, <2>1
    <3> QED
      BY <1>4, <1>14, <3>1 DEF ReadsAs
  <2> QED
    BY <1>3, <1>6, <1>14, <2>2
<1>15. k = 1 \/ k = 2 \/ k = 3 \/ k = 4 \/ k = 5 \/ k = 6 \/ k = 7 \/ k = 8
  OBVIOUS
<1> QED
  BY <1>7, <1>8, <1>9, <1>10, <1>11, <1>12, <1>13, <1>14, <1>15, Zenon

\* Once a field is lost nothing more is read.
LEMMA LostStays ==
  ASSUME NEW bytes, NEW rela, NEW x, x.ok = FALSE, NEW k \in 1..8
  PROVE  Reads(bytes, rela, x, k).ok = FALSE
<1> DEFINE R(i) == Reads(bytes, rela, x, i)
           F(field, ofGroup) == ReadField(bytes, x, field, ofGroup, rela)
           y == [x EXCEPT !.group = 0]
<1>1. /\ R(1) = F("size", TRUE) /\ R(2) = F("flags", TRUE) /\ R(3) = F("delta", TRUE)
      /\ R(4) = F("info", TRUE) /\ R(5) = [F("val", TRUE) EXCEPT !.group = 0]
      /\ R(6) = F("off", FALSE) /\ R(7) = F("info", FALSE) /\ R(8) = F("val", FALSE)
  <2>1. ReadInOrder(bytes, rela, x)
    BY ReadsInOrder
  <2> QED
    BY <2>1 DEF ReadInOrder
<1>2. \A field, ofGroup : F(field, ofGroup) = x
  BY DEF ReadField
<1>3. y.ok = FALSE
  OBVIOUS
<1> HIDE DEF F, R, y
<1>4. R(1) = x /\ R(2) = x /\ R(3) = x /\ R(4) = x /\ R(6) = x /\ R(7) = x /\ R(8) = x
  BY <1>1, <1>2
<1>5. R(5) = y
  BY <1>1, <1>2 DEF y
<1>6. k = 1 \/ k = 2 \/ k = 3 \/ k = 4 \/ k = 5 \/ k = 6 \/ k = 7 \/ k = 8
  OBVIOUS
<1>7. R(k).ok = FALSE
  BY <1>3, <1>4, <1>5, <1>6
<1> QED
  BY <1>7 DEF R

\* The iterator before the first field and after each, when they are read in turn.
InTurn(read, bytes, x, fields, ofGroup, rela) ==
  /\ read[0] = x
  /\ \A k \in 1..Len(fields) :
       read[k] = ReadField(bytes, read[k - 1], fields[k], ofGroup, rela)
  /\ ReadFields(bytes, x, fields, ofGroup, rela) = read[Len(fields)]

\* Fields that are read one after another: there is an iterator before and after each.
LEMMA FieldsInTurn ==
  ASSUME NEW bytes, NEW x, NEW fields, NEW ofGroup, NEW rela, Len(fields) \in Nat
  PROVE  \E read : InTurn(read, bytes, x, fields, ofGroup, rela)
<1> DEFINE F(y, k) == ReadField(bytes, y, fields[k], ofGroup, rela)
           N == Len(fields)
           Is(f, m) == f = [k \in 0..m |-> IF k = 0 THEN x ELSE F(f[k - 1], k)]
           S == {m \in Nat : \E f : Is(f, m)}
           V == CHOOSE f : Is(f, N)
<1>1. ReadFields(bytes, x, fields, ofGroup, rela) = V[N]
  BY DEF ReadFields
<1> HIDE DEF F, N
<1>2. 0 \in S
  <2> DEFINE f == [k \in 0..0 |-> x]
  <2>1. Is(f, 0)
    OBVIOUS
  <2> QED
    BY <2>1
<1>3. ASSUME NEW m \in S PROVE m + 1 \in S
  <2>1. PICK f : Is(f, m)
    OBVIOUS
  <2> DEFINE q == [k \in 0..(m + 1) |-> IF k = m + 1 THEN F(f[m], m + 1) ELSE f[k]]
  <2>2. \A k \in 0..m : q[k] = f[k]
    OBVIOUS
  <2>3. q[m + 1] = F(q[m], m + 1)
    BY <2>2
  <2>4. \A k \in 0..m : q[k] = IF k = 0 THEN x ELSE F(q[k - 1], k)
    <3> SUFFICES ASSUME NEW k \in 0..m PROVE q[k] = IF k = 0 THEN x ELSE F(q[k - 1], k)
      OBVIOUS
    <3>1. f[k] = IF k = 0 THEN x ELSE F(f[k - 1], k)
      BY <2>1
    <3>2. k # 0 => q[k - 1] = f[k - 1]
      BY <2>2
    <3> HIDE DEF q
    <3> QED
      BY <2>2, <3>1, <3>2
  <2>5. q = [k \in 0..(m + 1) |-> q[k]]
    OBVIOUS
  <2> HIDE DEF q
  <2>6. \A k \in 0..(m + 1) : q[k] = IF k = 0 THEN x ELSE F(q[k - 1], k)
    BY <2>3, <2>4
  <2>7. Is(q, m + 1)
    BY <2>5, <2>6
  <2> HIDE DEF Is
  <2> QED
    BY <2>7
<1>4. N \in S
  BY <1>2, <1>3, NatSetInduction DEF N
<1>5. \E f : Is(f, N)
  BY <1>4
<1>6. Is(V, N)
  BY <1>5
<1> HIDE DEF V
<1>7. V[0] = x /\ \A k \in 1..N : V[k] = F(V[k - 1], k)
  BY <1>4, <1>6
<1>8. InTurn(V, bytes, x, fields, ofGroup, rela)
  BY <1>1, <1>7 DEF F, N, InTurn
<1> QED
  BY <1>8

\* The iterator with all the fields of its next relocation read, and what next makes
\* of it.
AllRead(bytes, rela, x) ==
  LET R(y, k) == Reads(bytes, rela, y, k)
      head == R(R(R(R(R(x, 1), 2), 3), 4), 5)
  IN R(R(R(IF x.group = x.size THEN head ELSE x, 6), 7), 8)

Advanced(all) ==
  IF ~all.ok THEN all
  ELSE [all EXCEPT !.off = IF ByDelta(all) THEN (@ + all.delta) % Word ELSE @,
                   !.index = @ + 1, !.group = @ + 1]

\* A call of next is the reading of the fields one by one, in a group of its own or not.
LEMMA NextReads ==
  ASSUME NEW bytes, NEW rela, NEW x, ~(x.index >= x.count)
  PROVE  IterNext(bytes, x, rela) = Advanced(AllRead(bytes, rela, x))
<1> DEFINE R(y, k) == Reads(bytes, rela, y, k)
           F(y, field, ofGroup) == ReadField(bytes, y, field, ofGroup, rela)
<1>1. \A y : /\ R(y, 1) = F(y, "size", TRUE) /\ R(y, 2) = F(y, "flags", TRUE)
             /\ R(y, 3) = F(y, "delta", TRUE) /\ R(y, 4) = F(y, "info", TRUE)
             /\ R(y, 5) = [F(y, "val", TRUE) EXCEPT !.group = 0]
             /\ R(y, 6) = F(y, "off", FALSE) /\ R(y, 7) = F(y, "info", FALSE)
             /\ R(y, 8) = F(y, "val", FALSE)
  <2> SUFFICES ASSUME NEW y
               PROVE  /\ R(y, 1) = F(y, "size", TRUE) /\ R(y, 2) = F(y, "flags", TRUE)
                      /\ R(y, 3) = F(y, "delta", TRUE) /\ R(y, 4) = F(y, "info", TRUE)
                      /\ R(y, 5) = [F(y, "val", TRUE) EXCEPT !.group = 0]
                      /\ R(y, 6) = F(y, "off", FALSE) /\ R(y, 7) = F(y, "info", FALSE)
                      /\ R(y, 8) = F(y, "val", FALSE)
    OBVIOUS
  <2>1. ReadInOrder(bytes, rela, y)
    BY ReadsInOrder
  <2> QED
    BY <2>1 DEF ReadInOrder
<1> DEFINE head == R(R(R(R(R(x, 1), 2), 3), 4), 5)
           group == IF x.group = x.size THEN head ELSE x
           all == R(R(R(group, 6), 7), 8)
<1> HIDE DEF R, F
<1>2. R(R(R(R(x, 1), 2), 3), 4) =
        F(F(F(F(x, "size", TRUE), "flags", TRUE), "delta", TRUE), "info", TRUE)
  BY <1>1
<1>3. head = [F(F(F(F(F(x, "size", TRUE), "flags", TRUE), "delta", TRUE), "info", TRUE),
                "val", TRUE) EXCEPT !.group = 0]
  BY <1>1, <1>2
<1>4. head = ReadGroupFields(bytes, x, rela)
  <2>1. ReadFields(bytes, x, <<"size", "flags", "delta", "info", "val">>, TRUE, rela) =
          F(F(F(F(F(x, "size", TRUE), "flags", TRUE), "delta", TRUE), "info", TRUE),
            "val", TRUE)
    <3> DEFINE fields == <<"size", "flags", "delta", "info", "val">>
    <3>1. /\ fields[1] = "size" /\ fields[2] = "flags" /\ fields[3] = "delta"
          /\ fields[4] = "info" /\ fields[5] = "val"
      OBVIOUS
    <3>2. Len(fields) = 5
      OBVIOUS
    <3> HIDE DEF fields
    <3>3. PICK read : InTurn(read, bytes, x, fields, TRUE, rela)
      <4>1. Len(fields) \in Nat
        BY <3>2
      <4> QED
        BY <4>1, FieldsInTurn, Zenon
    <3> DEFINE out == ReadFields(bytes, x, fields, TRUE, rela)
           G(y, field) == F(y, field, TRUE)
    <3>4. /\ read[0] = x /\ out = read[5]
          /\ \A k \in 1..5 : read[k] = G(read[k - 1], fields[k])
      BY <3>2, <3>3 DEF InTurn, F
    <3> HIDE DEF out, G
    <3>5. /\ read[1] = G(x, "size") /\ read[2] = G(read[1], "flags")
          /\ read[3] = G(read[2], "delta") /\ read[4] = G(read[3], "info")
          /\ out = G(read[4], "val")
      BY <3>1, <3>4
    <3>6. out = G(G(G(G(G(x, "size"), "flags"), "delta"), "info"), "val")
      BY <3>5
    <3> QED
      BY <3>6 DEF fields, out, G
  <2> HIDE DEF head
  <2> QED
    BY <1>3, <2>1 DEF ReadGroupFields
<1> HIDE DEF head
<1>5. group = IF x.group = x.size THEN ReadGroupFields(bytes, x, rela) ELSE x
  BY <1>4
<1> HIDE DEF group
<1>6. all = ReadFields(bytes, group, <<"off", "info", "val">>, FALSE, rela)
  <2>1. all = F(F(F(group, "off", FALSE), "info", FALSE), "val", FALSE)
    BY <1>1
  <2> HIDE DEF all
  <2> DEFINE fields == <<"off", "info", "val">>
  <2>2. fields[1] = "off" /\ fields[2] = "info" /\ fields[3] = "val"
    OBVIOUS
  <2>3. Len(fields) = 3
    OBVIOUS
  <2> HIDE DEF fields
  <2>4. PICK read : InTurn(read, bytes, group, fields, FALSE, rela)
    <3>1. Len(fields) \in Nat
      BY <2>3
    <3> QED
      BY <3>1, FieldsInTurn, Zenon
  <2> DEFINE out == ReadFields(bytes, group, fields, FALSE, rela)
         G(y, field) == F(y, field, FALSE)
  <2>5. /\ read[0] = group /\ out = read[3]
        /\ \A k \in 1..3 : read[k] = G(read[k - 1], fields[k])
    BY <2>3, <2>4 DEF InTurn, F
  <2>6. all = G(G(G(group, "off"), "info"), "val")
    BY <2>1
  <2> HIDE DEF out, G
  <2>7. /\ read[1] = G(group, "off") /\ read[2] = G(read[1], "info")
        /\ out = G(read[2], "val")
    BY <2>2, <2>5
  <2>8. all = out
    BY <2>6, <2>7
  <2> QED
    BY <2>8 DEF fields, out
<1> HIDE DEF all
<1>7. IterNext(bytes, x, rela) = Advanced(all)
  BY <1>5, <1>6 DEF IterNext, Advanced
<1>8. all = AllRead(bytes, rela, x)
  BY DEF AllRead, all, group, head, R
<1> QED
  BY <1>7, <1>8

\* The iterator y before field l, where field k is the first that is lost, if any is.
Until(y, p, j, k, l) == IF l <= k THEN Before(y, p, j, l) ELSE y.ok = FALSE

\* The fields before field k are there, and k, if it is a field, is lost.
LosesAt(bytes, rela, p, j, k) ==
  /\ \A l \in 1..(k - 1) : FieldAt(bytes, rela, p, j, l)
  /\ k # 9 => FieldLost(bytes, rela, p, j, k)

\* One field on.
LEMMA UntilNext ==
  ASSUME NEW bytes, NEW rela \in BOOLEAN, NEW y, NEW p, NEW j \in Nat, NEW k \in 1..9,
         LosesAt(bytes, rela, p, j, k), NEW l \in 1..8, Until(y, p, j, k, l),
         p.group[j].first = j \/ l > 5,
         p.rel[j].off = (p.rel[j - 1].off + p.rel[j].delta) % Word
  PROVE  Until(Reads(bytes, rela, y, l), p, j, k, l + 1)
<1>1. CASE l < k
  <2>1. Before(y, p, j, l) /\ FieldAt(bytes, rela, p, j, l)
    BY <1>1 DEF Until, LosesAt
  <2>2. Before(Reads(bytes, rela, y, l), p, j, l + 1)
    BY <2>1, FieldIsRead
  <2> QED
    BY <1>1, <2>2 DEF Until
<1>2. CASE l = k
  <2>1. Before(y, p, j, l) /\ FieldLost(bytes, rela, p, j, l)
    BY <1>2 DEF Until, LosesAt
  <2>2. Reads(bytes, rela, y, l).ok = FALSE
    BY <2>1, FieldIsLost
  <2> QED
    BY <1>2, <2>2 DEF Until
<1>3. CASE l > k
  <2>1. y.ok = FALSE
    BY <1>3 DEF Until
  <2>2. Reads(bytes, rela, y, l).ok = FALSE
    BY <2>1, LostStays
  <2> QED
    BY <1>3, <2>2 DEF Until
<1> QED
  BY <1>1, <1>2, <1>3

\* Where the iterator starts on a relocation, and whether it starts a group with it.
LEMMA StartsReading ==
  ASSUME NEW p, NEW j \in Nat \ {0}, NEW x, After(x, p, j - 1), Grouped(p, j),
         p.at[j][1] = p.at[j - 1][9]
  PROVE  /\ Before(x, p, j, 1) /\ p.group[j].first \in Nat /\ p.group[j].size \in Nat
         /\ x.group = x.size <=> p.group[j].first = j
         /\ p.group[j].first # j => x.group = j - p.group[j].first
<1> DEFINE last == p.group[j - 1]
<1>1. /\ x.group = j - 1 - last.first + 1 /\ x.size = last.size
      /\ last.first \in Nat /\ last.size \in Nat
  BY DEF After
<1>2. x.group = x.size <=> j = last.first + last.size
  BY <1>1
<1>3. p.group[j].first = j <=> j = last.first + last.size
  BY <1>1 DEF Grouped
<1>4. p.group[j].first \in Nat /\ p.group[j].size \in Nat
  BY <1>1, <1>3 DEF Grouped
<1>5. p.group[j].first # j =>
        /\ p.group[j] = last /\ ByDelta(last) => p.rel[j].delta = p.rel[j - 1].delta
        /\ p.group[j] = last /\ ByInfo(last) => p.rel[j].info = p.rel[j - 1].info
        /\ p.group[j] = last
  BY <1>3 DEF Grouped
<1>6. Before(x, p, j, 1)
  BY <1>5 DEF Before, After
<1> QED
  BY <1>1, <1>2, <1>3, <1>4, <1>5, <1>6

\* A call of next on the iterator after the relocation before j: it is then after j, or
\* has failed where a field of j is lost.
LEMMA NextRelocation ==
  ASSUME NEW bytes, NEW rela \in BOOLEAN, NEW p, NEW j \in Nat \ {0}, NEW x,
         After(x, p, j - 1), p.count \in Nat, j <= p.count, Grouped(p, j),
         p.at[j][1] = p.at[j - 1][9], NEW k \in 1..9, LosesAt(bytes, rela, p, j, k),
         p.rel[j].off = (p.rel[j - 1].off + p.rel[j].delta) % Word
  PROVE  /\ k = 9 => After(IterNext(bytes, x, rela), p, j)
         /\ k # 9 => IterNext(bytes, x, rela).ok = FALSE
<1> DEFINE R(y, l) == Reads(bytes, rela, y, l)
           g == p.group[j]
           head == R(R(R(R(R(x, 1), 2), 3), 4), 5)
           group == IF x.group = x.size THEN head ELSE x
           all == R(R(R(group, 6), 7), 8)
           U(y, l) == Until(y, p, j, k, l)
<1>1. /\ Before(x, p, j, 1) /\ g.first \in Nat /\ g.size \in Nat
      /\ x.group = x.size <=> g.first = j
      /\ g.first # j => x.group = j - g.first
  BY StartsReading
<1>2. ~(x.index >= x.count)
  BY DEF After
<1>3. IterNext(bytes, x, rela) = Advanced(all)
  <2>1. all = AllRead(bytes, rela, x)
    BY DEF AllRead
  <2> HIDE DEF all
  <2> QED
    BY <1>2, <2>1, NextReads
<1>4. \A y : \A l \in 1..8 : U(y, l) /\ (g.first = j \/ l > 5) => U(R(y, l), l + 1)
  BY UntilNext
<1>5. U(x, 1)
  BY <1>1 DEF Until
<1> HIDE DEF R, U
<1>6. U(group, 6)
  <2>1. CASE g.first = j
    <3>1. U(R(x, 1), 2)
      BY <1>4, <1>5, <2>1
    <3>2. U(R(R(x, 1), 2), 3)
      BY <1>4, <2>1, <3>1
    <3>3. U(R(R(R(x, 1), 2), 3), 4)
      BY <1>4, <2>1, <3>2
    <3>4. U(R(R(R(R(x, 1), 2), 3), 4), 5)
      BY <1>4, <2>1, <3>3
    <3>5. U(head, 6)
      BY <1>4, <2>1, <3>4
    <3> QED
      BY <1>1, <2>1, <3>5
  <2>2. CASE g.first # j
    <3>1. \A l \in 1..5 : ~Fields(p, j, rela)[l].there
      <4>1. LET f == Fields(p, j, rela) IN
            ~f[1].there /\ ~f[2].there /\ ~f[3].there /\ ~f[4].there /\ ~f[5].there
        BY <2>2, FieldsAre
      <4> QED
        BY <4>1
    <3>2. k > 5
      BY <3>1 DEF LosesAt, FieldLost
    <3>3. \A l \in 1..5 : p.at[j][l + 1] = p.at[j][l]
      BY <3>1, <3>2 DEF LosesAt, FieldAt
    <3>4. p.at[j][6] = p.at[j][1]
      <4>1. /\ p.at[j][1 + 1] = p.at[j][1] /\ p.at[j][2 + 1] = p.at[j][2]
            /\ p.at[j][3 + 1] = p.at[j][3] /\ p.at[j][4 + 1] = p.at[j][4]
            /\ p.at[j][5 + 1] = p.at[j][5]
        BY <3>3
      <4> QED
        BY <4>1
    <3>5. Before(x, p, j, 6)
      BY <1>1, <2>2, <3>4 DEF Before
    <3> QED
      BY <1>1, <2>2, <3>2, <3>5 DEF U, Until
  <2> QED
    BY <2>1, <2>2
<1> HIDE DEF group
<1>7. U(R(group, 6), 7)
  BY <1>4, <1>6
<1>8. U(R(R(group, 6), 7), 8)
  BY <1>4, <1>7
<1>9. U(all, 9)
  BY <1>4, <1>8
<1> HIDE DEF all
<1>10. CASE k # 9
  BY <1>3, <1>9, <1>10 DEF U, Until, Advanced
<1>11. CASE k = 9
  <2>1. Before(all, p, j, 9)
    BY <1>9, <1>11 DEF U, Until
  <2>2. /\ DOMAIN all = FieldNames /\ all.ok = TRUE /\ all.cur = p.at[j][9]
        /\ all.count = p.count /\ all.index = j - 1 /\ all.size = g.size
        /\ all.flags = g.flags /\ all.info = p.rel[j].info /\ all.group = j - g.first
        /\ ByDelta(g) => all.delta = p.rel[j].delta
        /\ all.off = IF ByDelta(g) THEN p.rel[j - 1].off ELSE p.rel[j].off
    BY <2>1 DEF Before
  <2>3. ByDelta(all) = ByDelta(g)
    BY <2>2, SameFlags
  <2>4. (IF ByDelta(all) THEN (all.off + all.delta) % Word ELSE all.off) = p.rel[j].off
    BY <2>2, <2>3
  <2>5. IterNext(bytes, x, rela) =
          [all EXCEPT !.off = p.rel[j].off, !.index = @ + 1, !.group = @ + 1]
    BY <1>3, <2>2, <2>4 DEF Advanced
  <2> HIDE DEF g
  <2>6. After(IterNext(bytes, x, rela), p, j)
    BY <1>1, <2>2, <2>5 DEF After, FieldNames, g
  <2> QED
    BY <1>11, <2>6
<1> QED
  BY <1>10, <1>11

\* The iterator runs: it has a state after every relocation.
LEMMA RunExists ==
  ASSUME NEW im, NEW N \in Nat
  PROVE  /\ Iterated(im, N)[0] = IterInit(im.relandroid)
         /\ \A j \in 1..N : Iterated(im, N)[j] =
              IterNext(im.relandroid, Iterated(im, N)[j - 1], Rela(im))
<1> DEFINE F(x) == IterNext(im.relandroid, x, Rela(im))
           Init0 == IterInit(im.relandroid)
           Is(f, m) == f = [j \in 0..m |-> IF j = 0 THEN Init0 ELSE F(f[j - 1])]
           S == {m \in Nat : \E f : Is(f, m)}
           V == CHOOSE f : Is(f, N)
<1>1. Iterated(im, N) = V
  BY DEF Iterated
<1> HIDE DEF F, Init0
<1>2. 0 \in S
  <2> DEFINE f == [j \in 0..0 |-> Init0]
  <2>1. Is(f, 0)
    OBVIOUS
  <2> QED
    BY <2>1
<1>3. ASSUME NEW m \in S PROVE m + 1 \in S
  <2>1. PICK f : Is(f, m)
    OBVIOUS
  <2> DEFINE q == [j \in 0..(m + 1) |-> IF j = m + 1 THEN F(f[m]) ELSE f[j]]
  <2>2. \A j \in 0..m : q[j] = f[j]
    OBVIOUS
  <2>3. q[m + 1] = F(q[m])
    BY <2>2
  <2>4. \A j \in 0..m : q[j] = IF j = 0 THEN Init0 ELSE F(q[j - 1])
    <3> SUFFICES ASSUME NEW j \in 0..m PROVE q[j] = IF j = 0 THEN Init0 ELSE F(q[j - 1])
      OBVIOUS
    <3>1. f[j] = IF j = 0 THEN Init0 ELSE F(f[j - 1])
      BY <2>1
    <3>2. j # 0 => q[j - 1] = f[j - 1]
      BY <2>2
    <3> HIDE DEF q
    <3> QED
      BY <2>2, <3>1, <3>2
  <2>5. q = [j \in 0..(m + 1) |-> q[j]]
    OBVIOUS
  <2> HIDE DEF q
  <2>6. \A j \in 0..(m + 1) : q[j] = IF j = 0 THEN Init0 ELSE F(q[j - 1])
    BY <2>3, <2>4
  <2>7. Is(q, m + 1)
    BY <2>5, <2>6
  <2> QED
    BY <2>7
<1>4. N \in S
  BY <1>2, <1>3, NatSetInduction
<1>5. \E f : Is(f, N)
  BY <1>4
<1>6. Is(V, N)
  BY <1>5
<1> HIDE DEF V
<1>7. V[0] = Init0 /\ \A j \in 1..N : V[j] = F(V[j - 1])
  BY <1>6
<1> QED
  BY <1>1, <1>7 DEF F, Init0

\* The iterator starts after the head of the section.
LEMMA RunStarts ==
  ASSUME NEW bytes, NEW rela, NEW p, NEW N, Packed(bytes, rela, p, N)
  PROVE  After(IterInit(bytes), p, 0)
<1> DEFINE y == Read(bytes, Zero, "count")
           z == Read(bytes, y, "off")
<1>1. /\ Codes(bytes, 0, p.count, p.mid) /\ Codes(bytes, p.mid, p.base, p.at[0][9])
      /\ p.rel[0].off = p.base % Word /\ p.rel[0].info = 0 /\ p.base \in Nat
      /\ p.group[0] = [first |-> 1, size |-> 0, flags |-> 0]
  BY DEF Packed
<1>2. DOMAIN Zero = FieldNames /\ Zero.ok = TRUE /\ Zero.cur = 0
  BY DEF Zero, FieldNames
<1>3. OneRead(Zero, y, "count", p.count, p.mid)
  BY <1>1, <1>2, ReadsOne DEF FieldNames
<1> HIDE DEF y
<1>4. DOMAIN y = FieldNames /\ y.cur = p.mid /\ y.ok = TRUE
  BY <1>3 DEF OneRead
<1>5. OneRead(y, z, "off", p.base, p.at[0][9])
  BY <1>1, <1>4, ReadsOne DEF FieldNames
<1>6. y.flags = 0 /\ y.off = 0
  BY <1>3 DEF OneRead, FieldNames, Zero
<1>7. IterInit(bytes) = [z EXCEPT !.ok = TRUE]
  <2>1. ReadField(bytes, Zero, "count", TRUE, TRUE) = y
    BY <1>2 DEF ReadField, Encoded, y
  <2>2. ~ByDelta(y)
    BY <1>6 DEF ByDelta
  <2>3. ReadField(bytes, y, "off", TRUE, TRUE) = z
    BY <1>4, <2>2 DEF ReadField, Encoded
  <2> HIDE DEF z
  <2>4. ReadFields(bytes, Zero, <<"count", "off">>, TRUE, TRUE) = z
    <3> DEFINE fields == <<"count", "off">>
    <3>1. Len(fields) = 2 /\ fields[1] = "count" /\ fields[2] = "off"
      OBVIOUS
    <3> HIDE DEF fields
    <3>2. PICK read : InTurn(read, bytes, Zero, fields, TRUE, TRUE)
      <4>1. Len(fields) \in Nat
        BY <3>1
      <4> QED
        BY <4>1, FieldsInTurn, Zenon
    <3> DEFINE out == ReadFields(bytes, Zero, fields, TRUE, TRUE)
           G(w, field) == ReadField(bytes, w, field, TRUE, TRUE)
    <3>3. /\ read[0] = Zero /\ out = read[2]
          /\ \A k \in 1..2 : read[k] = G(read[k - 1], fields[k])
      BY <3>1, <3>2 DEF InTurn
    <3>4. G(Zero, "count") = y /\ G(y, "off") = z
      BY <2>1, <2>3
    <3> HIDE DEF out, G
    <3>5. read[1] = y /\ out = z
      BY <3>1, <3>3, <3>4
    <3> QED
      BY <3>5 DEF fields, out
  <2> QED
    BY <2>4 DEF IterInit
<1> HIDE DEF z
<1>8. /\ DOMAIN z = FieldNames /\ z.cur = p.at[0][9] /\ z.off = p.base % Word
      /\ z.count = p.count /\ z.size = 0 /\ z.flags = 0 /\ z.index = 0 /\ z.group = 0
      /\ z.info = 0
  BY <1>1, <1>3, <1>5, <1>6 DEF OneRead, FieldNames, Zero
<1>9. ~ByDelta(p.group[0])
  BY <1>1 DEF ByDelta
<1> QED
  BY <1>1, <1>7, <1>8, <1>9 DEF After, FieldNames

\* The iterator inverts the packing: it returns the relocations that were packed, each
\* with its offset and its symbol, and then none.
THEOREM PackedReadsBack ==
  ASSUME NEW im, NEW p, NEW N, Packed(im.relandroid, Rela(im), p, N)
  PROVE  /\ Decoded(im, Iterated(im, N), N)
         /\ \A j \in 0..N : /\ Iterated(im, N)[j].off = p.rel[j].off
                            /\ Iterated(im, N)[j].info = p.rel[j].info
<1> DEFINE bytes == im.relandroid
           rela == Rela(im)
           run == Iterated(im, N)
           S == {j \in Nat : j <= N => After(run[j], p, j)}
<1>1. /\ N \in Nat /\ N <= p.count /\ p.count \in Nat /\ rela \in BOOLEAN
      /\ \A j \in 1..p.count :
           /\ p.rel[j].off = (p.rel[j - 1].off + p.rel[j].delta) % Word
           /\ Grouped(p, j) /\ p.at[j][1] = p.at[j - 1][9]
  BY DEF Packed, Rela
<1>2. run[0] = IterInit(bytes) /\ \A j \in 1..N : run[j] = IterNext(bytes, run[j - 1], rela)
  BY <1>1, RunExists
<1>3. \A j \in 1..N : LosesAt(bytes, rela, p, j, 9)
  BY DEF Packed, LosesAt
<1> HIDE DEF run, bytes, rela
<1>4. 0 \in S
  BY <1>2, RunStarts DEF bytes, rela
<1>5. ASSUME NEW j \in S PROVE j + 1 \in S
  <2> SUFFICES ASSUME j + 1 <= N PROVE After(run[j + 1], p, j + 1)
    OBVIOUS
  <2> DEFINE i == j + 1
  <2>1. i \in Nat \ {0} /\ i <= p.count /\ i \in 1..N /\ i \in 1..p.count /\ i - 1 = j
    BY <1>1
  <2>2. After(run[i - 1], p, i - 1)
    BY <1>1, <2>1
  <2>3. /\ Grouped(p, i) /\ p.at[i][1] = p.at[i - 1][9] /\ LosesAt(bytes, rela, p, i, 9)
        /\ p.rel[i].off = (p.rel[i - 1].off + p.rel[i].delta) % Word
    BY <1>1, <1>3, <2>1
  <2> HIDE DEF i
  <2>4. 9 \in 1..9
    OBVIOUS
  <2>5. After(IterNext(bytes, run[i - 1], rela), p, i)
    BY <1>1, <2>1, <2>2, <2>3, <2>4, NextRelocation
  <2> QED
    BY <1>2, <2>1, <2>5 DEF i
<1>6. \A j \in 0..N : After(run[j], p, j)
  <2>1. S = Nat
    BY <1>4, <1>5, NatSetInduction
  <2> QED
    BY <1>1, <2>1
<1>7. IterNext(bytes, run[N], rela).ok = FALSE
  <2>1. After(run[N], p, N)
    BY <1>1, <1>6
  <2>2. CASE N = p.count
    BY <1>1, <2>1, <2>2 DEF After, IterNext, FieldNames
  <2>3. CASE N < p.count
    <3>1. PICK k \in 1..8 : LosesAt(bytes, rela, p, N + 1, k)
      BY <2>3 DEF Packed, LosesAt, bytes, rela
    <3> DEFINE i == N + 1
    <3>2. i \in Nat \ {0} /\ i <= p.count /\ i \in 1..p.count /\ i - 1 = N
      BY <1>1, <2>3
    <3>3. /\ Grouped(p, i) /\ p.at[i][1] = p.at[i - 1][9] /\ LosesAt(bytes, rela, p, i, k)
          /\ p.rel[i].off = (p.rel[i - 1].off + p.rel[i].delta) % Word
      BY <1>1, <3>1, <3>2
    <3>4. After(run[i - 1], p, i - 1)
      BY <2>1, <3>2
    <3> HIDE DEF i
    <3>5. k \in 1..9 /\ k # 9
      OBVIOUS
    <3>6. IterNext(bytes, run[i - 1], rela).ok = FALSE
      BY <1>1, <3>2, <3>3, <3>4, <3>5, NextRelocation
    <3> QED
      BY <3>2, <3>6
  <2>4. N = p.count \/ N < p.count
    BY <1>1
  <2> QED
    BY <2>2, <2>3, <2>4, Zenon
<1>8. \A j \in 0..(N - 1) : run[j + 1] = IterNext(bytes, run[j], rela) /\ run[j + 1].ok
  <2> SUFFICES ASSUME NEW j \in 0..(N - 1)
               PROVE  run[j + 1] = IterNext(bytes, run[j], rela) /\ run[j + 1].ok
    OBVIOUS
  <2>1. j + 1 \in 1..N /\ j + 1 \in 0..N /\ j + 1 - 1 = j
    BY <1>1
  <2> QED
    BY <1>2, <1>6, <2>1 DEF After
<1>9. Decoded(im, run, N)
  BY <1>1, <1>2, <1>7, <1>8 DEF Decoded, bytes, rela
<1> QED
  BY <1>6, <1>9 DEF After, run

-----------------------------------------------------------------------------
\* The relocations as they are read are those that were packed.
LEMMA WrittenAsIsWritten ==
  ASSUME NEW im, NEW p, NEW N, Packed(im.relandroid, Rela(im), p, N), Laid(im), Tables(im),
         Relocates(im, p.rel, N), im.whole => Whole(im, p.rel, N)
  PROVE  /\ Linked(im, Iterated(im, N), N)
         /\ im.whole => Complete(im, Iterated(im, N), N)
<1> DEFINE It == Iterated(im, N)
<1>1. Decoded(im, It, N)
  BY PackedReadsBack
<1>2. \A j \in 1..N : It[j].off = p.rel[j].off /\ It[j].info = p.rel[j].info
  BY PackedReadsBack
<1> HIDE DEF It
<1>3. Relocates(im, It, N)
  BY <1>2 DEF Relocates
<1>4. \A s, i, a : FoundIn(im, It, N, s, i, a) <=> FoundIn(im, p.rel, N, s, i, a)
  BY <1>2 DEF FoundIn
<1>5. im.whole => Whole(im, It, N)
  BY <1>4 DEF Whole
<1> QED
  BY <1>1, <1>3, <1>5, WrittenIsLinked DEF It

\* What the theorems about hook_impl suppose of a file follows from how its tables are
\* laid out and its relocations written: the lookups of xh_elf.c resolve every hook, and
\* the iterators return every relocation.
THEOREM WrittenAreLinked == ASSUME FilesWritten PROVE FilesLinked
  BY WrittenAsIsWritten DEF FilesWritten, WrittenAs, FilesLinked

\* The lookups and the iterators make of the file what its linker put into it, whatever
\* the number of symbols, the hashes, the collisions among them and the packing.
THEOREM FilesReadAsLinked == ASSUME FilesWritten PROVE Spec => []ReadsAsLinked
<1> DEFINE Written(im) == \E p : WrittenAs(im, p)
<1>1. Init => Written(img)
  BY DEF Init, img, FilesWritten
<1>2. Written(img) /\ [Next]_vars => Written(img)'
  <2> SUFFICES ASSUME Written(img), [Next]_vars PROVE Written(img')
    OBVIOUS
  <2> QED
    BY SameFile
<1>3. Written(img) => ReadsAsLinked
  BY WrittenAsIsWritten DEF WrittenAs, ReadsAsLinked
<1> QED
  BY <1>1, <1>2, <1>3, PTL DEF Spec

=============================================================================
