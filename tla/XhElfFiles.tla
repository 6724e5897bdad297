------------------------------ MODULE XhElfFiles ------------------------------
(***************************************************************************)
(* What hook_impl reads of a file, as operators on the file alone, and     *)
(* what a linker guarantees of it: the hypothesis under which XhElf_proofs *)
(* proves what XhElf does with any file.                                   *)
(***************************************************************************)
EXTENDS XhElf

-----------------------------------------------------------------------------
(***************************************************************************)
(* What the code reads of a file im.                                       *)
(***************************************************************************)
TagsIn(im) ==
  {im.dyn[k] : k \in {k \in DOMAIN im.dyn : \A j \in 1..k : im.dyn[j] # "NULL"}}

Rela(im) == "PLTREL_RELA" \in TagsIn(im)

\* The index xh_elf_find_symidx_by_name has for hook m.
SymidxOf(im, m) ==
  LET s == Hooks[m].sym IN
  IF "GNU_HASH" \in TagsIn(im) THEN GnuHashLookup(im.gnu, s, im.hash[s])
  ELSE HashLookup(im.elf, s, im.hash[s])

\* Does section s take a relocation with that info for one of symbol i?
Takes(i, s, info) ==
  /\ info \div Types = i
  /\ info % Types \in IF s = 1 THEN {JUMP_SLOT} ELSE {GLOB_DAT, ABS}

WordsIn(im, s) == IF s = 1 THEN im.relplt ELSE im.reldyn

Step(im) == IF Rela(im) THEN 3 ELSE 2

\* Where the relocations of a plain section start.
Starts(im, s) == {p \in 0..(Len(WordsIn(im, s)) - 1) : p % Step(im) = 0}

\* The iterator of the packed section over its N relocations, and at its end.
Decoded(im, It, N) ==
  /\ N \in Nat /\ It[0] = IterInit(im.relandroid)
  /\ \A j \in 0..(N - 1) :
       /\ It[j + 1] = IterNext(im.relandroid, It[j], Rela(im))
       /\ It[j + 1].ok
  /\ ~IterNext(im.relandroid, It[N], Rela(im)).ok

-----------------------------------------------------------------------------
(***************************************************************************)
(* What a linker guarantees.                                               *)
(***************************************************************************)
\* Hook m is for what the linker put at a.
HookedAt(im, m, a) ==
  \E r \in im.refs : r.off = a /\ r.sym = Hooks[m].sym /\ r.type # 0

\* The words of memory the relocations name are slots on pages of the file, each
\* the place of one relocation.  (That an address has a bit at least is arithmetic.)
Laid(im) ==
  /\ \A r \in im.refs : r.off \in DOMAIN im.page
  /\ \A a \in DOMAIN im.page : \E r \in im.refs : r.off = a
  /\ \A r, q \in im.refs : r.off = q.off => r = q
  /\ \A a \in DOMAIN im.page : a \in 0..(Word - 1) /\ im.page[a] \in DOMAIN im.prot
  /\ \A p \in DOMAIN im.prot : im.prot[p] \in {"r", "rw"}
  /\ im.relplt \in Seq(Nat) /\ im.reldyn \in Seq(Nat)
  /\ NotFound \in DOMAIN im.gnu.symtab /\ 0 \in 0..(Word - 1)

\* The lookup finds a symbol by its name.
Resolves(im) ==
  \A m \in DOMAIN Hooks :
    /\ SymidxOf(im, m) \in DOMAIN im.gnu.symtab
    /\ SymidxOf(im, m) # NotFound => im.gnu.symtab[SymidxOf(im, m)] = Hooks[m].sym

\* A relocation in section s that names a symbol is of a slot resolved to it.
NamesSlot(im, s, off, info) ==
  \A i \in DOMAIN im.gnu.symtab \ {NotFound} :
    Takes(i, s, info) =>
      \E r \in im.refs : r.off = off /\ r.sym = im.gnu.symtab[i] /\ r.type # 0

Relocates(im, It, N) ==
  /\ \A s \in 1..2 : SectionTags[s] \in TagsIn(im) =>
       \A p \in Starts(im, s) :
         NamesSlot(im, s, WordsIn(im, s)[p + 1], WordsIn(im, s)[p + 2])
  /\ "ANDROID_REL" \in TagsIn(im) =>
       \A j \in 1..N : NamesSlot(im, 3, It[j].off, It[j].info)

Linked(im, It, N) ==
  Laid(im) /\ Resolves(im) /\ Decoded(im, It, N) /\ Relocates(im, It, N)

\* In a file that is whole, what a hook is for is found, in a section that refers to
\* it; a symbol has one relocation in .rel.plt.
FoundIn(im, It, N, s, i, a) ==
  /\ SectionTags[s] \in TagsIn(im)
  /\ \/ s # 3 /\ \E p \in Starts(im, s) : WordsIn(im, s)[p + 1] = a
                                         /\ Takes(i, s, WordsIn(im, s)[p + 2])
     \/ s = 3 /\ \E j \in 1..N : It[j].off = a /\ Takes(i, 3, It[j].info)

Complete(im, It, N) ==
  \A m \in DOMAIN Hooks :
    /\ \A a \in DOMAIN im.page : HookedAt(im, m, a) =>
         /\ SymidxOf(im, m) # NotFound
         /\ \E s \in 1..3 : FoundIn(im, It, N, s, SymidxOf(im, m), a)
    /\ \A p, q \in Starts(im, 1) :
         /\ Takes(SymidxOf(im, m), 1, im.relplt[p + 2])
         /\ Takes(SymidxOf(im, m), 1, im.relplt[q + 2])
         => p = q

\* Every file that may be loaded is one a linker wrote, as the lookups read it.
FilesLinked ==
  \A k \in DOMAIN Images : \E It, N :
    Linked(Images[k], It, N) /\ (Images[k].whole => Complete(Images[k], It, N))

-----------------------------------------------------------------------------
(***************************************************************************)
(* How a linker lays the hash tables t out, with the hash of every name.   *)
(***************************************************************************)
Numbered(t) ==
  /\ IsFiniteSet(DOMAIN t.symtab) /\ t.bucket_cnt \in Nat \ {0}
  /\ DOMAIN t.symtab = 0..(Cardinality(DOMAIN t.symtab) - 1)

Bucket(t, hash, i) == hash[t.symtab[i]] % t.bucket_cnt

\* The chains are followed up the table or down it, and hold every symbol.
SysvLaid(t, hash) ==
  LET named == DOMAIN t.symtab \ {NotFound} IN
  /\ Numbered(t)
  /\ \A b \in 0..(t.bucket_cnt - 1) : t.bucket[b] \in DOMAIN t.symtab
  /\ \A i \in named : t.chain[i] \in DOMAIN t.symtab
  /\ \/ \A i \in named : t.chain[i] < i
     \/ \A i \in named : t.chain[i] = NotFound \/ t.chain[i] > i
  /\ \A i \in named :
       \/ t.bucket[Bucket(t, hash, i)] = i
       \/ \E j \in named : Bucket(t, hash, j) = Bucket(t, hash, i) /\ t.chain[j] = i

\* The defined symbols are sorted by bucket, and the last of one ends its chain.
GnuLaid(t, hash) ==
  LET named == {i \in DOMAIN t.symtab : i >= t.symoffset}
      Fellows(i) == {j \in named : Bucket(t, hash, j) = Bucket(t, hash, i)}
  IN /\ Numbered(t) /\ t.symoffset \in Nat \ {0}
     /\ \A b \in 0..(t.bucket_cnt - 1) : t.bucket[b] \in named \cup {0}
     /\ \A i \in named :
          /\ t.bucket[Bucket(t, hash, i)] \in Fellows(i) /\ InBloom(t, hash[t.symtab[i]])
          /\ \A j \in Fellows(i) :
               t.bucket[Bucket(t, hash, i)] <= j /\ (i <= j => i..j \subseteq Fellows(i))
          /\ t.chain[i - t.symoffset] \div 2 = hash[t.symtab[i]] \div 2
          /\ t.chain[i - t.symoffset] % 2 = 1 <=> \A j \in Fellows(i) : j <= i

\* The names are those of the hooks or others, and index 0 has none of them.
Tables(im) ==
  /\ im.elf.symtab = im.gnu.symtab
  /\ IF "GNU_HASH" \in TagsIn(im) THEN GnuLaid(im.gnu, im.hash) ELSE SysvLaid(im.elf, im.hash)
  /\ \A i \in DOMAIN im.gnu.symtab \ {NotFound} : im.hash[im.gnu.symtab[i]] \in Nat
  /\ \A m \in DOMAIN Hooks : /\ im.hash[Hooks[m].sym] \in Nat
                             /\ im.gnu.symtab[NotFound] # Hooks[m].sym

\* In a file that is whole a name is one symbol's, which the relocations are for.
Whole(im, It, N) ==
  /\ \A i, j \in DOMAIN im.gnu.symtab : im.gnu.symtab[i] = im.gnu.symtab[j] => i = j
  /\ \A r \in im.refs : r.type # 0 =>
       \E i \in DOMAIN im.gnu.symtab \ {NotFound}, s \in 1..3 :
         im.gnu.symtab[i] = r.sym /\ FoundIn(im, It, N, s, i, r.off)
  /\ \A i \in DOMAIN im.gnu.symtab : \A p, q \in Starts(im, 1) :
       Takes(i, 1, im.relplt[p + 2]) /\ Takes(i, 1, im.relplt[q + 2]) => p = q

\* The iterator of the packed section over its first N relocations.
Iterated(im, N) ==
  LET It[j \in 0..N] == IF j = 0 THEN IterInit(im.relandroid)
                        ELSE IterNext(im.relandroid, It[j - 1], Rela(im))
  IN It

\* What a linker packs for relocation j of p, field by field.  A relocation is where
\* the one before it is and rel[j].delta on; the first one of a group has the fields of
\* the group before its own.
Fields(p, j, rela) ==
  LET r == p.rel[j]
      group == p.group[j]
      first == group.first = j
  IN << [there |-> first, value |-> group.size],
        [there |-> first, value |-> group.flags],
        [there |-> first /\ ByDelta(group), value |-> r.delta],
        [there |-> first /\ ByInfo(group), value |-> r.info],
        [there |-> first /\ Addends(group) /\ ByAddend(group), value |-> r.addend],
        [there |-> ~ByDelta(group), value |-> r.delta],
        [there |-> ~ByInfo(group), value |-> r.info],
        [there |-> Addends(group) /\ ~ByAddend(group) /\ rela, value |-> r.addend] >>

GroupAddend == 5   \* this field has no place where relocations have no addend

\* The value v is encoded after the first from bytes, and ends with byte to.
Codes(bytes, from, v, to) == Sleb(bytes, from) = [ok |-> TRUE, cur |-> to, value |-> v]

\* Field k of relocation j is where it belongs; or the section ends before it does.
FieldAt(bytes, rela, p, j, k) ==
  LET field == Fields(p, j, rela)[k] IN
  IF field.there THEN /\ k = GroupAddend => rela
                      /\ Codes(bytes, p.at[j][k], field.value, p.at[j][k + 1])
  ELSE p.at[j][k + 1] = p.at[j][k]

FieldLost(bytes, rela, p, j, k) ==
  /\ Fields(p, j, rela)[k].there
  /\ (k = GroupAddend /\ ~rela) \/ ~Sleb(bytes, p.at[j][k]).ok

\* Relocation j starts a group where the last one is full, and else shares with the
\* one before it what their group has once.
Grouped(p, j) ==
  LET last == p.group[j - 1] IN
  /\ p.group[j].size \in Nat
  /\ IF j = last.first + last.size THEN p.group[j].first = j
     ELSE /\ p.group[j] = last /\ last.first < j
          /\ ByDelta(last) => p.rel[j].delta = p.rel[j - 1].delta
          /\ ByInfo(last) => p.rel[j].info = p.rel[j - 1].info

\* The section holds the first N relocations of the packing p, and no other.
Packed(bytes, rela, p, N) ==
  /\ p.count \in Nat /\ p.base \in Nat /\ N \in 0..p.count
  /\ Codes(bytes, 0, p.count, p.mid) /\ Codes(bytes, p.mid, p.base, p.at[0][9])
  /\ p.rel[0].off = p.base % Word /\ p.rel[0].info = 0
  /\ p.group[0] = [first |-> 1, size |-> 0, flags |-> 0]
  /\ \A j \in 1..N, k \in 1..8 : FieldAt(bytes, rela, p, j, k)
  /\ \A j \in 1..p.count :
       /\ p.rel[j].off = (p.rel[j - 1].off + p.rel[j].delta) % Word
       /\ Grouped(p, j) /\ p.at[j][1] = p.at[j - 1][9]
  /\ N < p.count => \E k \in 1..8 :
       /\ FieldLost(bytes, rela, p, N + 1, k)
       /\ \A l \in 1..(k - 1) : FieldAt(bytes, rela, p, N + 1, l)

\* The file is one a linker wrote, with its packed relocations as in p.
WrittenAs(im, p) ==
  \E N \in 0..Cardinality(im.refs) :
    /\ Packed(im.relandroid, Rela(im), p, N) /\ Laid(im) /\ Tables(im)
    /\ Relocates(im, p.rel, N) /\ (im.whole => Whole(im, p.rel, N))

\* Every file that may be loaded is one a linker wrote, table by table.
FilesWritten == \A k \in DOMAIN Images : \E p : WrittenAs(Images[k], p)

-----------------------------------------------------------------------------
\* Every hook is for a symbol of its own, with a function of its own that is not one
\* of the originals.
HooksApart ==
  /\ \A m, l \in DOMAIN Hooks :
       m # l => Hooks[m].sym # Hooks[l].sym /\ Hooks[m].new # Hooks[l].new
  /\ \A k \in DOMAIN Images : \A r \in Images[k].refs : \A m \in DOMAIN Hooks :
       Hooks[m].new # Original[r.sym]

-----------------------------------------------------------------------------
\* The lookups and the iterators make of the file what its linker put into it: a symbol
\* is found under its own name or not at all, each relocation that refers to one is of
\* a slot of that symbol, and in a file that is whole none is passed over (xh_elf.c
\* lines 83-446, with either hash table and every packing).
ReadsAsLinked ==
  pc = "idle" /\ calls = 0 =>
    \E N \in 0..Cardinality(img.refs) : \E It \in {Iterated(img, N)} :
      Linked(img, It, N) /\ (img.whole => Complete(img, It, N))
=============================================================================
