------------------------------- MODULE ElfImage -------------------------------
(***************************************************************************)
(* src/cpp/elf/elf_image.cc and elf_image.h: what Parse makes of the       *)
(* section headers of a library file, and the three lookups over them.     *)
(*                                                                         *)
(* A file f has shdr, its sections in order: [type, name, offset, addr] and*)
(* by type "syms" (a function from indices to [name, value, type]),        *)
(* "strings" or the words of a hash table; names of symbols are indices in *)
(* a string table.  f.elf_hash and f.gnu_hash are its names' hashes.       *)
(***************************************************************************)
EXTENDS Integers, FiniteSetsExt

CONSTANT WordBits   \* bits of u4, 32 in the code

ASSUME WordBitsAssumption == WordBits \in Nat \ {0}

None == 0   \* a pointer that is null
NoSym == [name |-> None, value |-> 0, type |-> "NOTYPE"]

SectionsOf(f, type) == {i \in DOMAIN f.shdr : f.shdr[i].type = type}
FirstOf(S) == IF S = {} THEN None ELSE Min(S)
LastOf(S)  == IF S = {} THEN None ELSE Max(S)

\* Mutant: the bias is that of the last PROGBITS section.
LoadBiasLast(f) ==
  LET s == f.shdr[LastOf(SectionsOf(f, "PROGBITS"))] IN s.offset - s.addr

\* The bias of the first PROGBITS section.
LoadBias(f) ==
  LET s == f.shdr[FirstOf(SectionsOf(f, "PROGBITS"))] IN s.offset - s.addr

\* The members Parse leaves: the last section of a type, the first string table
\* for dynstr_ and a later one named .strtab for strtab_.
Parse(f) ==
  LET strtabs == SectionsOf(f, "STRTAB") IN
  [symtab |-> LastOf(SectionsOf(f, "SYMTAB")), dynsym |-> LastOf(SectionsOf(f, "DYNSYM")),
   dynstr |-> FirstOf(strtabs),
   strtab |-> LastOf({i \in strtabs : i # FirstOf(strtabs) /\ f.shdr[i].name = ".strtab"}),
   hash   |-> LastOf(SectionsOf(f, "HASH")), gnu |-> LastOf(SectionsOf(f, "GNU_HASH"))]

Str(f, table, sym) ==
  IF sym.name \in DOMAIN f.shdr[table].strings THEN f.shdr[table].strings[sym.name] ELSE ""

-----------------------------------------------------------------------------
\* The types with one of the bits of STT_OBJECT or STT_FUNC.
Wanted == {"OBJECT", "FUNC", "SECTION", "COMMON", "TLS"}

LinearLookup(f, name) ==
  LET syms == f.shdr[Parse(f).symtab].syms
      found == {i \in DOMAIN syms : /\ syms[i].type \in Wanted
                                    /\ Str(f, Parse(f).strtab, syms[i]) = name}
  IN IF found = {} THEN NoSym ELSE syms[Max(found)]

ElfLookup(f, name) ==
  LET t == f.shdr[Parse(f).hash]
      syms == f.shdr[Parse(f).dynsym].syms
      Walk[n \in DOMAIN syms] ==
        IF n = 0 THEN NoSym
        ELSE IF Str(f, Parse(f).dynstr, syms[n]) = name THEN syms[n] ELSE Walk[t.chain[n]]
  IN Walk[t.bucket[f.elf_hash[name] % t.nbucket]]

\* The words of the bloom filter as Parse counts them, in u4 for either class;
\* the mask after line 166 takes an index modulo that number.
MaskWords(f, t) == IF f.class64 THEN 2 * t.maskwords ELSE t.maskwords

\* Line 60: bits of an address of the build, which has the class of the file.
BloomMaskBits(f) == IF f.class64 THEN 2 * WordBits ELSE WordBits

\* A word of the filter is the set of its bits that are set.
MayHold(f, t, hash) ==
  LET bits == BloomMaskBits(f)
      bloom_word == t.bloom[(hash \div bits) % MaskWords(f, t)]
  IN {hash % bits, (hash \div 2 ^ t.shift2) % bits} \subseteq bloom_word

\* Mutant: the symbol a chain ends with is not compared.
ChainShort(t, first) ==
  LET end == Min({i \in DOMAIN t.chain : i >= first /\ t.chain[i] % 2 = 1}) IN
  first..(end - 1)

\* From the first symbol of the bucket to the first odd hash.
Chain(t, first) ==
  LET end == Min({i \in DOMAIN t.chain : i >= first /\ t.chain[i] % 2 = 1}) IN first..end

GnuLookup(f, name) ==
  LET t == f.shdr[Parse(f).gnu]
      syms == f.shdr[Parse(f).dynsym].syms
      hash == f.gnu_hash[name]
      first == t.bucket[hash % t.nbucket]
      chain == IF MayHold(f, t, hash) /\ first # 0 THEN Chain(t, first) ELSE {}
      found == {i \in chain : /\ t.chain[i] \div 2 = hash \div 2
                              /\ Str(f, Parse(f).dynstr, syms[i]) = name}
  IN IF found = {} THEN NoSym ELSE syms[Min(found)]

\* The GNU table first, then the SYSV table.
Hashed(f, name) ==
  LET gnu == IF Parse(f).gnu # None THEN GnuLookup(f, name) ELSE NoSym IN
  IF gnu # NoSym \/ Parse(f).hash = None THEN gnu ELSE ElfLookup(f, name)

\* symtab_ is set by Parse or never: without a SHT_SYMTAB section the test of
\* line 91 reads what the heap held.
ReadsStale(f, name) == Hashed(f, name) = NoSym /\ Parse(f).symtab = None

FindSymbolOffset(f, name) ==
  LET sym == IF Hashed(f, name) = NoSym /\ Parse(f).symtab # None
             THEN LinearLookup(f, name) ELSE Hashed(f, name)
  IN IF sym = NoSym THEN 0 ELSE sym.value + LoadBias(f)

FindSymbol(f, base, name) ==
  LET offset == FindSymbolOffset(f, name) IN IF offset # 0 THEN base + offset ELSE None
=============================================================================
