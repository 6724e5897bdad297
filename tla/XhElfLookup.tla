----------------------------- MODULE XhElfLookup -----------------------------
(***************************************************************************)
(* The symbol lookups of src/cpp/xhook/xh_elf.c over the tables of a loaded*)
(* file: the SYSV hash table and the GNU hash table.  The two hash         *)
(* functions are parameters of the file, so that names may collide at will;*)
(* the operators are applied to the symbol and to its hash.                *)
(***************************************************************************)
EXTENDS Naturals, FiniteSetsExt

CONSTANT ElfClassBits  \* bits of a word of the bloom filter (32 or 64 in the code)

ASSUME ElfClassBitsAssumption == ElfClassBits \in Nat \ {0}

NotFound == 0  \* index 0 is STN_UNDEF, which has no name

FirstOf(S) == IF S = {} THEN NotFound ELSE Min(S)

\* xh_elf_hash_lookup: the chain of the symbol's bucket, which ends at 0.
HashLookup(t, s, hash) ==
  LET Walk[i \in DOMAIN t.symtab] ==
        IF i = 0 THEN NotFound ELSE IF t.symtab[i] = s THEN i ELSE Walk[t.chain[i]]
  IN Walk[t.bucket[hash % t.bucket_cnt]]

\* A word of the filter is the set of its bits that are set.
InBloom(t, hash) ==
  {hash % ElfClassBits, (hash \div 2 ^ t.bloom_shift) % ElfClassBits}
    \subseteq t.bloom[(hash \div ElfClassBits) % t.bloom_sz]

\* Mutant: the first defined symbol is taken for an undefined one.
UndefinedOff(t, i) == i <= t.symoffset

Undefined(t, i) == i < t.symoffset

\* A chain ends at the first hash whose lowest bit is set; that bit is not compared.
GnuHashLookupDef(t, s, hash) ==
  LET first == t.bucket[hash % t.bucket_cnt]
      Hash(i) == t.chain[i - t.symoffset]
      ends == {i \in DOMAIN t.symtab : i >= first /\ Hash(i) % 2 = 1}
  IN IF ~InBloom(t, hash) \/ Undefined(t, first) THEN NotFound
     ELSE FirstOf({i \in first..Min(ends) :
                     Hash(i) \div 2 = hash \div 2 /\ t.symtab[i] = s})

GnuHashLookupUndef(t, s) ==
  FirstOf({i \in DOMAIN t.symtab : i < t.symoffset /\ t.symtab[i] = s})

GnuHashLookup(t, s, hash) ==
  LET def == GnuHashLookupDef(t, s, hash) IN
  IF def # NotFound THEN def ELSE GnuHashLookupUndef(t, s)
=============================================================================
