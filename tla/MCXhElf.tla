------------------------------- MODULE MCXhElf -------------------------------
(***************************************************************************)
(* XhElf on the files a linker could have written for three symbols and    *)
(* eight relocations, under every assignment of hashes to the symbols.     *)
(***************************************************************************)
EXTENDS XhElfFiles, Integers, SequencesExt

CONSTANTS defined, other, undefined, absent,   \* symbol names
          f, g, h

\* F of the value of e, which is computed once.
With(e, F(_)) == CHOOSE r \in {F(x) : x \in {e}} : TRUE

Concat(seqs) == With(seqs \o <<>>, FlattenSeq)

Bits == 3          \* payload bits of a byte
WordSize == 8      \* bits of a word
ClassBits == 2

MCHooks == <<[sym |-> defined, new |-> f], [sym |-> absent, new |-> h],
             [sym |-> undefined, new |-> g]>>

ASSUME HooksAreApart == HooksApart

Names == {defined, other, undefined}
MCOriginal == [s \in Names \cup {absent} |-> <<"original", s>>]

-----------------------------------------------------------------------------
(***************************************************************************)
(* The symbol table: the undefined symbol at 1, the defined ones after it  *)
(* in the order of their buckets.                                          *)
(***************************************************************************)
Buckets == 2

Order(hash) ==
  IF hash[defined] % Buckets <= hash[other] % Buckets THEN <<defined, other>>
  ELSE <<other, defined>>

Symtab(hash) ==
  0 :> "" @@ 1 :> undefined @@ 2 :> Order(hash)[1] @@ 3 :> Order(hash)[2]

IndexOf(hash, s) == CHOOSE i \in 1..3 : Symtab(hash)[i] = s

GnuTable(hash) ==
  LET tab == Symtab(hash)
      In(b) == {i \in 2..3 : hash[tab[i]] % Buckets = b}
      Highest(i) == \A j \in In(hash[tab[i]] % Buckets) : j <= i
  IN [symtab |-> tab, symoffset |-> 2, bucket_cnt |-> Buckets, bloom_sz |-> 2,
      bloom_shift |-> 1,
      bloom |-> [w \in 0..1 |->
        UNION {{hash[tab[i]] % ClassBits, (hash[tab[i]] \div 2) % ClassBits} :
               i \in {k \in 2..3 : (hash[tab[k]] \div ClassBits) % 2 = w}}],
      bucket |-> [b \in 0..(Buckets - 1) |->
        IF In(b) = {} THEN 0 ELSE CHOOSE i \in In(b) : \A j \in In(b) : i <= j],
      chain |-> [k \in 0..1 |->
        (hash[tab[k + 2]] \div 2) * 2 + (IF Highest(k + 2) THEN 1 ELSE 0)]]

\* Every symbol is in the SYSV table; a chain goes down from the highest index.
ElfTable(hash) ==
  LET tab == Symtab(hash)
      In(b) == {i \in 1..3 : hash[tab[i]] % Buckets = b}
      Top(S) == IF S = {} THEN 0 ELSE CHOOSE i \in S : \A j \in S : j <= i
  IN [symtab |-> tab, bucket_cnt |-> Buckets,
      bucket |-> [b \in 0..(Buckets - 1) |-> Top(In(b))],
      chain |-> [i \in 0..3 |->
        IF i = 0 THEN 0 ELSE Top({j \in In(hash[tab[i]] % Buckets) : j < i})]]

-----------------------------------------------------------------------------
(***************************************************************************)
(* The relocations.  Type 0 stands for the types hooking leaves alone.     *)
(***************************************************************************)
Ref(sec, off, sym, type) == [sec |-> sec, off |-> off, sym |-> sym, type |-> type]

Plt == <<Ref("plt", 16, other, 1), Ref("plt", 17, undefined, 1), Ref("plt", 18, defined, 1)>>
Dyn == <<Ref("dyn", 32, undefined, 0), Ref("dyn", 33, defined, 2),
         Ref("dyn", 34, undefined, 3), Ref("dyn", 48, defined, 3)>>
Android == <<Ref("android", 80, defined, 3), Ref("android", 82, defined, 3),
             Ref("android", 64, undefined, 3), Ref("android", 65, other, 2)>>

Info(hash, r) == IndexOf(hash, r.sym) * 4 + r.type

Plain(hash, rela, refs) ==
  Concat([k \in DOMAIN refs |->
    <<refs[k].off, Info(hash, refs[k])>> \o (IF rela THEN <<0>> ELSE <<>>)])

\* Minimal two's complement encoding of a word.
SlebBytes[word \in 0..(2 ^ WordSize - 1)] ==
  LET v == IF word >= 2 ^ (WordSize - 1) THEN word - 2 ^ WordSize ELSE word
      Fits(m) == -(2 ^ (Bits * m - 1)) <= v /\ v < 2 ^ (Bits * m - 1)
      m == CHOOSE m \in 1..3 : Fits(m) /\ \A k \in 1..(m - 1) : ~Fits(k)
  IN [k \in 1..m |-> (v % 2 ^ (Bits * k)) \div 2 ^ (Bits * (k - 1))
                     + (IF k < m THEN 2 ^ Bits ELSE 0)]

\* The relocations and groups of a packing with groups of the sizes cut, all with the
\* same flags.
Grouping(hash, cut, flags) ==
  LET Off(j) == IF j = 0 THEN 60 ELSE Android[j].off
      First[i \in DOMAIN cut] == IF i = 1 THEN 1 ELSE First[i - 1] + cut[i - 1]
      GroupOf(j) == CHOOSE i \in DOMAIN cut : First[i] <= j /\ j < First[i] + cut[i]
  IN [rel |-> <<>> @@ [j \in 0..Len(Android) |->
        IF j = 0 THEN [off |-> Off(j), info |-> 0]
        ELSE [off |-> Off(j), info |-> Info(hash, Android[j]), addend |-> 9,
              delta |-> (Off(j) - Off(j - 1)) % 2 ^ WordSize]],
      group |-> <<>> @@ [j \in 0..Len(Android) |->
        IF j = 0 THEN [first |-> 1, size |-> 0, flags |-> 0]
        ELSE [first |-> First[GroupOf(j)], size |-> cut[GroupOf(j)], flags |-> flags]]]

\* The packing p of N relocations in its bytes, with the place of every field.
Placing(p, N, rela) ==
  LET head == SlebBytes[N] \o SlebBytes[60]
      field == <<>> \o [q \in 1..(8 * N) |->
        LET one == Fields(p, ((q - 1) \div 8) + 1, rela)[((q - 1) % 8) + 1] IN
        IF one.there THEN SlebBytes[one.value] ELSE <<>>]
  IN With(field, LAMBDA fields :
       p @@ [count |-> N, base |-> 60, mid |-> Len(SlebBytes[N]),
             bytes |-> head \o FlattenSeq(fields),
             at |-> <<>> @@ [j \in 0..N |-> <<>> \o [k \in 1..9 |->
               Len(head) + Len(FlattenSeq(SubSeq(fields, 1, 8 * (j - 1) + k - 1)))]]])

Packing(hash, rela, packing) ==
  With(Grouping(hash, packing[1], packing[2]), LAMBDA p : Placing(p, Len(Android), rela))

\* How relocations are packed: one group; a group by info and two single ones;
\* single ones by offset; and, with rela only, addends each and by group.
Packings ==
  << <<<<4>>, 0>>, <<<<2, 1, 1>>, 1>>, <<<<1, 1, 1, 1>>, 3>>, <<<<1, 1, 1, 1>>, 2>>,
     <<<<4>>, 8>>, <<<<2, 1, 1>>, 13>> >>

-----------------------------------------------------------------------------
Pages == [a \in {r.off : r \in ToSet(Plt \o Dyn \o Android)} |-> a \div 32]

AllTags(gnu, rela) ==
  (IF gnu THEN <<"HASH", "GNU_HASH">> ELSE <<"HASH">>)
  \o <<"STRTAB", "SYMTAB", IF rela THEN "PLTREL_RELA" ELSE "PLTREL_REL",
       "JMPREL", "REL", "ANDROID_REL", "NULL", "JMPREL">>

\* The hashes numbered k: two bits for every symbol.
Hashes(k) == defined :> k % 4 @@ other :> (k \div 4) % 4 @@ undefined :> (k \div 16) % 4

Kind(k, gnu, rela, packing) ==
  [hash |-> k, gnu |-> gnu, rela |-> rela, packing |-> packing, cut |-> 0, head |-> <<>>]

\* Any hashes with one packing, and any packing with one set of hashes.
WholeKinds ==
  [k \in 1..128 |-> Kind(k, k > 64, TRUE, <<<<2, 1, 1>>, 13>>)]
  \o [k \in 1..6 |-> Kind(45, TRUE, TRUE, Packings[k])]
  \o [k \in 1..4 |-> Kind(45, TRUE, FALSE, Packings[k])]

\* Packed sections that end early, addends where there are none, no symbol table, a
\* section below the file.
CutKinds ==
  LET whole == Kind(45, TRUE, FALSE, Packings[1]) IN
  [k \in 1..5 |-> [whole EXCEPT !.cut = k]]
  \o <<Kind(45, TRUE, FALSE, <<<<4>>, 12>>), [whole EXCEPT !.head = <<"HASH", "NULL">>],
       [whole EXCEPT !.head = <<"MALFORMED">>]>>

Kinds == WholeKinds \o CutKinds

\* A symbol that is absent has a hash as well.
HashOf == [k \in 1..128 |-> Hashes(k) @@ absent :> 1]

PackingOf == [c \in ToSet(Kinds) |-> Packing(HashOf[c.hash], c.rela, c.packing)]

Image == [c \in ToSet(Kinds) |->
  LET hash == HashOf[c.hash] IN
  [dyn |-> c.head \o AllTags(c.gnu, c.rela),
   hash |-> hash, gnu |-> GnuTable(hash), elf |-> ElfTable(hash),
   relplt |-> Plain(hash, c.rela, Plt), reldyn |-> Plain(hash, c.rela, Dyn),
   relandroid |-> LET bytes == PackingOf[c].bytes IN SubSeq(bytes, 1, Len(bytes) - c.cut),
   refs |-> ToSet(Plt \o Dyn \o Android), page |-> Pages,
   prot |-> 0 :> "r" @@ 1 :> "rw" @@ 2 :> "r",
   whole |-> c \in ToSet(WholeKinds)]]

AllImages == [k \in DOMAIN Kinds |-> Image[Kinds[k]]]
MCImages == AllImages

ASSUME FilesAreWritten ==
  \A k \in DOMAIN Kinds : WrittenAs(AllImages[k], PackingOf[Kinds[k]])

\* A 64-bit library that calls through .rela.dyn only: no DT_JMPREL, no DT_PLTREL.
MCNoPltImages ==
  <<[Image[Kind(45, TRUE, TRUE, Packings[5])] EXCEPT
      !.dyn = <<"GNU_HASH", "STRTAB", "SYMTAB", "REL", "NULL">>,
      !.refs = {r \in @ : r.sec = "dyn"}, !.page = [a \in {32, 33, 34, 48} |-> 1]]>>
=============================================================================
