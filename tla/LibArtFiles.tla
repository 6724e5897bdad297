---------------------------- MODULE LibArtFiles ----------------------------
(***************************************************************************)
(* What a linker and the runtime guarantee of a phone, for the lookups of  *)
(* src/cpp/elf/elf_image.cc and the search of src/cpp/art/ARTSymbol.cpp:   *)
(* the hypotheses under which LibArt_proofs proves what LibArt does with   *)
(* any phone.                                                              *)
(***************************************************************************)
EXTENDS LibArt, FiniteSets

Trampoline == "art_quick_generic_jni_trampoline"

\* The names asked of a library.
Asked(lib) == IF lib = "libart.so" THEN SymbolNames \ {"getJNIEnv"} ELSE {"getJNIEnv"}

-----------------------------------------------------------------------------
(***************************************************************************)
(* The symbol tables of a file f and the hash tables over .dynsym.         *)
(***************************************************************************)
DynSym(f) == f.shdr[Parse(f).dynsym].syms
SymTab(f) == f.shdr[Parse(f).symtab].syms

NameOf(f, i) == Str(f, Parse(f).dynstr, DynSym(f)[i])
Dynamic(f, name) == {i \in DOMAIN DynSym(f) : NameOf(f, i) = name}
Static(f, name) ==
  IF Parse(f).symtab = None THEN {}
  ELSE {i \in DOMAIN SymTab(f) : /\ SymTab(f)[i].type \in Wanted
                                 /\ Str(f, Parse(f).strtab, SymTab(f)[i]) = name}

NamedSyms(f, name) ==
  {DynSym(f)[i] : i \in Dynamic(f, name)} \cup {SymTab(f)[i] : i \in Static(f, name)}

Numbered(syms) ==
  IsFiniteSet(DOMAIN syms) /\ DOMAIN syms = 0..(Cardinality(DOMAIN syms) - 1)

\* The chains are followed up the table or down it, and hold every symbol.
SysvLaid(f) ==
  LET t == f.shdr[Parse(f).hash]
      named == DOMAIN DynSym(f) \ {0}
      Bucket(i) == f.elf_hash[NameOf(f, i)] % t.nbucket
  IN /\ t.nbucket \in Nat \ {0}
     /\ \A b \in 0..(t.nbucket - 1) : t.bucket[b] \in DOMAIN DynSym(f)
     /\ \A i \in named : t.chain[i] \in DOMAIN DynSym(f)
     /\ \/ \A i \in named : t.chain[i] < i
        \/ \A i \in named : t.chain[i] = 0 \/ t.chain[i] > i
     /\ \A i \in named : \/ t.bucket[Bucket(i)] = i
                         \/ \E j \in named : Bucket(j) = Bucket(i) /\ t.chain[j] = i

\* The symbols of a bucket stand together, and the last of them ends its chain.
GnuLaid(f) ==
  LET t == f.shdr[Parse(f).gnu]
      Hash(i) == f.gnu_hash[NameOf(f, i)]
      Fellows(i) == {j \in DOMAIN t.chain : Hash(j) % t.nbucket = Hash(i) % t.nbucket}
      First(i) == t.bucket[Hash(i) % t.nbucket]
  IN /\ t.nbucket \in Nat \ {0} /\ DOMAIN t.chain \subseteq DOMAIN DynSym(f) \ {0}
     /\ \A b \in 0..(t.nbucket - 1) : t.bucket[b] \in DOMAIN t.chain \cup {0}
     /\ \A i \in DOMAIN t.chain :
          /\ First(i) \in Fellows(i) /\ t.chain[i] \div 2 = Hash(i) \div 2
          /\ t.chain[i] % 2 = 1 <=> \A j \in Fellows(i) : j <= i
          /\ \A j \in Fellows(i) : First(i) <= j /\ (i <= j => i..j \subseteq Fellows(i))

\* What the bloom filter must let through: false of many 64-bit files.
BloomLaid(f) ==
  LET t == f.shdr[Parse(f).gnu] IN
  \A i \in DOMAIN t.chain : MayHold(f, t, f.gnu_hash[NameOf(f, i)])

FileLaid(f) ==
  /\ DOMAIN f.shdr \subseteq Nat
  /\ Numbered(DynSym(f)) /\ DynSym(f)[0] = NoSym
  /\ Parse(f).symtab # None => Numbered(SymTab(f))
  /\ Parse(f).gnu # None => GnuLaid(f)
  /\ Parse(f).hash # None => SysvLaid(f)

\* A hash table leads to whatever is exported under the names.
Searchable(f, names) ==
  \/ Parse(f).hash # None
  \/ /\ Parse(f).gnu # None /\ BloomLaid(f)
     /\ \A name \in names : Dynamic(f, name) \subseteq DOMAIN f.shdr[Parse(f).gnu].chain

\* The section that holds address v: the last one of code or data that is not after it.
Holding(f, v) ==
  {s \in SectionsOf(f, "PROGBITS") :
     /\ f.shdr[s].addr <= v
     /\ \A j \in SectionsOf(f, "PROGBITS") :
          f.shdr[j].addr <= v => f.shdr[j].addr <= f.shdr[s].addr}

\* base is where the first byte of the file is mapped, and what has one of the names is
\* in memory where its byte of the file is; it is held by a section that the linker
\* moved as far as the first one.
Placed(f, base, at, names) ==
  /\ base \in Nat /\ \A name \in names : f.elf_hash[name] \in Nat /\ f.gnu_hash[name] \in Nat
  /\ \A s \in SectionsOf(f, "PROGBITS") : f.shdr[s].offset \in Nat /\ f.shdr[s].addr \in Nat
  /\ \E first \in SectionsOf(f, "PROGBITS") :
       /\ \A j \in SectionsOf(f, "PROGBITS") : first <= j
       /\ \A name \in names : \A sym \in NamedSyms(f, name) :
            /\ sym # NoSym /\ sym.value \in Nat /\ at[name] # base
            /\ \E s \in Holding(f, sym.value) :
                 /\ at[name] = base + f.shdr[s].offset + (sym.value - f.shdr[s].addr)
                 /\ f.shdr[s].addr + f.shdr[first].offset
                      = f.shdr[first].addr + f.shdr[s].offset

-----------------------------------------------------------------------------
(***************************************************************************)
(* The memory of a phone h: wherever the virtual machine stands in the     *)
(* Runtime, it is the member java_vm_, and wherever the intern table stands*)
(* in the class linker, it is the member intern_table_.  The members are   *)
(* those of the sources of Android, up to its version 9, which are not in  *)
(* this repository: a pointer and a padded flag take a word, a string of   *)
(* the C++ library three.                                                  *)
(***************************************************************************)
RuntimeMembers(api) ==
  IF api >= ANDROID_O_MR1
  THEN <<"intern_table_", "class_linker_", "signal_catcher_", "use_tombstoned_traces_",
         "stack_trace_file_", "stack_trace_file_", "stack_trace_file_", "java_vm_">>
  ELSE <<"intern_table_", "class_linker_", "signal_catcher_",
         "stack_trace_file_", "stack_trace_file_", "stack_trace_file_", "java_vm_">>

LinkerMembers(api) ==
  IF api >= ANDROID_M
  THEN <<"intern_table_", "quick_resolution_trampoline_", "quick_imt_conflict_trampoline_",
         "quick_generic_jni_trampoline_">>
  ELSE <<"intern_table_", "portable_resolution_trampoline_", "quick_resolution_trampoline_",
         "portable_imt_conflict_trampoline_", "quick_imt_conflict_trampoline_",
         "quick_generic_jni_trampoline_">>

WordOf(members, m) == CHOOSE i \in DOMAIN members : members[i] = m

WordAt(h, obj, slot) == IF slot \in DOMAIN h.memory[obj] THEN h.memory[obj][slot] ELSE None

\* How far from java_vm_ to another member of the Runtime before it, and from
\* intern_table_ to the trampoline.
Back(h, m) == WordOf(RuntimeMembers(h.api), "java_vm_") - WordOf(RuntimeMembers(h.api), m)
TrampolineAfter(h) ==
  WordOf(LinkerMembers(h.api), "quick_generic_jni_trampoline_")
  - WordOf(LinkerMembers(h.api), "intern_table_")
Runtime(h) == WordAt(h, h.vm, 1)

VmSlots(h) ==
  LET start == IF h.wide THEN 48 ELSE 50 IN
  {slot \in start..(start + 99) : WordAt(h, Runtime(h), slot) = h.vm}

ClassLinker(h, slot) == WordAt(h, Runtime(h), slot - Back(h, "class_linker_"))
InternTable(h, slot) == WordAt(h, Runtime(h), slot - Back(h, "intern_table_"))
InternSlots(h, slot) ==
  {hit \in 25..124 : WordAt(h, ClassLinker(h, slot), hit) = InternTable(h, slot)}

RuntimeTrue(h) ==
  \A slot \in VmSlots(h) : ClassLinker(h, slot) # None =>
    \A hit \in InternSlots(h, slot) :
      WordAt(h, ClassLinker(h, slot), hit + TrampolineAfter(h)) = h.at[Trampoline]

RuntimeTells(h) ==
  /\ VmSlots(h) # {}
  /\ \A slot \in VmSlots(h) : ClassLinker(h, slot) # None /\ InternSlots(h, slot) # {}

-----------------------------------------------------------------------------
(***************************************************************************)
(* A phone p.                                                              *)
(***************************************************************************)
\* Line k is of the library, and no stand-in of it; it is of code.
OfLib(maps, lib, k) == maps[k].path.file = lib /\ maps[k].path.dir # "/system/fake-libs"
OfCode(maps, k) == {"r", "x"} \subseteq maps[k].perm

\* The library's code is at line k, and nothing executable stands between the first
\* line of the library and that, in a line of its own or in one without a name.
CodeAt(maps, lib, k) ==
  /\ OfLib(maps, lib, k) /\ OfCode(maps, k)
  /\ \A i, j \in 1..(k - 1) :
       i <= j /\ OfLib(maps, lib, i) /\ (OfLib(maps, lib, j) \/ maps[j].path = NoPath) =>
         ~OfCode(maps, j)

Code(p, lib) == {k \in DOMAIN p.phone.maps : CodeAt(p.phone.maps, lib, k)}

\* Its file, if it is mapped and has section headers.
FilesOf(p, lib) ==
  {f \in {p.files[p.phone.maps[k].path] : k \in Code(p, lib)} : f.shdr # <<>>}

InText(h, a) ==
  \E k \in DOMAIN h.maps :
    /\ h.maps[k].perm = {"r", "x"} /\ h.maps[k].path.dir = "/system/lib"
    /\ h.maps[k].begin <= a /\ a < h.maps[k].end

\* The files of a phone and its memory do not lie.
PhoneTrue(p) ==
  LET h == p.phone IN
  /\ \A lib \in Libraries :
       Code(p, lib) = {} => \A k \in DOMAIN h.maps : ~OfLib(h.maps, lib, k)
  /\ \A lib \in Libraries : \A k \in Code(p, lib) :
       LET f == p.files[h.maps[k].path] IN
       f.shdr # <<>> => FileLaid(f) /\ Placed(f, h.maps[k].begin, h.at, Asked(lib))
  /\ \A name \in SymbolNames : h.at[name] \notin {None, Wild, Stale} /\ InText(h, h.at[name])
  /\ RuntimeTrue(h)

\* Told is what they give away.
PhoneTells(p) ==
  LET h == p.phone
      Has(lib, name) == \E f \in FilesOf(p, lib) : NamedSyms(f, name) # {}
  IN /\ \A lib \in Libraries : \A f \in FilesOf(p, lib) : Searchable(f, Asked(lib))
     /\ \A name \in Asked("libart.so") \ {Trampoline} :
          name \in h.told <=> Has("libart.so", name)
     /\ Trampoline \in h.told =>
          Has("libart.so", Trampoline) \/ (FilesOf(p, "libart.so") # {} /\ RuntimeTells(h))
     /\ "getJNIEnv" \in h.told => Has("libandroid_runtime.so", "getJNIEnv")
=============================================================================
