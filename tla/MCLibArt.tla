------------------------------ MODULE MCLibArt ------------------------------
(***************************************************************************)
(* LibArt on phones of several versions, whose libraries carry their       *)
(* symbols in one hash table, both, or only in .symtab.  A phone has       *)
(*   api, wide    version; is it a 64-bit process?                         *)
(*   maps         /proc/self/maps                                          *)
(*   vm, memory   the virtual machine; object -> slot -> word              *)
(*   at           name -> the address the linker gave it                   *)
(*   told         the names its files and memory give away                 *)
(*   probes       addresses to ask the protection of                       *)
(* and files maps a path to what the file holds.                           *)
(***************************************************************************)
EXTENDS LibArtFiles, SequencesExt

CONSTANTS t1, t2

\* The names in the order of their addresses, and names nobody looks up.
Names == <<"memcpy", "SuspendVM", "ResumeVM", "ForceProcessProfiles", "CopyFrom(K,m)",
  "CopyFrom(m)", "CopyFrom(PointerSize)", "Clone(Thread)", "Clone(Thread,Class)",
  "Clone(Thread,m)", "artInterpreterToCompiledCodeBridge", "getJNIEnv", Trampoline,
  "art_quick_to_interpreter_bridge", "other">>
Index(name) == CHOOSE i \in DOMAIN Names : Names[i] = name

\* Sixteen hashes: mult 0 gives every name the same, 1 neighbours that share a chain.
Hash(mult) == [name \in {Names[i] : i \in DOMAIN Names} |-> (mult * Index(name) + mult) % 16]

Vaddr(v0, name) == v0 + 10 + Index(name)

(***************************************************************************)
(* A library as a linker writes it: symbol 1 of .dynsym is imported, the   *)
(* others are sorted by bucket.                                            *)
(***************************************************************************)
NBucket == 3
Sorted(names, hash) ==
  SetToSortSeq(names, LAMBDA a, b : 100 * (hash[a] % NBucket) + Index(a)
                                    < 100 * (hash[b] % NBucket) + Index(b))

Sym(v0, name) == [name |-> Index(name), value |-> Vaddr(v0, name), type |-> "FUNC"]
Import == [name |-> Index("memcpy"), value |-> 0, type |-> "FUNC"]
Strings(name) ==
  [type |-> "STRTAB", name |-> name, offset |-> 0, addr |-> 0, strings |-> Names]

DynSyms(v0, order) ==
  [i \in 0..(Len(order) + 1) |->
     CASE i = 0 -> NoSym [] i = 1 -> Import [] OTHER -> Sym(v0, order[i - 1])]

GnuTable(order, hash, wide) ==
  LET bits == IF wide THEN 2 * WordBits ELSE WordBits
      Bits(w) == UNION {{hash[order[i]] % bits, (hash[order[i]] \div 2) % bits} :
                          i \in {j \in DOMAIN order : (hash[order[j]] \div bits) % 2 = w}}
      In(b) == {i \in DOMAIN order : hash[order[i]] % NBucket = b}
  IN [type |-> "GNU_HASH", name |-> ".gnu.hash", offset |-> 0, addr |-> 0,
      nbucket |-> NBucket, maskwords |-> 2, shift2 |-> 1,
      bloom |-> IF wide
        THEN [w \in 0..3 |->
                {b \in 0..(WordBits - 1) : (b + (w % 2) * WordBits) \in Bits(w \div 2)}]
        ELSE [w \in 0..1 |-> Bits(w)],
      bucket |-> [b \in 0..(NBucket - 1) |-> IF In(b) = {} THEN 0 ELSE Min(In(b)) + 1],
      chain |-> [i \in 2..(Len(order) + 1) |->
                   LET h == hash[order[i - 1]] IN
                   2 * (h \div 2) + (IF i - 1 = Max(In(h % NBucket)) THEN 1 ELSE 0)]]

SysvTable(order, hash) ==
  LET all == <<"memcpy">> \o order
      Next1(b, above) ==
        LET S == {i \in DOMAIN all : i > above /\ hash[all[i]] % NBucket = b} IN
        IF S = {} THEN 0 ELSE Min(S)
  IN [type |-> "HASH", name |-> ".hash", offset |-> 0, addr |-> 0, nbucket |-> NBucket,
      bucket |-> [b \in 0..(NBucket - 1) |-> Next1(b, 0)],
      chain |-> [i \in DOMAIN all |-> Next1(hash[all[i]] % NBucket, i)]]

\* hashes is a subset of {"gnu", "sysv"}; locals are in .symtab, if there is one.
File(wide, v0, exported, locals, hashes, symtab, mult) ==
  LET hash == Hash(mult)
      order == Sorted(exported, hash)
      all == SetToSeq(exported \cup locals)
  IN [class64 |-> wide, elf_hash |-> hash, gnu_hash |-> hash,
      shdr |->
        <<[type |-> "DYNSYM", name |-> ".dynsym", offset |-> 0, addr |-> 0,
           syms |-> DynSyms(v0, order)], Strings(".dynstr")>>
        \o (IF "gnu" \in hashes THEN <<GnuTable(order, hash, wide)>> ELSE <<>>)
        \o (IF "sysv" \in hashes THEN <<SysvTable(order, hash)>> ELSE <<>>)
        \o <<[type |-> "PROGBITS", name |-> ".text", offset |-> 8, addr |-> v0 + 8],
             [type |-> "PROGBITS", name |-> ".data", offset |-> 40, addr |-> v0 + 50]>>
        \o (IF symtab
            THEN <<[type |-> "SYMTAB", name |-> ".symtab", offset |-> 0, addr |-> 0,
                    syms |-> [i \in 0..Len(all) |->
                                IF i = 0 THEN NoSym ELSE Sym(v0, all[i])]],
                   Strings(".strtab")>>
            ELSE <<>>)
        \o <<Strings(".shstrtab")>>]

(***************************************************************************)
(* A phone.                                                                *)
(***************************************************************************)
Line(begin, end, perm, dir, file) ==
  [begin |-> begin, end |-> end, perm |-> perm, private |-> TRUE,
   path |-> [dir |-> dir, file |-> file]]
Anon(begin, end, perm) ==
  [begin |-> begin, end |-> end, perm |-> perm, private |-> TRUE, path |-> NoPath]

Maps ==
  <<Line(100, 140, {"r", "x"}, "/system/lib", "libandroid_runtime.so"),
    Line(200, 240, {"r", "x"}, "/system/fake-libs", "libart.so"),
    Anon(240, 250, {"r", "x"}),
    [Line(298, 299, {"r", "w"}, "/system/lib", "libart.so") EXCEPT !.private = FALSE],
    Line(300, 340, {"r", "x"}, "/system/lib", "libart.so"),
    Line(340, 341, {"r", "w", "x"}, "/system/lib", "libart.so"),
    Line(341, 343, {"r"}, "/system/lib", "libart.so"),
    Line(344, 346, {"r", "w"}, "/system/lib", "libart.so"),
    Anon(346, 350, {"r", "w"})>>

\* What the members of the objects at 500 (the virtual machine, 600 its Runtime), 600
\* and 700 (the class linker) hold: where they are not told, some other address.
Holds(m) ==
  CASE m = "java_vm_" -> 500 [] m = "class_linker_" -> 700 [] m = "intern_table_" -> 800
    [] m = "quick_generic_jni_trampoline_" -> 300 + Vaddr(0, Trampoline)
    [] OTHER -> 900
Object(members, first) ==
  [k \in first..(first + Len(members) - 1) |-> Holds(members[k - first + 1])]

\* A Runtime and a ClassLinker of the version.
Memory(api, wide) ==
  [o \in {500, 600, 700} |->
     CASE o = 500 -> [k \in {1} |-> 600]
       [] o = 600 -> Object(RuntimeMembers(api), IF wide THEN 49 ELSE 51)
       [] o = 700 -> Object(LinkerMembers(api), 32)]

Phone(api, wide, v0, exported, locals, hashes, symtab, mult) ==
  [phone |-> [api |-> api, wide |-> wide, maps |-> Maps, vm |-> 500,
     memory |-> Memory(api, wide),
     at |-> [name \in {Names[i] : i \in DOMAIN Names} |->
               (IF name = "getJNIEnv" THEN 100 ELSE 300) + Vaddr(0, name)],
     told |-> exported \cup (IF symtab THEN locals ELSE {}) \cup {"getJNIEnv", Trampoline},
     probes |-> 296..350],
   files |-> [p \in {Maps[k].path : k \in DOMAIN Maps} |->
     IF p.file = "libart.so" THEN File(wide, v0, exported, locals, hashes, symtab, mult)
     ELSE File(wide, 0, {"getJNIEnv", "other"}, {}, {"gnu", "sysv"}, TRUE, mult)]]

Common == {"SuspendVM", "ResumeVM", "artInterpreterToCompiledCodeBridge",
           "art_quick_to_interpreter_bridge"}

Ordinary(wide) ==
  <<Phone(21, wide, 0, Common \cup {"Clone(Thread)"}, {Trampoline}, {"sysv"}, FALSE, 1),
    Phone(22, wide, 8, Common \cup {"Clone(Thread,Class)"}, {Trampoline},
          {"gnu", "sysv"}, FALSE, 3),
    Phone(22, wide, 0, Common, {"Clone(Thread,m)", Trampoline}, {"sysv"}, TRUE, 0),
    Phone(23, wide, 8, Common \cup {"CopyFrom(K,m)"}, {Trampoline}, {"gnu"}, TRUE, 0),
    Phone(24, wide, 0, Common \cup {"ForceProcessProfiles"}, {"CopyFrom(K,m)"},
          {"gnu"}, FALSE, 1),
    Phone(25, wide, 8, Common, {"CopyFrom(m)", Trampoline}, {"gnu"}, TRUE, 5),
    Phone(27, wide, 0, Common \cup {"CopyFrom(PointerSize)"}, {Trampoline}, {"gnu"}, FALSE, 3),
    Phone(28, wide, 8, {"ForceProcessProfiles"}, Common \cup {Trampoline},
          {"sysv", "gnu"}, TRUE, 1)>>

\* What lacks: an environment, the virtual machine in the Runtime, the intern table
\* in the class linker, a Clone, section headers.
Lacking(wide) ==
  LET p == Ordinary(wide)[7]
      q == Ordinary(wide)[1]
      With(f) == [path \in DOMAIN p.files |->
                    IF path.file = "libart.so" THEN f ELSE p.files[path]]
  IN {[p EXCEPT !.phone.told = @ \ {"getJNIEnv"},
         !.files = [path \in DOMAIN p.files |->
           IF path.file = "libart.so" THEN p.files[path]
           ELSE File(wide, 0, {"other"}, {}, {"gnu"}, TRUE, 1)]],
      [p EXCEPT !.phone.memory[600] = [k \in {} |-> 0], !.phone.told = @ \ {Trampoline}],
      [p EXCEPT !.phone.memory[700][32] = 0, !.phone.told = @ \ {Trampoline}],
      [q EXCEPT !.phone.told = @ \ {"Clone(Thread)"},
         !.files = With(File(wide, 0, Common, {}, {"sysv"}, FALSE, 1))],
      [q EXCEPT !.phone.told = {},
         !.files = With([p.files[Maps[5].path] EXCEPT !.shdr = <<>>])]}

Phones32 == {Ordinary(FALSE)[i] : i \in 1..8} \cup Lacking(FALSE)
Phones64 == {Ordinary(TRUE)[i] : i \in 1..8}

\* Of a 64-bit library with a GNU table only, the filter hides what it exports.
ASSUME PhonesAreTrue ==
  /\ \A p \in Phones32 \cup Phones64 : PhoneTrue(p)
  /\ \A p \in Phones32 : PhoneTells(p)
  /\ \E p \in Phones64 : ~PhoneTells(p)
=============================================================================
