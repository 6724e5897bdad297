---------------------------- MODULE XhPackedReloc ----------------------------
(***************************************************************************)
(* The packed relocations of src/cpp/xhook/xh_elf.c: the sleb128 decoder   *)
(* and the iterator over groups of relocations (".rel.android").  A byte   *)
(* holds GroupBits bits of payload (7 in the code) and a bit that says that*)
(* more follow; a size_t has WordBits bits (32 or 64 in the code).         *)
(***************************************************************************)
EXTENDS Naturals, SequencesExt

CONSTANTS GroupBits, WordBits

ASSUME BitsAssumption == GroupBits \in Nat \ {0} /\ WordBits \in Nat \ {0}

Word == 2 ^ WordBits
More(byte) == byte >= 2 ^ GroupBits
Payload(byte) == byte % 2 ^ GroupBits

\* Decodes the value that starts after the first cur bytes.  A payload bit beyond
\* the word is lost; the sign is extended only while the word has bits left.
Sleb(bytes, cur) ==
  LET ends == {k \in (cur + 1)..Len(bytes) : ~More(bytes[k])} IN
  IF ends = {} THEN [ok |-> FALSE, cur |-> Len(bytes), value |-> 0]
  ELSE LET last  == Min(ends)
           shift == (last - cur) * GroupBits
           bits  == MapThenSumSet(
                      LAMBDA k : Payload(bytes[k]) * 2 ^ ((k - cur - 1) * GroupBits),
                      (cur + 1)..last)
           sign  == IF shift < WordBits /\ Payload(bytes[last]) >= 2 ^ (GroupBits - 1)
                    THEN Word - 2 ^ shift ELSE 0
       IN [ok |-> TRUE, cur |-> last, value |-> (bits + sign) % Word]

-----------------------------------------------------------------------------
ByInfo(it)   == it.flags % 2 = 1         \* RELOCATION_GROUPED_BY_INFO_FLAG
ByDelta(it)  == it.flags \div 2 % 2 = 1  \* RELOCATION_GROUPED_BY_OFFSET_DELTA_FLAG
ByAddend(it) == it.flags \div 4 % 2 = 1  \* RELOCATION_GROUPED_BY_ADDEND_FLAG
Addends(it)  == it.flags \div 8 % 2 = 1  \* RELOCATION_GROUP_HAS_ADDEND_FLAG

Zero == [ok |-> TRUE, cur |-> 0, count |-> 0, size |-> 0, flags |-> 0, delta |-> 0,
         index |-> 0, group |-> 0, off |-> 0, info |-> 0, val |-> 0]

\* Is the field encoded, for the group or else for one relocation?  The addends
\* are decoded into val: nothing reads them.
Encoded(it, field, ofGroup, rela) ==
  CASE field = "delta" -> ByDelta(it)
    [] field = "off"   -> ~ByDelta(it)
    [] field = "info"  -> ByInfo(it) = ofGroup
    [] field = "val"   -> Addends(it) /\ ByAddend(it) = ofGroup /\ (rela \/ ofGroup)
    [] OTHER           -> TRUE

\* Mutant: an offset is taken to be absolute.
ReadAbsolute(bytes, it, field) ==
  LET d == Sleb(bytes, it.cur) IN
  [it EXCEPT !.ok = d.ok, !.cur = d.cur, ![field] = IF d.ok THEN d.value ELSE @]

\* Decodes one value into the field; an offset is relative to the last one.
Read(bytes, it, field) ==
  LET d == Sleb(bytes, it.cur) IN
  [it EXCEPT !.ok = d.ok, !.cur = d.cur,
             ![field] = IF ~d.ok THEN @
                        ELSE IF field = "off" THEN (@ + d.value) % Word ELSE d.value]

\* Decodes the field, if it is encoded and none before it has failed.
ReadField(bytes, it, field, ofGroup, rela) ==
  IF ~it.ok \/ ~Encoded(it, field, ofGroup, rela) THEN it
  ELSE IF field = "val" /\ ~rela THEN [it EXCEPT !.ok = FALSE]
  ELSE Read(bytes, it, field)

\* Decodes the fields one after another.
ReadFields(bytes, it, fields, ofGroup, rela) ==
  LET read[k \in 0..Len(fields)] ==
        IF k = 0 THEN it ELSE ReadField(bytes, read[k - 1], fields[k], ofGroup, rela)
  IN read[Len(fields)]

\* xh_elf_hook does not look at what init returns.
IterInit(bytes) ==
  [ReadFields(bytes, Zero, <<"count", "off">>, TRUE, TRUE) EXCEPT !.ok = TRUE]

ReadGroupFields(bytes, it, rela) ==
  [ReadFields(bytes, it, <<"size", "flags", "delta", "info", "val">>, TRUE, rela)
    EXCEPT !.group = 0]

\* The iterator after one call of next; ok says whether it returned a relocation,
\* which is then <<off, info>>.
IterNext(bytes, it, rela) ==
  IF it.index >= it.count THEN [it EXCEPT !.ok = FALSE]
  ELSE
    LET group == IF it.group = it.size THEN ReadGroupFields(bytes, it, rela) ELSE it
        next  == ReadFields(bytes, group, <<"off", "info", "val">>, FALSE, rela)
    IN IF ~next.ok THEN next
       ELSE [next EXCEPT !.off = IF ByDelta(next) THEN (@ + next.delta) % Word ELSE @,
                         !.index = @ + 1, !.group = @ + 1]
=============================================================================
