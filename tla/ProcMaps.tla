------------------------------- MODULE ProcMaps -------------------------------
(***************************************************************************)
(* The two readers of /proc/self/maps that look for one thing in it:       *)
(* FindExecuteMemoryRange of src/cpp/elf/process_map.cc, and               *)
(* xh_util_get_mem_protect of src/cpp/xhook/xh_util.c.                     *)
(*                                                                         *)
(* maps is the sequence of lines; strstr on a path is a comparison of      *)
(* files.                                                                  *)
(***************************************************************************)
EXTENDS Naturals, Sequences, FiniteSetsExt

NoPath == [dir |-> "", file |-> ""]
NoRange == [path |-> NoPath, base |-> 0, end |-> 0]

Lines == [begin : Nat, end : Nat, perm : SUBSET {"r", "w", "x"}, private : BOOLEAN,
          path : [dir : STRING, file : STRING]]

\* The kernel lists the mappings in the order of their addresses.
InOrder(maps) ==
  /\ maps \in Seq(Lines)
  /\ \A k \in DOMAIN maps : maps[k].begin < maps[k].end
  /\ \A j, k \in DOMAIN maps : j < k => maps[j].end <= maps[k].begin

\* sscanf leaves mapname alone when a line has no path: it is the last one's.
MapName(maps, k) ==
  LET named == {j \in 1..k : maps[j].path # NoPath} IN
  IF named = {} THEN NoPath ELSE maps[Max(named)].path

\* Mutant: the stand-ins of /system/fake-libs are not passed over.
PassedOverNever(path) == FALSE

PassedOver(path) == path.dir = "/system/fake-libs"

FindExecuteMemoryRange(maps, file) ==
  LET found == {k \in DOMAIN maps : /\ ~PassedOver(MapName(maps, k))
                                    /\ MapName(maps, k).file = file
                                    /\ {"r", "x"} \subseteq maps[k].perm}
      k == Min(found)
  IN IF found = {} THEN NoRange
     ELSE [path |-> MapName(maps, k), base |-> maps[k].begin, end |-> maps[k].end]

IsValid(range) == range.path # NoPath /\ range.base < range.end

-----------------------------------------------------------------------------
\* Mutant: a permission of any line of the span is one of the span.
NarrowedNever(prot, perm, load0) == prot \cup perm

\* The first line gives its permissions, the others take away.
Narrowed(prot, perm, load0) == IF load0 THEN perm ELSE prot \cap perm

SEGVERR == {"error"}

\* The permissions of addr..addr+len-1 in the file, if all of it is there.
GetMemProtect(maps, addr, len, path) ==
  LET Read[k \in 0..Len(maps)] ==
        IF k = 0 THEN [start |-> addr, prot |-> {}, load0 |-> TRUE, all |-> FALSE]
        ELSE LET before == Read[k - 1]
                 line == maps[k]
             IN IF \/ before.all \/ line.path # path \/ ~line.private
                   \/ before.start \notin line.begin..(line.end - 1)
                THEN before
                ELSE [start |-> line.end,
                      prot |-> Narrowed(before.prot, line.perm, before.load0),
                      load0 |-> FALSE, all |-> addr + len <= line.end]
      last == Read[Len(maps)]
  IN IF last.all THEN last.prot ELSE SEGVERR
=============================================================================
