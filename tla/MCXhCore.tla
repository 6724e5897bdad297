------------------------------ MODULE MCXhCore ------------------------------
(***************************************************************************)
(* XhCore on a small instance.                                             *)
(***************************************************************************)
EXTENDS XhCore, TLC

CONSTANTS c1, c2, w1, w2, hook, ignore

\* Hooks first, then refreshes, as the log messages of lines 147 and 187 ask; and
\* clear on its own, an assumption of this run: clear resets the flags without a
\* lock, and nothing in the repository says whether it may overlap other calls.
\* The protection is switched at any time but during clear.
Disciplined ==
  {{"clear", o} : o \in Ops} \cup {{"register", "sync"}, {"register", "async"}}

Overlapping == {}

Sym == Permutations(Callers) \cup Permutations(Workers)
=============================================================================
