----------------------------- MODULE MCXhRefresh -----------------------------
(***************************************************************************)
(* XhRefresh on a small instance.                                          *)
(***************************************************************************)
EXTENDS XhRefresh

CONSTANTS p, q, s, t, f, g

\* Hooks on different symbols; f's pattern matches one file, g's both.
Apart == {[files |-> {p}, sym |-> s, new |-> f], [files |-> {p, q}, sym |-> t, new |-> g]}

\* Two hooks on one symbol.
Stacked == {[files |-> {p}, sym |-> s, new |-> f], [files |-> {p}, sym |-> s, new |-> g]}

OneIgnoreEach == {[files |-> {p}, sym |-> t], [files |-> {q}, sym |-> All]}

OneSymbol == {[files |-> {p}, sym |-> s]}
=============================================================================
