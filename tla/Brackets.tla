------------------------------ MODULE Brackets ------------------------------
(***************************************************************************)
(* A tree written as a list of entries in depth-first order, read as a     *)
(* bracket language: an entry that has children opens a list, a terminator *)
(* closes the innermost open one.                                          *)
(***************************************************************************)
EXTENDS Integers, FiniteSets, FiniteSetsExt

\* Lists open behind entry o, of those that were opened at p or later.
Depth(opens, closes, p, o) ==
  Cardinality({q \in p..o : q \in opens}) - Cardinality({q \in p..o : q \in closes})

\* The entry that closes the list which p opens, of the entries 1..size; behind
\* them all when the tree is cut off.
Closing(size, opens, closes, p) ==
  Min({q \in p..size : Depth(opens, closes, p, q) = 0} \cup {size + 1})
=============================================================================
