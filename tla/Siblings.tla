------------------------------ MODULE Siblings ------------------------------
(***************************************************************************)
(* What die::iterator promises: a position in the list of the children of  *)
(* one DIE.                                                                *)
(*                                                                         *)
(* The tree is read off the entries by their brackets; no sibling          *)
(* attribute is needed for that.                                           *)
(***************************************************************************)
EXTENDS Brackets

CONSTANT Iterators

VARIABLES
  size,      \* the entries are 1..size; this and the next three never change
  opens,     \* those that have children
  closes,    \* the terminators
  bad,       \* those that cannot be read
  at,        \* where each iterator is: an entry, End or Lost
  held       \* the DIE that the client holds

unit == <<size, opens, closes, bad>>

Entries == 1..size
End == 0      \* behind the last sibling
Lost == -1    \* a read of the DIE has thrown

-----------------------------------------------------------------------------
(* The tree.                                                               *)

Balance(p, o) == Depth(opens, closes, p, o)

\* The last entry of the subtree of p; behind the unit when it is cut off.
LastOf(p) == IF p \in opens THEN Closing(size, opens, closes, p) ELSE p

Settled(o) == IF o \in closes THEN End ELSE o
First(p) == IF p \in opens THEN Settled(p + 1) ELSE End
NextSibling(p) == Settled(LastOf(p) + 1)

ChildrenOf(p) ==
  IF p \notin opens THEN {}
  ELSE {q \in (p + 1)..LastOf(p) : q \in Entries \ closes /\ Balance(p, q - 1) = 1}

\* A step over the subtree of p meets an entry that cannot be read, or the end
\* of the unit.
Blocked(p) == \E q \in (p + 1)..(LastOf(p) + 1) : q \in bad \/ q > size

-----------------------------------------------------------------------------
(* Iterators.                                                              *)

Init ==
  /\ size \in Nat /\ opens \subseteq 1..size
  /\ closes \subseteq 1..size /\ bad \subseteq 1..size
  /\ at = [i \in Iterators |-> End] /\ held = End

Moves(i, places) == UNCHANGED held /\ \E o \in places : at' = [at EXCEPT ![i] = o]

\* The client gets a DIE: from the unit, by a reference or from an iterator.  A
\* root or type DIE that could not be read, or is a terminator, is handed out
\* all the same.
Get ==
  /\ UNCHANGED at
  /\ \/ held' \in Entries \ (closes \cup bad)
     \/ held' \in {at[i] : i \in Iterators}
     \/ closes # {} /\ held' = End
     \/ bad # {} /\ held' = Lost

Begin(i) ==
  \/ held = End /\ Moves(i, {End})
  \/ held = Lost /\ Moves(i, Entries \cup {End})
  \/ held \in Entries /\ Moves(i, {First(held)})

Assign(i, j) == Moves(i, {at[j]})

\* Where an iterator goes that has thrown is not said.
Increment(i) ==
  \/ at[i] = Lost /\ Moves(i, Entries \cup {End})
  \/ at[i] \in Entries /\ Moves(i, {NextSibling(at[i])})
  \/ at[i] \in Entries /\ Blocked(at[i]) /\ Moves(i, {Lost})

Next ==
  /\ UNCHANGED unit
  /\ \/ Get
     \/ \E i \in Iterators :
          Begin(i) \/ Increment(i) \/ \E j \in Iterators : Assign(i, j)

Spec == Init /\ [][Next]_<<unit, at, held>>
=============================================================================
