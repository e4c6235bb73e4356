----------------------------- MODULE MCDieTree -----------------------------
(***************************************************************************)
(* DieStrMap, and with it DieTree and Unit, on concrete units: trees of    *)
(* all shapes with and without sibling attributes, dense and sparse tables *)
(* of abbreviations, and units that are cut off or have entries that cannot*)
(* be read.                                                                *)
(***************************************************************************)
EXTENDS DieSiblings

-----------------------------------------------------------------------------
(* Units.                                                                  *)

A(code, tag, children, attributes) ==
  [code |-> code, tag |-> tag, children |-> children, attributes |-> attributes]

\* A table with a gaps at 5 and 7, and two entries for code 2.
Table ==
  <<A(1, "unit", TRUE, <<"name">>),
    A(2, "sub", TRUE, << >>),
    A(2, "type", FALSE, <<"name">>),
    A(3, "type", TRUE, <<"name">>),
    A(4, "type", TRUE, <<"sibling", "name">>),
    A(11, "sub", FALSE, <<"name">>),
    A(6, "type", FALSE, <<"name_number">>),
    A(8, "type", FALSE, <<"name", "ref8">>),
    A(9, "type", TRUE, <<"sibling", "ref8">>),
    A(10, "type", TRUE, <<"ref8", "sibling">>)>>
SparseTable == Append(Table, A(40, "type", FALSE, <<"name">>))

E(code, name) == [code |-> code, name |-> name, sibling |-> 0]
S(code, name, sibling) == [code |-> code, name |-> name, sibling |-> sibling]
T == E(0, "none")
Cu == E(1, "cu")

Dies(entries) == [entries |-> entries, abbrevs |-> Table, cut |-> FALSE, type |-> 0]

Flat == Dies(<<Cu, E(2, "a"), E(11, "b"), E(2, "b"), E(2, "a"), T>>)
Nested == Dies(<<Cu, E(3, "b"), E(2, "a"), T, S(4, "a", 8), E(2, "b"), T, E(2, "b"), T>>)
Deep == Dies(<<Cu, E(3, "a"), E(3, "a"), E(2, "b"), T, T, E(2, "b"), T>>)
Hollow == Dies(<<Cu, E(3, "a"), T, S(4, "b", 6), T, T>>)
SiblingInside == Dies(<<Cu, E(3, "a"), S(4, "a", 6), E(2, "b"), T, E(2, "b"), T, E(6, "a"), T>>)
Numbers == Dies(<<Cu, E(6, "a"), E(6, "b"), E(2, "a"), T>>)
NoTree == Dies(<<E(2, "cu")>>)
Nothing == Dies(<< >>)
GoodUnits ==
  {Flat, Nested, Hollow, Numbers, NoTree, [Deep EXCEPT !.type = 3],
   [SiblingInside EXCEPT !.abbrevs = SparseTable]}

CutOff == Dies(<<Cu, E(3, "a"), E(2, "b")>>)
CutTable == [Flat EXCEPT !.cut = TRUE]
UnknownCode == Dies(<<Cu, E(3, "a"), T, E(7, "a"), E(2, "b"), T>>)
UnknownInside == Dies(<<Cu, S(4, "b", 5), E(7, "a"), T, E(2, "a"), T>>)
Unreadable == Dies(<<Cu, E(3, "b"), E(2, "a"), T, E(8, "b"), E(2, "a"), T>>)
UnreadableInside == Dies(<<Cu, E(3, "a"), E(8, "b"), T, E(2, "b"), T>>)
UnreadableNode == Dies(<<Cu, E(2, "a"), S(9, "b", 6), E(2, "a"), T, E(2, "b"), T>>)
SiblingUnread == Dies(<<Cu, E(2, "a"), S(10, "b", 6), E(2, "a"), T, E(2, "b"), T>>)
UnreadableRoot == Dies(<<S(10, "cu", 4), E(2, "a"), T>>)
BadUnits ==
  {Nothing, CutOff, CutTable, UnknownCode, UnknownInside, Unreadable,
   UnreadableInside, UnreadableNode, SiblingUnread, UnreadableRoot}

AllUnits == GoodUnits \cup BadUnits
TypeTags == {"type"}
=============================================================================
