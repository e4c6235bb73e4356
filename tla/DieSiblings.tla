---------------------------- MODULE DieSiblings ----------------------------
(***************************************************************************)
(* What the walk and the name index promise, in terms of the tree that the *)
(* entries of a unit are: DieTree implements Siblings, and the index of    *)
(* DieStrMap holds children of its DIE.                                    *)
(***************************************************************************)
EXTENDS DieStrMap, Brackets

-----------------------------------------------------------------------------
(* Refinement: DIEs as positions in the tree.                              *)

InTable(s, o) == {k \in DOMAIN s.abbrevs : s.abbrevs[k].code = s.entries[o].code}
AbbrevOf(s, o) == s.abbrevs[Max(InTable(s, o))]

\* Computed once for each unit.
Closes == [s \in Sections |-> {o \in DOMAIN s.entries : s.entries[o].code = 0}]
Opens ==
  [s \in Sections |->
     {o \in DOMAIN s.entries : InTable(s, o) # {} /\ AbbrevOf(s, o).children}]
Bad ==
  [s \in Sections |->
     {o \in DOMAIN s.entries \ Closes[s] :
        \/ s.cut \/ InTable(s, o) = {}
        \/ "ref8" \in Range(AbbrevOf(s, o).attributes)}]

\* Sibling attributes lead behind the subtree; the entry behind a subtree that is
\* cut off is not in the unit.
ASSUME SiblingsAssumption ==
  \A s \in Sections : \A o \in Opens[s] :
    "sibling" \in Range(AbbrevOf(s, o).attributes) =>
      LET size == Len(s.entries)
          last == Closing(size, Opens[s], Closes[s], o)
      IN  IF last <= size THEN s.entries[o].sibling = last + 1
                          ELSE s.entries[o].sibling > size

\* An entry, the end of all siblings, or neither: reading the DIE has thrown.
Position(d) == IF d.abbrev = 0 THEN 0 ELSE IF Whole(d) THEN d.offset ELSE -1

Promise == INSTANCE Siblings WITH
  size   <- Size,
  opens  <- Opens[sec],
  closes <- Closes[sec],
  bad    <- Bad[sec],
  at     <- [i \in Iterators |-> Position(it[i])],
  held   <- Position(die)

\* Whatever the client does, an iterator stands for a position among the
\* children of one DIE, until a ++ of it throws (dwarf++.hh:452-514, die.cc:
\* 122-161).
RefinesSiblings == Promise!Spec

\* ++ throws only if something between the DIE and its next sibling cannot be
\* read (die.cc:31-54, 134-161).
ThrowsJustified ==
  [][self # "none" /\ self' = "none" /\ result' = "threw" =>
       Position(it[self]) = -1 \/ Promise!Blocked(Position(it[self]))]_vars

-----------------------------------------------------------------------------
(* The index.                                                              *)

\* The entry can be read, it has an accepted tag, and its first DW_AT_name is
\* this string.
Matches(o, name) ==
  /\ o \notin Closes[sec] \cup Bad[sec]
  /\ AbbrevOf(sec, o).tag \in accept
  /\ LET attributes == AbbrevOf(sec, o).attributes
     IN  \E k \in DOMAIN attributes :
           attributes[k] = "name" /\ \A j \in 1..(k - 1) : attributes[j] # "name_number"
  /\ sec.entries[o].name = name

\* Every child of the indexed DIE can be read, and so can the DIE.
Readable ==
  /\ parent \in 1..Size /\ parent..Size \cap Bad[sec] = {}
  /\ Promise!LastOf(parent) <= Size

\* What is in the index under a name is a child of the DIE that has this name
\* and an accepted tag (die_str_map.cc:92-116).
IndexExact ==
  Readable => \A n \in DOMAIN str_map :
                /\ Whole(str_map[n])
                /\ str_map[n].offset \in Promise!ChildrenOf(parent)
                /\ Matches(str_map[n].offset, n)

\* A look-up that finds nothing is right about all children but the first, in
\* whichever order and however often names are looked up.
MissesAreRight ==
  (Readable /\ phase = "idle" /\ answer.name # "none" /\ answer.die.abbrev = 0)
    => \A o \in Promise!ChildrenOf(parent) :
         Matches(o, answer.name) => o = parent + 1

\* "Return the DIE whose attribute matches val.  If no such DIE exists, return
\* an invalid die object" (dwarf++.hh:1463-1465).
FindsChild ==
  (Readable /\ phase = "idle" /\ answer.name # "none" /\ answer.die.abbrev = 0)
    => \A o \in Promise!ChildrenOf(parent) : ~Matches(o, answer.name)
=============================================================================
