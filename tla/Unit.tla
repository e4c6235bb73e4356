-------------------------------- MODULE Unit --------------------------------
(***************************************************************************)
(* A unit of .debug_info or .debug_types: its table of abbreviations, read *)
(* on demand and kept for ever, and die::read, which decodes one entry.    *)
(*                                                                         *)
(* Offsets count entries: the entry at offset o is sec.entries[o], and the *)
(* one behind it is at o + 1.  Of its attributes a DIE keeps where they    *)
(* are; reading them stops at a form that skip_form does not know (of the  *)
(* forms that the table of abbreviations admits, DW_FORM_ref8), so the     *)
(* model keeps how many it has of which entry.                             *)
(***************************************************************************)
EXTENDS Integers, Sequences, FiniteSets, FiniteSetsExt

CONSTANT Sections   \* the contents of a unit and of its abbreviations

Kinds == {"name", "name_number", "sibling", "ref8"}   \* attributes
Gap == 0   \* of abbrevs_vec: a default constructed entry, whose code is 0

ASSUME SectionsAssumption ==
  \A s \in Sections :
    /\ s.entries \in Seq([code : Nat, name : STRING, sibling : Nat])
    /\ s.abbrevs \in Seq([code : Nat \ {0}, tag : STRING, children : BOOLEAN,
                          attributes : Seq(Kinds)])
    /\ s.cut \in BOOLEAN /\ s.type \in Nat

VARIABLES
  sec,       \* the contents of the unit
  abbrevs    \* have_abbrevs, abbrevs_vec and abbrevs_map: functions from codes
             \* to positions in the table, which stand for the entries read there

Size == Len(sec.entries)
Code(o) == sec.entries[o].code

-----------------------------------------------------------------------------
(* Abbreviations.                                                          *)

NoAbbrevs == [have |-> FALSE, vec |-> << >>, map |-> << >>]

\* Mutant: of two entries with the same code, the earlier one.
ByCode_First ==
  [c \in {sec.abbrevs[k].code : k \in DOMAIN sec.abbrevs} |->
     Min({k \in DOMAIN sec.abbrevs : sec.abbrevs[k].code = c})]

\* The entries of the table by code; of two with the same code, the later one.
ByCode ==
  [c \in {sec.abbrevs[k].code : k \in DOMAIN sec.abbrevs} |->
     Max({k \in DOMAIN sec.abbrevs : sec.abbrevs[k].code = c})]

\* The vector for codes up to highest, with gaps.
Vector(highest) == [c \in 0..highest |-> IF c \in DOMAIN ByCode THEN ByCode[c] ELSE Gap]

\* Mutant: abbrevs_vec.resize(highest).
Forced_OffByOne(a) ==
  LET highest == Max(DOMAIN ByCode \cup {0})
  IN  IF a.have THEN a
      ELSE IF sec.cut THEN [a EXCEPT !.map = ByCode]
      ELSE IF highest * 10 < Cardinality(DOMAIN ByCode) * 15
      THEN [have |-> TRUE, vec |-> Vector(highest - 1), map |-> << >>]
      ELSE [have |-> TRUE, vec |-> << >>, map |-> ByCode]

\* force_abbrevs.  A dense table moves into a vector.  When an entry cannot be
\* read, the map keeps those before it and the call throws.
Forced(a) ==
  LET highest == Max(DOMAIN ByCode \cup {0})
  IN  IF a.have THEN a
      ELSE IF sec.cut THEN [a EXCEPT !.map = ByCode]
      ELSE IF highest * 10 < Cardinality(DOMAIN ByCode) * 15
      THEN [have |-> TRUE, vec |-> Vector(highest), map |-> << >>]
      ELSE [have |-> TRUE, vec |-> << >>, map |-> ByCode]

\* get_abbrev: code c has an entry, and which one.
Known(a, c) ==
  a.have /\ IF a.vec # << >> THEN c \in DOMAIN a.vec /\ a.vec[c] # Gap
            ELSE c \in DOMAIN a.map
Entry(a, c) == sec.abbrevs[IF a.vec # << >> THEN a.vec[c] ELSE a.map[c]]

-----------------------------------------------------------------------------
(* DIEs.  abbrev is the code of the entry a DIE points to, 0 for none.     *)

Tags == {"none"} \cup UNION {{s.abbrevs[k].tag : k \in DOMAIN s.abbrevs} : s \in Sections}
Die == [abbrev : Nat, offset : Nat, next : Nat, tag : Tags, attrs : [of : Nat, n : Nat]]

\* A default constructed DIE, the end of all siblings.
NoDie == [abbrev |-> 0, offset |-> 0, next |-> 0, tag |-> "none",
          attrs |-> [of |-> 0, n |-> 0]]

Children(d) == d.abbrev # 0 /\ Entry(abbrevs, d.abbrev).children
Attributes(d) == IF d.abbrev = 0 THEN << >> ELSE Entry(abbrevs, d.abbrev).attributes
Has(d, kind) == \E k \in DOMAIN Attributes(d) : Attributes(d)[k] = kind
Where(d, kind) == CHOOSE k \in DOMAIN Attributes(d) :
                    /\ Attributes(d)[k] = kind
                    /\ \A j \in 1..(k - 1) : Attributes(d)[j] # kind

\* The attributes that skip_form does not get past.
Unskippable(attributes) == {k \in DOMAIN attributes : attributes[k] = "ref8"}

\* Mutant: attrs is not cleared.
Read_NoClear(d, off) ==
  LET a == Forced(abbrevs)
      e == Entry(a, Code(off))
      bad == Unskippable(e.attributes)
      n == IF bad = {} THEN Len(e.attributes) ELSE Min(bad)
      here == [d EXCEPT !.offset = off]
      read == [here EXCEPT !.abbrev = e.code, !.tag = e.tag,
                           !.attrs = [of |-> off, n |-> d.attrs.n + n]]
  IN  IF off > Size THEN [die |-> here, ok |-> FALSE]
      ELSE IF Code(off) = 0
      THEN [die |-> [here EXCEPT !.abbrev = 0, !.next = off + 1], ok |-> TRUE]
      ELSE IF ~Known(a, Code(off)) THEN [die |-> here, ok |-> FALSE]
      ELSE IF bad # {} THEN [die |-> read, ok |-> FALSE]
      ELSE [die |-> [read EXCEPT !.next = off + 1], ok |-> TRUE]

\* die::read: what it leaves in d, and whether it returns.  It throws at the
\* end of the unit, at an unknown code and at a form it cannot skip, with the
\* members set so far.
Read(d, off) ==
  LET a == Forced(abbrevs)
      e == Entry(a, Code(off))
      bad == Unskippable(e.attributes)
      n == IF bad = {} THEN Len(e.attributes) ELSE Min(bad)
      here == [d EXCEPT !.offset = off]
      read == [here EXCEPT !.abbrev = e.code, !.tag = e.tag,
                           !.attrs = [of |-> off, n |-> n]]
  IN  IF off > Size THEN [die |-> here, ok |-> FALSE]
      ELSE IF Code(off) = 0
      THEN [die |-> [here EXCEPT !.abbrev = 0, !.next = off + 1], ok |-> TRUE]
      ELSE IF ~Known(a, Code(off)) THEN [die |-> here, ok |-> FALSE]
      ELSE IF bad # {} THEN [die |-> read, ok |-> FALSE]
      ELSE [die |-> [read EXCEPT !.next = off + 1], ok |-> TRUE]

\* The table once an entry at off has been read: get_abbrev reads it on demand.
AbbrevsAfter(off) ==
  IF off <= Size /\ Code(off) # 0 THEN Forced(abbrevs) ELSE abbrevs

\* What an uninitialized offset may be.
Garbage == 1..(Size + 1)

-----------------------------------------------------------------------------
(* Properties.                                                             *)

\* However the table is stored, and after any failed attempts to read it,
\* get_abbrev finds exactly the codes of the table, each with the last entry
\* of that code (dwarf.cc:206-262).
LookupExact ==
  \A c \in 1..(Max({sec.abbrevs[k].code : k \in DOMAIN sec.abbrevs} \cup {0}) + 1) :
    LET same == {k \in DOMAIN sec.abbrevs : sec.abbrevs[k].code = c}
    IN  /\ Known(abbrevs, c) => ~sec.cut /\ same # {}
                                /\ Entry(abbrevs, c) = sec.abbrevs[Max(same)]
        /\ abbrevs.have => (Known(abbrevs, c) <=> same # {})
=============================================================================
