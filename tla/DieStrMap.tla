----------------------------- MODULE DieStrMap -----------------------------
(***************************************************************************)
(* die_str_map: an index from the names to the DIEs of the children of one *)
(* DIE, filled on demand.  A look-up of a name that is not in the index    *)
(* advances an iterator over the children, indexing what it meets, until   *)
(* it meets the name or the end.  It shares the unit with a client that    *)
(* walks the tree with iterators of its own.                               *)
(***************************************************************************)
EXTENDS DieTree

CONSTANTS
  pos,      \* the iterator of the map, not the client's
  Names,    \* the names that are looked up
  accept    \* the tags that are indexed

ASSUME MapAssumption == pos \in Iterators

VARIABLES
  parent,   \* offset of the DIE whose children are indexed, 0: no map yet
  str_map,  \* the index, a function
  phase,    \* of operator[]: "idle", "check" (the loop's condition), "examine"
  asked,    \* its argument
  answer    \* and what it returned: the name asked for and a DIE

mapVars == <<parent, str_map, phase, asked, answer>>
vars == <<treeVars, mapVars>>

MapInit ==
  /\ Init
  /\ parent = 0 /\ str_map = << >> /\ phase = "idle"
  /\ asked = "none" /\ answer = [name |-> "none", die |-> NoDie]

Idle == self = "none" /\ phase = "idle"

\* The constructor.
Create ==
  /\ Idle /\ parent = 0 /\ die.abbrev # 0
  /\ Begin(pos)
  /\ parent' = IF result' = "ok" THEN die.offset ELSE 0
  /\ UNCHANGED <<str_map, phase, asked, answer>>

Answer(name, d) == phase' = "idle" /\ answer' = [name |-> name, die |-> d]

Lookup(name) ==
  /\ Idle /\ parent # 0
  /\ IF name \in DOMAIN str_map
     THEN Answer(name, str_map[name]) /\ UNCHANGED asked
     ELSE phase' = "check" /\ asked' = name /\ UNCHANGED answer
  /\ UNCHANGED <<treeVars, parent, str_map>>

\* At the end of the children, or a ++.
Scan ==
  /\ phase = "check" /\ self = "none"
  /\ IF it[pos].abbrev = 0
     THEN Answer(asked, NoDie) /\ UNCHANGED treeVars
     ELSE /\ phase' = "examine" /\ self' = pos /\ UNCHANGED answer
          /\ UNCHANGED <<unitVars, die, it, subs, result>>
  /\ UNCHANGED <<parent, str_map, asked>>

\* A ++ that throws ends the call that made it.
MapWalk ==
  /\ Walk
  /\ phase' = IF self' = "none" /\ result' = "threw" THEN "idle" ELSE phase
  /\ UNCHANGED <<parent, str_map, asked, answer>>

Name(d) == sec.entries[d.attrs.of].name

\* DW_AT_name is there, and its form is a string.
HasName(d) ==
  /\ Has(d, "name")
  /\ Has(d, "name_number") => Where(d, "name") < Where(d, "name_number")

\* The index with d in it, in place of an earlier DIE of the same name.
Indexed(d) ==
  [n \in DOMAIN str_map \cup {Name(d)} |-> IF n = Name(d) THEN d ELSE str_map[n]]

\* Mutant: returns, instead of going on, at a DIE that is not to be indexed.
Examine_Stops ==
  /\ phase = "examine" /\ self = "none"
  /\ LET d == it[pos]
     IN  IF ~(d.tag \in accept /\ HasName(d))
         THEN Answer(asked, NoDie) /\ UNCHANGED str_map
         ELSE /\ str_map' = Indexed(d)
              /\ IF Name(d) = asked THEN Answer(asked, d)
                                    ELSE phase' = "check" /\ UNCHANGED answer
  /\ UNCHANGED <<treeVars, parent, asked>>

\* Mutant: indexes DIEs of all tags.
Examine_AllTags ==
  /\ phase = "examine" /\ self = "none"
  /\ LET d == it[pos]
     IN  IF ~HasName(d) THEN phase' = "check" /\ UNCHANGED <<str_map, answer>>
         ELSE /\ str_map' = Indexed(d)
              /\ IF Name(d) = asked THEN Answer(asked, d)
                                    ELSE phase' = "check" /\ UNCHANGED answer
  /\ UNCHANGED <<treeVars, parent, asked>>

\* The DIE that pos is at now is indexed.  The one that pos was at when the
\* loop's pass began never is: d refers to the DIE in the iterator, which ++ has
\* replaced.
Examine ==
  /\ phase = "examine" /\ self = "none"
  /\ LET d == it[pos]
     IN  IF ~(d.tag \in accept /\ HasName(d))
         THEN phase' = "check" /\ UNCHANGED <<str_map, answer>>
         ELSE /\ str_map' = Indexed(d)
              /\ IF Name(d) = asked THEN Answer(asked, d)
                                    ELSE phase' = "check" /\ UNCHANGED answer
  /\ UNCHANGED <<treeVars, parent, asked>>

MapClient ==
  /\ Idle /\ \E i \in Iterators \ {pos} : Client(i)
  /\ UNCHANGED mapVars

MapNext == MapClient \/ MapWalk \/ Create \/ Scan \/ Examine \/ \E n \in Names : Lookup(n)

\* Calls run in the calling thread until they return or throw.
MapSpec ==
  MapInit /\ [][MapNext]_vars /\ WF_vars(MapWalk) /\ WF_vars(Scan) /\ WF_vars(Examine)

-----------------------------------------------------------------------------
(* Properties.                                                             *)

TypeOK ==
  /\ TreeTypeOK
  /\ parent \in 0..(Size + 1) /\ DieOK(answer.die)
  /\ \A n \in DOMAIN str_map : DieOK(str_map[n])
  /\ phase \in {"idle", "check", "examine"}

\* ++ and look-ups end (die.cc:134-161, die_str_map.cc:100-113), whatever the
\* shape of the tree: nested iterators come to the end of their siblings or
\* throw, and the map's iterator comes to the end of the children.
CallsReturn == ~Idle ~> Idle
=============================================================================
