------------------------------ MODULE DieTree ------------------------------
(***************************************************************************)
(* The tree of DIEs of a unit, as the client walks it.                     *)
(*                                                                         *)
(* A unit keeps no tree, only entries in depth-first order.  An iterator   *)
(* holds the DIE it is at; ++ reads the next sibling, which is the next    *)
(* entry when the DIE has no children, the one DW_AT_sibling refers to when*)
(* there is one, and otherwise the one behind the terminator of the        *)
(* children, which a nested iterator looks for, with nested iterators of   *)
(* its own.  All of them read DIEs, and any read can throw; the client may *)
(* catch the exception and go on with what it holds.                       *)
(***************************************************************************)
EXTENDS Unit, SequencesExt

CONSTANT Iterators   \* the die::iterator objects

ASSUME IteratorsAssumption == "none" \notin Iterators

VARIABLES
  cached,   \* the root and the type DIE that the unit keeps
  die,      \* a DIE the client holds
  it,       \* the iterators (the DIE that each holds)
  self,     \* the iterator that ++ advances, "none" outside of ++
  subs,     \* the nested iterators, innermost last
  result    \* of the last call: "ok" or "threw"

unitVars == <<sec, abbrevs, cached>>
walkVars == <<it, self, subs>>
treeVars == <<sec, abbrevs, cached, die, it, self, subs, result>>

-----------------------------------------------------------------------------
(* The client's calls.                                                     *)

Init ==
  /\ sec \in Sections
  /\ abbrevs = NoAbbrevs
  /\ cached = [root |-> NoDie, type |-> NoDie]
  /\ die = NoDie
  /\ it = [i \in Iterators |-> NoDie]
  /\ self = "none" /\ subs = << >>
  /\ result = "ok"

\* unit::root and type_unit::type.  The DIE is put into the cache before it is
\* read, and counts as valid as soon as it has an abbreviation.
Get(c, off) ==
  /\ self = "none" /\ off # 0
  /\ IF cached[c].abbrev # 0
     THEN /\ die' = cached[c] /\ result' = "ok"
          /\ UNCHANGED <<cached, abbrevs>>
     ELSE /\ abbrevs' = Forced(abbrevs)
          /\ IF abbrevs'.have
             THEN \E g \in Garbage :
                    LET r == Read([NoDie EXCEPT !.next = g], off)
                    IN  /\ cached' = [cached EXCEPT ![c] = r.die]
                        /\ IF r.ok THEN die' = r.die /\ result' = "ok"
                                   ELSE die' = die /\ result' = "threw"
             ELSE result' = "threw" /\ UNCHANGED <<cached, die>>
  /\ UNCHANGED <<sec, walkVars>>
Root == Get("root", 1)
Type == Get("type", sec.type)

\* value::as_reference, from any DIE of the file to the one at off.
Reference(off) ==
  /\ self = "none"
  /\ LET r == Read(NoDie, off)
     IN  IF r.ok THEN die' = r.die /\ result' = "ok"
                 ELSE die' = die /\ result' = "threw"
  /\ abbrevs' = AbbrevsAfter(off)
  /\ UNCHANGED <<sec, cached, walkVars>>

\* die::begin.
Begin(i) ==
  /\ self = "none"
  /\ IF Children(die)
     THEN LET r == Read(NoDie, die.next)
          IN  /\ it' = IF r.ok THEN [it EXCEPT ![i] = r.die] ELSE it
              /\ result' = IF r.ok THEN "ok" ELSE "threw"
     ELSE it' = [it EXCEPT ![i] = NoDie] /\ result' = "ok"
  /\ UNCHANGED <<unitVars, die, self, subs>>

\* Assignment of iterators, and a copy of the DIE an iterator is at.
Assign(i, j) ==
  /\ self = "none" /\ i # j
  /\ it' = [it EXCEPT ![i] = it[j]] /\ result' = "ok"
  /\ UNCHANGED <<unitVars, die, self, subs>>
Deref(i) ==
  /\ self = "none"
  /\ die' = it[i] /\ result' = "ok"
  /\ UNCHANGED <<unitVars, walkVars>>

Increment(i) ==
  /\ self = "none"
  /\ self' = i
  /\ UNCHANGED <<unitVars, die, it, subs, result>>

-----------------------------------------------------------------------------
(* operator++.                                                             *)

\* The DIE being advanced, of the innermost iterator.
Current == IF subs = << >> THEN it[self] ELSE Last(subs)

\* A nested iterator has come to the end of its siblings.
SubAtEnd == subs # << >> /\ Last(subs).abbrev = 0

Return == self' = "none" /\ subs' = << >> /\ result' = "ok"
Throw == self' = "none" /\ subs' = << >> /\ result' = "threw"

\* The innermost of the iterators in rest, or else the one that ++ was called
\* on, has read a DIE: r.  Only the latter outlives an exception.
Advanced(rest, r) ==
  IF rest = << >>
  THEN /\ it' = [it EXCEPT ![self] = r.die]
       /\ IF r.ok THEN Return ELSE Throw
  ELSE /\ it' = it
       /\ IF r.ok THEN /\ subs' = Append(Front(rest), r.die)
                       /\ UNCHANGED <<self, result>>
                  ELSE Throw

Walking == self # "none" /\ ~SubAtEnd /\ UNCHANGED <<unitVars, die>>

StayAtEnd ==
  /\ Walking /\ Current.abbrev = 0
  /\ Return /\ UNCHANGED it

\* Mutant: reads the entry again.
NoChildren_SameOffset ==
  /\ Walking /\ Current.abbrev # 0 /\ ~Children(Current)
  /\ Advanced(subs, Read(Current, Current.offset))

NoChildren ==
  /\ Walking /\ Current.abbrev # 0 /\ ~Children(Current)
  /\ Advanced(subs, Read(Current, Current.next))

\* The value of DW_AT_sibling is read where attrs says it is, which is any
\* offset when read() did not get that far.  The DIE it refers to is read
\* apart and assigned.
FollowSibling ==
  /\ Walking /\ Children(Current) /\ Has(Current, "sibling")
  /\ \E off \in IF Where(Current, "sibling") <= Current.attrs.n
                THEN {sec.entries[Current.attrs.of].sibling} ELSE Garbage :
       LET r == Read(NoDie, off)
       IN  IF r.ok THEN Advanced(subs, r) ELSE Throw /\ UNCHANGED it

Descend ==
  /\ Walking /\ Children(Current) /\ ~Has(Current, "sibling")
  /\ LET r == Read(NoDie, Current.next)
     IN  IF r.ok THEN subs' = Append(subs, r.die) /\ UNCHANGED <<self, result>>
                 ELSE Throw
  /\ UNCHANGED it

\* Mutant: goes on behind the first child instead of behind the terminator.
Ascend_BehindFirst ==
  /\ self # "none" /\ SubAtEnd
  /\ LET parent == IF Len(subs) = 1 THEN it[self] ELSE subs[Len(subs) - 1]
     IN  Advanced(Front(subs), Read(parent, parent.next + 1))
  /\ UNCHANGED <<unitVars, die>>

\* The DIE that went down reads the entry behind the terminator.
Ascend ==
  /\ self # "none" /\ SubAtEnd
  /\ LET parent == IF Len(subs) = 1 THEN it[self] ELSE subs[Len(subs) - 1]
     IN  Advanced(Front(subs), Read(parent, Last(subs).next))
  /\ UNCHANGED <<unitVars, die>>

Walk == StayAtEnd \/ NoChildren \/ FollowSibling \/ Descend \/ Ascend

Entries == {o \in 1..Size : Code(o) # 0}
Client(i) ==
  \/ Root \/ Type \/ \E off \in Entries : Reference(off)
  \/ Begin(i) \/ Deref(i) \/ Increment(i) \/ \E j \in Iterators : Assign(i, j)

Next == Walk \/ \E i \in Iterators : Client(i)

\* ++ runs in the calling thread until it returns or throws.
Spec == Init /\ [][Next]_treeVars /\ WF_treeVars(Walk)

-----------------------------------------------------------------------------
(* Properties.                                                             *)

\* Types.  A DIE has no more attributes than its abbreviation.
DieOK(d) ==
  /\ d \in Die
  /\ d.abbrev # 0 => Known(abbrevs, d.abbrev) /\ d.attrs.n <= Len(Attributes(d))
TreeTypeOK ==
  /\ sec \in Sections
  /\ DieOK(die) /\ DieOK(cached.root) /\ DieOK(cached.type)
  /\ \A i \in Iterators : DieOK(it[i])
  /\ \A k \in DOMAIN subs : DieOK(subs[k])
  /\ self \in Iterators \cup {"none"} /\ result \in {"ok", "threw"}

\* A DIE as one successful read() leaves it: no part is from elsewhere.
Whole(d) == d.abbrev = 0 \/ (d.offset \in 1..Size /\ Read(d, d.offset) = [die |-> d, ok |-> TRUE])
=============================================================================
