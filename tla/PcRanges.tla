----------------------------- MODULE PcRanges ------------------------------
(***************************************************************************)
(* From a DIE to the addresses of its code: die_pc_range, which makes a    *)
(* range list of whatever attributes the DIE has, and everything a client  *)
(* does with DIEs, values and lists.  It is done with the DIE when it has  *)
(* the list, and done with the list when it goes to the next DIE.          *)
(***************************************************************************)
EXTENDS RangeList

CONSTANT Pairs   \* lists of ranges a client makes itself
ASSUME PairsAssumption == Pairs \subseteq Seq(Nat \X Nat)

vars == <<valueVars, listVars>>

-----------------------------------------------------------------------------
(* attrs.cc.                                                               *)

\* at_low_pc
LowPc(d) == Then(Attribute(d, "low_pc"), LAMBDA a : AsAddress(a.value))

\* at_high_pc: an address, or a number that counts from the low one.
HighPc(d) ==
  Then(Attribute(d, "high_pc"), LAMBDA a :
    CASE a.value.type = "address" -> AsAddress(a.value)
      [] a.value.type \in {"constant", "uconstant"} ->
           Then(LowPc(d), LAMBDA low : Then(AsUconstant(a.value), LAMBDA size :
             Got(<<(low.value[1] + size.value[1]) % M>>, 0)))
      [] OTHER -> Failed("format_error"))

\* value::as_rangelist: the base address is the low one of the unit's root.
AsRangelist(v, of) ==
  Then(AsSecOffset(v), LAMBDA off :
  Then(ReadDie(v.unit, file.units[v.unit].root), LAMBDA root :
  Then(IF Has(root.value, "low_pc") THEN LowPc(root.value) ELSE Got(<<0>>, 0), LAMBDA base :
    IF file.ranges.data = << >> THEN Failed("format_error")
    ELSE Got(InSection(off.value[1], Sec(v.unit).addr_size, base.value[1], of), 0))))

\* die_pc_range
DiePcRange(d) ==
  LET of == [NoSource EXCEPT !.unit = d.unit, !.offset = d.offset]
  IN  IF Has(d, "ranges") THEN Then(Attribute(d, "ranges"), LAMBDA a : AsRangelist(a.value, of))
      ELSE Then(LowPc(d), LAMBDA low :
             Then(IF Has(d, "high_pc") THEN HighPc(d) ELSE Got(<<(low.value[1] + 1) % M>>, 0),
                  LAMBDA high : Got(Synthetic(<<<<low.value[1], high.value[1]>>>>, of), 0)))

-----------------------------------------------------------------------------

PcInit == Init /\ ListInit

TakeList(l) == list' = l /\ it' = NoIterator /\ outcome' = NoOutcome /\ run' = run

GetRanges ==
  /\ Idle /\ list = NoList /\ die # NoDie
  /\ \E r \in {DiePcRange(die)} :
         /\ answer' = Answer("ranges", r.status, << >>)
         /\ IF r.status = "ok" THEN TakeList(r.value) /\ die' = NoDie /\ val' = NoValue
            ELSE UNCHANGED <<listVars, die, val>>
  /\ UNCHANGED <<file, walk>>

\* The public constructors.
MakeList ==
  /\ Idle /\ list = NoList
  /\ \E l \in {Synthetic(p, [NoSource EXCEPT !.pairs = p]) : p \in Pairs} \cup {Empty} : TakeList(l)
  /\ die' = NoDie /\ val' = NoValue /\ answer' = NoAnswer
  /\ UNCHANGED <<file, walk>>

DropList ==
  /\ Resting
  /\ TakeList(NoList)
  /\ answer' = NoAnswer /\ UNCHANGED <<file, die, val, walk>>

Dies(u) == file.units[u].dies
DieClient ==
  \/ \E u \in DOMAIN file.units : \E off \in Dies(u) : Locate(u, off)
  \/ die # NoDie /\ \E name \in {Specs(die)[k].name : k \in DOMAIN Specs(die)} \cup {"absent"} :
       Fetch(name) \/ Dynamic(name)
  \/ \E how \in Readings : Convert(how)
  \/ Follow
  \/ \E name \in Names : AskResolve(name)

PcNext ==
  \/ list = NoList /\ DieClient /\ UNCHANGED listVars
  \/ GetRanges \/ MakeList \/ DropList
  \/ ListClient /\ UNCHANGED valueVars
  \/ DynamicStep /\ UNCHANGED listVars   \* steps inside calls
  \/ ReadEntry /\ UNCHANGED valueVars

Spec == PcInit /\ [][PcNext]_vars
-----------------------------------------------------------------------------
(* Properties.                                                             *)

Statuses ==
  {"none", "ok", "underflow", "format_error", "out_of_range", "type_mismatch",
   "runtime_error", "wild"}

\* Types.
TypeOK ==
  /\ file \in Files
  /\ die.unit \in {0} \cup DOMAIN file.units /\ die.offset \in Nat
  /\ Len(die.attrs) = Len(Specs(die))
  /\ val.form \in DOMAIN FormCode \cup {"none"} /\ val.offset \in Nat
  /\ answer.status \in Statuses
  /\ walk.depth \in 0..17
  /\ it.low \in 0..(M - 1) /\ it.high \in 0..(M - 1) /\ it.base \in 0..(M - 1)
  /\ run.cur >= run.it.pos

\* In any file, a block that is returned is inside of its unit, and for what a
\* client asks of DIEs and values memory outside of a section is read only for a
\* string in front of which the DIE has already left it, for a string offset that
\* does, or in a unit that claims to be longer than the file
\* (internal.hh:122-127, cursor.cc:107-121).
AnswersInside ==
  /\ answer.how = "block" /\ answer.status = "ok" =>
       answer.result[1] + answer.result[2] <= Sec(val.unit).end
  /\ answer.status = "wild" =>
       \/ \E u \in DOMAIN file.units : Sec(u).end > Len(Sec(u).data)
       \/ val.form = "string" /\ val.offset > Sec(val.unit).end
       \/ val.form = "strp" /\ AsCStr(val).status = "wild"

\* No call runs for ever, in any file: the loops of begin, ++ and contains move
\* on in a list that ends, and a chase of dynamic values that come back to where
\* they were is given up (rangelist.cc:68-86, attrs.cc:67-87).
MovesOn ==
  /\ Running /\ run' # NoRun => run.cur < run'.cur /\ run'.cur <= Len(ListSec.data)
  /\ ~Idle /\ walk' # NoWalk => walk.depth < walk'.depth /\ walk'.depth <= 17
LoopsEnd == [][MovesOn]_vars
=============================================================================
