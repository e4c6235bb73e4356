------------------------------- MODULE Values ------------------------------
(***************************************************************************)
(* dwarf::die as a collection of attributes, and dwarf::value: a client    *)
(* reads a DIE, fetches an attribute by name, and asks for its value with  *)
(* one of the as_* methods, or follows it to another DIE.                  *)
(*                                                                         *)
(* A file has units (the compilation units in their order, then the type   *)
(* units), strings and ranges.  A unit is [sec, offset, root, type,        *)
(* signature, abbrevs]: its bytes from its initial length on, where it is  *)
(* in its section, where its root and type DIEs are, and its               *)
(* abbreviations, from codes to the names and forms of attributes.         *)
(***************************************************************************)
EXTENDS Forms

CONSTANTS
  Files,   \* the files there are
  Names    \* of attributes that die::resolve is asked for

\* What a file consists of.
IsSection(s) ==
  s \in [data : Seq(0..(Base - 1)), end : Nat, ord : {"lsb", "msb"}, width : Nat,
         addr_size : Nat]
IsUnit(u) ==
  /\ IsSection(u.sec) /\ u.offset \in Nat /\ u.root \in Nat /\ u.type \in Nat
  /\ u.dies \subseteq Nat /\ DOMAIN u.abbrevs \subseteq Nat
  /\ \A code \in DOMAIN u.abbrevs :
       u.abbrevs[code] \in Seq([name : STRING, form : DOMAIN FormCode])

\* An abbreviation with a form that resolve_type does not know has not been
\* read; .debug_info is not empty and its first unit is at its start.
ASSUME FilesAssumption ==
  \A f \in Files :
    /\ IsSection(f.str) /\ IsSection(f.ranges)
    /\ DOMAIN f.units = 1..Len(f.units)
    /\ \A u \in DOMAIN f.units : IsUnit(f.units[u])
    /\ \E u \in DOMAIN f.units : f.units[u].signature = 0 /\ f.units[u].offset = 0

VARIABLES
  file,     \* the one that is read
  die,      \* the DIE the client has read last
  val,      \* the value it has fetched last
  answer,   \* outcome of its last call
  walk      \* _at_udynamic: the attribute, the DIE it is at, references followed

valueVars == <<file, die, val, answer, walk>>

NoDie == [unit |-> 0, offset |-> 0, code |-> 0, attrs |-> << >>]
NoValue == [unit |-> 0, name |-> "none", form |-> "none", type |-> "invalid", offset |-> 0]
Answer(how, status, result) == [how |-> how, status |-> status, result |-> result]
NoAnswer == Answer("none", "none", << >>)
NoWalk == [name |-> "none", die |-> NoDie, depth |-> 0]

Sec(u) == file.units[u].sec
Compilation == {u \in DOMAIN file.units : file.units[u].signature = 0}

-----------------------------------------------------------------------------
(* DIEs.                                                                   *)

\* Where the attributes of a DIE are, when they begin at p.
Positions(s, specs, p) ==
  LET first[k \in 0..Len(specs)] ==
        IF k = 0 THEN Got(<< >>, p)
        ELSE Then(first[k - 1], LAMBDA r :
             Then(SkipForm(s, specs[k].form, r.pos), LAMBDA next :
               Got(Append(r.value, r.pos), next.pos)))
  IN  first[Len(specs)]

\* die::read
ReadDie(u, off) ==
  LET Read(code, at) == Got([unit |-> u, offset |-> off, code |-> code, attrs |-> at], 0)
  IN  Then(Leb(Sec(u), off, FALSE), LAMBDA code :
        IF code.value = 0 THEN Read(0, << >>)
        ELSE IF code.value \notin DOMAIN file.units[u].abbrevs THEN Failed("format_error")
        ELSE Then(Positions(Sec(u), file.units[u].abbrevs[code.value], code.pos), LAMBDA at :
               Read(code.value, at.value)))

Specs(d) == IF d.code = 0 THEN << >> ELSE file.units[d.unit].abbrevs[d.code]

\* die::has
Has(d, name) == \E k \in DOMAIN Specs(d) : Specs(d)[k].name = name

\* value::resolve_indirect: the type of the form that DW_FORM_indirect leads to
\* and the position of its data.  The form itself is assigned to a local
\* variable and lost.
ResolveIndirect(s, name, p) ==
  LET Typed(type, pos) == IF type = "none" THEN Failed("format_error") ELSE Got(type, pos)
  IN  Then(IndirectCode(s, p), LAMBDA code : Typed(ResolveType[name, FormOf(code.value)], code.pos))

\* die::operator[]: the first attribute of the name.
Attribute(d, name) ==
  LET k == Min({j \in DOMAIN Specs(d) : Specs(d)[j].name = name})
      form == Specs(d)[k].form
      At(type, pos) == Got([unit |-> d.unit, name |-> name, form |-> form, type |-> type,
                            offset |-> pos], 0)
  IN  IF ~Has(d, name) THEN Failed("out_of_range")
      ELSE IF form # "indirect" THEN At(ResolveType[name, form], d.attrs[k])
      ELSE Then(ResolveIndirect(Sec(d.unit), name, d.attrs[k]), LAMBDA r : At(r.value, r.pos))

-----------------------------------------------------------------------------
(* Values: a reading, the value being the sequence of numbers it takes.    *)

Mismatch == Failed("type_mismatch")
Listed(reading) == Then(reading, LAMBDA n : Got(<<n.value>>, n.pos))

AsAddress(v) ==
  IF v.form = "addr" THEN Listed(Address(Sec(v.unit), v.offset)) ELSE Mismatch

\* as_block and as_exprloc: where the bytes begin and their number, which only
\* as_block compares with what is there.
AsExprloc(v) ==
  IF v.form \notin Blocks THEN Mismatch
  ELSE Then(BlockLength(Sec(v.unit), v.form, v.offset), LAMBDA n : Got(<<n.pos, n.value>>, n.pos))

\* Mutant: the block is not compared with the end.
AsBlock_NoEnsure(v) == AsExprloc(v)

AsBlock(v) ==
  Then(AsExprloc(v), LAMBDA block :
    IF Fits(Sec(v.unit).end, block.pos, block.value[2]) THEN block ELSE Failed("underflow"))

AsUconstant(v) ==
  CASE v.form \in {"data1", "data2", "data4", "data8"} ->
         Listed(Fixed(Sec(v.unit), v.offset, Size(Sec(v.unit), v.form)))
    [] v.form = "udata" -> Listed(Leb(Sec(v.unit), v.offset, FALSE))
    [] OTHER -> Mismatch

AsSconstant(v) ==
  LET n == Size(Sec(v.unit), v.form)
  IN  CASE v.form \in {"data1", "data2", "data4", "data8"} ->
             Then(Fixed(Sec(v.unit), v.offset, n), LAMBDA number :
               Got(<<Signed(number.value, Base^n)>>, number.pos))
        [] v.form = "sdata" -> Listed(Leb(Sec(v.unit), v.offset, TRUE))
        [] OTHER -> Mismatch

AsFlag(v) ==
  CASE v.form = "flag" -> Then(Fixed(Sec(v.unit), v.offset, 1), LAMBDA byte :
                            Got(<<IF byte.value = 0 THEN 0 ELSE 1>>, byte.pos))
    [] v.form = "flag_present" -> Got(<<1>>, v.offset)
    [] OTHER -> Mismatch

AsSecOffset(v) ==
  IF v.form \in {"data4", "data8", "sec_offset"}
  THEN Listed(Fixed(Sec(v.unit), v.offset, Size(Sec(v.unit), v.form))) ELSE Mismatch

\* The characters of a string.
Characters(s, p) ==
  Then(CStr(s, p), LAMBDA size : Got(SubSeq(s.data, p + 1, p + size.value), size.pos))

AsCStr(v) ==
  CASE v.form = "string" -> Characters(Sec(v.unit), v.offset)
    [] v.form = "strp" ->
         Then(Offset(Sec(v.unit), v.offset), LAMBDA off :
           IF file.str.data = << >> THEN Failed("format_error") ELSE Characters(file.str, off.value))
    [] OTHER -> Mismatch

\* Mutant: DW_FORM_ref_addr counts from the unit the value is in.
RefersTo_InOwnUnit(v, off) ==
  Got(IF v.form = "ref_sig8"
      THEN <<Cardinality(DOMAIN file.units), file.units[Cardinality(DOMAIN file.units)].type>>
      ELSE <<v.unit, off>>, 0)

\* Unit and offset of the DIE a reference leads to.  Offsets are relative to the
\* unit, or lead to the last compilation unit that begins in front of them, or the
\* signature of a type unit is looked up.
RefersTo(v, off) ==
  LET base == Max({u \in Compilation : file.units[u].offset <= off})
      types == {u \in DOMAIN file.units \ Compilation : file.units[u].signature = off}
  IN  CASE v.form = "ref_addr" -> Got(<<base, off - file.units[base].offset>>, 0)
        [] v.form = "ref_sig8" -> IF types = {} THEN Failed("format_error")
                                  ELSE Got(<<Max(types), file.units[Max(types)].type>>, 0)
        [] OTHER -> Got(<<v.unit, off>>, 0)

\* value::as_reference; the value is the DIE.
AsReference(v) ==
  IF v.form \notin References THEN Mismatch
  ELSE Then(IF v.form = "ref_udata" THEN Leb(Sec(v.unit), v.offset, FALSE)
            ELSE Fixed(Sec(v.unit), v.offset, Size(Sec(v.unit), v.form)), LAMBDA off :
         Then(RefersTo(v, off.value), LAMBDA place : ReadDie(place.value[1], place.value[2])))

\* The DIE that an attribute of a DIE leads to.
Led(d, via) == Then(Attribute(d, via), LAMBDA a : AsReference(a.value))

\* Mutant: a specification is looked for only in the DIE itself.
Resolve_NoChain(d, name) ==
  LET In(e) == IF Has(e, name) THEN Attribute(e, name) ELSE Got(NoValue, 0)
  IN  IF Has(d, name) THEN Attribute(d, name)
      ELSE IF Has(d, "abstract_origin") THEN Then(Led(d, "abstract_origin"), LAMBDA o : In(o.value))
      ELSE IF Has(d, "specification") THEN Then(Led(d, "specification"), LAMBDA e : In(e.value))
      ELSE Got(NoValue, 0)

\* From the specification of a DIE, or no value.
Completed(d, name) ==
  IF ~Has(d, "specification") THEN Got(NoValue, 0)
  ELSE Then(Led(d, "specification"), LAMBDA e :
         IF Has(e.value, name) THEN Attribute(e.value, name) ELSE Got(NoValue, 0))

\* die::resolve: the attribute of the DIE itself, of the one it is an instance of,
\* or of the one that it, or that one, completes.
Resolve(d, name) ==
  IF Has(d, name) THEN Attribute(d, name)
  ELSE IF ~Has(d, "abstract_origin") THEN Completed(d, name)
  ELSE Then(Led(d, "abstract_origin"), LAMBDA origin :
         IF Has(origin.value, name) THEN Attribute(origin.value, name)
         ELSE Completed(origin.value, name))

-----------------------------------------------------------------------------
(* Calls.                                                                  *)

Init ==
  /\ file \in Files
  /\ die = NoDie /\ val = NoValue /\ answer = NoAnswer /\ walk = NoWalk

Idle == walk = NoWalk

\* The client comes to a DIE (root(), begin() and ++ read it).
Locate(u, off) ==
  /\ Idle
  /\ \E r \in {ReadDie(u, off)} :
         /\ die' = IF r.status = "ok" THEN r.value ELSE NoDie
         /\ answer' = Answer("read", r.status, << >>)
  /\ val' = NoValue
  /\ UNCHANGED <<file, walk>>

\* d[name]
Fetch(name) ==
  /\ Idle /\ die # NoDie
  /\ \E a \in {Attribute(die, name)} :
         /\ val' = IF a.status = "ok" THEN a.value ELSE NoValue
         /\ answer' = Answer("fetch", a.status, << >>)
  /\ UNCHANGED <<file, die, walk>>

\* d.resolve(name); the client looks where the value is.
AskResolve(name) ==
  /\ Idle /\ die # NoDie
  /\ \E a \in {Resolve(die, name)} :
       answer' = Answer("resolve", a.status,
                        IF a.status = "ok" THEN <<a.value.unit, a.value.offset>> ELSE << >>)
  /\ val' = NoValue
  /\ UNCHANGED <<file, die, walk>>

Readings == {"address", "block", "uconstant", "sconstant", "exprloc", "flag", "sec_offset",
             "string"}
Reading(v, how) ==
  CASE how = "address" -> AsAddress(v)
    [] how = "block" -> AsBlock(v)
    [] how = "uconstant" -> AsUconstant(v)
    [] how = "sconstant" -> AsSconstant(v)
    [] how = "exprloc" -> AsExprloc(v)
    [] how = "flag" -> AsFlag(v)
    [] how = "sec_offset" -> AsSecOffset(v)
    [] how = "string" -> AsCStr(v)

\* One of the as_* methods.
Convert(how) ==
  /\ Idle /\ val # NoValue
  /\ \E r \in {Reading(val, how)} :
       answer' = Answer(how, r.status, IF r.status = "ok" THEN r.value ELSE << >>)
  /\ UNCHANGED <<file, die, val, walk>>

\* as_reference; the client goes on with the DIE it gets.
Follow ==
  /\ Idle /\ val # NoValue
  /\ \E r \in {AsReference(val)} :
       IF r.status = "ok"
       THEN /\ answer' = Answer("reference", "ok", <<r.value.unit, r.value.offset>>)
            /\ die' = r.value /\ val' = NoValue
       ELSE answer' = Answer("reference", r.status, << >>) /\ UNCHANGED <<die, val>>
  /\ UNCHANGED <<file, walk>>

\* at_lower_bound and the other fetchers of dynamic values: from DIE to DIE
\* until the attribute is a number or an expression.
Dynamic(name) ==
  /\ Idle /\ die # NoDie
  /\ walk' = [name |-> name, die |-> die, depth |-> 0] /\ answer' = NoAnswer /\ val' = NoValue
  /\ UNCHANGED <<file, die>>

DynamicReturns(status, result) == walk' = NoWalk /\ answer' = Answer("dynamic", status, result)

\* Mutant: expressions are taken for references.
HowDynamic_NoExpressions(type) ==
  IF type \in {"constant", "uconstant"} THEN "number"
  ELSE IF type \in {"exprloc", "reference"} THEN "reference" ELSE "none"

\* What _at_udynamic does with a value of a type.
HowDynamic(type) ==
  CASE type \in {"constant", "uconstant"} -> "number"
    [] type = "exprloc" -> "expression"
    [] type = "reference" -> "reference"
    [] OTHER -> "none"

\* Mutant: one reference more.
TooDeep_Later == walk.depth > 17

TooDeep == walk.depth > 16

DynamicStep ==
  /\ ~Idle
  /\ \E a \in {Attribute(walk.die, walk.name)} :
       IF TooDeep THEN DynamicReturns("format_error", << >>)
       ELSE IF a.status # "ok" THEN DynamicReturns(a.status, << >>)
       ELSE \E how \in {HowDynamic(a.value.type)} :
         CASE how = "none" -> DynamicReturns("format_error", << >>)
           [] how = "reference" ->
                \E next \in {AsReference(a.value)} :
                  IF next.status # "ok" THEN DynamicReturns(next.status, << >>)
                  ELSE walk' = [walk EXCEPT !.die = next.value, !.depth = @ + 1] /\ UNCHANGED answer
           [] OTHER ->
                \E read \in {IF how = "number" THEN AsUconstant(a.value) ELSE AsExprloc(a.value)} :
                  DynamicReturns(read.status, IF read.status = "ok" THEN read.value ELSE << >>)
  /\ UNCHANGED <<file, die, val>>
=============================================================================
