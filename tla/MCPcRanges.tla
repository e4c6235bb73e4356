----------------------------- MODULE MCPcRanges ----------------------------
(***************************************************************************)
(* PcRanges on concrete files.  A well-formed file is the encoding of a    *)
(* description: DIEs with attributes of every form, in both byte orders    *)
(* and both formats, and lists of ranges; what a client fetches has to be  *)
(* what was described.  Damaged files are cut off.                         *)
(***************************************************************************)
EXTENDS ListRanges, SequencesExt

-----------------------------------------------------------------------------
(* Encoding.  An attribute is described by [name, form, via, type, is]: its *)
(* form, how many times DW_FORM_indirect stands in front of it, the type   *)
(* DWARF gives it, and its content: bytes of a block or string, or a       *)
(* number (of a reference to this unit, the number of the DIE).            *)

Bytes(number, n, order) ==
  [i \in 1..n |-> (number \div Base^(IF order = "lsb" THEN i - 1 ELSE n - i)) % Base]

\* LEB128 with n digits.
LebBytes(number, n) ==
  [i \in 1..n |-> ((number \div Half^(i - 1)) % Half) + (IF i < n THEN Half ELSE 0)]

SizeOf(a, w, addr) ==
  2 * a.via +
  CASE a.form \in {"block1", "block", "exprloc", "string"} -> 1 + Len(a.is)
    [] a.form = "block2" -> 2 + Len(a.is)
    [] a.form = "block4" -> 4 + Len(a.is)
    [] a.form \in {"udata", "sdata", "ref_udata"} -> 3
    [] a.form = "addr" -> addr
    [] a.form \in {"strp", "ref_addr", "sec_offset"} -> w
    [] a.form = "flag_present" -> 0
    [] a.form \in {"flag", "data1", "ref1"} -> 1
    [] a.form \in {"data2", "ref2"} -> 2
    [] a.form \in {"data4", "ref4"} -> 4
    [] a.form \in {"data8", "ref8", "ref_sig8"} -> 8

\* TLC computes the elements once, and not each time one is needed.
Computed(seq) == SubSeq(seq, 1, Len(seq))

SumOf(seq) == FoldLeft(LAMBDA x, y : x + y, 0, seq)

\* Where DIEs and attributes of a unit begin, and units in their section.
Header(u) == (IF u.width = 4 THEN 11 ELSE 23) + (IF u.signature = 0 THEN 0 ELSE 8 + u.width)
DieSize(u, n) == 2 + SumOf([k \in DOMAIN u.dies[n] |-> SizeOf(u.dies[n][k], u.width, u.addr)])
DieOffset(u, n) == Header(u) + SumOf([j \in 1..(n - 1) |-> DieSize(u, j)])
AttributeOffset(u, n, k) ==
  DieOffset(u, n) + 2 + SumOf([j \in 1..(k - 1) |-> SizeOf(u.dies[n][j], u.width, u.addr)])
UnitSize(u) == DieOffset(u, Len(u.dies) + 1) + 1
UnitOffset(units, k) ==
  IF units[k].signature # 0 THEN 0 ELSE SumOf([j \in 1..(k - 1) |-> UnitSize(units[j])])

\* The lists of ranges, for addresses of addr bytes: new bases and ranges.
NewBase(a) == [new |-> TRUE, low |-> 0, high |-> a]
Span(low, high) == [new |-> FALSE, low |-> low, high |-> high]
Lists ==
  << <<Span(2, 5), Span(9, 9), Span(7, 20)>>, << >>,
     <<NewBase(50), Span(0, 4), NewBase(80), NewBase(90), Span(5, 6)>>,
     <<Span(1, 0), NewBase(3), Span(0, 11)>> >>
EntryBytes(e, addr, order) ==
  Bytes(IF e.new THEN Base^addr - 1 ELSE e.low, addr, order) \o Bytes(e.high, addr, order)
ListOffset(addr, n) == 2 * addr * SumOf([j \in 1..(n - 1) |-> Len(Lists[j]) + 1])
RangesData(addr, order) ==
  FlattenSeq([n \in DOMAIN Lists |->
     FlattenSeq([j \in DOMAIN Lists[n] |-> EntryBytes(Lists[n][j], addr, order)]) \o
     [i \in 1..(2 * addr) |-> 0]])

StrData == <<3, 4, 0, 5, 0>>
StrOffset(chars) == IF chars = <<5>> THEN 3 ELSE 0

\* The number that stands for the content of attribute a of unit k.
Literal(units, k, a) ==
  CASE a.form \in {"ref1", "ref2", "ref4", "ref_udata"} -> DieOffset(units[k], a.is[1])
    [] a.form = "ref_addr" -> UnitOffset(units, a.is[1]) + DieOffset(units[a.is[1]], a.is[2])
    [] a.form = "strp" -> StrOffset(a.is)
    [] a.type = "rangelist" -> ListOffset(units[k].addr, a.is[1])
    [] OTHER -> a.is[1]

Codes(a) ==   \* in front of the content of an indirect attribute
  IF a.via = 0 THEN << >>
  ELSE FlattenSeq([j \in 1..a.via |->
         LebBytes(FormCode[IF j < a.via THEN "indirect" ELSE a.form], 2)])

Content(units, k, a, order) ==
  LET n == SizeOf(a, units[k].width, units[k].addr) - 2 * a.via
  IN  CASE a.form = "string" -> a.is \o <<0>>
        [] a.form \in {"block1", "block2", "block4"} ->
             Bytes(Len(a.is), n - Len(a.is), order) \o a.is
        [] a.form \in {"block", "exprloc"} -> LebBytes(Len(a.is), 1) \o a.is
        [] a.form \in {"udata", "sdata", "ref_udata"} -> LebBytes(Literal(units, k, a), n)
        [] a.form = "flag_present" -> << >>
        [] OTHER -> Bytes(Literal(units, k, a), n, order)

DieBytes(units, k, n, order) ==
  LebBytes(n, 2) \o
  FlattenSeq([j \in DOMAIN units[k].dies[n] |->
                Codes(units[k].dies[n][j]) \o Content(units, k, units[k].dies[n][j], order)])

UnitData(units, k, order) ==
  [i \in 1..Header(units[k]) |-> 0] \o
  FlattenSeq([n \in DOMAIN units[k].dies |-> DieBytes(units, k, n, order)]) \o <<0>>

SpecOf(a) == [name |-> a.name, form |-> IF a.via > 0 THEN "indirect" ELSE a.form]

\* The file as the library knows it.
Encoded(units, k, order) ==
  LET u == units[k]
      data == UnitData(units, k, order)
  IN  [sec |-> [data |-> data, end |-> Len(data), ord |-> order, width |-> u.width,
                addr_size |-> u.addr],
       offset |-> UnitOffset(units, k), root |-> DieOffset(u, 1), type |-> DieOffset(u, 1),
       signature |-> u.signature,
       abbrevs |-> Computed([n \in DOMAIN u.dies |->
                     Computed([j \in DOMAIN u.dies[n] |-> SpecOf(u.dies[n][j])])]),
       dies |-> {DieOffset(u, n) : n \in DOMAIN u.dies} \cup {Len(data) - 1}]

Loose(data, order) ==
  [data |-> data, end |-> Len(data), ord |-> order, width |-> 0, addr_size |-> 0]

FileOf(id, d) ==
  [id |-> id, units |-> Computed([k \in DOMAIN d.units |-> Encoded(d.units, k, d.order)]),
   str |-> Loose(StrData, d.order),
   ranges |-> Loose(RangesData(d.units[1].addr, d.order), d.order)]

-----------------------------------------------------------------------------
(* Descriptions.                                                           *)

A(name, form, type, is) == [name |-> name, form |-> form, via |-> 0, type |-> type, is |-> is]
Via(n, a) == [a EXCEPT !.via = n]

Numbers ==
  <<A("const_value", "data1", "constant", <<11>>), A("decl_file", "data2", "constant", <<70>>),
    A("decl_line", "data4", "constant", <<Base^4 - 1>>),
    A("stride_size", "data8", "constant", <<Base^8 - 2>>),
    A("ordering", "udata", "uconstant", <<200>>), A("encoding", "sdata", "sconstant", <<-20>>),
    A("external", "flag", "flag", <<7>>), A("declaration", "flag", "flag", <<0>>),
    A("artificial", "flag_present", "flag", <<1>>), A("entry_pc", "addr", "address", <<130>>)>>
Texts ==
  <<A("name", "string", "string", <<3, 4>>), A("producer", "strp", "string", <<5>>),
    A("const_value", "block1", "block", <<1, 2, 3>>), A("location", "exprloc", "exprloc", <<4>>),
    A("frame_base", "block", "exprloc", << >>), A("byte_size", "block2", "exprloc", <<7>>),
    A("discr_list", "block4", "block", <<8, 9, 6>>), A("comp_dir", "string", "string", << >>)>>
Referring(width) ==
  <<A("sibling", IF width = 4 THEN "ref1" ELSE "ref_udata", "reference", <<1>>),
    A("type", "ref2", "reference", <<2>>),
    A("import", "ref4", "reference", <<3>>), A("friend", "ref_udata", "reference", <<3>>),
    A("specification", "ref_addr", "reference", <<2, 2>>),
    A("abstract_origin", "ref_addr", "reference", <<1, 3>>),
    A("signature", "ref_sig8", "reference", <<14>>)>>
Offsets ==
  <<A("location", "data4", "loclist", <<9>>), A("stmt_list", "data8", "line", <<8>>),
    A("macro_info", "sec_offset", "mac", <<7>>), A("start_scope", "sec_offset", "rangelist", <<2>>),
    A("lo_user", "sec_offset", "invalid", <<6>>), A("decl_line", "data1", "constant", <<5>>)>>
Indirect ==
  <<Via(1, A("name", "string", "string", <<3, 4>>)),
    Via(2, A("decl_file", "udata", "uconstant", <<40>>)),
    Via(1, A("location", "block1", "exprloc", <<4, 5>>)),
    A("decl_line", "data1", "constant", <<5>>)>>

\* Dynamic values (DIEs 2 and 3): numbers, expressions, a loop, dead ends.
Bounds ==
  <<A("lower_bound", "data2", "constant", <<60>>), A("upper_bound", "ref2", "reference", <<3>>),
    A("count", "exprloc", "exprloc", <<4>>), A("byte_size", "ref4", "reference", <<3>>),
    A("bit_size", "ref4", "reference", <<3>>), A("allocated", "string", "string", <<3>>)>>
Bounded ==
  <<A("upper_bound", "ref2", "reference", <<2>>), A("count", "ref2", "reference", <<2>>),
    A("lower_bound", "ref2", "reference", <<2>>), A("bit_size", "ref2", "reference", <<1>>)>>

\* What die::resolve is for: an instance, and the completion of a declaration.
Inlined == <<A("abstract_origin", "ref_addr", "reference", <<1, 4>>)>>
Completes ==
  <<A("specification", "ref4", "reference", <<2>>), A("name", "string", "string", <<6>>)>>

LowPcIs(a) == A("low_pc", "addr", "address", <<a>>)
WithLow == <<LowPcIs(100), A("name", "string", "string", <<3>>)>>
NoLow == <<A("name", "string", "string", <<4>>)>>

\* DIEs with code, in all the ways of saying where.
Coded ==
  << <<A("ranges", "sec_offset", "rangelist", <<1>>)>>, <<A("ranges", "data4", "rangelist", <<3>>)>>,
     <<A("ranges", "sec_offset", "rangelist", <<2>>)>>, <<A("ranges", "data8", "rangelist", <<4>>)>>,
     <<A("high_pc", "addr", "address", <<110>>), LowPcIs(107)>>,
     <<LowPcIs(100), A("high_pc", "data1", "constant", <<7>>)>>, <<LowPcIs(102)>>,
     <<LowPcIs(100), A("high_pc", "sdata", "sconstant", <<7>>)>>,
     <<Via(1, A("ranges", "sec_offset", "rangelist", <<1>>))>> >>

U(width, addr, signature, dies) ==
  [width |-> width, addr |-> addr, signature |-> signature, dies |-> dies]
ValueUnits(w, v) ==
  <<U(w, 8, 0, <<WithLow, Numbers, Texts, Referring(w), Offsets, Indirect>>),
    U(v, 8, 0, <<NoLow, Bounds, Bounded, Inlined, Completes>>), U(w, 8, 14, <<NoLow>>)>>
CodeUnits(w, addr, root) == <<U(w, addr, 0, <<root>> \o Coded)>>

Description(order, units) == [order |-> order, units |-> units]
ValueDescriptions ==
  <<Description("lsb", ValueUnits(4, 8)), Description("msb", ValueUnits(8, 4))>>
CodeDescriptions ==
  FlattenSeq([k \in 1..3 |->
    LET addr == <<2, 4, 8>>[k]
    IN  <<Description("lsb", CodeUnits(4, addr, WithLow)),
          Description("msb", CodeUnits(8, addr, NoLow))>>])
GoodDescriptions == ValueDescriptions \o CodeDescriptions

\* Damaged: the first unit ends early (at every fifth byte) or claims to be longer
\* than it is; sections are missing, lists are not terminated.
CutAt(f, n) ==
  [f EXCEPT !.units[1].sec = [@ EXCEPT !.data = SubSeq(@, 1, n), !.end = n]]
Damaged ==
  LET f == FileOf(0, ValueDescriptions[1])
      g == FileOf(0, CodeDescriptions[1])
  IN  Computed([k \in 1..((Len(f.units[1].sec.data) - 20) \div 5) |-> CutAt(f, 5 * k + 19)]) \o
      <<[CutAt(f, 100) EXCEPT !.units[1].sec.end = 110], [f EXCEPT !.str.data = << >>],
        [g EXCEPT !.ranges = Loose(<< >>, "lsb")],
        [g EXCEPT !.ranges = Loose(SubSeq(@.data, 1, 12), "lsb")],
        [g EXCEPT !.ranges = Loose(SubSeq(@.data, 1, Len(@.data) - 4), "lsb")],
        [g EXCEPT !.units[1].sec.addr_size = 3],
        [g EXCEPT !.units[1].abbrevs[3][1].form = "ref8"]>>

GoodFiles == Computed([k \in DOMAIN GoodDescriptions |-> FileOf(k, GoodDescriptions[k])])
AllFiles == ToSet(GoodFiles \o Damaged)

\* What the file is an encoding of.
Good == file.id # 0
Units == GoodDescriptions[file.id].units
SomeNames == {"name", "count", "producer", "absent"}
SomePairs == {<< >>, <<<<5, 6>>, <<101, 103>>>>}
SomeAddresses == {5, 95, 102}

-----------------------------------------------------------------------------
(* Properties.                                                             *)

\* The DIE at an offset of a unit, and its attribute of a name.
DieAt(k, off) == CHOOSE n \in DOMAIN Units[k].dies : DieOffset(Units[k], n) = off
Index(k, n, name) ==
  Min({j \in DOMAIN Units[k].dies[n] : Units[k].dies[n][j].name = name} \cup {100})
HasAttr(k, n, name) == Index(k, n, name) # 100
Attr(k, n, name) == Units[k].dies[n][Index(k, n, name)]
ValDie == DieAt(val.unit, die.offset)
ValAttr == Attr(val.unit, ValDie, val.name)

\* The methods that dwarf++.hh gives for each type, and to_string uses.
Documented(type) ==
  CASE type = "constant" -> {"uconstant", "sconstant"}
    [] type \in {"block", "exprloc"} -> {"block", "exprloc"}
    [] type \in {"line", "loclist", "mac", "rangelist"} -> {"sec_offset"}
    [] type \in {"invalid", "reference"} -> {}
    [] OTHER -> {type}

\* The content of attribute a of unit k as a method should return it.
Expected(how, k, a) ==
  LET n == SizeOf(a, Units[k].width, Units[k].addr)
      number == Literal(Units, k, a)
  IN  CASE how \in {"block", "exprloc"} -> <<val.offset + n - Len(a.is), Len(a.is)>>
        [] how = "string" -> a.is
        [] how = "flag" -> <<IF number = 0 THEN 0 ELSE 1>>
        [] how = "sconstant" /\ a.type = "constant" ->
             <<IF number >= Base^n \div 2 THEN number - Base^n ELSE number>>
        [] OTHER -> <<number>>

\* as_reference of a reference in a well-formed file leads to the DIE it was
\* made for, in this unit, in another one, or in a type unit (value.cc:161-217).
Leads(k, a) ==   \* unit and number of the DIE
  CASE a.form = "ref_addr" -> a.is
    [] a.form = "ref_sig8" -> <<3, 1>>
    [] OTHER -> <<k, a.is[1]>>
Target(k, a) == <<Leads(k, a)[1], DieOffset(Units[Leads(k, a)[1]], Leads(k, a)[2])>>
FollowsExact ==
  [][Good /\ val # NoValue /\ val.type = "reference" /\ answer'.how = "reference"
       /\ answer' # answer
     => answer' = Answer("reference", "ok", Target(val.unit, ValAttr))]_vars

\* resolve finds an attribute in the DIE itself, else in its abstract origin, else
\* in the specification of that one, or else in its own specification, whatever
\* units they are in (die.cc:84-118).
NotNull(d) == d.code # 0
OriginsOf(k, n) ==
  LET To(d, via) == Leads(d[1], Attr(d[1], d[2], via))
      origin == To(<<k, n>>, "abstract_origin")
  IN  IF HasAttr(k, n, "abstract_origin")
      THEN <<<<k, n>>, origin>> \o
           IF HasAttr(origin[1], origin[2], "specification")
           THEN <<To(origin, "specification")>> ELSE << >>
      ELSE IF HasAttr(k, n, "specification") THEN <<<<k, n>>, To(<<k, n>>, "specification")>>
      ELSE <<<<k, n>>>>
Found(k, n, name) ==
  LET having == SelectSeq(OriginsOf(k, n), LAMBDA d : HasAttr(d[1], d[2], name))
      d == having[1]
  IN  IF having = << >> THEN <<0, 0>>
      ELSE <<d[1], AttributeOffset(Units[d[1]], d[2], Index(d[1], d[2], name)) +
                     2 * Attr(d[1], d[2], name).via>>
ResolveExact ==
  [][\A name \in Names :
       Good /\ die # NoDie /\ NotNull(die) /\ AskResolve(name)
       => answer' = Answer("resolve", "ok", Found(die.unit, DieAt(die.unit, die.offset), name))
    ]_vars

\* The attribute that an attribute of a DIE leads to by references, if there is
\* one.
DynamicSource(k, n, name) ==
  LET To(d) == IF HasAttr(d[1], d[2], name) /\ Attr(d[1], d[2], name).type = "reference"
               THEN Leads(d[1], Attr(d[1], d[2], name)) ELSE d
      chase[j \in 0..17] == IF j = 0 THEN <<k, n>> ELSE To(chase[j - 1])
      last == chase[17]
  IN  IF HasAttr(last[1], last[2], name) THEN {Attr(last[1], last[2], name)} ELSE {}

\* A dynamic value is found only where the references lead to a number or an
\* expression, and not in a loop or to anything else, and always where that has a
\* form of its own (attrs.cc:67-87).
DynamicExact ==
  [][Good /\ NotNull(die) /\ ~Idle /\ walk' = NoWalk
     => LET dynamic == {a \in DynamicSource(die.unit, DieAt(die.unit, die.offset), walk.name) :
                          a.type \in {"constant", "uconstant", "exprloc"}}
        IN  /\ answer'.status = "ok" => dynamic # {}
            /\ (\E a \in dynamic : a.via = 0) => answer'.status = "ok"]_vars

-----------------------------------------------------------------------------
(* Range lists as sequences of ranges.                                     *)

\* The ranges of a list with base address a.
RECURSIVE Meant(_, _)
Meant(entries, a) ==
  IF entries = << >> THEN << >>
  ELSE IF Head(entries).new THEN Meant(Tail(entries), Head(entries).high)
  ELSE <<<<(a + Head(entries).low) % M, (a + Head(entries).high) % M>>>> \o Meant(Tail(entries), a)

CodeDie == DieAt(list.of.unit, list.of.offset)
Is(name) == Attr(1, CodeDie, name).is[1]
RootLow == IF HasAttr(1, 1, "low_pc") THEN 100 ELSE 0
FromSection == list.of.unit # 0 /\ HasAttr(1, CodeDie, "ranges")

Described ==
  IF list.of.unit = 0 THEN list.of.pairs
  ELSE IF FromSection THEN Meant(Lists[Is("ranges")], RootLow)
  ELSE << <<Is("low_pc"), IF ~HasAttr(1, CodeDie, "high_pc") THEN Is("low_pc") + 1
                          ELSE IF Attr(1, CodeDie, "high_pc").form = "addr" THEN Is("high_pc")
                          ELSE Is("low_pc") + Is("high_pc")>> >>

\* A list holds the ranges that the attributes of its DIE describe, wherever they
\* come from (attrs.cc:270-281), or those the client has made it of.  In units
\* with 4-byte addresses, lists of .debug_ranges are not exact.
ListsExact ==
  (list # NoList /\ list # Empty /\ (list.of.unit # 0 => Good /\ list.addr_size # 4))
    => Exact /\ RangesOf = Described

\* In a well-formed file without DW_FORM_ref8, for which skip_form throws, every
\* DIE can be read, whatever the forms of its attributes, and an attribute has the
\* type and the position that it was encoded with.  The methods documented for
\* that type return what it was encoded from (cursor.cc:114-197, die.cc:28-53,
\* value.cc, abbrev.cc:11-142), if the abbreviation names the form: nothing is said
\* of what they make of an attribute with DW_FORM_indirect.  A list holds the
\* ranges its DIE describes.
ValuesExact ==
  /\ ListsExact
  /\ Good =>
       /\ answer.how = "read" => answer.status = "ok"
       /\ answer.how = "fetch" => answer.status = IF val = NoValue THEN "out_of_range" ELSE "ok"
       /\ val # NoValue =>
            LET a == ValAttr
            IN  /\ val.type = a.type
                /\ val.offset = AttributeOffset(Units[val.unit], ValDie,
                                  Index(val.unit, ValDie, val.name)) + 2 * a.via
                /\ a.via = 0 /\ answer.how \in Documented(a.type) =>
                     answer = Answer(answer.how, "ok", Expected(answer.how, val.unit, a))

\* dwarf++.hh on rangelist::contains: "Return true if this range list contains
\* the given address."
ContainsExact ==
  outcome.op = "contains" /\ Good =>
    (outcome.status = "yes") = \E k \in DOMAIN Described :
       Described[k][1] <= outcome.arg /\ outcome.arg < Described[k][2]
=============================================================================
