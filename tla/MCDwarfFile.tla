---------------------------- MODULE MCDwarfFile ----------------------------
(***************************************************************************)
(* DwarfFile on concrete files.  A well-formed file is the encoding of a   *)
(* description of it, in either byte order, with units of all versions and *)
(* both formats; reading it has to give the description back.  Malformed   *)
(* files are damaged encodings.                                            *)
(***************************************************************************)
EXTENDS DwarfFile, SequencesExt

-----------------------------------------------------------------------------
(* Encoding.                                                               *)

Bytes(number, n, order) ==
  [i \in 1..n |-> (number \div Base^(IF order = "lsb" THEN i - 1 ELSE n - i)) % Base]
EscapeBytes == [i \in 1..4 |-> Base - 1]

\* A unit of n bytes behind its initial length.
WithLength(u, bytes, order) ==
  IF u.long THEN EscapeBytes \o Bytes(Len(bytes), 8, order) \o bytes
  ELSE Bytes(Len(bytes), 4, order) \o bytes

Width(u) == IF u.long THEN 8 ELSE 4
Addr(u, order) == Bytes(u.addr_size, 1, order)
Abbrevs(u, order) == Bytes(u.abbrevs, Width(u), order)

UnitBytes(u, order) ==
  WithLength(u,
    Bytes(u.version, 2, order) \o
    (IF u.version >= 5 THEN <<1>> \o Addr(u, order) \o Abbrevs(u, order)
     ELSE Abbrevs(u, order) \o Addr(u, order)) \o
    (IF u.signature = 0 THEN << >>
     ELSE Bytes(u.signature, 8, order) \o Bytes(u.type, Width(u), order)) \o u.dies,
    order)

SectionBytes(units, order) == FlattenSeq([k \in DOMAIN units |-> UnitBytes(units[k], order)])

-----------------------------------------------------------------------------
(* Descriptions.                                                           *)

\* A compilation unit and a type unit.
C(version, long, abbrevs, addr_size, dies) ==
  [version |-> version, long |-> long, abbrevs |-> abbrevs, addr_size |-> addr_size,
   signature |-> 0, type |-> 0, dies |-> dies]
T(signature, long, type) ==
  [version |-> 4, long |-> long, abbrevs |-> 13, addr_size |-> 8,
   signature |-> signature, type |-> type, dies |-> <<1, 0>>]

One == <<C(4, FALSE, 0, 8, <<1>>)>>
Mixed == <<C(2, FALSE, 5, 4, <<1, 2, 3, 0>>), C(5, FALSE, 150, 8, << >>),
           C(3, TRUE, 15, 8, <<1>>), C(4, FALSE, 0, 2, <<1>>)>>
Long == <<C(5, TRUE, 40, 4, <<2, 2>>), C(4, TRUE, 3, 8, << >>)>>

Types == <<T(14, FALSE, 23), T(5, TRUE, 40)>>
Doubled == <<T(5, FALSE, 23), T(14, TRUE, 39), T(5, FALSE, 24)>>

Described(order, cus, tus) ==
  [order |-> order, cus |-> cus, tus |-> tus]
Descriptions ==
  {Described(order, cus, tus) :
     order \in {"lsb", "msb"}, cus \in {One, Mixed, Long}, tus \in {<< >>, Types, Doubled}}

\* Root DIEs: with a line table, without, with one that cannot be read, without
\* an abbreviation; and roots that can be read half, as far as a line table needs
\* them or not.
RootFacts == <<{"stmt_list", "name"}, {"name", "half_read"},
               {"stmt_list", "name", "bad_table"}, {"unreadable"}>>
HalfRead == <<{"stmt_list", "name", "half_read", "unread"},
              {"stmt_list", "name", "half_read"}>>
HalfBad == <<{"stmt_list", "name", "half_read", "bad_table"}>>

FileOf(d, has) ==
  [has |-> has, info |-> SectionBytes(d.cus, d.order),
   types |-> SectionBytes(d.tus, d.order),
   roots |-> IF d.cus = Long THEN HalfRead
             ELSE IF d.cus = One /\ d.tus = Types THEN HalfBad ELSE RootFacts]
Good == {[about |-> d, file |-> FileOf(d, SectionType)] : d \in Descriptions}
GoodFiles == {g.file : g \in Good}

\* A file without some of its sections.
Plain == FileOf(Described("lsb", One, Types), SectionType)
Lacking == {[Plain EXCEPT !.has = @ \ {t}] : t \in {"info", "abbrev", "types", "line"}}

\* Damaged: no unit, a unit that is cut off in its header or claims to be, a
\* reserved length, a length that leads backwards, a length that leads behind
\* the end, an unknown version, and a bad type unit behind a good one.
WithInfo(bytes) == [Plain EXCEPT !.info = bytes]
WithTypes(bytes) == [Plain EXCEPT !.types = bytes]
Unit4 == UnitBytes(One[1], "lsb")
TypeUnit4 == UnitBytes(T(14, FALSE, 23), "lsb")
LongLength(bytes) == EscapeBytes \o bytes
Malformed ==
  {WithInfo(<< >>), WithInfo(SubSeq(Unit4, 1, 5)),
   WithInfo(Unit4 \o Bytes(5, 4, "lsb") \o Bytes(4, 2, "lsb") \o <<0, 0, 0>>),
   WithInfo(Unit4 \o Bytes(0, 4, "lsb")),
   WithInfo(Unit4 \o Bytes(Word - 16, 4, "lsb") \o Unit4),
   WithInfo(Unit4 \o LongLength(Bytes(Xword - 20, 8, "lsb") \o Unit4)),
   WithInfo(Unit4 \o UnitBytes(C(6, FALSE, 0, 8, <<1>>), "lsb")),
   WithTypes(TypeUnit4 \o <<1>>),
   WithTypes(TypeUnit4 \o UnitBytes([T(5, FALSE, 23) EXCEPT !.version = 5], "lsb")),
   WithTypes(TypeUnit4 \o Bytes(18, 4, "lsb") \o Bytes(4, 2, "lsb") \o [i \in 1..18 |-> 0])}
CutOff ==
  {WithInfo(Unit4 \o Bytes(9, 4, "lsb") \o Bytes(4, 2, "lsb")),
   WithTypes(TypeUnit4 \o Bytes(40, 4, "lsb") \o Bytes(4, 2, "lsb") \o <<0, 0>>)}

AllFiles == GoodFiles \cup Lacking \cup Malformed \cup CutOff
SomeSignatures == {5, 14, 7}

-----------------------------------------------------------------------------
(* What is to be read.                                                     *)

\* The k-th of units as the library should know it.
Expected(units, order, k) ==
  LET before == Len(SectionBytes(SubSeq(units, 1, k - 1), order))
      size == Len(UnitBytes(units[k], order))
  IN  [offset |-> before, next |-> before + size, addr_size |-> units[k].addr_size,
       debug_abbrev_offset |-> units[k].abbrevs,
       root_offset |-> size - Len(units[k].dies),
       type_signature |-> units[k].signature, type_offset |-> units[k].type]

About == [f \in GoodFiles |-> (CHOOSE g \in Good : g.file = f).about]
ExpectedUnits ==
  [f \in GoodFiles |-> [k \in DOMAIN About[f].cus |->
                          Expected(About[f].cus, About[f].order, k)]]
ExpectedTypes ==
  [f \in GoodFiles |-> [k \in DOMAIN About[f].tus |->
                          Expected(About[f].tus, About[f].order, k)]]

\* The type unit of a signature in a well-formed file: the last one.
TypeUnitsOf(f, signature) ==
  {k \in DOMAIN ExpectedTypes[f] : ExpectedTypes[f][k].type_signature = signature}

\* A well-formed file is read in its byte order and in full: its units are
\* found at their offsets, with their own address sizes and abbreviations,
\* whatever their versions and formats; only a loader can keep the constructor
\* from it (dwarf.cc:33-75, 268-296).
UnitsExact ==
  file \in GoodFiles =>
    /\ answer.op = "dwarf" => answer.status \in {"none", "ok", "loader_error"}
    /\ pc \in {"idle", "types"} =>
         ord = About[file].order /\ compilation_units = ExpectedUnits[file]

\* get_type_unit answers from all type units of the file, in any history of
\* calls that failed half way: a signature is out of range only if no unit has
\* it, and a malformed section never gives an answer (dwarf.cc:90-106).
TypeUnitsExact ==
  answer.op = "get_type_unit" =>
    IF file \in GoodFiles
    THEN LET ks == TypeUnitsOf(file, answer.arg)
         IN  CASE answer.status = "ok" -> ks # {} /\ answer.unit = ExpectedTypes[file][Max(ks)]
               [] answer.status = "out_of_range" -> ks = {}
               [] OTHER -> answer.status \in {"none", "loader_error"}
    ELSE answer.status \in {"ok", "out_of_range"} =>
           "types" \in file.has /\ file.types = Plain.types
=============================================================================
