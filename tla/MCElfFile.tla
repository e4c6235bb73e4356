----------------------------- MODULE MCElfFile -----------------------------
(***************************************************************************)
(* ElfFile on concrete files.  A well-formed file is the encoding of a     *)
(* description, in both classes and byte orders; the library has to give   *)
(* the description back.  Damaged files are encodings of descriptions that *)
(* lie.                                                                    *)
(***************************************************************************)
EXTENDS ElfFile, SequencesExt

-----------------------------------------------------------------------------
(* Encoding.                                                               *)

Digits(number, n, order) ==
  [i \in 1..n |-> (number \div Base^(IF order = "lsb" THEN i - 1 ELSE n - i)) % Base]

\* A record in a layout.
Encoded(record, layout, order) ==
  FlattenSeq([k \in DOMAIN layout |->
    IF layout[k][1] = "pad" THEN [i \in 1..layout[k][2] |-> 0]
    ELSE Digits(record[layout[k][1]], layout[k][2], order)])

EncodedAll(records, layout, order) ==
  FlattenSeq([k \in DOMAIN records |-> Encoded(records[k], layout, order)])

\* A description: the header, segments and sections as they are to be known,
\* and the bytes between the header and the two tables.
FileOf(about) ==
  LET order == Order(about.hdr.ei_data)
      class == about.hdr.ei_class
  IN  Magic \o Tail(Tail(Tail(Tail(Encoded(about.hdr, Ehdr(class), order))))) \o about.body \o
      EncodedAll(about.segments, Phdr(class), order) \o EncodedAll(about.sections, Shdr(class), order)

-----------------------------------------------------------------------------
(* Descriptions.                                                           *)

\* Strings: the names of sections and, behind "info" in the third, a string
\* that is the end of another.
InfoName == <<1>>
SymtabName == <<2>>
StrName == <<1, 3>>
StrtabName == <<4>>
StringBytes ==
  <<0>> \o InfoName \o <<0>> \o SymtabName \o <<0>> \o StrName \o <<0>> \o StrtabName \o <<0>>
At == [none |-> 0, info |-> 1, symtab |-> 3, str |-> 5, end |-> 6, strtab |-> 8]

NoSection ==
  [name |-> 0, type |-> 0, flags |-> 0, addr |-> 0, offset |-> 0, size |-> 0, link |-> 0,
   info |-> 0, addralign |-> 0, entsize |-> 0]
SymbolOf(name, value, size) ==
  [name |-> name, value |-> value, size |-> size, info |-> 3, other |-> 0, shnxd |-> 130]
Symbols == <<SymbolOf(At.none, 0, 0), SymbolOf(At.end, 1234, 13), SymbolOf(At.strtab, 77, 20001)>>

HeaderOf(class, data, phoff, phnum, shoff, shnum, shstrndx) ==
  [ei_class |-> class, ei_data |-> data, ei_version |-> 1, ei_osabi |-> 0, ei_abiversion |-> 2,
   type |-> 3, machine |-> 62, version |-> 1, entry |-> 1728, phoff |-> phoff, shoff |-> shoff,
   flags |-> 14, ehsize |-> Size(Ehdr(class)), phentsize |-> Size(Phdr(class)), phnum |-> phnum,
   shentsize |-> Size(Shdr(class)), shnum |-> shnum, shstrndx |-> shstrndx]

\* Neither segments nor sections.
Bare(class, data) ==
  [hdr |-> HeaderOf(class, data, 0, 0, 0, 0, 0), body |-> << >>, segments |-> << >>,
   sections |-> << >>]

\* Sections: none, information, symbols, one without bits, strings, and a second
\* one of the first name.  Segments: the information, everything else.
Full(class, data) ==
  LET body == <<5, 0, 7>> \o StringBytes \o EncodedAll(Symbols, Sym(class), Order(data))
      start == Size(Ehdr(class))
      phoff == start + Len(body)
      strings == start + 3
      syms == strings + Len(StringBytes)
      Section(name, type, offset, size) ==
        [NoSection EXCEPT !.name = name, !.type = type, !.offset = offset, !.size = size,
                          !.flags = 2, !.addr = 1000, !.addralign = 4]
      Segment(offset, size) ==
        [type |-> 1, flags |-> 5, offset |-> offset, vaddr |-> 1000 + offset, paddr |-> 15,
         filesz |-> size, memsz |-> size + 12, align |-> 144]
  IN  [hdr |-> HeaderOf(class, data, phoff, 2, phoff + 2 * Size(Phdr(class)), 6, 4),
       body |-> body,
       segments |-> <<Segment(start, 3), Segment(strings, phoff - strings)>>,
       sections |-> <<NoSection, Section(At.info, 1, start, 3),
                      [Section(At.symtab, Symtab, syms, phoff - syms) EXCEPT
                         !.link = 4, !.info = 1, !.entsize = Size(Sym(class))],
                      Section(At.str, Nobits, strings, 20000),
                      Section(At.strtab, Strtab, strings, Len(StringBytes)),
                      Section(At.info, 1, start + 1, 2)>>]

Descriptions == <<Bare(1, 1), Bare(2, 2), Full(1, 1), Full(1, 2), Full(2, 1), Full(2, 2)>>
Good == {[id |-> k, bytes |-> FileOf(Descriptions[k])] : k \in DOMAIN Descriptions}

\* Damaged files: a byte that is not what it should be, ends that are missing,
\* and headers, sections and symbol tables that lie.
Plain == FileOf(Full(2, 1))
Large == Full(2, 1)
Hdr(about, h) == [about EXCEPT !.hdr = h]
Sec(about, k, s) == [about EXCEPT !.sections[k + 1] = s]

BadBytes ==
  {[Plain EXCEPT ![1] = 0], [Plain EXCEPT ![5] = 3], [Plain EXCEPT ![6] = 0], [Plain EXCEPT ![7] = 2]}
CutOff == {SubSeq(Plain, 1, n) : n \in {0, 6, 40, 200, Len(Plain) - 1}}
BadHeaders ==
  {Hdr(Large, [Large.hdr EXCEPT !.version = 2]),
   Hdr(Large, [Large.hdr EXCEPT !.shstrndx = 6]),
   Hdr(Large, [Large.hdr EXCEPT !.shstrndx = 1]),
   Hdr(Large, [Large.hdr EXCEPT !.phentsize = 3]),
   Hdr(Large, [Large.hdr EXCEPT !.shentsize = 0]),
   Hdr(Large, [Large.hdr EXCEPT !.shoff = Len(Plain) - 10, !.shentsize = 1]),
   Hdr(Large, [Large.hdr EXCEPT !.phoff = 300, !.phentsize = 143, !.phnum = 143])}
BadSections ==
  {Sec(Large, 1, [Large.sections[2] EXCEPT !.offset = Xword - 10, !.size = 20]),
   Sec(Large, 1, [Large.sections[2] EXCEPT !.size = 5000]),
   Sec(Large, 1, [Large.sections[2] EXCEPT !.name = 500]),
   Sec(Large, 2, [Large.sections[3] EXCEPT !.link = 9]),
   Sec(Large, 2, [Large.sections[3] EXCEPT !.link = Half + 4]),
   Sec(Large, 2, [Large.sections[3] EXCEPT !.type = Dynsym, !.size = @ - 5]),
   Sec(Large, 2, [Large.sections[3] EXCEPT !.link = 1, !.size = 210 * Size(Sym(2))]),
   Sec(Large, 4, [Large.sections[5] EXCEPT !.offset = Xword - 10, !.size = 20]),
   Sec(Large, 4, [Large.sections[5] EXCEPT !.size = @ - 1])}
Damaged ==
  {[id |-> 0, bytes |-> bytes] :
     bytes \in BadBytes \cup CutOff \cup {FileOf(about) : about \in BadHeaders \cup BadSections}}

AllFiles == Good \cup Damaged
SomeIndexes == {1, 2, 4, 6}
SomeNames == {StrtabName, <<9>>}
SomeOffsets == {At.end, Len(StringBytes), Xword - 1}
SomeTypes == {"info", "str"}
OtherNames ==
  <<".debug_line", ".debug_abbrev", ".debug_aranges", ".debug_frame", ".debug_loc",
    ".debug_macinfo", ".debug_pubnames", ".debug_pubtypes", ".debug_ranges", ".debug_types">>
Spelled == [name \in {SectionName[t] : t \in DOMAIN SectionName} |->
  CASE name = ".debug_info" -> InfoName
    [] name = ".debug_str" -> StrName
    [] OTHER -> <<10, CHOOSE k \in DOMAIN OtherNames : OtherNames[k] = name>>]
SomeMagic == <<11, 5, 6, 7>>

-----------------------------------------------------------------------------
(* What is to be read.                                                     *)

About == Descriptions[file.id]
Texts == <<<< >>, InfoName, SymtabName, StrName, StrtabName, InfoName>>
SymbolTexts == <<<< >>, <<3>>, StrtabName>>
TextAt(offset) == CHOOSE text \in ToSet(Texts) \cup ToSet(SymbolTexts) :
                    SubSeq(StringBytes, offset + 1, offset + Len(text) + 1) = text \o <<0>>
NamedSo(name) == {i \in DOMAIN sections : Texts[i + 1] = name}

HeadersExact ==
  /\ hdr = About.hdr
  /\ DOMAIN segments = 0..(Len(About.segments) - 1)
  /\ \A i \in DOMAIN segments : segments[i] = About.segments[i + 1]
  /\ DOMAIN sections = 0..(Len(About.sections) - 1)
  /\ \A i \in DOMAIN sections : sections[i] = About.sections[i + 1]

\* The place and length of the data of a section or segment.
PlaceOf(i) ==
  [at |-> IF About.sections[i + 1].type = Nobits THEN 0
          ELSE Mapped + About.sections[i + 1].offset,
   len |-> About.sections[i + 1].size]
Located(place) == answer.status = "ok" /\ [at |-> answer.at, len |-> answer.len] = place
Text == Bytes(answer.at, answer.len)
Nowhere == [at |-> 0, len |-> 0]

AnswerExact ==
  LET i == answer.section
  IN  CASE answer.op = "section_at" -> answer.status = "ok" <=> i < Len(About.sections)
        [] answer.op = "segment_at" -> answer.status = "ok" <=> i < Len(About.segments)
        [] answer.op = "get_name" -> answer.status = "ok" /\ Text = Texts[i + 1]
        [] answer.op = "data" -> Located(PlaceOf(i))
        [] answer.op = "segment_data" ->
             Located([at |-> Mapped + About.segments[i + 1].offset,
                      len |-> About.segments[i + 1].filesz])
        [] answer.op = "get_section" ->
             IF NamedSo(answer.about) = {} THEN answer.status = "invalid"
             ELSE answer.status = "ok" /\ i = Min(NamedSo(answer.about))
        [] answer.op = "load" ->
             LET named == NamedSo(Spelled[SectionName[answer.about[1]]])
             IN  Located(IF named = {} THEN Nowhere ELSE PlaceOf(Min(named)))
        [] answer.op = "string" ->
             CASE About.sections[i + 1].type # Strtab -> answer.status = "section_type_mismatch"
               [] About.sections[i + 1].type = Strtab /\ answer.about[1] < Len(StringBytes) ->
                    answer.status = "ok" /\ Text = TextAt(answer.about[1])
               [] OTHER -> StringWraps \/ answer.status = "range_error"
        [] answer.op = "symbols" ->
             answer.status = IF About.sections[i + 1].type = Symtab THEN "ok"
                             ELSE "section_type_mismatch"
        [] answer.op = "symbol" ->
             LET k == answer.about[1] \div Size(Sym(About.hdr.ei_class)) + 1
             IN  /\ answer.status = "ok"
                 /\ answer.symbol = Symbols[k] /\ Text = SymbolTexts[k]
        [] OTHER -> TRUE

\* A well-formed file, of either class and byte order, is opened and answers as
\* it was described: headers, the names of sections, the first section of a
\* name, data, strings that may be the ends of others, and each symbol with its
\* name, whatever the client has asked before (elf.cc:17-331).
AnswersExact ==
  file.id # 0 =>
    /\ pc # "failed"
    /\ pc = "idle" => HeadersExact /\ AnswerExact
=============================================================================
