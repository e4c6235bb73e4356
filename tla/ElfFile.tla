------------------------------ MODULE ElfFile ------------------------------
(***************************************************************************)
(* elf::elf: a mapped file, its header, segments, sections and symbols,    *)
(* and the loader that libdwarf++ makes of it.                             *)
(*                                                                         *)
(* The constructor reads all headers.  Names and data are found when they  *)
(* are first asked for and kept, so each operation may extend what the     *)
(* others start from; any of them may throw on its way.  An address is a   *)
(* number of 64 bits: the file is mapped at Mapped, and what is read       *)
(* outside of it is "wild": anything may happen from then on.              *)
(***************************************************************************)
EXTENDS ElfData, Functions

CONSTANTS
  Mapped,      \* where the file is mapped
  Files,       \* the files
  Indexes,     \* the sections and segments the client asks for
  Names,       \* the section names the client asks for
  Offsets,     \* the offsets of strings the client asks for
  Wanted,      \* the DWARF sections libdwarf++ asks for
  Spelling     \* the bytes of the names of DWARF sections

\* section_type_to_name
SectionName ==
  [abbrev |-> ".debug_abbrev", aranges |-> ".debug_aranges", frame |-> ".debug_frame",
   info |-> ".debug_info", line |-> ".debug_line", loc |-> ".debug_loc",
   macinfo |-> ".debug_macinfo", pubnames |-> ".debug_pubnames",
   pubtypes |-> ".debug_pubtypes", ranges |-> ".debug_ranges", str |-> ".debug_str",
   types |-> ".debug_types"]

\* Files are mapped far below the top of the address space, where the kernel is.
ASSUME MappedAssumption == Mapped \in 1..(Xword - 1)
ASSUME FilesAssumption ==
  \A f \in Files : f.bytes \in Seq(0..(Base - 1)) /\ Mapped + Len(f.bytes) + Word <= Xword
ASSUME ClientAssumption ==
  /\ Indexes \subseteq Nat
  /\ \A name \in Names : name \in Seq(1..(Base - 1))
  /\ Offsets \subseteq 0..(Xword - 1)
  /\ Wanted \subseteq DOMAIN SectionName /\ Wanted # {}
ASSUME SpellingAssumption ==
  /\ DOMAIN Spelling = {SectionName[t] : t \in DOMAIN SectionName}
  /\ \A name \in DOMAIN Spelling : Spelling[name] \in Seq(1..(Base - 1))
  /\ IsInjective(Spelling)

VARIABLES
  file,        \* the file, chosen once
  pc,          \* how far the constructor has come
  hdr, segments, sections,
  settled,     \* history: what there is to load, as of the constructor
  names,       \* the cached name of each section
  datas,       \* the cached data of each section
  segdatas,    \* the cached data of each segment
  it,          \* the iterator over symbols
  held,        \* what the client holds: the file, an iterator
  owners,      \* the references to elf::impl
  mapped,      \* the file is mapped
  answer       \* the outcome of the last call

headers == <<hdr, segments, sections, settled>>
caches == <<names, datas, segdatas>>
life == <<held, owners, mapped>>
vars == <<file, pc, hdr, segments, sections, settled, names, datas, segdatas, it,
          held, owners, mapped, answer>>

NoSymbol == << >>
Asked(op, section, about) ==
  [op |-> op, section |-> section, about |-> about, status |-> "ok",
   at |-> 0, len |-> 0, symbol |-> NoSymbol]
Constructing == [Asked("elf", 0, << >>) EXCEPT !.status = "none"]
NoName == [status |-> "none", at |-> 0, len |-> 0]
NoIterator == [data |-> 0, pos |-> 0, end |-> 0, strs |-> NoName]

Init ==
  /\ file \in Files
  /\ pc = "map"
  /\ hdr = << >> /\ segments = << >> /\ sections = << >> /\ settled = << >>
  /\ names = << >> /\ datas = << >> /\ segdatas = << >>
  /\ it = NoIterator
  /\ held = {} /\ owners = 0 /\ mapped = FALSE
  /\ answer = Constructing

-----------------------------------------------------------------------------
(* Memory.                                                                 *)

lim == Len(file.bytes)

Found(at, len) == [status |-> "ok", at |-> at, len |-> len]
Thrown(status) == [status |-> status, at |-> 0, len |-> 0]

\* Mutant: offset and size are compared with the size of the file one by one.
Load_Apart(offset, size) ==
  IF offset > lim \/ size > lim THEN Thrown("range_error")
  ELSE Found((Mapped + offset) % Xword, size)

\* mmap_loader::load.  The sum may wrap around.
Load(offset, size) ==
  IF (offset + size) % Xword > lim THEN Thrown("range_error")
  ELSE Found((Mapped + offset) % Xword, size)

InFile(at, n) == Mapped <= at /\ at + n <= Mapped + lim
Byte(at) == file.bytes[at - Mapped + 1]
Bytes(at, n) == SubSeq(file.bytes, at - Mapped + 1, at - Mapped + n)

\* Where a string ends: at a NUL, at the end of its table, or where the file ends.
Stops(start, end) ==
  {p \in start..Min({end, Mapped + lim}) : p = end \/ p = Mapped + lim \/ Byte(p) = 0}

\* strtab::get: a string from start on, in a table that ends at end.
StringAt(start, end) ==
  IF start >= end THEN Thrown("range_error")
  ELSE IF ~InFile(start, 1) THEN Thrown("wild")
  ELSE LET stop == Min(Stops(start, end))
       IN  IF stop = end THEN Thrown("format_error")
           ELSE IF stop = Mapped + lim THEN Thrown("wild")
           ELSE Found(start, stop - start)

\* The string at an offset of the table strs, if there is one.  The sum may
\* wrap around.
StrGet(strs, offset) ==
  IF strs.status # "ok" THEN strs
  ELSE StringAt((strs.at + offset) % Xword, (strs.at + strs.len) % Xword)

-----------------------------------------------------------------------------
(* Sections, when nobody has asked for them before.                        *)

\* section::data
FreshData(i) ==
  IF sections[i].type = Nobits THEN Found(0, sections[i].size)
  ELSE Load(sections[i].offset, sections[i].size)

\* section::as_strtab, when the data of section i is data.  An invalid section
\* has no type to look at.
AsStrtab(i, data) ==
  IF i \notin DOMAIN sections THEN Thrown("wild")
  ELSE IF sections[i].type # Strtab THEN Thrown("section_type_mismatch")
  ELSE data

\* The sections at which a search for a name stops: those of the name, and those
\* that have no name to give.
Hits(named, name) ==
  {i \in DOMAIN named : named[i].status # "ok" \/ Bytes(named[i].at, named[i].len) = name}

\* What the sections are called, and what is in them, when nobody has asked.
FreshNames ==
  [i \in DOMAIN sections |->
     StrGet(AsStrtab(hdr.shstrndx, FreshData(hdr.shstrndx)), sections[i].name)]
Settled(named, hits) ==
  IF hits = {} THEN Found(0, 0)
  ELSE IF named[Min(hits)].status # "ok" THEN named[Min(hits)]
  ELSE FreshData(Min(hits))
SettledBy(named) ==
  [t \in Wanted |-> Settled(named, Hits(named, Spelling[SectionName[t]]))]
Contents == CHOOSE all \in {SettledBy(named) : named \in {FreshNames}} : TRUE

-----------------------------------------------------------------------------
(* Ownership.                                                              *)

\* Mutant: the mapping goes with the file object.
Release_First(n) ==
  /\ owners' = owners - n
  /\ mapped' = (mapped /\ "elf" \in held')

\* When the last reference is gone, so is the loader, and the mapping with it.
Release(n) ==
  /\ owners' = owners - n
  /\ mapped' = (owners > n)

Acquire(n) == owners' = owners + n /\ UNCHANGED mapped

\* An exception leaves the constructor: its own reference goes.  Those of the
\* segments and sections that are there already stay.
Refuse(status) ==
  /\ pc' = IF status = "wild" THEN "wild" ELSE "failed"
  /\ answer' = [answer EXCEPT !.status = status]
  /\ UNCHANGED held
  /\ Release(1)

-----------------------------------------------------------------------------
(* The constructor.                                                        *)

\* create_mmap_loader.  An empty file cannot be mapped.
Map ==
  /\ pc = "map"
  /\ IF lim > 0
     THEN pc' = "header" /\ mapped' = TRUE /\ owners' = 1 /\ UNCHANGED answer
     ELSE /\ pc' = "failed" /\ answer' = [answer EXCEPT !.status = "system_error"]
          /\ UNCHANGED <<mapped, owners>>
  /\ UNCHANGED <<file, headers, caches, it, held>>

\* The first bytes: magic number, class, byte order and version.
Class == file.bytes[5]
Data == file.bytes[6]
CoreOK ==
  /\ SubSeq(file.bytes, 1, 4) = Magic
  /\ file.bytes[7] = 1
  /\ Class \in ElfClass
  /\ Data \in ElfData

ReadHdr == Canon(file.bytes, Order(Data), 0, Ehdr(Class))

HdrOK(h) == h.version = 1 /\ (h.shnum # 0 => h.shstrndx < h.shnum)

HeaderStatus ==
  IF Load(0, 7).status # "ok" THEN "range_error"
  ELSE IF ~CoreOK THEN "format_error"
  ELSE IF Load(0, Size(Ehdr(Class))).status # "ok" THEN "range_error"
  ELSE IF ~HdrOK(ReadHdr) THEN "format_error"
  ELSE "ok"

Header ==
  /\ pc = "header"
  /\ IF HeaderStatus = "ok"
     THEN hdr' = ReadHdr /\ pc' = "segments" /\ UNCHANGED <<answer, life>>
     ELSE Refuse(HeaderStatus) /\ UNCHANGED hdr
  /\ UNCHANGED <<file, segments, sections, settled, caches, it>>

\* The bytes of a table: the product of two Halfs is an int, and undefined
\* when it is too large for one.
TableBytes(entsize, num) ==
  IF entsize * num < Word \div 2 THEN {entsize * num}
  ELSE {entsize * num, Xword - Word + entsize * num}

\* The entries are as far apart as the header says, but as large as their type.
Entry(table, entsize, i) == (table + i * entsize) % Xword

Segments ==
  /\ pc = "segments"
  /\ \E size \in TableBytes(hdr.phentsize, hdr.phnum) :
     \E table \in {Load(hdr.phoff, size)} :
       IF table.status # "ok"
       THEN Refuse(table.status) /\ UNCHANGED <<segments, segdatas>>
       ELSE IF \E i \in 0..(hdr.phnum - 1) :
                 ~InFile(Entry(table.at, hdr.phentsize, i), Size(Phdr(hdr.ei_class)))
       THEN Refuse("wild") /\ UNCHANGED <<segments, segdatas>>
       ELSE /\ segments' = [i \in 0..(hdr.phnum - 1) |->
                 Canon(file.bytes, Order(hdr.ei_data),
                       Entry(table.at, hdr.phentsize, i) - Mapped, Phdr(hdr.ei_class))]
            /\ segdatas' = [i \in 0..(hdr.phnum - 1) |-> 0]
            /\ pc' = "sections" /\ Acquire(hdr.phnum)
            /\ UNCHANGED <<answer, held>>
  /\ UNCHANGED <<file, hdr, sections, settled, names, datas, it>>

Sections ==
  /\ pc = "sections"
  /\ UNCHANGED <<file, hdr, segments, segdatas, it>>
  /\ \E size \in TableBytes(hdr.shentsize, hdr.shnum) :
     \E table \in {Load(hdr.shoff, size)} :
       IF table.status # "ok"
       THEN Refuse(table.status) /\ UNCHANGED <<sections, settled, names, datas>>
       ELSE IF \E i \in 0..(hdr.shnum - 1) :
                 ~InFile(Entry(table.at, hdr.shentsize, i), Size(Shdr(hdr.ei_class)))
       THEN Refuse("wild") /\ UNCHANGED <<sections, settled, names, datas>>
       ELSE /\ sections' = [i \in 0..(hdr.shnum - 1) |->
                 CanonShdr(file.bytes, Order(hdr.ei_data),
                           Entry(table.at, hdr.shentsize, i) - Mapped, hdr.ei_class)]
            /\ names' = [i \in 0..(hdr.shnum - 1) |-> NoName]
            /\ datas' = [i \in 0..(hdr.shnum - 1) |-> 0]
            /\ pc' = "idle" /\ held' = {"elf"} /\ Acquire(hdr.shnum)
            /\ settled' = Contents'
            /\ answer' = [answer EXCEPT !.status = "ok"]

-----------------------------------------------------------------------------
(* Names and data.                                                         *)

DataOf(i) ==
  IF sections[i].type = Nobits \/ datas[i] = 0 THEN FreshData(i)
  ELSE Found(datas[i], sections[i].size)

KeepData(S) ==
  datas' = [i \in DOMAIN datas |->
              IF i \in S /\ DataOf(i).status = "ok" THEN DataOf(i).at ELSE datas[i]]

\* section::get_name
NameOf(i) ==
  IF names[i] # NoName THEN names[i]
  ELSE StrGet(AsStrtab(hdr.shstrndx, DataOf(hdr.shstrndx)), sections[i].name)

\* Mutant: the name is kept before it has been checked.
KeepNames_Unchecked(S) ==
  names' = [i \in DOMAIN names |->
              IF i \in S THEN [NameOf(i) EXCEPT !.status = "ok"] ELSE names[i]]

\* What is kept when the sections in S have been asked for their names: the
\* names, and the data of the table.
KeepNames(S) ==
  names' = [i \in DOMAIN names |->
              IF i \in S /\ NameOf(i).status = "ok" THEN NameOf(i) ELSE names[i]]
TableOf(S) ==
  {i \in {hdr.shstrndx} : sections[i].type = Strtab /\ \E j \in S : names[j] = NoName}

-----------------------------------------------------------------------------
(* The client's calls.                                                     *)

Ready == pc = "idle" /\ "elf" \in held

Answer(a) ==
  /\ answer' = a
  /\ pc' = IF a.status = "wild" THEN "wild" ELSE pc
With(a, r) == [a EXCEPT !.status = r.status, !.at = r.at, !.len = r.len]

\* elf::get_section and get_segment, by index.
GetSectionByIndex(i) ==
  /\ Ready
  /\ Answer([Asked("section_at", i, << >>) EXCEPT
               !.status = IF i \in DOMAIN sections THEN "ok" ELSE "invalid"])
  /\ UNCHANGED <<file, headers, caches, it, life>>

GetSegmentByIndex(i) ==
  /\ Ready
  /\ Answer([Asked("segment_at", i, << >>) EXCEPT
               !.status = IF i \in DOMAIN segments THEN "ok" ELSE "invalid"])
  /\ UNCHANGED <<file, headers, caches, it, life>>

GetName(i) ==
  /\ Ready /\ i \in DOMAIN sections
  /\ Answer(With(Asked("get_name", i, << >>), NameOf(i)))
  /\ KeepNames({i}) /\ KeepData(TableOf({i}))
  /\ UNCHANGED <<file, headers, segdatas, it, life>>

GetData(i) ==
  /\ Ready /\ i \in DOMAIN sections
  /\ Answer(With(Asked("data", i, << >>), DataOf(i)))
  /\ KeepData({i})
  /\ UNCHANGED <<file, headers, names, segdatas, it, life>>

\* segment::data
GetSegmentData(i) ==
  /\ Ready /\ i \in DOMAIN segments
  /\ \E r \in {IF segdatas[i] # 0 THEN Found(segdatas[i], segments[i].filesz)
                ELSE Load(segments[i].offset, segments[i].filesz)} :
       /\ Answer(With(Asked("segment_data", i, << >>), r))
       /\ segdatas' = [segdatas EXCEPT ![i] = r.at]
  /\ UNCHANGED <<file, headers, names, datas, it, life>>

\* as_strtab and get
GetString(i, offset) ==
  /\ Ready /\ i \in DOMAIN sections
  /\ Answer(With(Asked("string", i, <<offset>>), StrGet(AsStrtab(i, DataOf(i)), offset)))
  /\ KeepData({j \in {i} : sections[j].type = Strtab})
  /\ UNCHANGED <<file, headers, names, segdatas, it, life>>

\* elf::get_section, by name.  Sections are asked for their names in order, and
\* the first that has no name to give ends the search as well.
NamesNow == [i \in DOMAIN sections |-> NameOf(i)]
Passed(hits) == IF hits = {} THEN DOMAIN sections ELSE 0..Min(hits)

GetSection(name) ==
  /\ Ready
  /\ \E named \in {NamesNow} : \E hits \in {Hits(named, name)} :
       /\ IF hits = {} THEN Answer([Asked("get_section", 0, name) EXCEPT !.status = "invalid"])
          ELSE Answer([Asked("get_section", Min(hits), name) EXCEPT
                         !.status = named[Min(hits)].status])
       /\ KeepNames(Passed(hits)) /\ KeepData(TableOf(Passed(hits)))
  /\ UNCHANGED <<file, headers, segdatas, it, life>>

\* elf_loader::load.  No section is nullptr, and so is one without bits.
LoadSection(t) ==
  /\ Ready
  /\ \E named \in {NamesNow} : \E hits \in {Hits(named, Spelling[SectionName[t]])} :
       IF hits = {}
       THEN /\ Answer(Asked("load", 0, <<t>>))
            /\ KeepNames(Passed(hits)) /\ KeepData(TableOf(Passed(hits)))
       ELSE /\ Answer(With(Asked("load", Min(hits), <<t>>),
                           IF named[Min(hits)].status = "ok" THEN DataOf(Min(hits))
                           ELSE named[Min(hits)]))
            /\ KeepNames(Passed(hits))
            /\ KeepData(TableOf(Passed(hits)) \cup
                        {i \in {Min(hits)} : named[i].status = "ok"})
  /\ UNCHANGED <<file, headers, segdatas, it, life>>

-----------------------------------------------------------------------------
(* Symbols.                                                                *)

\* A symtab, its strtab, begin and end hold the file.
IteratorOwners == 4

\* section::as_symtab, begin and end.  The data of the section and its table of
\* strings are arguments of one call: either may be evaluated first.
SymtabStatus(first, data, strs) ==
  IF first = "data" THEN (IF data.status # "ok" THEN data.status ELSE strs.status)
  ELSE (IF strs.status # "ok" THEN strs.status ELSE data.status)
SymtabReached(first, data, strs, i) ==
  CASE first = "data" /\ data.status # "ok" -> {i}
    [] first = "strs" /\ strs.status # "ok" -> {sections[i].link}
    [] OTHER -> {i, sections[i].link}

NotSymtab(i) ==
  /\ Ready /\ i \in DOMAIN sections /\ sections[i].type \notin {Symtab, Dynsym}
  /\ Answer([Asked("symbols", i, << >>) EXCEPT !.status = "section_type_mismatch"])
  /\ UNCHANGED <<file, headers, caches, it, life>>

BeginSymbols(i) ==
  /\ Ready /\ "symbols" \notin held
  /\ i \in DOMAIN sections /\ sections[i].type \in {Symtab, Dynsym}
  /\ \E first \in {"data", "strs"}, data \in {DataOf(i)},
        strs \in {AsStrtab(sections[i].link, DataOf(sections[i].link))} :
       LET status == SymtabStatus(first, data, strs)
       IN  /\ Answer([Asked("symbols", i, << >>) EXCEPT !.status = status])
           /\ KeepData({s \in SymtabReached(first, data, strs, i) :
                          s = i \/ (s \in DOMAIN sections /\ sections[s].type = Strtab)})
           /\ IF status = "ok"
              THEN /\ it' = [data |-> data.at, pos |-> data.at,
                             end |-> (data.at + data.len) % Xword,
                             strs |-> strs]
                   /\ held' = held \cup {"symbols"} /\ Acquire(IteratorOwners)
              ELSE UNCHANGED <<it, life>>
  /\ UNCHANGED <<file, headers, names, segdatas>>

\* Mutant: all files have the symbols of 32-bit files.
Stride_Small(class) == Size(Sym(1))

\* symtab::iterator
Stride(class) == Size(Sym(class))

\* Mutant: references are given back twice.
Drop_Twice(what, n) == held' = held \ {what} /\ Release(2 * n)

Drop(what, n) == held' = held \ {what} /\ Release(n)

\* The body of a loop over symbols: *, sym::get_name, ++.  If it throws, the
\* loop is left.
NextSymbol ==
  /\ pc = "idle" /\ "symbols" \in held /\ it.pos # it.end
  /\ IF ~InFile(it.pos, Size(Sym(hdr.ei_class)))
     THEN /\ Answer([Asked("symbol", 0, << >>) EXCEPT !.status = "wild"])
          /\ UNCHANGED <<it, life>>
     ELSE \E sym \in {Canon(file.bytes, Order(hdr.ei_data), it.pos - Mapped, Sym(hdr.ei_class))} :
          \E name \in {StrGet(it.strs, sym.name)} :
            /\ Answer([With(Asked("symbol", 0, <<it.pos - it.data>>), name)
                         EXCEPT !.symbol = sym])
            /\ IF name.status = "ok"
               THEN it' = [it EXCEPT !.pos = (@ + Stride(hdr.ei_class)) % Xword] /\ UNCHANGED life
               ELSE it' = NoIterator /\ Drop("symbols", IteratorOwners)
  /\ UNCHANGED <<file, headers, caches>>

\* symtab::iterator::operator-=, back to a symbol that has been passed.
PreviousSymbol ==
  /\ pc = "idle" /\ "symbols" \in held /\ it.pos # it.data
  /\ it' = [it EXCEPT !.pos = (@ - Stride(hdr.ei_class)) % Xword]
  /\ answer' = Asked("back", 0, << >>)
  /\ UNCHANGED <<file, pc, headers, caches, life>>

\* The end of the loop, or a client that leaves it.
DropSymbols ==
  /\ pc = "idle" /\ "symbols" \in held
  /\ Drop("symbols", IteratorOwners) /\ it' = NoIterator
  /\ answer' = Asked("drop", 0, <<it.pos - it.data>>)
  /\ UNCHANGED <<file, pc, headers, caches>>

\* The client drops the file.
DropElf ==
  /\ Ready /\ Drop("elf", 1)
  /\ answer' = Asked("drop_elf", 0, << >>)
  /\ UNCHANGED <<file, pc, headers, caches, it>>

-----------------------------------------------------------------------------
Constructor == Map \/ Header \/ Segments \/ Sections

Client ==
  \/ \E i \in Indexes : GetSectionByIndex(i) \/ GetSegmentByIndex(i)
  \/ \E i \in Indexes : GetName(i) \/ GetData(i) \/ GetSegmentData(i)
  \/ \E i \in Indexes, offset \in Offsets : GetString(i, offset)
  \/ \E name \in Names : GetSection(name)
  \/ \E t \in Wanted : LoadSection(t)
  \/ \E i \in Indexes : NotSymtab(i) \/ BeginSymbols(i)
  \/ NextSymbol \/ PreviousSymbol \/ DropSymbols \/ DropElf

\* A constructor that threw leaves no file to ask, and so does dropping it.
Stopped == (pc \in {"failed", "wild"} \/ (pc = "idle" /\ held = {})) /\ UNCHANGED vars

Next == Constructor \/ Client \/ Stopped

Spec == Init /\ [][Next]_vars

-----------------------------------------------------------------------------
(* Properties.                                                             *)

\* Types.
TypeOK ==
  /\ file \in Files
  /\ pc \in {"map", "header", "segments", "sections", "idle", "failed", "wild"}
  /\ DOMAIN names = DOMAIN sections /\ DOMAIN datas = DOMAIN sections
  /\ \A i \in DOMAIN datas : datas[i] \in 0..(Xword - 1)
  /\ DOMAIN segdatas = DOMAIN segments
  /\ held \subseteq {"elf", "symbols"} /\ owners \in Nat /\ mapped \in BOOLEAN

\* While the client holds anything that can return a pointer into the file, the
\* file is mapped (elf++.hh:46-50).  When it holds nothing the mapping is gone,
\* also if the constructor threw: unless there are segments or sections, which
\* refer to the file that owns them and keep it for good (elf.cc:108-111).
MappedWhileHeld ==
  /\ held # {} => mapped
  /\ pc = "failed" \/ (pc = "idle" /\ held = {}) =>
       (mapped <=> DOMAIN segments \cup DOMAIN sections # {})

Wraps(place, size) == place + size >= Xword
TableSound(place, entsize, num, size) ==
  num # 0 => entsize >= size /\ entsize * num < Word \div 2 /\ ~Wraps(place, entsize * num)

\* What the library takes for granted of a file: no sum that wraps around,
\* tables of large enough entries, symbol tables of whole symbols with a table
\* of strings.
Sound ==
  /\ TableSound(hdr.phoff, hdr.phentsize, hdr.phnum, Size(Phdr(hdr.ei_class)))
  /\ TableSound(hdr.shoff, hdr.shentsize, hdr.shnum, Size(Shdr(hdr.ei_class)))
  /\ \A i \in DOMAIN segments : ~Wraps(segments[i].offset, segments[i].filesz)
  /\ \A i \in DOMAIN sections :
       /\ sections[i].type # Nobits => ~Wraps(sections[i].offset, sections[i].size)
       /\ sections[i].type \in {Symtab, Dynsym} =>
            sections[i].link \in DOMAIN sections /\ sections[i].size % Size(Sym(hdr.ei_class)) = 0

\* The client's offset of a string is so large that the sum wraps around.
StringWraps == answer.op = "string" /\ Wraps(FreshData(answer.section).at, answer.about[1])

\* In a file that is sound in this sense, nothing outside of it is read,
\* whatever else is wrong with it, and all data, names and strings that are
\* returned are parts of it.
InsideTheFile ==
  /\ pc = "wild" => ~Sound \/ StringWraps
  /\ pc = "idle" /\ answer.status = "ok" /\ answer.at # 0 /\ Sound /\ ~StringWraps =>
       InFile(answer.at, answer.len)

NoReply == [type |-> "none", data |-> NoName]

\* What a source of sections shows of the file.
contents == IF pc = "idle" THEN settled ELSE << >>
reply ==
  IF pc = "idle" /\ answer.op = "load"
  THEN [type |-> answer.about[1],
        data |-> [status |-> answer.status, at |-> answer.at, len |-> answer.len]]
  ELSE NoReply

Source == INSTANCE SectionSource WITH
  SectionTypes <- Wanted, Closed <- << >>, contents <- contents, reply <- reply

\* The loader that libdwarf++ has of an ELF file is a source of sections: what
\* load answers is settled by the file, and neither what the client or the
\* loader have asked for before, nor a call that threw half way, changes it
\* (dwarf++.hh:173-190, 1499-1515).
RefinesSectionSource == Source!Spec
=============================================================================
