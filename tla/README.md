# A verification project for libelfin

libelfin is a C++11 library that reads ELF files and the DWARF debugging
information in them: `src/elf/` is the ELF half, `src/dwarf/` the DWARF half,
`src/examples/` holds six small clients and `src/test/` compares the output of
those clients with golden files. This directory holds TLA+ models of the
library's logic, the TLC configurations that check them, and TLAPS proofs.

Nothing in libelfin starts a thread. What makes it hard to test is something
else: almost everything is read lazily, caches are shared by objects that call
each other in any order, every read may throw half way through a function, and
the data comes from a file that may be wrong. So the actors of the models are
iterators, units, maps and clients that share caches; the interleavings are the
orders in which a client may call them; and a failure is an exception that
leaves whatever had been written before it.

## Contents

1. Inventory of the system
2. Modules, and how they correspond to the code
3. Runs: what each one checks and shows
4. Proofs
5. What is only model-checked, and what is not modelled
6. Plan

## 1. Inventory of the system

| component | code | state | operations |
|---|---|---|---|
| line table | `dwarf/line.cc` | `file_names`, `file_names_complete`, `last_file_name_end` (shared by all iterators); per iterator `pos`, `regs`, `entry` | constructor, `begin`, `end`, `++`, copy, `find_address`, `get_file` |
| small_vector | `dwarf/small_vector.hh` | `base`, `end`, `cap`, the inline buffer, a heap block | constructors, copy, move, assignment, `push_back`, `pop_back`, `reserve`, `clear`, `operator[]`, `revat`, `back`, destructor |
| expression evaluator | `dwarf/expr.cc` | the stack of values, the position in the expression, the kind of location found | `expr::evaluate`, `expr_context::{reg, deref_size, xderef_size, form_tls_address}` (supplied by the client) |
| DIE trees | `dwarf/die.cc` | per DIE `offset`, `abbrev`, `attrs`, `next`; an iterator is a DIE | `die::read`, `begin`, `++`, comparison, `operator[]`, `resolve` |
| name index | `dwarf/die_str_map.cc` | `pos`, `end`, the map `str_map` | constructor, `operator[]`, `from_type_names` |
| units and abbreviations | `dwarf/dwarf.cc`, `dwarf/abbrev.cc` | `abbrevs_map`, `abbrevs_vec`, `have_abbrevs`, the cached root and type DIEs, the line table | `root`, `type`, `get_abbrev`, `force_abbrevs`, `get_line_table` |
| the DWARF file | `dwarf/dwarf.cc` | `sections`, the lists of units, `type_units`, `have_type_units`, the byte order | constructor, `get_section`, `get_type_unit` |
| cursor, sections, forms | `dwarf/internal.hh`, `dwarf/cursor.cc` | a position in a section | `fixed`, `uleb128`, `sleb128`, `offset`, `initial_length`, `string`, `subsection`, `skip_form`, `slice` |
| attribute values | `dwarf/value.cc`, `dwarf/abbrev.cc` | `form`, `typ`, `offset` | one accessor per class of value, `resolve_indirect` |
| range lists | `dwarf/rangelist.cc` | the section or the synthetic section, `base_addr`; per iterator `base_addr`, `pos`, `entry` | constructors, `begin`, `end`, `++`, `contains` |
| attribute fetchers | `dwarf/attrs.cc` | none | one function per attribute, `die_pc_range` |
| ELF files | `elf/elf.cc`, `elf/data.hh`, `elf/common.hh` | header, sections and segments, lazily read names and data, references to the file | constructor, `get_section`, `get_segment`, `get_name`, `data`, `as_strtab`, `as_symtab`, iteration over symbols |
| loaders | `elf/mmap_loader.cc`, `dwarf/elf.cc`, `dwarf++.hh` (`elf_loader`) | the mapping, its size | `load`, `section_type_to_name`, destructor |
| enumeration names | `elf/enum-print.py`, `elf/to_hex.hh` | none | generated `to_string` |
| examples, tests | `examples/`, `test/` | none | clients of the above |

How they interact. The **DWARF file** asks a **loader** for a section the first
time somebody needs it and caches it. Its constructor walks `.debug_info` and
creates the **units**; type units wait until a DIE refers to one. A unit reads
its **abbreviations** when the first **DIE** of it is read. A DIE iterator steps
over attributes with **skip_form** and over subtrees with iterators nested in
itself. The **name index** drives such an iterator from look-up to look-up,
while its client drives others in the same unit. An attribute **value** leads to
other DIEs, to a **range list**, to an **expression** (whose stack is a
**small_vector**) or to the unit's **line table**, whose iterators share one
table of files that each of them extends.

Hard behaviours and the properties that make each part correct:

* **Line table.** Every iterator, `get_file` and `find_address` execute the same
  `define_file` opcodes, in any order and repeatedly, and an exception may end
  any of them between two writes. *The shared table must hold each file once, in
  section order, never lose or move one, and be called complete only when it is;
  iterators must behave as positions in one list of rows; calls end.*
* **small_vector.** Storage moves between the object and the heap, is handed
  over by moves, and allocation may fail. *No block is leaked, shared or deleted
  twice, and a vector is a sequence of values whatever its storage.*
* **Expressions.** Some 150 opcodes over wrapping words; each checks a number of
  values and then reaches some way down the stack. *The checks cover every
  access, evaluation agrees with the value of the term that was compiled, and it
  ends unless the expression jumps backwards.*
* **DIE trees.** `++` has three ways to the next sibling, which must agree on
  every shape of tree; caches are installed before they are filled. *Iterators
  are positions in one fixed list of siblings, unless reading threw, and only
  malformed entries make it throw.*
* **Name index.** Look-ups share an iterator and an index. *It holds children of
  its parent under their names, and a miss means that no child has the name.*
* **DWARF file.** Lazy caches filled in any order, by calls that may fail half
  way. *A section is loaded once; units are read back as they were encoded; what
  a call answers depends on the file and not on the calls before it.*
* **Values.** Each form has a size in `skip_form`, a type in `resolve_type` and
  an accessor that reads it, in three files. *What a client fetches is what was
  encoded; references, `resolve` and dynamic values lead where they were made
  to; nothing behind a unit is returned.*
* **Range lists.** Base address entries, the end of a list, lists in memory read
  by the same code. *An iterator is a position in a fixed list of ranges, and
  `contains` is about all of them, wherever the list comes from.*
* **ELF.** Headers in four encodings; names and data read lazily by any of six
  operations that may throw half way; sums of offsets that wrap around; sections
  that refer to the file which owns them. *An opened file answers as it was
  encoded, whatever was asked before; nothing outside of it is read, unless it
  lies in a way the library does not check; it is mapped for as long as anyone
  holds it; and the loader made of it is a source of sections whose answers are
  settled.*

`PROJECT.json` lists the hazards one by one, each with its line and the
properties that would catch it.

## 2. Modules, and how they correspond to the code

Each component has a detailed module (state, one action per operation or step),
where it makes sense an abstract specification that it implements, an `MC`
module with the instances for TLC, and a `Proofs` module. `PROJECT.json` maps
every definition to its lines.

### Line table: `LineProgram`, `LineTable`, `ProgramRows`, `LineRows`, `LineIterators`, `MCLineTable`, `LineTableProofs`

`LineProgram` holds the pure part: what an opcode does to the registers
(`line.cc` 306-451), the reset behind a row and behind a sequence, and the
header's fields. `LineTable` is the class: `file_names`, `file_names_complete`
and `last_file_name_end`, one record (`pos`, `regs`, `entry`) per member of
`Iterators`, and `call`, the operation that is running. A `++` is one action per
opcode (`StepOpcode`, `StepDefineFile`, ...) until one emits a row and
`FinishRow` stores the position; `get_file` and `find_address`, which are loops
around `++` in the code, go on with `GetFileNext`, `FindFirst` and `FindScan`
after each. `LineRows` is the abstract specification: a fixed list of rows, and
iterators that are positions in it. `ProgramRows` has the rows of a section
without executing anything: each register is the sum or the latest of what the
opcodes of the sequence, or behind the previous row, say (`SumFunction`, no
recursion, so that it can be proved about). `LineIterators` puts the three
together: the position of an iterator as the number of a row.

Abstractions: the section is a sequence of decoded opcodes, so offsets count
entries, not bytes; `header_length` leads to the first opcode and `opcode_base`
is at least 1; the padding behind an extended opcode, which the code executes
(`line.cc` 433 advances the wrong variable), is just more opcodes. Addresses wrap
at `AddrMod`, unsigned registers at `UintMod`. `entry.file`, a pointer into a
vector, is the index and the capacity of the buffer it was taken from.

### small_vector: `SmallVector`, `VectorSpec`, `MCSmallVector`, `SmallVectorProofs`

`SmallVector` has one action per member function, for a fixed set of objects
(`Vectors`) and of heap blocks (`Buffers`). An object exists or not; `base` is
its own inline storage or a block. Allocation may fail at any time, which ends
the operation at `new[]` with what was done before it. `PushOwn` is `push_back`
with a reference to an element of the same vector (`DW_OP_dup`): when the vector
grows from a block, the element is read from deleted memory and may be any
value. `VectorSpec` is the abstract specification: independent sequences.
Elements have no constructors or destructors of their own, as in all uses in the
library.

### Expressions: `Expr`, `MCExpr`, `ExprProofs`

`Expr` is `expr::evaluate` over bytes: `prog`, `pos`, `stack` with its capacity,
and the result (`kind`, `value`, and in `pc` how the call ended; `"wild"` when
it has touched what is neither stack nor expression). One action per group of
opcodes that share code (`StepPush`, `StepRearrange`, `StepOperator`,
`StepJump`, `StepLocation`), and words of `W` bits so that wrap-around, shifts
and sign extension are real (`TwoTo` and folds; `W` is at least 8). The methods of the
context are constant operators, and a set `Contexts` says which of them throw;
`ContextReturnsWords`, a hypothesis of `TypeCorrect` and not an assumption of the
module, is that they return words, as their C++ types have it. `MCExpr` compiles terms to bytes
and defines their values independently; `AgreesWithTerms` compares. `AddrSize`
is the size of an address operand, `StackMin` the inline capacity of the stack.

Left out: big-endian operands, LEB128 numbers longer than a word.

### DIEs, abbreviations and the name index: `Unit`, `DieTree`, `DieStrMap`, `Siblings`, `Brackets`, `DieSiblings`, `MCDieTree`, `DieTreeProofs`

`Unit` is the lazily read table of abbreviations (`force_abbrevs`, `get_abbrev`:
map or vector) and `die::read` with every exception it can throw. `DieTree` is a
client with iterators and a DIE: `root`, `type`, references within the unit,
`begin`, copies, `++`. A `++` over children without `DW_AT_sibling` recurses in
the code; here the nested iterators are the explicit stack `subs`, so each
level's progress is a step. A DIE whose `next` was never written holds
`Garbage`. `DieStrMap` adds the name index, which owns the iterator `pos` and
runs in the same unit as the client. `Siblings` is the abstract specification: a
tree is a list of entries read as brackets (`Brackets`: how deep an entry is
nested, which entry closes a list), an iterator is a position among siblings, or
`Lost` after a `++` that threw, about which the documentation says nothing. A
root or type DIE that could not be read, or is a terminator, is handed out all
the same (`Get`). `DieSiblings` has the refinement mapping and what the name
index promises in terms of that tree; the theorems and the run speak of the same
definitions.

Abstractions: offsets count entries; an attribute is what reading it needs
(its form's size, or that it has none: `ref8` is the one form the table admits
and `skip_form` does not know); `Tags` are those of the abbreviations. The sibling
attributes of the units are correct where they are present: they lead behind the
subtree (`SiblingsAssumption`). The library trusts them without a check.

### The DWARF file: `UnitHeaders`, `DwarfFile`, `MCDwarfFile`, `DwarfFileProofs`

`UnitHeaders` is byte-level: guessing the byte order from the first version field,
initial lengths of 32 and 64 bits with the reserved values, headers of
compilation units of versions 0 to 5 and of type units. A byte has `Base` values
(256 in the code); a number is what `Numerals` makes of its bytes. A length that
leads behind the data is not checked by the code, so what is read there is
`"wild"`. `DwarfFile` is the class: the constructor
(`LoadInfo`, `LoadAbbrev`, `NextUnit`, `LastUnit`), the section cache,
`get_type_unit` with its partly filled map, `root` (`ReadRoot`) and
`get_line_table`. The loader may throw whenever it is asked. What
`get_line_table` needs of the root DIE (its name, directory and
`DW_AT_stmt_list`) is part of the file, and so is whether the root can be read to
its end. `root` puts the DIE in its place before it reads it; `half_roots` are the
units whose root is there although reading it has thrown, so that the next call
goes on with it (`RootThrows`, `InstallRoot`). An attribute of such a root that was
never read (`Lost`) may give a table, an exception or a read from anywhere.

Left out: headers of version 5 units other than full and partial ones.

### Values and range lists: `Forms`, `Values`, `RangeList`, `PcRanges`, `Ranges`, `ListRanges`, `MCPcRanges`, `PcRangesProofs`

All over bytes. `Forms` is pure: what a cursor reads from a section,
`skip_form`, `resolve_type`. A section may claim to end behind its bytes (a unit
whose length is not checked, the slice of `.debug_ranges`); reading there is
`"wild"`. `Values` is a client of DIEs: it comes to a DIE (`Locate`), fetches an
attribute (`Fetch`), reads it with any of the accessors (`Convert`), follows it
(`Follow`), asks `resolve` (`AskResolve`) or for a dynamic value, whose chase of
references is one step per DIE (`DynamicStep`). `RangeList` is the list and its
iterator; `begin`, `++` and `contains` are one loop over entries, an action per
kind of entry (`CannotRead`, `EndOfList`, `BaseAddress`, `RegularEntry`), and
`run` is the loop in progress. `PcRanges` composes them: `die_pc_range` makes
the list from the attributes a DIE has, with the low address of the unit's root
as base. `Ranges` is the abstract specification: a sequence of ranges, a
position in it. `ListRanges` has the refinement mapping. It says from the bytes,
without going through them, what the ranges of a list are: the entries in front
of the first end that do not set the base, each relative to the last one in front
of it that does. A list that cannot be read to an end (`Terminated`), or has
addresses of 4 bytes, promises nothing (`Exact`). `ListRanges` also has
`InsideTheSections`: where, in any file, memory outside of a section is read at all.

`file` is the file that is read and never changes. An exception is a status of a
reading, and `Then` passes it on to the caller. Base 12 as in `UnitHeaders`. The
shift of an `int` by 32 bits, which is undefined, may yield 1 or 0
(`LargestOffset`).

Abstractions: LEB128 numbers longer than a word and block lengths that wrap
around a pointer are left out; DIEs are read where the unit has them (`DieTree`
has the walk and the half-read root). Behaviour that is modelled and against
which no documentation speaks: a pair <0, 0> in a list made from pairs ends it
early, and one whose low end is the largest address changes its base.
`FilesAssumption` is what the library takes for granted: sections of bytes,
abbreviations with forms that `resolve_type` knows (others throw when they are
read, see `Unit`), a first compilation unit at the start of its section. Not
modelled: a copy of a list in memory keeps reading the vector of the original.

### ELF files and their loaders: `Numerals`, `ElfData`, `ElfFile`, `SectionSource`, `MCElfFile`, `ElfFileProofs`

`ElfData` is pure: the layouts of the header, of segments, sections and symbols
in both classes, and the canonical form (`canon_hdr` and the `from` functions),
which reads each field in the byte order of the file; `link` loses its upper
half on the way (`CanonShdr`). `ElfFile` is one file and its client. The
constructor is four steps (`Map`, `Header`, `Segments`, `Sections`), each of
which may throw (`Refuse`); the client's calls are one action each
(`GetSectionByIndex`, `GetName`, `GetData`, `GetSegmentData`, `GetString`,
`GetSection`, `BeginSymbols`, `NextSymbol`, ...), with the caches `names`,
`datas` and `segdatas` they fill. `NameOf` and `DataOf` are what a section
answers with its caches as they are, `FreshNames` and `FreshData` what it
answers without any. `LoadSection` is `elf_loader::load` with the table of
section names (`SectionName`). `owners` counts the references to `elf::impl`
(the client's, one per segment and per section, an iterator's), and the mapping
goes with the last one (`Release`). `SectionSource` is the abstract
specification, what libdwarf++ expects of a `dwarf::loader`: what it answers for
a section never changes. It is also what `DwarfFile` assumes of its loader
beyond that a load may throw at any time.

Abstractions: an address is a number of 64 bits, the file is mapped at the
constant `Mapped` and nothing else is; reading outside of it is `"wild"`, and
nothing is said of what follows. The mapping ends at least one word (2^32) below
the top of the address space (`FilesAssumption`), so that the offset of a name,
a word, never wraps around when it is added to an address in the file; the
offsets that a client gives may. The product of entry size and number of entries
is an `int`: where that overflows, it may be the product or what sign extension
makes of it (`TableBytes`). Data and table of strings are arguments of one call
in `as_symtab`, so either may be read first. `settled` is a history variable for
the refinement mapping: what there is to load, as of the constructor. Temporary
handles, the file descriptor, and bytes that are only copied (the magic number,
padding) are left out; the copy of the file in `elf_loader` counts as the
client's. There is no extended numbering of sections because the code does not
know it.

### `Numerals`, `NumberLemmas`

`Numerals` has the number that a sequence of digits makes, which `ElfData`,
`ElfFile` and `UnitHeaders` rest on. `NumberLemmas` proves that it is a natural
number and how it grows by a digit, and has what the other proof modules cite in
the place of induction: `Least`, a set of natural numbers has a least element,
`StepsExist`, a function defined by its first value and by steps exists, sums over
finite sets, and powers of two.

## 3. Runs: what each one checks and shows

| run | module | distinct states | shows |
|---|---|---|---|
| `line_table` | `MCLineTable` | 145,093 | file table exact, stable and honest about completeness; rows as positions in one list; calls return |
| `small_vector` | `MCSmallVector` | 2,656 | no block leaked or shared; vectors are sequences |
| `expr` | `MCExpr` | 60,430 | checks cover accesses; values agree with terms; evaluation ends |
| `die_tree` | `MCDieTree` | 153,582 | abbreviations, iterators and name index on 17 units |
| `dwarf_file` | `MCDwarfFile` | 10,002 | units, type units, line tables and the section cache on 34 files |
| `values` | `MCPcRanges` | 28,980 | values, references and range lists on 42 files |
| `elf_file` | `MCElfFile` | 92,369 | headers, names, data, strings, symbols and life time of 31 files; loads are settled |
| five `violation` runs | | | where code and documentation disagree, below |

**line_table**: 18 sections, 6 well-formed and 12 not, and two iterators. Between
them the sections use every opcode, `define_file` before, between and behind rows,
several sequences at descending addresses, three operations per instruction, a
bad directory index in the header and in the program, an `opcode_base` below and
above 13, a program without a row at its end and one that is empty.
Two iterators are enough for each to run ahead of the other and to be copied
over; files are looked up by the indexes 1 to 3 of at most 2 that exist, so a
look-up behind the end occurs.
`FileTableExact`: the table is the file entries up to `last_file_name_end`,
those with a bad directory left out. `CompleteMeansAllFiles`,
`OutOfRangeIsFinal`: a look-up that threw `out_of_range` was right and stays
right. `FileIndexesAreStable`: no step changes a file in the table.
`RefinesLineRows`, `CallsReturn`: as above.

**small_vector**: two vectors and three blocks (a vector that grows needs two at
a time), inline capacity 2 and sizes up to 5, so capacities go through 2, 4 and
8: inline, the first block, a block that replaces a block. `BuffersOwned`: each
allocated block belongs to exactly one existing vector. `SizesAgree`,
`RefinesVectorSpec`. The types of the variables are proved (`TypeCorrect`)
rather than checked. Values, vectors and blocks are symmetric.

**expr**: about 1400 compiled terms (each operator over boundary values, of the
comparisons only `<=`; nested, conditional, deeper than the stack's inline
capacity), all sequences of up to three of ten bytes, and all kinds of locations; zero to two arguments; a context
that knows everything and one that knows nothing. Words of 12 bits are wider
than a byte, so each sign extension differs from the word; 12 is not a multiple
of 8, so nothing fits by accident. `ChecksSuffice`: no value outside of the
stack is touched, except by `DW_OP_pick` (section 5). `AgreesWithTerms`, where of a
division only is said that the result is the quotient of its operands, rounded
towards zero, one way or the other, since the code divides the wrong way round
(finding 3) and the other five comparisons are `<=`. `Terminates` (expressions
without backward jumps).

**die_tree**: `MapSpec`, the name index and its client, on 7 well-formed units,
of all shapes of trees with and without sibling attributes, and 10 with an entry
or an abbreviation that cannot be read or that are cut off; a client's iterator,
a client's DIE, and a name index with an iterator of its own. `LookupExact`:
once read, the table returns the last entry of a code and none for others.
`IndexExact`: what the index holds are children under their names.
`MissesAreRight`: after a miss no *later* child has the name (the first is a
finding). `ThrowsJustified`: only malformed entries throw. `CallsReturn`,
`RefinesSiblings`.

**dwarf_file**: both byte orders times three lists of units (one, one of each
version and size of length, one longer) times lists of type units, 4 files that
lack a section, 10 malformed, 2 cut off; a loader that may fail at every load;
signatures of the file and a foreign one. The root DIEs can be read, can be read in
part (as far as a line table needs them, or not so far), or cannot be read at all.
`LoadedOnce`; `UnitsExact`, `TypeUnitsExact`: answers are a function of the file,
whatever failed before. `LineTablesExact`: a line table is missing for a reason in
the file, and there is one only after a call has thrown at a root that cannot be
read to its end; what is in a table made of attributes that were never read is left
open. `CallsReturn`. Base 12 keeps an 8-byte number within
TLC's integers and still makes the two byte orders differ.

**values**: 8 well-formed files (both byte orders and both formats, addresses of
2, 4 and 8 bytes, with and without a low address of the root; two compilation
units and a type unit), whose DIEs have an attribute of every form but `ref8`,
which `skip_form` does not know, `DW_FORM_indirect` once and twice, references
of all kinds, loops of references, and all ways of saying where code is; and 34
damaged ones: cut off at every fifth byte of the first unit, without strings or
ranges, with lists that do not end, an impossible address size, a `ref8`. Files
are encoded from descriptions, and the properties speak of the descriptions:
`ValuesExact` (every attribute has its type and position, and an accessor
documented for the type returns the content; of a value with `DW_FORM_indirect`
nothing is said but its type and position, as the code refuses it, section 5),
`FollowsExact`, `ResolveExact`, `DynamicExact`. In any file, `LoopsEnd`, of lists
that come to their end `RefinesRanges`, and `InsideTheSections`: memory outside of a
section is read only for strings, in units that claim to be longer than the file
and, by the loops over entries, in lists of `.debug_ranges` that do not end there; `ValuesExact` also says that the ranges it is
about are those of the description. The four lists have ranges that are empty and
overlap, none and two new bases in a row; `contains` is asked for addresses at
their boundaries and outside.

**elf_file**: 6 well-formed files (without sections in two encodings; all four
combinations of class and byte order with two segments and six sections: the
null section, two of one name, symbols, one without bits, strings that are the
ends of others) and 25 damaged ones: a wrong byte in each field of the
identification, cut off at five places, headers and sections that lie about
entry sizes, indexes, offsets that wrap, names, links and symbol tables that are
not whole. The client asks for indexes inside and behind the tables, names that
exist and do not, offsets within a string, at the end of the table and near the
largest address, and two DWARF sections, one of them without bits; it may drop
the file and an iterator in either order. Base 12 again: `Xword` is 12^8, so
that sums of two such numbers fit TLC's integers. `AnswersExact`: well-formed
files give back their description. `InsideTheFile`: nothing outside of a `Sound`
file is read; `Sound` names what the code takes for granted and never checks (no
sum of an offset and a size wraps, header tables have entries of at least their
type's size, symbol tables are whole and linked to a section); among the damaged
files are some where the code does leave the file. `MappedWhileHeld`: the
mapping outlives every holder and goes with the last one, unless there are
segments or sections, which keep the file alive for good.
`RefinesSectionSource`: as above, also for damaged files.

Findings (each is a run that TLC finds violated, quoted in `PROJECT.json`):

1. `find_address_row` — `find_address` never compares the last row with its
   successor (`line.cc` 172), because the end of the last opcode is the position
   of `end()`.
2. `found_file` — the row that `find_address` returns may point to a file in a
   buffer that has been reallocated (`line.cc` 292).
3. `expr_operators` — `DW_OP_div` divides the top by the value below it (`expr.cc`
   234), and all six comparisons compute `<=` (`expr.cc` 323): 12 / 3 + (5 >= 3) is
   0, and would be 1 or 4 with either alone. These are two findings.
4. `range_base` — the marker of a base address entry is computed with a shift by
   32 for 4-byte addresses, so such entries are not recognised (`rangelist.cc`
   72).
5. `index_first_child` — the name index never indexes the first child
   (`die_str_map.cc` 101).

### Fairness

All code runs in the calling thread, so a call that has begun continues until it
returns, throws or loops. That is weak fairness on the steps inside calls, and
only on those: `WF` on the library's steps in `LineTable`, `DwarfFile` and
`Expr`, on `MapWalk`, `Scan` and `Examine` in `DieStrMap`. Nothing is assumed
of the client: it may stop calling, and the actions that start calls are not
fair. `ElfFile` states no fairness: each of its calls is one step, and the loop
over symbols is the client's.

`CHECK_DEADLOCK FALSE` is set for the runs of `Expr` only: an evaluation that has
returned stops. A client of `ElfFile` whose constructor threw, or that has dropped
everything, has nothing left to ask: that end is the stuttering action `Stopped`.

## 4. Proofs

`tlapm` checks every proof from nothing; the theorems hold for all values of the
constants that satisfy the named assumptions.

* `LineTableProofs`: `TypeCorrect`, `FileTableCorrect`, `CompleteCorrect`,
  `FileIndexesStable`, `OutOfRangeFinal`. The invariants are not inductive alone:
  that the table is exact after an iterator's step depends on the iterator not
  having skipped entries nobody has read. `IInv` adds `HeaderRead` (the header's
  entries are in the table before any operation), `TableWalked` (an iterator
  other than `end()` has walked what is before it, so entries before it have been
  read) and `CursorWalked` (the same for the running call). Theorem `Invariance`
  has one step per action. For `OutOfRangeFinal`, `LookupInv` adds that the loop
  of `get_file`, once at the end, has read everything (its iterator may not have
  started there), and `AllFilesCounted` that the table is then longer than the
  section has good entries.
  `Refinement`: `LineTable` implements `LineRows`. The first part is about
  programs alone. What one more opcode does to each register is what it adds to
  the sets that `ProgramRows` takes the register from (`LinesMore`, `AddressMore`,
  `RegistersMore`; the address is the hard one, since the code wraps and divides
  at every step and the definition once). `RowIsExecuted` puts the registers
  together, over the ends of rows and of sequences (`After`). `RowNumbers`: the
  rows are in the order of their opcodes. The second part is the invariant
  `PlacesInv`: an iterator of the client that has not thrown is at the row its
  position names, with the registers of that place, or at none; the one a `++`
  advances has not stepped, is between two opcodes of the same row, or has come
  to the next one; and `find_address` has tried all rows before `prev`. The third
  maps the steps (`StepMaps`, a lemma per operation). `ThrowsMalformed` is why
  only a malformed program can make a `++` throw: the files a row may name are
  all read when it looks its file up (`RowsFileKnown`).
* `SmallVectorProofs`: `Ownership`, `Sizes`, `TypeCorrect`, and `Refinement`,
  that the detailed specification implements `VectorSpec`. `IInv` is the
  conjunction of `TypeOK`, `BuffersOwned`, `SizesAgree` and `Spare` (storage
  that no vector uses holds no elements); the lemma `SettleOK` covers every
  operation that ends by giving a vector storage.
* `ExprProofs`: `ChecksSufficeAlways` and `TypeCorrect`, for all expressions,
  arguments, contexts and widths. `IInv` adds that `prog` is a sequence of bytes and that `pos` is a
  natural number or the expression has a jump (whose operand may lead before the
  start). A step is split by opcode group. For `TypeCorrect`, `Typed` is `TypeOK`
  and that the stack has a capacity; the work is that every operator makes a
  word of words, whatever its operands, down to the bits of `and` and the signs of
  `div` and `shra`.
* `DieTreeProofs`: `LookupCorrect`, `TypeCorrect`, `Refinement` (of `Siblings`),
  `ThrowsOnlyWhereBlocked`, `IndexCorrect` and `MissesCorrect`, for all units and
  any interleaving of a client and a name index.
  `IInv` says that the table of abbreviations is untouched or what
  `force_abbrevs` makes of an untouched one; the point is that a call that failed
  and started again over its leftovers makes the same table.
  For types, `TreeInv` adds that every DIE anyone holds is `Held`: it is what
  reading its entry gives, or it stands at an entry that cannot be read or behind
  the unit, and then it has the attributes of the last entry that could.
  For the refinement, `Reached` says that a walk has come from one entry to
  another, so many lists down, without leaving the list of the first. `ChainInv`
  is that the innermost of the nested iterators is `Inside` the list of the entry
  that `++` started at, as many lists down as there are nested iterators. One
  step over an entry keeps that (`ReachedStep`), a sibling attribute skips a whole
  list (`SiblingsAssumption`), and when the last nested iterator comes to its end,
  depth is back where it started: the entry behind is the next sibling, whichever
  of the three ways led there. `CacheInv` is for roots that could not be read.
  For the index, `IndexInv` says that `pos` is at a child, that the index holds
  children under their names, and that it has the names of all children `pos` has
  `Passed`, but the first; `LookupInv` says the same of the look-up under way and
  `CallInv` who may be at work.
* `DwarfFileProofs`: `LoadsOnce`, `TypeCorrect`, `UnitsCorrect`,
  `TypeUnitsCorrect`, `CursorAdvances` and `LineTablesCorrect`, for all files,
  well-formed or not. For `LoadsOnce`, `IInv` ties the count of loads to membership
  in the cache. The rest starts from the headers: a unit that is accepted ends
  behind its header, whatever length it claims, because its fields had to fit
  (`CompilationUnitIs`, `TypeUnitIs`); that is `CursorAdvances`, and it keeps the
  cursor a natural number. `Chain` says that units are the first of a section,
  each read where the one before ends, and `OneChain` that all units of a section
  are one sequence. A file that is open has it (`UnitsCorrect`). For type units,
  `ReadInv` says that the map is `Partly` filled: with the units this call has
  come to, and with leftovers of calls that failed, which are of units it has yet
  to come to. When the call is at the end, nothing is left over, and what it
  answers is about all units of the section. For line tables, `LinesInv` is that what
  is cached is in the file, that units with a line table have what it takes, and that
  a root that could not be read to its end was noticed by an earlier call.
* `ElfFileProofs`: `Refinement`, `TypeCorrect`, `MappingLives` and `StaysInside`,
  for all files. `Refinement` is that a loader made of an ELF file implements
  `SectionSource`. The argument: a cache that is filled holds what reading again
  would give (`NamesRight`, `DatasRight` of `IInv`), so `NameOf` is `FreshNames`
  and `DataOf` is `FreshData` whatever was asked before, and what `load` answers
  is `settled` since the constructor. The lemmas `KeepNamesOK` and `KeepDataOK`
  say that no call breaks this, whichever sections it reached before it threw.
  For `TypeCorrect` and `MappingLives`, `LifeInv` counts the references one by one
  (`Counted`: the constructor's or the client's, one of each segment and section,
  an iterator's; the file is mapped exactly if there are any) and says that what
  was read are numbers that fit where they are used. `StaysInside` is
  `InsideTheFile`: `PlaceInv` adds where an iterator over symbols is, inside of a
  table that is in the file. The argument is about sums that do not wrap:
  `Sound` says so of the sums of a header, `FilesAssumption` of the names.
* `PcRangesProofs`: `InsideAlways`, `LoopsAlwaysEnd`, `TypeCorrect` and
  `ListRefinement`, for all files, well-formed or not. Most of it is about what the reading operators
  return: a reading is `Safe` when it ends in a known way and is `"wild"` only in
  a unit that claims more than the file has. That goes from cursors (`FixedIs`,
  `AddressIs`, `LebIs`) over `skip_form` (`SkipFormIs`; `CodesExist` shows that a
  chain of `DW_FORM_indirect` is finite, as its codes lead forwards) to DIEs
  (`PositionsAre`, `ReadDieIs`) and to the methods, with strings as the exception
  (`AsCStrIs`). `Inv` then is `AnswersInside` and: what the client holds is in
  the file (`ValueInv`); a chase of dynamic values runs alone (`WalkInv`); a loop
  over a list is never in front of its iterator's entry, and a list without a
  section has neither a loop nor an iterator that could start one (`ListInv`).
  `NextKeeps` has a lemma per action and yields `MovesOn`, the action of
  `LoopsEnd`, with it.
  `ListRefinement` (`RefinesRanges`): first that the entries of a list that can be
  read are one behind the other (`EntryIs`), how base address and number of ranges
  change from one to the next (`BaseNext`, `UpToNext`), and that the ranges are a
  sequence with nothing else in it (`NumberOfRange`, `RangesAre`). The invariant
  `RangeInv` then says that the client's iterator is at the range of an entry, with
  the base address of that place, in front of all or behind them, and that a call
  that goes on has passed some entries: `begin` no range, `++` none behind its
  iterator, `contains` none with its address. Every step of the loop is a step of
  `Ranges` or a stutter (`ReadingMaps`, one case per kind of entry). The same
  lemmas on entries, which hold for addresses of any size, give the part of
  `InsideAlways` that is about lists: in one that comes to its end, the cursor is
  always at the border of an entry in front of the end (`PlaceInv`), so that it can
  be read.

## 5. What is only model-checked, and what is not modelled

Out of the prover's reach: liveness under fairness and `ENABLED` (`CallsReturn`,
`Terminates`), and induction over data with a theorem of the library,
which takes an operator as its parameter. Where a function is concrete, the least
argument at which a claim fails does instead (`Least`); so the numbers of an ELF
file and the depth of entries are proved about. It does not help where the
definition a property compares with is itself recursive over terms, units or
rows: `AgreesWithTerms`, `UnitsExact` and `TypeUnitsExact` (what of them does not
need an encoder is `UnitsCorrect` and `TypeUnitsCorrect`),
`ValuesExact` and `AnswersExact` stay with TLC.

Known behaviour without a property, since no documentation or test says what
should happen: division by zero and of the least integer by -1; a `++` after a
`++` that threw; `root()` and `type()` returning a half-read DIE on the second
call, and `get_line_table` making a table of it, if need be from positions that
were never written (`LineTablesExact` leaves open what comes of that); children of the same name replacing each other in the index; `get_section`
by name throwing because of a section it passes on its way (`elf.cc` 143).
Disagreements with the documentation without a run of their own: `get_type_unit`
throws `format_error` and not `out_of_range` in a file without `.debug_types`;
the block of `DW_OP_implicit_value` is executed; `DW_OP_pick` of the size of the
stack reads below it instead of throwing (`expr.cc` 155, an exception in
`ChecksSuffice`); every accessor throws `value_type_mismatch` for a value with
`DW_FORM_indirect`, because `resolve_indirect` assigns the form to a local variable
(`value.cc` 278), where `dwarf++.hh` 527-530 gives that exception to attributes that
are not of the requested type; a DIE with a `DW_FORM_ref8` cannot be read
(`skip_form`, `cursor.cc` 114-197), although `abbrev.cc` 97 and `value.cc` 178 know
the form; a list of `.debug_ranges` that has no end is read behind the section
(`internal.hh` 78 bounds a slice by the length of all of it), which
`InsideTheSections` allows in such lists only.

`evaluate(ctx)` without arguments, which `dwarf++.hh` 747 offers, counts a null
pointer down and faults (`expr.cc` 45; `Start` models it, `AgreesWithTerms`
speaks of calls with arguments). `mmap_loader::load` does not throw when the sum
of offset and size wraps (`mmap_loader.cc` 48 against `elf++.hh` 133), and
`strtab::get` neither (`elf.cc` 317 against `elf++.hh` 314): exceptions in
`InsideTheFile`. A file with segments or sections is never unmapped, as they
refer to the file that owns them, also after a constructor that threw (`elf.cc`
108, whose comment knows of the circle). When mapping fails, the file descriptor
stays open (`mmap_loader.cc` 35 against `elf++.hh` 142; descriptors are not
modelled). The rest of an extended opcode is executed (`line.cc` 433, see
`LineTable` above).

Not modelled for good: the generated `to_string` functions and `to_hex` (text
only), the build files, the examples (callers), the tests (golden output).

## 6. Plan

In order:

1. *done* `LineTable`, `SmallVector`, `Expr`, `DieTree` with `DieStrMap`,
   `DwarfFile`: the parts with state that is shared or outlives a call.
2. *done* `Forms`, `Values`, `RangeList`, `PcRanges`: what a client reads.
3. *done* `ElfData`, `ElfFile`, `SectionSource`: what all of that is read from.
4. The bytes of line number programs and of abbreviations (the models start from
   decoded opcodes and entries; `Forms` has the readings they need).
5. Copies of lists in memory (two lists that share a vector).
6. *done* That `++` implements `Siblings` and the name index is exact; that an ELF
   file is read inside its bounds and mapped while it is held.
7. *done* That no value leads outside of its unit and every loop over ranges ends.
8. *done* Proofs: that an iterator over rows implements `LineRows`; `TypeOK` of
   `Expr`; that a list of ranges implements `Ranges`.
