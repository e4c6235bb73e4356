------------------------------ MODULE ElfData ------------------------------
(***************************************************************************)
(* The structures of an ELF file: their layouts in 32-bit and 64-bit files,*)
(* their numbers in either byte order, and the canonical form (that of a   *)
(* 64-bit file) the library gives them.                                    *)
(*                                                                         *)
(* A file is the sequence of its bytes, places in it start at 0.  A byte   *)
(* has Base values (256 in the code).                                      *)
(***************************************************************************)
EXTENDS Numerals, FiniteSetsExt

CONSTANTS Base, Magic

ASSUME ElfBaseAssumption == Base \in Nat \ {0, 1}
ASSUME MagicAssumption == Magic \in Seq(0..(Base - 1)) /\ Len(Magic) = 4

\* How many values the types have.
Half == Base * Base
Word == Half * Half
Xword == Word * Word

\* swizzle: a number of n bytes in the byte order of the file.
Number(bytes, order, at, n) ==
  NumberOf(Base, [k \in 1..n |-> bytes[at + (IF order = "msb" THEN k ELSE n + 1 - k)]])

\* elfclass, elfdata, sht.
ElfClass == {1, 2}
ElfData == {1, 2}
Order(ei_data) == IF ei_data = 1 THEN "lsb" ELSE "msb"
Symtab == 2
Strtab == 3
Nobits == 8
Dynsym == 11

-----------------------------------------------------------------------------
(* Layouts: the fields in the order of the file and their sizes.  "pad" is *)
(* for bytes that are only copied.                                         *)

\* Addr, Off and Word32_Xword64
Long(class) == IF class = 1 THEN 4 ELSE 8

Ehdr(class) ==
  << <<"pad", 4>>, <<"ei_class", 1>>, <<"ei_data", 1>>, <<"ei_version", 1>>,
     <<"ei_osabi", 1>>, <<"ei_abiversion", 1>>, <<"pad", 7>>,
     <<"type", 2>>, <<"machine", 2>>, <<"version", 4>>, <<"entry", Long(class)>>,
     <<"phoff", Long(class)>>, <<"shoff", Long(class)>>, <<"flags", 4>>, <<"ehsize", 2>>,
     <<"phentsize", 2>>, <<"phnum", 2>>, <<"shentsize", 2>>, <<"shnum", 2>>,
     <<"shstrndx", 2>> >>

Shdr(class) ==
  << <<"name", 4>>, <<"type", 4>>, <<"flags", Long(class)>>, <<"addr", Long(class)>>,
     <<"offset", Long(class)>>, <<"size", Long(class)>>, <<"link", 4>>, <<"info", 4>>,
     <<"addralign", Long(class)>>, <<"entsize", Long(class)>> >>

\* In 64-bit files the flags come second.
Phdr(class) ==
  LET places == << <<"offset", Long(class)>>, <<"vaddr", Long(class)>>, <<"paddr", Long(class)>>,
                   <<"filesz", Long(class)>>, <<"memsz", Long(class)>> >>
  IN  IF class = 1
      THEN << <<"type", 4>> >> \o places \o << <<"flags", 4>>, <<"align", 4>> >>
      ELSE << <<"type", 4>>, <<"flags", 4>> >> \o places \o << <<"align", 8>> >>

\* In 64-bit files value and size come last.
Sym(class) ==
  IF class = 1
  THEN << <<"name", 4>>, <<"value", 4>>, <<"size", 4>>, <<"info", 1>>, <<"other", 1>>,
          <<"shnxd", 2>> >>
  ELSE << <<"name", 4>>, <<"info", 1>>, <<"other", 1>>, <<"shnxd", 2>>, <<"value", 8>>,
          <<"size", 8>> >>

-----------------------------------------------------------------------------
(* Canonical form.                                                         *)

Place(layout, k) == TotalOf([j \in 1..(k - 1) |-> layout[j][2]])
Size(layout) == Place(layout, Len(layout) + 1)
Fields(layout) == {layout[k][1] : k \in DOMAIN layout} \ {"pad"}
Index(layout, field) == CHOOSE k \in DOMAIN layout : layout[k][1] = field

\* canon_hdr and from: the structure at a place of the file.
Canon(bytes, order, at, layout) ==
  [field \in Fields(layout) |->
     LET k == Index(layout, field)
     IN  Number(bytes, order, at + Place(layout, k), layout[k][2])]

\* The index in link is a Word in the file, and a Half in canonical form.
CanonShdr(bytes, order, at, class) ==
  [Canon(bytes, order, at, Shdr(class)) EXCEPT !.link = @ % Half]
=============================================================================
