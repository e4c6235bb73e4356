---------------------------- MODULE UnitHeaders ----------------------------
(***************************************************************************)
(* How libdwarf++ finds its way through .debug_info and .debug_types: the  *)
(* byte order, the initial lengths that lead from unit to unit, and the    *)
(* headers of units (DWARF 4, 7.4 and 7.5.1).                              *)
(*                                                                         *)
(* A section is the sequence of its bytes, offsets start at 0.  A number   *)
(* is what its bytes make of it, in the byte order of the file.  A byte    *)
(* has Base values (256 in the code).                                      *)
(***************************************************************************)
EXTENDS Numerals, FiniteSetsExt

CONSTANT Base

ASSUME BaseAssumption == Base \in Nat \ {0, 1}

\* How many values numbers of four and of eight bytes have.
Word == Base * Base * Base * Base
Xword == Word * Word

\* cursor::fixed, little and big endian.
Number(data, ord, p, n) ==
  NumberOf(Base, [k \in 1..n |-> data[p + (IF ord = "msb" THEN k ELSE n + 1 - k)]])

\* cursor::ensure: n bytes at p are in front of the end of the section.
Fits(end, p, n) == p < end /\ p + n <= end

\* The initial lengths with a meaning of their own.
Escape == Word - 1
Reserved == (Word - 16)..(Word - 2)

\* A pointer plus a 64-bit length moves backwards when the length is large.
Distance(length) == IF length >= Xword \div 2 THEN length - Xword ELSE length

-----------------------------------------------------------------------------
(* Byte order.                                                             *)

VersionAt(data) == IF Number(data, "lsb", 0, 4) = Escape THEN 12 ELSE 4

\* The version of the first unit is a small number in the right order.
Sniff(data) ==
  LET version == Number(data, "lsb", VersionAt(data), 2)
      versionbe == (version \div Base) + (version % Base) * Base
  IN  IF versionbe < version THEN "msb" ELSE "lsb"

CanSniff(data) == Fits(Len(data), 0, 4) /\ Fits(Len(data), VersionAt(data), 2)

-----------------------------------------------------------------------------
(* Units.                                                                  *)

\* cursor::subsection.  body is behind the initial length and offsets have
\* width bytes.  The end is not compared with that of the data.
Section32(o, length) == [body |-> o + 4, end |-> o + 4 + length, width |-> 4]
Section64(o, length) ==
  [body |-> o + 12, end |-> o + Distance((length + 12) % Xword), width |-> 8]
NoSection == [body |-> 0, end |-> 0, width |-> 0]

Subsection(data, ord, o) ==
  LET length == Number(data, ord, o, 4)
  IN  CASE ~Fits(Len(data), o, 4) -> NoSection
        [] Fits(Len(data), o, 4) /\ length < Escape -> IF length \in Reserved THEN NoSection
                                                         ELSE Section32(o, length)
        [] OTHER -> IF Fits(Len(data), o + 4, 8)
                    THEN Section64(o, Number(data, ord, o + 4, 8)) ELSE NoSection

\* Whether fields (their offsets and lengths) can be read: they have to be in
\* front of the end of the unit, but that may be behind the end of the data.
Readable(data, s, fields) ==
  IF \E f \in fields : Fits(s.end, f[1], f[2]) /\ f[1] + f[2] > Len(data) THEN "wild"
  ELSE IF \A f \in fields : Fits(s.end, f[1], f[2]) THEN "ok"
  ELSE "malformed"

\* What constructing a unit in section s comes to: its version is checked
\* before the other fields are read.
HeaderStatus(data, ord, s, versions, fields) ==
  LET head == Readable(data, s, {<<s.body, 2>>})
  IN  IF s = NoSection THEN "malformed"
      ELSE IF head # "ok" THEN head
      ELSE IF Number(data, ord, s.body, 2) \notin versions THEN "malformed"
      ELSE Readable(data, s, fields)

Unit == [offset : Nat, next : Int, addr_size : Nat, debug_abbrev_offset : Nat,
         root_offset : Nat, type_signature : Nat, type_offset : Nat]
NoUnit == [offset |-> 0, next |-> 0, addr_size |-> 0, debug_abbrev_offset |-> 0,
           root_offset |-> 0, type_signature |-> 0, type_offset |-> 0]
Outcome(status, unit) == [status |-> status, unit |-> IF status = "ok" THEN unit ELSE NoUnit]

\* Mutant: the layout of DWARF 4 for all versions.
CompilationLayout_Old(version, s) ==
  [addr |-> s.body + 2 + s.width, abbrevs |-> s.body + 2, root |-> s.body + 3 + s.width]

\* Where the fields are.  DWARF 5 has a unit type, which is skipped, and the
\* address size in front.
CompilationLayout(version, s) ==
  IF version >= 5
  THEN [addr |-> s.body + 3, abbrevs |-> s.body + 4, root |-> s.body + 4 + s.width]
  ELSE [addr |-> s.body + 2 + s.width, abbrevs |-> s.body + 2, root |-> s.body + 3 + s.width]

\* compilation_unit::compilation_unit at offset o of .debug_info.
CompilationUnit(data, ord, o) ==
  LET s == Subsection(data, ord, o)
      l == CompilationLayout(Number(data, ord, s.body, 2), s)
  IN  Outcome(HeaderStatus(data, ord, s, 0..5, {<<l.addr, 1>>, <<l.abbrevs, s.width>>}),
              [offset |-> o, next |-> s.end,
               addr_size |-> data[l.addr + 1],
               debug_abbrev_offset |-> Number(data, ord, l.abbrevs, s.width),
               root_offset |-> l.root - o,
               type_signature |-> 0, type_offset |-> 0])

\* type_unit::type_unit at offset o of .debug_types.
TypeUnit(data, ord, o) ==
  LET s == Subsection(data, ord, o)
      addr == s.body + 2 + s.width
      type == addr + 9
  IN  Outcome(HeaderStatus(data, ord, s, {4}, {<<s.body + 2, s.width>>, <<addr, 1>>,
                                               <<addr + 1, 8>>, <<type, s.width>>}),
              [offset |-> o, next |-> s.end,
               addr_size |-> data[addr + 1],
               debug_abbrev_offset |-> Number(data, ord, s.body + 2, s.width),
               root_offset |-> type + s.width - o,
               type_signature |-> Number(data, ord, addr + 1, 8),
               type_offset |-> Number(data, ord, type, s.width)])
=============================================================================
