---------------------------- MODULE MCLineTable ----------------------------
(***************************************************************************)
(* LineTable on concrete sections: two iterators and one client, over      *)
(* programs that between them use every opcode, every error and both ways  *)
(* of defining files.  Also the two documented promises that libelfin's    *)
(* line tables do not keep.                                                *)
(***************************************************************************)
EXTENDS LineIterators

-----------------------------------------------------------------------------
(* Sections.                                                               *)

Op0(c)      == [code |-> c, ext |-> 0, arg |-> 0, over |-> FALSE]
Op1(c, a)   == [code |-> c, ext |-> 0, arg |-> a, over |-> FALSE]
Ext(e, a)   == [code |-> 0, ext |-> e, arg |-> a, over |-> FALSE]
Long(e, a)  == [code |-> 0, ext |-> e, arg |-> a, over |-> TRUE]

Copy      == Op0(LNS_copy)
EndSeq    == Ext(LNE_end_sequence, 0)
Define    == Ext(LNE_define_file, 0)
DefineBad == Ext(LNE_define_file, 7)
SetAddr(a) == Ext(LNE_set_address, a)

\* A DWARF 3 header as compilers write it: lines step by -1 .. 2.
Base == [version |-> 3, min_inst_len |-> 1, max_ops |-> 0,
         default_is_stmt |-> TRUE, line_base |-> -1, line_range |-> 4,
         opcode_base |-> 13, lengths |-> OpcodeLengths,
         dirs |-> 1, files |-> <<0>>, program |-> << >>]

\* The special opcode that advances the address by a and the line by l.
Special(a, l) == Op0(13 + (l + 1) + 4 * a)

Program(ops) == [Base EXCEPT !.program = ops]

\* One sequence, a file defined and used in the middle of it.
Plain == Program(<<SetAddr(4), Special(0, 1), Define, Special(2, 2),
                   Op1(LNS_set_file, 2), Special(1, -1),
                   Op1(LNS_advance_pc, 2), EndSeq>>)

\* Two sequences at descending addresses, and every row flag.
Flags == Program(<<SetAddr(8), Op0(LNS_set_basic_block), Op0(LNS_set_prologue_end),
                   Op1(LNS_set_column, 3), Ext(LNE_set_discriminator, 2), Copy,
                   Op0(LNS_negate_stmt), Op0(LNS_set_epilogue_begin),
                   Op1(LNS_set_isa, 1), Special(3, 0), EndSeq,
                   Op1(LNS_fixed_advance_pc, 2), Op1(LNS_advance_line, -3), Copy,
                   Op1(LNS_fixed_advance_pc, 4), EndSeq>>)

\* Three operations per instruction: rows in the middle of an instruction.
Vliw == [Program(<<Special(2, 1), Op0(LNS_advance_pc), Special(2, 0),
                   Op0(LNS_const_add_pc), Copy, Op1(LNS_fixed_advance_pc, 1),
                   Special(1, 0), Op1(LNS_advance_pc, 5), EndSeq>>)
          EXCEPT !.version = 4, !.max_ops = 3, !.min_inst_len = 2]

\* DWARF 2: opcodes 10 and up are special.  The table ends without an
\* end_sequence.
Dwarf2 == [Program(<<Op0(10), Op0(16), Define, Define, Copy>>)
            EXCEPT !.version = 2, !.opcode_base = 10,
                   !.lengths = SubSeq(OpcodeLengths, 1, 9), !.files = <<0, 0>>]

\* Malformed programs: a bad directory between two good definitions, a row
\* that uses a file defined behind it, no row at the end, an unknown opcode,
\* a definition and an end_sequence longer than they declared, a vendor opcode.
BadDir   == Program(<<Define, Copy, DefineBad, Define, Copy>>)
Forward  == Program(<<Copy, Op1(LNS_set_file, 2), Special(1, 0), Define, Copy>>)
NoRowEnd == Program(<<Copy, Define, Op0(LNS_negate_stmt)>>)
Vendor   == [Program(<<Copy, Define, Ext(128, 0), Copy>>) EXCEPT !.default_is_stmt = FALSE]
LongFile == Program(<<Copy, Long(LNE_define_file, 0), Copy>>)
LongEnd  == Program(<<Op1(LNS_advance_pc, 1), Copy, Long(LNE_end_sequence, 0), Copy>>)
Opcode14 == [Program(<<Copy, Op0(14), Copy>>)
              EXCEPT !.opcode_base = 15, !.lengths = OpcodeLengths \o <<0, 0>>]

\* Empty programs, and headers that are refused.
Empty      == Base
NoFiles    == [Base EXCEPT !.files = << >>]
BadVersion == [Base EXCEPT !.version = 5]
NoOps      == [Base EXCEPT !.version = 4]
NoRange    == [Base EXCEPT !.line_range = 0]
BadLength  == [Base EXCEPT !.lengths = [@ EXCEPT ![3] = 0]]
BadHeader  == [Base EXCEPT !.files = <<0, 9>>]

WellFormedSections == {Plain, Flags, Vliw, Dwarf2, Empty, NoFiles}
MalformedSections ==
  {BadDir, Forward, NoRowEnd, Vendor, LongFile, LongEnd, Opcode14, BadVersion,
   NoOps, NoRange, BadLength, BadHeader}

AllSections   == WellFormedSections \cup MalformedSections
PlainSections == {Plain}

-----------------------------------------------------------------------------
(* Documented promises.                                                    *)

\* dwarf++.hh on find_address: "Return an iterator to the line table entry
\* containing addr [...] Returns end() if there is no such entry."  So when it
\* returns end(), no row of the table contains the address.
FindAddressFindsRow ==
  LET i == result.call.it
  IN  (/\ result.call.op \in {"find_first", "find_scan"} /\ result.status = "ok"
       /\ AtEnd(iters[i]) /\ WellFormedTable[sec])
      => Promise!Covering(result.call.arg, Len(RowTable[sec])) = {}

\* dwarf++.hh on entry::file: "The source file containing this instruction."
\* So the row that find_address returns points to a file of the table.
FoundFileIsLive ==
  LET i == result.call.it
  IN  (/\ result.call.op = "find_scan" /\ result.status = "ok"
       /\ ~AtEnd(iters[i]))
      => ~Dangling(iters[i].entry.file)
=============================================================================
