---------------------------- MODULE LineProgram ----------------------------
(***************************************************************************)
(* The input of a line table: a .debug_line contribution (its header and   *)
(* its line number program) and what one opcode of the program does to the *)
(* registers of the line number state machine.  No variables: LineTable    *)
(* executes these definitions one opcode at a time.                        *)
(*                                                                         *)
(* A section is modelled after decoding: header fields, the directory      *)
(* index of each file entry of the header, and the opcodes as libelfin's   *)
(* cursor delimits them.  Offsets count entries instead of bytes: header   *)
(* file entry k ends at offset k, and opcode j of the program ends at      *)
(* offset Len(files) + j, which keeps the order of the byte offsets.       *)
(***************************************************************************)
EXTENDS Integers, Sequences

CONSTANTS
  Sections,  \* the contributions a line table may be built from
  AddrMod,   \* 2^64 in the code: a taddr wraps at AddrMod
  UintMod    \* 2^32 in the code: an unsigned register wraps at UintMod

ASSUME ModAssumption == AddrMod \in Nat \ {0} /\ UintMod \in Nat \ {0, 1}

Byte == 0 .. 255

\* An opcode: code is its first byte and, when code is 0, ext is the extended
\* opcode.  arg is its decoded operand; over says that an extended opcode's
\* operand runs past the length it declared.
Opcode == [code : Byte, ext : Byte, arg : Int, over : BOOLEAN]

\* dirs is the number of include directories, directory 0 included; files and
\* the operand of define_file give the directory index of a file entry.
Section == [version     : Nat,      min_inst_len    : Byte,
            max_ops     : Byte,     default_is_stmt : BOOLEAN,
            line_base   : -128 .. 127, line_range   : Byte,
            opcode_base : Byte \ {0},  lengths      : Seq(Byte),
            dirs        : Nat \ {0},   files        : Seq(Nat),
            program     : Seq(Opcode)]

ASSUME SectionsAssumption == Sections \subseteq Section

-----------------------------------------------------------------------------
(* The standard (DW_LNS) and extended (DW_LNE) opcodes.                    *)

LNS_copy               == 1
LNS_advance_pc         == 2
LNS_advance_line       == 3
LNS_set_file           == 4
LNS_set_column         == 5
LNS_negate_stmt        == 6
LNS_set_basic_block    == 7
LNS_const_add_pc       == 8
LNS_fixed_advance_pc   == 9
LNS_set_prologue_end   == 10
LNS_set_epilogue_begin == 11
LNS_set_isa            == 12

LNE_end_sequence       == 1
LNE_set_address        == 2
LNE_define_file        == 3
LNE_set_discriminator  == 4

\* opcode_lengths: the number of operands expected of each standard opcode.
OpcodeLengths == <<0, 1, 1, 1, 1, 0, 0, 0, 1, 0, 0, 1>>

-----------------------------------------------------------------------------
(* The header.                                                             *)

\* maximum_operations_per_instruction is only read from a version 4 header.
MaxOps(s) == IF s.version >= 4 THEN s.max_ops ELSE 1

\* The header checks whose outcome the input decides.
HeaderAccepted(s) ==
  /\ s.version \in 2 .. 4
  /\ MaxOps(s) # 0
  /\ s.line_range # 0
  /\ \A i \in 1 .. (s.opcode_base - 1) :
       i <= Len(OpcodeLengths) => s.lengths[i] = OpcodeLengths[i]

\* With opcode_base above 13 the loop compares with what lies behind the
\* opcode_lengths table: either outcome is possible.
HeaderUndefined(s) == s.opcode_base > Len(OpcodeLengths) + 1

ProgramOffset(s) == Len(s.files)
Size(s)          == Len(s.files) + Len(s.program)

\* The opcode that ends at offset o.
OpcodeAt(s, o) == s.program[o - Len(s.files)]

-----------------------------------------------------------------------------
(* Decoding an opcode.                                                     *)

IsSpecial(s, op)     == op.code >= s.opcode_base
IsStandard(s, op, n) == op.code = n /\ n < s.opcode_base
IsExtended(op, n)    == op.code = 0 /\ op.ext = n

IsDefineFile(op) == IsExtended(op, LNE_define_file)

\* Vendor opcodes and opcodes the interpreter has no case for.
IsUnknown(s, op) ==
  \/ op.code = 0 /\ op.ext \notin 1 .. 4
  \/ op.code > 12 /\ op.code < s.opcode_base

\* "extended line number opcode exceeded its size"
Overruns(op) == op.code = 0 /\ op.over

EmitsRow(s, op) ==
  \/ IsSpecial(s, op)
  \/ IsStandard(s, op, LNS_copy)
  \/ IsExtended(op, LNE_end_sequence)

-----------------------------------------------------------------------------
(* The registers (line_table::entry without its file pointer).             *)

Registers == [address : Nat, op_index : Nat, file_index : Nat, line : Nat,
              column : Nat, is_stmt : BOOLEAN, basic_block : BOOLEAN,
              end_sequence : BOOLEAN, prologue_end : BOOLEAN,
              epilogue_begin : BOOLEAN, isa : Nat, discriminator : Nat]

Reset(s) ==
  [address |-> 0, op_index |-> 0, file_index |-> 1, line |-> 1, column |-> 0,
   is_stmt |-> s.default_is_stmt, basic_block |-> FALSE,
   end_sequence |-> FALSE, prologue_end |-> FALSE, epilogue_begin |-> FALSE,
   isa |-> 0, discriminator |-> 0]

\* The operation advance: n operations further, in whole instructions of
\* min_inst_len and an op_index within the instruction.
AdvancePc(s, r, n) ==
  [r EXCEPT
    !.address  = (@ + s.min_inst_len * ((r.op_index + n) \div MaxOps(s)))
                   % AddrMod,
    !.op_index = (@ + n) % MaxOps(s)]

\* Mutant: the register does not wrap.
AdvanceLine_NoWrap(r, n) == [r EXCEPT !.line = @ + n]

AdvanceLine(r, n) == [r EXCEPT !.line = (@ + n) % UintMod]

\* The adjusted opcode, a ubyte.
Adjusted(s, op) == (op.code - s.opcode_base) % 256

SpecialOpcode(s, r, op) ==
  AdvanceLine(AdvancePc(s, r, Adjusted(s, op) \div s.line_range),
              s.line_base + (Adjusted(s, op) % s.line_range))

StandardOpcode(s, r, op) ==
  CASE op.code = LNS_advance_pc         -> AdvancePc(s, r, op.arg)
    [] op.code = LNS_advance_line       -> AdvanceLine(r, op.arg)
    [] op.code = LNS_set_file           -> [r EXCEPT !.file_index = op.arg % UintMod]
    [] op.code = LNS_set_column         -> [r EXCEPT !.column = op.arg % UintMod]
    [] op.code = LNS_negate_stmt        -> [r EXCEPT !.is_stmt = ~@]
    [] op.code = LNS_set_basic_block    -> [r EXCEPT !.basic_block = TRUE]
    [] op.code = LNS_const_add_pc       ->
         AdvancePc(s, r, (255 - s.opcode_base) \div s.line_range)
    [] op.code = LNS_fixed_advance_pc   ->
         [r EXCEPT !.address = (@ + op.arg) % AddrMod, !.op_index = 0]
    [] op.code = LNS_set_prologue_end   -> [r EXCEPT !.prologue_end = TRUE]
    [] op.code = LNS_set_epilogue_begin -> [r EXCEPT !.epilogue_begin = TRUE]
    [] op.code = LNS_set_isa            -> [r EXCEPT !.isa = op.arg % UintMod]
    [] OTHER                            -> r

ExtendedOpcode(r, op) ==
  CASE op.ext = LNE_end_sequence      -> [r EXCEPT !.end_sequence = TRUE]
    [] op.ext = LNE_set_address       ->
         [r EXCEPT !.address = op.arg % AddrMod, !.op_index = 0]
    [] op.ext = LNE_set_discriminator -> [r EXCEPT !.discriminator = op.arg % UintMod]
    [] OTHER                          -> r

\* The registers when the opcode has done its work and, if it emits a row,
\* at the moment it copies them into the iterator's entry.
Executed(s, r, op) ==
  CASE IsSpecial(s, op) -> SpecialOpcode(s, r, op)
    [] op.code = 0      -> ExtendedOpcode(r, op)
    [] OTHER            -> StandardOpcode(s, r, op)

\* Mutant: the discriminator outlives its row.
AfterRow_KeepsDiscriminator(s, r, op) ==
  IF op.code = 0 THEN Reset(s)
  ELSE [r EXCEPT !.basic_block = FALSE, !.prologue_end = FALSE,
                 !.epilogue_begin = FALSE]

\* What a row leaves behind: end_sequence starts over, a special opcode or a
\* copy clears the registers that describe one row only.
AfterRow(s, r, op) ==
  IF op.code = 0 THEN Reset(s)
  ELSE [r EXCEPT !.basic_block = FALSE, !.prologue_end = FALSE,
                 !.epilogue_begin = FALSE, !.discriminator = 0]
=============================================================================
