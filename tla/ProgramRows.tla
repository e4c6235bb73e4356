---------------------------- MODULE ProgramRows ----------------------------
(***************************************************************************)
(* The rows of a line number program, without executing it: DWARF says of  *)
(* every register which earlier opcodes of the sequence, or behind the     *)
(* previous row, its value comes from (DWARF 4, 6.2.2 and 6.2.5).          *)
(* Opcodes are named by the offsets at which they end.                     *)
(***************************************************************************)
EXTENDS LineProgram, FiniteSets, Functions

-----------------------------------------------------------------------------
(* Opcodes.                                                                *)

\* The opcodes up to the one that ends at o.
Opcodes(s, o) == (ProgramOffset(s) + 1) .. o
ProgramOffsets(s) == Opcodes(s, Size(s))

Standard(s, q, n) == IsStandard(s, OpcodeAt(s, q), n)
Extended(s, q, n) == IsExtended(OpcodeAt(s, q), n)

\* The opcodes of Q behind all of P.
Behind(Q, P) == {q \in Q : \A p \in P : p < q}

\* The opcodes of the sequence that o is in, and those behind the previous row.
InSequence(s, o) ==
  Behind(Opcodes(s, o),
         {q \in Opcodes(s, o - 1) : Extended(s, q, LNE_end_sequence)})
InRow(s, o) ==
  Behind(Opcodes(s, o), {q \in Opcodes(s, o - 1) : EmitsRow(s, OpcodeAt(s, q))})

-----------------------------------------------------------------------------
(* Registers.                                                              *)

StandardsIn(s, Q, n) == {q \in Q : Standard(s, q, n)}
ExtendedIn(s, Q, n) == {q \in Q : Extended(s, q, n)}

\* What the latest of the opcodes in Q says.
LatestArg(s, Q, default) ==
  IF Q = {} THEN default
  ELSE OpcodeAt(s, CHOOSE q \in Q : \A p \in Q : p <= q).arg

LineIncrement(s, q) ==
  LET op == OpcodeAt(s, q)
  IN  IF IsSpecial(s, op)
      THEN s.line_base + ((op.code - s.opcode_base) % s.line_range)
      ELSE IF Standard(s, q, LNS_advance_line) THEN op.arg ELSE 0

OperationAdvance(s, q) ==
  LET op == OpcodeAt(s, q)
  IN  IF IsSpecial(s, op) THEN (op.code - s.opcode_base) \div s.line_range
      ELSE IF Standard(s, q, LNS_advance_pc) THEN op.arg
      ELSE IF Standard(s, q, LNS_const_add_pc)
           THEN (255 - s.opcode_base) \div s.line_range
           ELSE 0

Lines(s, Q) == SumFunction([q \in Q |-> LineIncrement(s, q)])

\* The opcodes that set the address leave op_index 0.  The operations since
\* then make whole instructions and an op_index.
SetsAddress(s, q) ==
  Extended(s, q, LNE_set_address) \/ Standard(s, q, LNS_fixed_advance_pc)
Operations(s, Q) ==
  SumFunction([q \in Behind(Q, {p \in Q : SetsAddress(s, p)}) |->
                 OperationAdvance(s, q)])
Instructions(s, Q) == Operations(s, Q) \div MaxOps(s)

\* How far opcode q of Q moves the address.
Moved(s, Q, q) ==
  IF Standard(s, q, LNS_fixed_advance_pc) THEN OpcodeAt(s, q).arg
  ELSE s.min_inst_len * (Instructions(s, {p \in Q : p <= q})
                          - Instructions(s, {p \in Q : p < q}))

\* The last address that was set, and all that has moved it since.
Address(s, Q) ==
  LET sets == ExtendedIn(s, Q, LNE_set_address)
  IN  (LatestArg(s, sets, 0)
        + SumFunction([q \in Behind(Q, sets) |-> Moved(s, Q, q)])) % AddrMod

\* The registers that the opcodes Q of a sequence make, R of them behind the
\* previous row.
RegistersOf(s, Q, R, ends) ==
  [address        |-> Address(s, Q),
   op_index       |-> Operations(s, Q) % MaxOps(s),
   file_index     |-> LatestArg(s, StandardsIn(s, Q, LNS_set_file), 1) % UintMod,
   line           |-> (1 + Lines(s, Q)) % UintMod,
   column         |-> LatestArg(s, StandardsIn(s, Q, LNS_set_column), 0) % UintMod,
   is_stmt        |-> (Cardinality(StandardsIn(s, Q, LNS_negate_stmt)) % 2 = 0)
                        = s.default_is_stmt,
   basic_block    |-> StandardsIn(s, R, LNS_set_basic_block) # {},
   end_sequence   |-> ends,
   prologue_end   |-> StandardsIn(s, R, LNS_set_prologue_end) # {},
   epilogue_begin |-> StandardsIn(s, R, LNS_set_epilogue_begin) # {},
   isa            |-> LatestArg(s, StandardsIn(s, Q, LNS_set_isa), 0) % UintMod,
   discriminator  |-> LatestArg(s, ExtendedIn(s, R, LNE_set_discriminator), 0)
                        % UintMod]

-----------------------------------------------------------------------------
(* Rows.                                                                   *)

RowAt(s, o) ==
  RegistersOf(s, InSequence(s, o), InRow(s, o), Extended(s, o, LNE_end_sequence))

\* An opcode at which every iteration of the program has to stop.
Fatal(s, o) == IsUnknown(s, OpcodeAt(s, o)) \/ Overruns(OpcodeAt(s, o))

\* A file definition whose directory does not exist: the iterator that meets
\* it first throws, the next one passes.
BadFile(s, o) == IsDefineFile(OpcodeAt(s, o)) /\ OpcodeAt(s, o).arg >= s.dirs

\* The opcodes that emit the rows, and the number of rows up to an offset.
RowOffsets(s) ==
  {o \in ProgramOffsets(s) : /\ EmitsRow(s, OpcodeAt(s, o))
                             /\ \A q \in Opcodes(s, o) : ~Fatal(s, q)}
RowsUpTo(s, o) == Cardinality({q \in RowOffsets(s) : q <= o})

\* The rows, in order.
RowsOf(s) ==
  [k \in 1 .. RowsUpTo(s, Size(s)) |->
     RowAt(s, CHOOSE o \in RowOffsets(s) : RowsUpTo(s, o) = k)]

\* The files that the header and the program have defined up to offset o.
FilesUpTo(s, o) ==
  {f \in 1 .. ProgramOffset(s) : s.files[f] < s.dirs}
    \cup {q \in Opcodes(s, o) : IsDefineFile(OpcodeAt(s, q))}

\* A program without errors, whose every row names a file defined before it,
\* and that ends with a row.
WellFormed(s) ==
  /\ \A o \in ProgramOffsets(s) : ~Fatal(s, o) /\ ~BadFile(s, o)
  /\ Len(s.program) > 0 => EmitsRow(s, OpcodeAt(s, Size(s)))
  /\ \A o \in RowOffsets(s) : RowAt(s, o).file_index <= Cardinality(FilesUpTo(s, o))
=============================================================================
