-------------------------- MODULE LineTableProofs --------------------------
(***************************************************************************)
(* Proofs about LineTable, for every set of sections and any number of     *)
(* iterators: its type invariant, that the shared file table is right      *)
(* however the iterators interleave, and that iterators, which execute the *)
(* program, are positions in the list of rows that ProgramRows defines     *)
(* without executing it.                                                   *)
(***************************************************************************)
EXTENDS LineIterators, NumberLemmas, FiniteSetTheorems, TLAPS

-----------------------------------------------------------------------------
(* The registers keep their types.                                         *)

LEMMA ModNat == ASSUME NEW x \in Int, NEW m \in Nat \ {0} PROVE x % m \in Nat
  OBVIOUS

LEMMA SectionFields ==
  ASSUME NEW s \in Section
  PROVE  /\ s.max_ops \in Nat /\ s.line_range \in Nat /\ s.min_inst_len \in Nat
         /\ s.line_base \in Int /\ s.opcode_base \in Nat
         /\ s.default_is_stmt \in BOOLEAN
         /\ s.files \in Seq(Nat) /\ s.program \in Seq(Opcode)
<1>1. /\ s.max_ops \in Byte /\ s.line_range \in Byte /\ s.min_inst_len \in Byte
      /\ s.line_base \in -128 .. 127 /\ s.opcode_base \in Byte \ {0}
      /\ s.default_is_stmt \in BOOLEAN
      /\ s.files \in Seq(Nat) /\ s.program \in Seq(Opcode)
  BY DEF Section
<1>2. Byte \subseteq Nat /\ -128 .. 127 \subseteq Int
  BY DEF Byte
<1> QED
  BY <1>1, <1>2

LEMMA OpcodeFields ==
  ASSUME NEW op \in Opcode PROVE op.code \in Nat /\ op.ext \in Nat /\ op.arg \in Int
<1>1. op.code \in Byte /\ op.ext \in Byte /\ op.arg \in Int
  BY DEF Opcode
<1> QED
  BY <1>1 DEF Byte

LEMMA MaxOpsPositive ==
  ASSUME NEW s \in Section, HeaderAccepted(s)
  PROVE  MaxOps(s) \in Nat \ {0} /\ s.line_range \in Nat \ {0}
<1>1. MaxOps(s) # 0 /\ s.line_range # 0
  BY DEF HeaderAccepted
<1>2. MaxOps(s) \in Nat
  BY SectionFields DEF MaxOps
<1> QED
  BY <1>1, <1>2, SectionFields

LEMMA ResetType == ASSUME NEW s \in Section PROVE Reset(s) \in Registers
  BY DEF Reset, Registers, Section

LEMMA AdvancePcType ==
  ASSUME NEW s \in Section, HeaderAccepted(s), NEW r \in Registers, NEW n \in Int
  PROVE  AdvancePc(s, r, n) \in Registers
<1> DEFINE steps == (r.op_index + n) \div MaxOps(s)
           addr  == (r.address + s.min_inst_len * steps) % AddrMod
           idx   == (r.op_index + n) % MaxOps(s)
<1>1. MaxOps(s) \in Nat \ {0}
  BY MaxOpsPositive
<1>2. r.op_index + n \in Int /\ r.address \in Nat /\ s.min_inst_len \in Nat
  BY SectionFields DEF Registers
<1>3. steps \in Int
  BY <1>1, <1>2
<1>4. r.address + s.min_inst_len * steps \in Int
  BY <1>2, <1>3
<1>5. addr \in Nat /\ idx \in Nat
  BY <1>1, <1>2, <1>4, ModNat, ModAssumption
<1>6. AdvancePc(s, r, n) = [r EXCEPT !.address = addr, !.op_index = idx]
  BY DEF AdvancePc, Registers
<1> HIDE DEF addr, idx
<1> QED
  BY <1>5, <1>6 DEF Registers

LEMMA AdvanceLineType ==
  ASSUME NEW r \in Registers, NEW n \in Int
  PROVE  AdvanceLine(r, n) \in Registers
<1>1. (r.line + n) % UintMod \in Nat
  BY ModNat, ModAssumption DEF Registers
<1> QED
  BY <1>1 DEF AdvanceLine, Registers

LEMMA SpecialType ==
  ASSUME NEW s \in Section, HeaderAccepted(s), NEW r \in Registers,
         NEW op \in Opcode
  PROVE  SpecialOpcode(s, r, op) \in Registers
<1> DEFINE adj == Adjusted(s, op)
<1>0. op.code - s.opcode_base \in Int
  BY SectionFields, OpcodeFields
<1>1. adj \in Nat /\ s.line_range \in Nat \ {0}
  BY <1>0, MaxOpsPositive, ModNat DEF Adjusted
<1> HIDE DEF adj
<1>2. adj \div s.line_range \in Int /\ s.line_base + (adj % s.line_range) \in Int
  BY <1>1, SectionFields
<1> QED
  BY <1>2, AdvancePcType, AdvanceLineType DEF SpecialOpcode, adj

LEMMA StandardType ==
  ASSUME NEW s \in Section, HeaderAccepted(s), NEW r \in Registers,
         NEW op \in Opcode
  PROVE  StandardOpcode(s, r, op) \in Registers
<1>1. op.arg \in Int /\ op.arg % UintMod \in Nat
  BY ModNat, ModAssumption DEF Opcode
<1>2. (255 - s.opcode_base) \div s.line_range \in Int
  BY MaxOpsPositive, SectionFields
<1>3. (r.address + op.arg) % AddrMod \in Nat
  BY <1>1, ModNat, ModAssumption DEF Registers
<1>4. AdvancePc(s, r, op.arg) \in Registers /\ AdvanceLine(r, op.arg) \in Registers
      /\ AdvancePc(s, r, (255 - s.opcode_base) \div s.line_range) \in Registers
  BY <1>1, <1>2, AdvancePcType, AdvanceLineType
<1>5. /\ [r EXCEPT !.file_index = op.arg % UintMod] \in Registers
      /\ [r EXCEPT !.column = op.arg % UintMod] \in Registers
      /\ [r EXCEPT !.isa = op.arg % UintMod] \in Registers
  BY <1>1 DEF Registers
<1>6. [r EXCEPT !.address = (@ + op.arg) % AddrMod, !.op_index = 0] \in Registers
  BY <1>3 DEF Registers
<1>7. /\ [r EXCEPT !.is_stmt = ~@] \in Registers
      /\ [r EXCEPT !.basic_block = TRUE] \in Registers
      /\ [r EXCEPT !.prologue_end = TRUE] \in Registers
      /\ [r EXCEPT !.epilogue_begin = TRUE] \in Registers
  BY DEF Registers
<1> QED
  BY <1>4, <1>5, <1>6, <1>7 DEF StandardOpcode

LEMMA ExtendedType ==
  ASSUME NEW r \in Registers, NEW op \in Opcode
  PROVE  ExtendedOpcode(r, op) \in Registers
<1>1. op.arg % UintMod \in Nat /\ op.arg % AddrMod \in Nat
  BY ModNat, ModAssumption DEF Opcode
<1> QED
  BY <1>1 DEF ExtendedOpcode, Registers, LNE_end_sequence, LNE_set_address,
              LNE_set_discriminator

\* Executing an opcode on well typed registers, in a table whose header was
\* accepted, gives well typed registers, before and after a row is emitted.
LEMMA ExecutedType ==
  ASSUME NEW s \in Section, HeaderAccepted(s), NEW r \in Registers,
         NEW op \in Opcode
  PROVE  Executed(s, r, op) \in Registers /\ AfterRow(s, r, op) \in Registers
<1>1. Executed(s, r, op) \in Registers
  BY SpecialType, StandardType, ExtendedType DEF Executed
<1>2. AfterRow(s, r, op) \in Registers
  BY ResetType DEF AfterRow, Registers
<1> QED
  BY <1>1, <1>2

-----------------------------------------------------------------------------
(* The inductive invariant.                                                *)

\* The constructor has accepted the header once it has read it.
HeaderRead == pc \notin {"header", "failed"} => HeaderAccepted(sec)

\* Every file entry of section s up to offset p is at most last.
ReadUpTo(s, last, p) == \A o \in 1 .. p : IsFileEntry(s, o) => o <= last

\* An iterator that is not at the end of the section has got where it is by
\* executing everything before its position.
Walked(s, last, it) ==
  /\ ProgramOffset(s) <= it.pos /\ it.pos <= Size(s)
  /\ it.pos < Size(s) => ReadUpTo(s, last, it.pos)

\* So has the cursor of a running ++, unless it started at the end.
CursorWalked ==
  /\ pc = "header" => cur = 0
  /\ pc = "files" => /\ cur <= ProgramOffset(sec)
                     /\ ReadUpTo(sec, last_file_name_end, cur)
  /\ pc = "step" =>
       /\ ProgramOffset(sec) <= cur /\ cur <= Size(sec) /\ self.pos <= cur
       /\ cur < Size(sec) \/ Stepped => ReadUpTo(sec, last_file_name_end, cur)
       /\ output => Stepped

\* The header's files are read when the client gets the table, and the client
\* and the library only have iterators that have walked to where they are.
TableWalked ==
  /\ pc \in {"idle", "step", "back"} =>
       ReadUpTo(sec, last_file_name_end, ProgramOffset(sec))
  /\ \A i \in Iterators : Walked(sec, last_file_name_end, iters[i])
  /\ Walked(sec, last_file_name_end, self)
  /\ Walked(sec, last_file_name_end, prev)
  /\ file_names_complete => ReadUpTo(sec, last_file_name_end, Size(sec))

IInv == TypeOK /\ HeaderRead /\ FileTableExact /\ CursorWalked /\ TableWalked

-----------------------------------------------------------------------------
(* Lemmas.                                                                 *)

LEMMA SizeType ==
  ASSUME NEW s \in Section
  PROVE  /\ ProgramOffset(s) \in Nat /\ Size(s) \in Nat
         /\ ProgramOffset(s) <= Size(s)
         /\ ProgramOffset(s) = Len(s.files)
         /\ Len(s.program) = Size(s) - ProgramOffset(s)
<1> DEFINE a == Len(s.files)
           b == Len(s.program)
<1>1. a \in Nat /\ b \in Nat
  BY SectionFields
<1>2. ProgramOffset(s) = a /\ Size(s) = a + b
  BY DEF ProgramOffset, Size
<1> HIDE DEF a, b
<1>3. ProgramOffset(s) \in Nat /\ Size(s) \in Nat /\ ProgramOffset(s) <= Size(s)
      /\ b = Size(s) - ProgramOffset(s)
  BY <1>1, <1>2
<1> QED
  BY <1>2, <1>3 DEF a, b

LEMMA OpcodeAtType ==
  ASSUME NEW s \in Section, NEW o \in Nat, ProgramOffset(s) < o, o <= Size(s)
  PROVE  OpcodeAt(s, o) \in Opcode
<1>1. o - ProgramOffset(s) \in 1 .. (Size(s) - ProgramOffset(s))
  BY SizeType
<1>2. OpcodeAt(s, o) = s.program[o - ProgramOffset(s)]
  BY DEF OpcodeAt, ProgramOffset
<1>3. s.program \in Seq(Opcode) /\ Len(s.program) = Size(s) - ProgramOffset(s)
  BY SectionFields, SizeType
<1> QED
  BY <1>1, <1>2, <1>3

LEMMA IteratorType ==
  ASSUME NEW s \in Section, NEW p \in Nat
  PROVE  IteratorAt(s, p) \in Iterator
<1>1. NullFile \in Pointer
  BY DEF NullFile, Pointer
<1> QED
  BY <1>1, ResetType DEF IteratorAt, Iterator, Entry

LEMMA NoResultType == NoCall \in Call /\ NoResult \in Result /\ NullFile \in Pointer
<1>1. (CHOOSE i \in Iterators : TRUE) \in Iterators
  BY ArgumentsAssumption
<1>2. NoCall \in Call /\ NullFile \in Pointer
  BY <1>1 DEF NoCall, Call, NullFile, Pointer
<1> QED
  BY <1>2 DEF NoResult, Result, Status

\* What has been read stays read.
LEMMA ReadUpToMonotone ==
  ASSUME NEW s, NEW l \in Nat, NEW m \in Nat, l <= m
  PROVE  /\ \A p : ReadUpTo(s, l, p) => ReadUpTo(s, m, p)
         /\ \A it : Walked(s, l, it) => Walked(s, m, it)
<1>1. ASSUME NEW p, ReadUpTo(s, l, p) PROVE ReadUpTo(s, m, p)
  BY <1>1 DEF ReadUpTo
<1> QED
  BY <1>1 DEF Walked

\* end() needs nothing to be read; begin() needs the header.
LEMMA IteratorWalked ==
  ASSUME NEW s \in Section, NEW last \in Nat
  PROVE  /\ Walked(s, last, End(s))
         /\ ReadUpTo(s, last, ProgramOffset(s)) =>
              Walked(s, last, IteratorAt(s, ProgramOffset(s)))
  BY SizeType DEF Walked, End, IteratorAt

\* One more offset, when it holds no unread file entry.
LEMMA ReadUpToNext ==
  ASSUME NEW s, NEW last \in Nat, NEW p \in Nat, ReadUpTo(s, last, p),
         IsFileEntry(s, p + 1) => p + 1 <= last
  PROVE  ReadUpTo(s, last, p + 1)
  BY DEF ReadUpTo

\* read_file_entry, when everything before the entry has been read: the table
\* stays exact and the entry has been read.
LEMMA ReadFileEntryExact ==
  ASSUME TypeOK, FileTableExact, sec' = sec, NEW o \in Nat \ {0}, o <= Size(sec),
         IsFileEntry(sec, o), ReadUpTo(sec, last_file_name_end, o - 1),
         ReadFileEntry(o, DirOf(sec, o))
  PROVE  /\ FileTableExact'
         /\ last_file_name_end' \in Nat /\ last_file_name_end <= last_file_name_end'
         /\ file_names' \in Seq(Nat) /\ capacity' \in Nat
         /\ o <= last_file_name_end'
<1>1. CASE o <= last_file_name_end
  BY <1>1 DEF ReadFileEntry, fileVars, TypeOK, FileTableExact
<1>2. CASE ~(o <= last_file_name_end)
  <2>1. last_file_name_end' = o /\ last_file_name_end \in Nat
        /\ file_names \in Seq(Nat) /\ capacity \in Nat
    BY <1>2 DEF ReadFileEntry, TypeOK
  <2>2. \A q \in 1 .. o : GoodEntry(sec, q) /\ q # o => q <= last_file_name_end
    BY DEF ReadUpTo, GoodEntry
  <2>3. CASE DirOf(sec, o) < sec.dirs
    <3>1. file_names' = Append(file_names, o) /\ capacity' = Grown
      BY <1>2, <2>3 DEF ReadFileEntry
    <3>2. GoodEntry(sec, o)
      BY <2>3 DEF GoodEntry
    <3>3. /\ Len(file_names') = Len(file_names) + 1
          /\ \A k \in 1 .. Len(file_names) : file_names'[k] = file_names[k]
          /\ file_names'[Len(file_names) + 1] = o
          /\ Len(file_names) \in Nat
      BY <2>1, <3>1
    <3>4. \A k \in 1 .. Len(file_names) : file_names[k] < o
      BY <1>2, <2>1 DEF FileTableExact
    <3>5. \A k, l \in 1 .. Len(file_names') :
            k < l => file_names'[k] < file_names'[l]
      BY <3>3, <3>4 DEF FileTableExact
    <3>6. \A k \in 1 .. Len(file_names') :
            file_names'[k] = 0 \/ (GoodEntry(sec, file_names'[k])
                                   /\ file_names'[k] <= o)
      <4> SUFFICES ASSUME NEW k \in 1 .. Len(file_names')
                   PROVE  file_names'[k] = 0 \/ (GoodEntry(sec, file_names'[k])
                                                 /\ file_names'[k] <= o)
        OBVIOUS
      <4>1. CASE k = Len(file_names) + 1
        BY <3>2, <3>3, <4>1
      <4>2. CASE k # Len(file_names) + 1
        <5>1. k \in 1 .. Len(file_names) /\ file_names'[k] = file_names[k]
          BY <3>3, <4>2
        <5>2. file_names[k] < o /\ file_names[k] \in Nat
          BY <2>1, <3>4, <5>1
        <5>3. file_names[k] = 0 \/ GoodEntry(sec, file_names[k])
          BY <5>1 DEF FileTableExact
        <5> QED
          BY <5>1, <5>2, <5>3
      <4> QED
        BY <4>1, <4>2
    <3>7. \A q \in 1 .. o :
            GoodEntry(sec, q) => \E k \in 1 .. Len(file_names') : file_names'[k] = q
      <4> SUFFICES ASSUME NEW q \in 1 .. o, GoodEntry(sec, q)
                   PROVE  \E k \in 1 .. Len(file_names') : file_names'[k] = q
        OBVIOUS
      <4>1. CASE q = o
        BY <3>3, <4>1
      <4>2. CASE q # o
        <5>1. PICK k \in 1 .. Len(file_names) : file_names[k] = q
          BY <2>1, <2>2, <4>2 DEF FileTableExact
        <5> QED
          BY <3>3, <5>1
      <4> QED
        BY <4>1, <4>2
    <3>8. FileTableExact'
      BY <2>1, <3>5, <3>6, <3>7 DEF FileTableExact
    <3>9. capacity' \in Nat /\ file_names' \in Seq(Nat)
      BY <2>1, <3>1 DEF Grown
    <3> QED
      BY <1>2, <2>1, <3>8, <3>9
  <2>4. CASE ~(DirOf(sec, o) < sec.dirs)
    <3>1. UNCHANGED <<file_names, capacity>>
      BY <1>2, <2>4 DEF ReadFileEntry
    <3>2. ~GoodEntry(sec, o)
      BY <2>4 DEF GoodEntry
    <3>3. \A k \in 1 .. Len(file_names) :
            file_names[k] = 0 \/ (GoodEntry(sec, file_names[k])
                                  /\ file_names[k] <= o)
      BY <1>2, <2>1 DEF FileTableExact
    <3>4. \A q \in 1 .. o :
            GoodEntry(sec, q) => \E k \in 1 .. Len(file_names) : file_names[k] = q
      BY <2>1, <2>2, <3>2 DEF FileTableExact
    <3>5. FileTableExact'
      BY <2>1, <3>1, <3>3, <3>4 DEF FileTableExact
    <3> QED
      BY <1>2, <2>1, <3>1, <3>5
  <2> QED
    BY <2>3, <2>4
<1> QED
  BY <1>1, <1>2

-----------------------------------------------------------------------------
(* The file table.                                                         *)

\* The opcode a running ++ is about to execute.
LEMMA OpType ==
  ASSUME IInv, Running
  PROVE  /\ cur \in Nat /\ cur + 1 <= Size(sec) /\ ProgramOffset(sec) < cur + 1
         /\ Op \in Opcode /\ HeaderAccepted(sec) /\ sec \in Section
         /\ ReadUpTo(sec, last_file_name_end, cur)
         /\ IsFileEntry(sec, cur + 1) <=> IsDefineFile(Op)
         /\ DirOf(sec, cur + 1) = Op.arg
<1>1. sec \in Section
  BY SectionsAssumption DEF IInv, TypeOK
<1>2. /\ cur \in Nat /\ ProgramOffset(sec) <= cur /\ cur < Size(sec)
      /\ ReadUpTo(sec, last_file_name_end, cur)
  BY DEF IInv, TypeOK, CursorWalked, Running
<1>3. /\ ProgramOffset(sec) \in Nat /\ Size(sec) \in Nat
  BY <1>1, SizeType
<1>4. Op \in Opcode
  BY <1>1, <1>2, <1>3, OpcodeAtType DEF Op
<1>5. IsFileEntry(sec, cur + 1) <=> IsDefineFile(Op)
  BY <1>2, <1>3 DEF IsFileEntry, Op
<1>6. DirOf(sec, cur + 1) = Op.arg
  BY <1>2, <1>3 DEF DirOf, Op
<1> QED
  BY <1>1, <1>2, <1>3, <1>4, <1>5, <1>6 DEF IInv, HeaderRead, Running

\* Only three actions touch the file table.
LEMMA FileActions ==
  ASSUME Next
  PROVE  HeaderFile \/ StepDefineFile \/ StepBadFile \/ UNCHANGED <<sec, fileVars>>
<1>1. CASE Client
  BY <1>1 DEF Client, Begin, Increment, Assign, GetFile, GetKnownFile, FindAddress,
              Enter
<1>2. CASE Library
  BY <1>2 DEF Library, CheckHeader, HeaderEnd, StepOpcode, StepBadOpcode,
              UnexpectedEnd, NothingToStep, FinishRow, ReturnIterator, GetFileNext,
              GetFileReturn, FindFirst, FindScan, FindReturn, FindNext
<1>3. CASE NoTable
  BY <1>3 DEF NoTable, vars, fileVars
<1> QED
  BY <1>1, <1>2, <1>3 DEF Next

\* Every step keeps the section and the file table exact, and never forgets
\* what has been read.
LEMMA FilesStep ==
  ASSUME IInv, Next
  PROVE  /\ sec' = sec /\ FileTableExact'
         /\ last_file_name_end' \in Nat /\ last_file_name_end <= last_file_name_end'
         /\ file_names' \in Seq(Nat) /\ capacity' \in Nat
<1>1. CASE HeaderFile
  <2>1. sec' = sec /\ cur' = cur + 1 /\ cur \in Nat /\ cur + 1 <= ProgramOffset(sec)
        /\ ReadUpTo(sec, last_file_name_end, cur) /\ sec \in Section
    BY <1>1, SizeType, SectionsAssumption
    DEF HeaderFile, IInv, TypeOK, CursorWalked
  <2>2. /\ IsFileEntry(sec, cur + 1) /\ DirOf(sec, cur + 1) = sec.files[cur + 1]
        /\ cur + 1 <= Size(sec)
    BY <2>1, SizeType DEF IsFileEntry, DirOf
  <2>3. ReadFileEntry(cur + 1, DirOf(sec, cur + 1))
    BY <1>1, <2>1, <2>2 DEF HeaderFile
  <2> QED
    BY <2>1, <2>2, <2>3, ReadFileEntryExact DEF IInv
<1>2. CASE StepDefineFile \/ StepBadFile
  <2>1. /\ sec' = sec /\ Running /\ IsDefineFile(Op)
        /\ ReadFileEntry(cur + 1, Op.arg)
    BY <1>2 DEF StepDefineFile, StepBadFile
  <2> QED
    BY <2>1, OpType, ReadFileEntryExact DEF IInv
<1>3. CASE UNCHANGED <<sec, fileVars>>
  BY <1>3 DEF fileVars, FileTableExact, IInv, TypeOK
<1> QED
  BY <1>1, <1>2, <1>3, FileActions

-----------------------------------------------------------------------------
(* Types.                                                                  *)

\* The local state of the library and the outcome of the last call.
LocalsOK ==
  /\ pc \in {"header", "files", "failed", "idle", "step", "back"}
  /\ file_names_complete \in BOOLEAN
  /\ iters \in [Iterators -> Iterator]
  /\ call \in Call
  /\ self \in Iterator /\ prev \in Iterator
  /\ cur \in Nat /\ output \in BOOLEAN
  /\ result \in Result

\* What holds of iterators built from well typed parts.
LEMMA IteratorExcept ==
  ASSUME NEW it \in Iterator
  PROVE  /\ it.pos \in Nat /\ it.regs \in Registers /\ it.entry \in Entry
         /\ it.entry.row \in Registers /\ it.entry.file \in Pointer
         /\ [it EXCEPT !.torn = TRUE] \in Iterator
         /\ \A r \in Registers : [it EXCEPT !.regs = r] \in Iterator
         /\ \A r \in Registers, e \in Entry :
              [it EXCEPT !.regs = r, !.entry = e] \in Iterator
         /\ \A p \in Nat, e \in Entry :
              [it EXCEPT !.pos = p, !.entry = e] \in Iterator
  BY DEF Iterator, Entry

LEMMA SelfAfterType ==
  ASSUME IInv, Running
  PROVE  SelfAfter \in Iterator /\ SelfAfter.pos = self.pos
<1>1. self \in Iterator /\ self.regs \in Registers
  BY IteratorExcept DEF IInv, TypeOK
<1> DEFINE r == Executed(sec, self.regs, Op)
           a == AfterRow(sec, r, Op)
<1>2. r \in Registers
  BY <1>1, OpType, ExecutedType
<1>3. a \in Registers
  BY <1>2, OpType, ExecutedType
<1>4. SelfAfter = IF EmitsRow(sec, Op)
                  THEN [self EXCEPT !.regs = a,
                                    !.entry = [row |-> r, file |-> NullFile]]
                  ELSE [self EXCEPT !.regs = r]
  BY DEF SelfAfter
<1> HIDE DEF r, a
<1>5. [row |-> r, file |-> NullFile] \in Entry
  BY <1>2, NoResultType DEF Entry
<1>6. SelfAfter \in Iterator
  BY <1>1, <1>2, <1>3, <1>4, <1>5, IteratorExcept
<1>7. SelfAfter.pos = self.pos
  BY <1>1, <1>4 DEF Iterator
<1> QED
  BY <1>6, <1>7

LEMMA ReturnType ==
  ASSUME IInv, NEW status \in Status, NEW file \in Pointer, Return(status, file)
  PROVE  /\ pc' = "idle" /\ call' \in Call /\ cur' \in Nat /\ output' \in BOOLEAN
         /\ self' = End(sec) /\ prev' = End(sec) /\ End(sec) \in Iterator
         /\ result' \in Result
<1>1. End(sec) \in Iterator
  BY SectionsAssumption, SizeType, IteratorType DEF IInv, TypeOK, End
<1>2. [call |-> call, status |-> status, file |-> file] \in Result
  BY DEF IInv, TypeOK, Result
<1> QED
  BY <1>1, <1>2, NoResultType DEF Return

LEMMA ThrowType ==
  ASSUME IInv, NEW obj \in Iterator, Throw(obj)
  PROVE  /\ pc' = "idle" /\ call' \in Call /\ cur' \in Nat /\ output' \in BOOLEAN
         /\ self' = End(sec) /\ prev' = End(sec) /\ End(sec) \in Iterator
         /\ result' \in Result
         /\ iters' \in [Iterators -> Iterator]
         /\ \A i \in Iterators : iters'[i] = iters[i] \/ iters'[i].pos = obj.pos
<1>1. Return("threw", NullFile) /\ "threw" \in Status
  BY DEF Throw, Status
<1>2. [obj EXCEPT !.torn = TRUE] \in Iterator /\ [obj EXCEPT !.torn = TRUE].pos = obj.pos
  BY IteratorExcept DEF Iterator
<1>3. call.it \in Iterators /\ iters \in [Iterators -> Iterator]
  BY DEF IInv, TypeOK, Call
<1>4. /\ iters' \in [Iterators -> Iterator]
      /\ \A i \in Iterators : iters'[i] = iters[i] \/ iters'[i].pos = obj.pos
  BY <1>2, <1>3 DEF Throw
<1> QED
  BY <1>1, <1>4, ReturnType, NoResultType

-----------------------------------------------------------------------------
(* One step: everything but the file table.                                *)

\* What a step has to establish, beside FilesStep, about the next state.
NextOK == LocalsOK /\ HeaderRead /\ CursorWalked /\ TableWalked

\* Facts that every case uses: what was read and walked before is so after.
LEMMA StepFacts ==
  ASSUME IInv, Next
  PROVE  /\ sec' = sec /\ sec \in Section /\ last_file_name_end' \in Nat
         /\ LocalsOK /\ ProgramOffset(sec) \in Nat /\ Size(sec) \in Nat
         /\ ProgramOffset(sec) <= Size(sec)
         /\ \A p : ReadUpTo(sec, last_file_name_end, p)
                     => ReadUpTo(sec, last_file_name_end', p)
         /\ \A it : Walked(sec, last_file_name_end, it)
                     => Walked(sec, last_file_name_end', it)
         /\ Walked(sec, last_file_name_end', End(sec))
         /\ End(sec) \in Iterator
<1>1. /\ sec' = sec /\ last_file_name_end \in Nat /\ last_file_name_end' \in Nat
      /\ last_file_name_end <= last_file_name_end'
  BY FilesStep DEF IInv, TypeOK
<1>2. sec \in Section
  BY SectionsAssumption DEF IInv, TypeOK
<1>3. LocalsOK
  BY DEF IInv, TypeOK, LocalsOK
<1> QED
  BY <1>1, <1>2, <1>3, ReadUpToMonotone, IteratorWalked, IteratorType, SizeType DEF End

\* A step that starts operator++ on an iterator that has walked to its place,
\* and changes nothing else that matters.
LEMMA AdvanceOK ==
  ASSUME IInv, Next, pc \in {"idle", "back"},
         NEW it \in Iterator, Walked(sec, last_file_name_end, it), Advance(it),
         call' \in Call, result' \in Result, UNCHANGED <<iters, file_names_complete>>,
         prev' \in Iterator, Walked(sec, last_file_name_end, prev')
  PROVE  NextOK'
<1>1. pc' = "step" /\ self' = it /\ cur' = it.pos /\ output' = FALSE
  BY DEF Advance
<1>2. LocalsOK'
  BY <1>1, StepFacts, IteratorExcept DEF LocalsOK
<1>3. HeaderRead'
  BY <1>1, StepFacts DEF HeaderRead, IInv
<1>4. CursorWalked'
  BY <1>1, StepFacts DEF CursorWalked, Walked, Stepped, Iterator
<1>5. TableWalked'
  BY <1>1, StepFacts DEF TableWalked, IInv
<1> QED
  BY <1>2, <1>3, <1>4, <1>5 DEF NextOK

\* A step that ends an operation: the locals are gone and every iterator of
\* the client has walked to its place.
LEMMA EndOK ==
  ASSUME IInv, Next, pc \in {"step", "back"}, pc' = "idle", call' \in Call,
         cur' \in Nat, output' \in BOOLEAN, result' \in Result,
         self' = End(sec), prev' = End(sec), iters' \in [Iterators -> Iterator],
         \A i \in Iterators : Walked(sec, last_file_name_end, iters'[i]),
         file_names_complete' \in BOOLEAN,
         file_names_complete' => ReadUpTo(sec, last_file_name_end, Size(sec))
  PROVE  NextOK'
<1>2. LocalsOK'
  BY StepFacts DEF LocalsOK
<1>3. HeaderRead'
  BY StepFacts DEF HeaderRead, IInv
<1>4. CursorWalked'
  BY DEF CursorWalked
<1>5. TableWalked'
  BY StepFacts DEF TableWalked, IInv
<1> QED
  BY <1>2, <1>3, <1>4, <1>5 DEF NextOK

\* An exception ends an operation with the position of the iterator unchanged.
LEMMA ThrowOK ==
  ASSUME IInv, Next, pc = "step", NEW obj \in Iterator, obj.pos = self.pos,
         Throw(obj), file_names_complete' \in BOOLEAN,
         file_names_complete' => ReadUpTo(sec, last_file_name_end, Size(sec))
  PROVE  NextOK'
<1>1. \A i \in Iterators : Walked(sec, last_file_name_end, iters'[i])
  BY ThrowType DEF IInv, TableWalked, Walked
<1> QED
  BY <1>1, ThrowType, EndOK

LEMMA ConstructorOK ==
  ASSUME IInv, Next, CheckHeader \/ HeaderFile \/ HeaderEnd
  PROVE  NextOK'
<1>1. CASE CheckHeader
  <2>1. /\ pc = "header" /\ cur = 0 /\ pc' \in {"files", "failed"}
        /\ pc' = "files" => HeaderAccepted(sec)
        /\ UNCHANGED <<sec, fileVars, file_names_complete, iters, call, self,
                       prev, cur, output, result>>
    BY <1>1 DEF CheckHeader, IInv, CursorWalked
  <2>2. LocalsOK' /\ HeaderRead'
    BY <2>1, StepFacts DEF LocalsOK, HeaderRead
  <2>3. CursorWalked' /\ TableWalked'
    BY <2>1, StepFacts DEF CursorWalked, TableWalked, IInv, ReadUpTo, fileVars
  <2> QED
    BY <2>2, <2>3 DEF NextOK
<1>2. CASE HeaderFile
  <2>1. /\ pc = "files" /\ pc' \in {"files", "failed"} /\ cur' = cur + 1
        /\ cur \in Nat /\ cur + 1 <= ProgramOffset(sec)
        /\ ReadUpTo(sec, last_file_name_end, cur)
        /\ UNCHANGED <<sec, file_names_complete, iters, call, self, prev,
                       output, result>>
    BY <1>2, StepFacts DEF HeaderFile, IInv, CursorWalked, LocalsOK
  <2>2. cur + 1 <= last_file_name_end'
    BY <1>2, <2>1, StepFacts DEF HeaderFile, ReadFileEntry, fileVars, IInv, TypeOK
  <2>3. ReadUpTo(sec, last_file_name_end', cur + 1)
    BY <2>1, <2>2, StepFacts, ReadUpToNext
  <2>4. LocalsOK' /\ HeaderRead'
    BY <2>1, StepFacts DEF LocalsOK, HeaderRead, IInv
  <2>5. CursorWalked' /\ TableWalked'
    BY <2>1, <2>3, StepFacts DEF CursorWalked, TableWalked, IInv
  <2> QED
    BY <2>4, <2>5 DEF NextOK
<1>3. CASE HeaderEnd
  <2>1. /\ pc = "files" /\ pc' = "idle" /\ cur' = 0
        /\ ReadUpTo(sec, last_file_name_end, ProgramOffset(sec))
        /\ UNCHANGED <<sec, fileVars, file_names_complete, iters, call, self, prev,
                       output, result>>
    BY <1>3 DEF HeaderEnd, IInv, CursorWalked
  <2>2. LocalsOK' /\ HeaderRead'
    BY <2>1, StepFacts DEF LocalsOK, HeaderRead, IInv
  <2>3. CursorWalked' /\ TableWalked'
    BY <2>1, StepFacts DEF CursorWalked, TableWalked, IInv
  <2> QED
    BY <2>2, <2>3 DEF NextOK
<1> QED
  BY <1>1, <1>2, <1>3

LEMMA ClientOK ==
  ASSUME IInv, Next, Client
  PROVE  NextOK'
<1> DEFINE first == IteratorAt(sec, ProgramOffset(sec))
<1>1. pc = "idle" =>
        first \in Iterator /\ Walked(sec, last_file_name_end, first)
  BY StepFacts, IteratorType, IteratorWalked DEF IInv, TypeOK, TableWalked
<1>2. /\ \A i \in Iterators : /\ iters[i] \in Iterator
                             /\ Walked(sec, last_file_name_end, iters[i])
      /\ prev \in Iterator /\ Walked(sec, last_file_name_end, prev)
      /\ iters \in [Iterators -> Iterator]
  BY DEF IInv, TypeOK, TableWalked
<1> HIDE DEF first
<1>3. ASSUME NEW i \in Iterators, NEW arg \in Nat,
             NEW op \in {"begin", "incr", "get_file", "find_first"},
             pc = "idle", Enter(op, i, arg), NEW it \in Iterator,
             Walked(sec, last_file_name_end, it), Advance(it)
      PROVE  NextOK'
  <2>1. call' \in Call /\ result' \in Result
        /\ UNCHANGED <<iters, file_names_complete, prev>>
    BY <1>3, NoResultType DEF Enter, Call
  <2> QED
    BY <1>2, <1>3, <2>1, AdvanceOK
<1>4. ASSUME NEW i \in Iterators, Begin(i) PROVE NextOK'
  BY <1>1, <1>3, <1>4 DEF Begin, first
<1>5. ASSUME NEW i \in Iterators, Increment(i) PROVE NextOK'
  BY <1>2, <1>3, <1>5 DEF Increment
<1>6. ASSUME NEW i \in Iterators, NEW a \in Addresses, FindAddress(i, a)
      PROVE  NextOK'
  BY <1>1, <1>3, <1>6, ArgumentsAssumption DEF FindAddress, first
<1>7. ASSUME NEW x \in FileIndexes, GetFile(x) PROVE NextOK'
  <2>1. NoCall.it \in Iterators /\ x \in Nat
    BY NoResultType, ArgumentsAssumption DEF Call
  <2> QED
    BY <1>1, <1>3, <1>7, <2>1 DEF GetFile, first
<1>8. ASSUME NEW i \in Iterators, NEW j \in Iterators, Assign(i, j) PROVE NextOK'
  <2>1. /\ pc = "idle" /\ iters' = [iters EXCEPT ![i] = iters[j]]
        /\ result' \in Result
        /\ UNCHANGED <<sec, pc, fileVars, file_names_complete, call, self, prev,
                       cur, output>>
    BY <1>8, NoResultType DEF Assign
  <2>2. /\ iters' \in [Iterators -> Iterator]
        /\ \A k \in Iterators : Walked(sec, last_file_name_end, iters'[k])
    BY <1>2, <2>1
  <2>3. LocalsOK' /\ HeaderRead'
    BY <2>1, <2>2, StepFacts DEF LocalsOK, HeaderRead, IInv
  <2>4. CursorWalked' /\ TableWalked'
    BY <2>1, <2>2, StepFacts DEF CursorWalked, TableWalked, IInv
  <2> QED
    BY <2>3, <2>4 DEF NextOK
<1>9. ASSUME NEW x \in FileIndexes, GetKnownFile(x) PROVE NextOK'
  <2>1. x \in Nat /\ capacity \in Nat
    BY ArgumentsAssumption DEF IInv, TypeOK
  <2>2. FileLookup(x) \in Result
    BY <2>1, NoResultType DEF FileLookup, FilePointer, Pointer, Result, Status, Call
  <2>3. /\ pc = "idle" /\ result' \in Result
        /\ UNCHANGED <<sec, pc, fileVars, file_names_complete, iters, call, self,
                       prev, cur, output>>
    BY <1>9, <2>2 DEF GetKnownFile
  <2>4. LocalsOK' /\ HeaderRead'
    BY <2>3, StepFacts DEF LocalsOK, HeaderRead, IInv
  <2>5. CursorWalked' /\ TableWalked'
    BY <2>3, StepFacts DEF CursorWalked, TableWalked, IInv
  <2> QED
    BY <2>4, <2>5 DEF NextOK
<1> QED
  BY <1>4, <1>5, <1>6, <1>7, <1>8, <1>9 DEF Client

LEMMA IncrementOK ==
  ASSUME IInv, Next,
         \/ StepOpcode \/ StepDefineFile \/ StepBadFile \/ StepBadOpcode
         \/ UnexpectedEnd \/ NothingToStep \/ FinishRow
  PROVE  NextOK'
<1>0. /\ self \in Iterator /\ Walked(sec, last_file_name_end, self)
      /\ self.pos \in Nat /\ cur \in Nat
      /\ file_names_complete \in BOOLEAN
      /\ file_names_complete => ReadUpTo(sec, last_file_name_end, Size(sec))
  BY IteratorExcept DEF IInv, TypeOK, TableWalked
<1>1. CASE StepOpcode
  <2>1. /\ Running /\ ~IsDefineFile(Op) /\ self' = SelfAfter /\ cur' = cur + 1
        /\ output' = EmitsRow(sec, Op)
        /\ UNCHANGED <<sec, pc, fileVars, file_names_complete, iters, call, prev,
                       result>>
    BY <1>1 DEF StepOpcode
  <2>2. /\ ReadUpTo(sec, last_file_name_end, cur + 1)
        /\ ProgramOffset(sec) <= cur /\ cur + 1 <= Size(sec)
        /\ self.pos <= cur
    BY <1>0, <2>1, OpType, ReadUpToNext, StepFacts
    DEF IInv, TypeOK, CursorWalked, Running
  <2>3. SelfAfter \in Iterator /\ SelfAfter.pos = self.pos
    BY <2>1, SelfAfterType
  <2>4. output' \in BOOLEAN
    BY <2>1 DEF EmitsRow, IsSpecial, IsStandard, IsExtended
  <2>5. LocalsOK' /\ HeaderRead'
    BY <2>1, <2>3, <2>4, <1>0, StepFacts DEF LocalsOK, HeaderRead, IInv
  <2>6. CursorWalked'
    BY <1>0, <2>1, <2>2, <2>3, StepFacts DEF CursorWalked, Stepped, Running, fileVars
  <2>7. TableWalked'
    BY <2>1, <2>3, <1>0, StepFacts DEF TableWalked, Walked, IInv, Running
  <2> QED
    BY <2>5, <2>6, <2>7 DEF NextOK
<1>2. CASE StepDefineFile
  <2>1. /\ Running /\ cur' = cur + 1 /\ ~output /\ ReadFileEntry(cur + 1, Op.arg)
        /\ UNCHANGED <<sec, pc, file_names_complete, iters, call, self, prev,
                       output, result>>
    BY <1>2 DEF StepDefineFile, Running
  <2>2. cur + 1 <= last_file_name_end'
    BY <1>0, <2>1, StepFacts DEF ReadFileEntry, fileVars, IInv, TypeOK
  <2>3. /\ ReadUpTo(sec, last_file_name_end', cur + 1)
        /\ ProgramOffset(sec) <= cur /\ cur + 1 <= Size(sec)
        /\ self.pos <= cur
    BY <1>0, <2>1, <2>2, OpType, ReadUpToNext, StepFacts
    DEF IInv, CursorWalked, Running
  <2>4. LocalsOK' /\ HeaderRead'
    BY <2>1, <1>0, StepFacts DEF LocalsOK, HeaderRead, IInv
  <2>5. CursorWalked'
    BY <1>0, <2>1, <2>3, StepFacts DEF CursorWalked, Stepped, Running
  <2>6. TableWalked'
    BY <2>1, <1>0, StepFacts DEF TableWalked, IInv, Running
  <2> QED
    BY <2>4, <2>5, <2>6 DEF NextOK
<1>3. CASE StepBadFile \/ UnexpectedEnd
  <2>1. pc = "step" /\ Throw(self) /\ file_names_complete' = file_names_complete
    BY <1>3 DEF StepBadFile, UnexpectedEnd, Running
  <2> QED
    BY <1>0, <2>1, ThrowOK
<1>4. CASE StepBadOpcode
  <2>1. /\ Running /\ file_names_complete' = file_names_complete
        /\ Throw(IF IsUnknown(sec, Op) THEN self ELSE SelfAfter)
    BY <1>4 DEF StepBadOpcode
  <2>2. SelfAfter \in Iterator /\ SelfAfter.pos = self.pos /\ pc = "step"
    BY <2>1, SelfAfterType DEF Running
  <2> QED
    BY <1>0, <2>1, <2>2, ThrowOK
<1>5. CASE NothingToStep
  <2>1. /\ pc = "step" /\ pc' = "back"
        /\ UNCHANGED <<sec, fileVars, file_names_complete, iters, call, self, prev,
                       cur, output, result>>
    BY <1>5 DEF NothingToStep
  <2>2. LocalsOK' /\ HeaderRead'
    BY <2>1, StepFacts DEF LocalsOK, HeaderRead, IInv
  <2>3. CursorWalked' /\ TableWalked'
    BY <2>1, StepFacts DEF CursorWalked, TableWalked, IInv
  <2> QED
    BY <2>2, <2>3 DEF NextOK
<1>6. CASE FinishRow
  <2> DEFINE e == [row  |-> self.entry.row,
                   file |-> FilePointer(self.entry.row.file_index)]
  <2>1. /\ pc = "step" /\ output /\ UNCHANGED <<sec, fileVars>>
        /\ file_names_complete' = (file_names_complete \/ cur = Size(sec))
    BY <1>6 DEF FinishRow
  <2>2. /\ ReadUpTo(sec, last_file_name_end, cur)
        /\ ProgramOffset(sec) <= cur /\ cur <= Size(sec)
    BY <2>1 DEF IInv, CursorWalked
  <2>3. /\ file_names_complete' \in BOOLEAN
        /\ file_names_complete' => ReadUpTo(sec, last_file_name_end, Size(sec))
    BY <1>0, <2>1, <2>2
  <2>4. CASE Throw(self)
    BY <1>0, <2>1, <2>3, <2>4, ThrowOK
  <2>5. CASE ~Throw(self)
    <3>1. /\ self' = [self EXCEPT !.pos = cur, !.entry = e]
          /\ pc' = "back" /\ UNCHANGED <<iters, call, prev, cur, output, result>>
      BY <1>6, <2>5 DEF FinishRow
    <3>2. e \in Entry
      <4>1. self.entry.row \in Registers /\ capacity \in Nat
        BY <1>0, IteratorExcept DEF IInv, TypeOK
      <4>2. self.entry.row.file_index \in Nat
        BY <4>1 DEF Registers
      <4> QED
        BY <4>1, <4>2 DEF Entry, FilePointer, Pointer
    <3> HIDE DEF e
    <3>3. self' \in Iterator /\ self'.pos = cur
      BY <1>0, <3>1, <3>2, IteratorExcept DEF Iterator
    <3>4. LocalsOK' /\ HeaderRead'
      BY <2>1, <2>3, <3>1, <3>3, StepFacts DEF LocalsOK, HeaderRead, IInv
    <3>5. CursorWalked'
      BY <3>1 DEF CursorWalked
    <3>6. TableWalked'
      BY <2>1, <2>2, <2>3, <3>1, <3>3, StepFacts DEF TableWalked, Walked, IInv
    <3> QED
      BY <3>4, <3>5, <3>6 DEF NextOK
  <2> QED
    BY <2>4, <2>5
<1> QED
  BY <1>1, <1>2, <1>3, <1>4, <1>5, <1>6

LEMMA BackOK ==
  ASSUME IInv, Next,
         ReturnIterator \/ GetFileNext \/ GetFileReturn \/ FindFirst \/ FindScan
  PROVE  NextOK'
<1>0. /\ self \in Iterator /\ Walked(sec, last_file_name_end, self)
      /\ prev \in Iterator /\ Walked(sec, last_file_name_end, prev)
      /\ End(sec) \in Iterator /\ Walked(sec, last_file_name_end, End(sec))
      /\ iters \in [Iterators -> Iterator] /\ call \in Call /\ call.it \in Iterators
      /\ \A i \in Iterators : Walked(sec, last_file_name_end, iters[i])
      /\ file_names_complete \in BOOLEAN
      /\ file_names_complete => ReadUpTo(sec, last_file_name_end, Size(sec))
  BY StepFacts, IteratorWalked DEF IInv, TypeOK, TableWalked, Call
\* An operation that ends by assigning it to an iterator of the client.
<1>1. ASSUME NEW it \in Iterator, Walked(sec, last_file_name_end, it), pc = "back",
             iters' = [iters EXCEPT ![call.it] = it], Return("ok", NullFile),
             UNCHANGED file_names_complete
      PROVE  NextOK'
  <2>1. /\ iters' \in [Iterators -> Iterator]
        /\ \A i \in Iterators : Walked(sec, last_file_name_end, iters'[i])
    BY <1>0, <1>1
  <2>2. "ok" \in Status /\ NullFile \in Pointer
    BY NoResultType DEF Status
  <2> QED
    BY <1>0, <1>1, <2>1, <2>2, ReturnType, EndOK
<1>2. ASSUME NEW it \in Iterator, Walked(sec, last_file_name_end, it), pc = "back",
             FindReturn(it)
      PROVE  NextOK'
  BY <1>1, <1>2 DEF FindReturn
<1>3. ASSUME pc = "back", FindNext PROVE NextOK'
  <2>1. [call EXCEPT !.op = "find_scan"] \in Call
    BY <1>0 DEF Call
  <2>2. result \in Result
    BY DEF IInv, TypeOK
  <2> QED
    BY <1>0, <1>3, <2>1, <2>2, AdvanceOK DEF FindNext
<1>4. CASE ReturnIterator
  BY <1>0, <1>1, <1>4 DEF ReturnIterator
<1>5. CASE GetFileNext
  <2>1. result \in Result
    BY DEF IInv, TypeOK
  <2> QED
    BY <1>0, <1>5, <2>1, AdvanceOK DEF GetFileNext
<1>6. CASE GetFileReturn
  <2> DEFINE found == FileLookup(call.arg)
  <2>1. found.status \in Status /\ found.file \in Pointer
    <3>1. capacity \in Nat /\ call.arg \in Nat
      BY <1>0 DEF IInv, TypeOK, Call
    <3> QED
      BY <3>1, NoResultType DEF FileLookup, FilePointer, Pointer, Status
  <2>2. /\ pc = "back" /\ Return(found.status, found.file)
        /\ UNCHANGED <<sec, fileVars, file_names_complete, iters>>
    BY <1>6 DEF GetFileReturn
  <2> HIDE DEF found
  <2> QED
    BY <1>0, <2>1, <2>2, ReturnType, EndOK
<1>7. CASE FindFirst
  BY <1>0, <1>2, <1>3, <1>7 DEF FindFirst
<1>8. CASE FindScan
  BY <1>0, <1>2, <1>3, <1>8 DEF FindScan
<1> QED
  BY <1>4, <1>5, <1>6, <1>7, <1>8

-----------------------------------------------------------------------------
(* The invariant, and what follows from it.                                *)

LEMMA InitIInv == Init => IInv
<1> SUFFICES ASSUME Init PROVE IInv
  OBVIOUS
<1>1. sec \in Section /\ ProgramOffset(sec) \in Nat /\ Size(sec) \in Nat
      /\ ProgramOffset(sec) <= Size(sec)
  BY SectionsAssumption, SizeType DEF Init
<1>2. End(sec) \in Iterator
  BY <1>1, IteratorType DEF End
<1>3. TypeOK
  <2>1. /\ file_names \in Seq(Nat) /\ capacity \in Nat /\ last_file_name_end \in Nat
    BY DEF Init
  <2>2. iters \in [Iterators -> Iterator]
    BY <1>2 DEF Init
  <2> QED
    BY <1>2, <2>1, <2>2, NoResultType DEF Init, TypeOK
<1>4. HeaderRead /\ CursorWalked
  BY DEF Init, HeaderRead, CursorWalked
<1>5. FileTableExact
  <2>1. Len(file_names) = 1 /\ file_names[1] = 0 /\ last_file_name_end = 0
    BY DEF Init
  <2> QED
    BY <2>1 DEF FileTableExact
<1>6. TableWalked
  <2>1. last_file_name_end \in Nat /\ Walked(sec, last_file_name_end, End(sec))
    BY <1>1, IteratorWalked DEF Init
  <2> QED
    BY <2>1 DEF Init, TableWalked
<1> QED
  BY <1>3, <1>4, <1>5, <1>6 DEF IInv

LEMMA NextIInv == IInv /\ [Next]_vars => IInv'
<1> SUFFICES ASSUME IInv, [Next]_vars PROVE IInv'
  OBVIOUS
<1>1. CASE UNCHANGED vars
  BY <1>1 DEF vars, IInv, TypeOK, HeaderRead, FileTableExact, CursorWalked,
              Stepped, TableWalked
<1>2. CASE Next /\ ~NoTable
  <2>1. NextOK'
    BY <1>2, ConstructorOK, ClientOK, IncrementOK, BackOK DEF Next, Library
  <2>2. /\ sec' = sec /\ FileTableExact' /\ last_file_name_end' \in Nat
        /\ file_names' \in Seq(Nat) /\ capacity' \in Nat
    BY <1>2, FilesStep
  <2>3. TypeOK'
    BY <2>1, <2>2 DEF NextOK, LocalsOK, TypeOK, IInv
  <2> QED
    BY <2>1, <2>2, <2>3 DEF NextOK, IInv
<1> QED
  BY <1>1, <1>2 DEF NoTable

\* The inductive invariant holds in every reachable state.
THEOREM Invariance == Spec => []IInv
  BY InitIInv, NextIInv, PTL DEF Spec

\* Every variable keeps its type, through every opcode and every exception.
THEOREM TypeCorrect == Spec => []TypeOK
<1>1. IInv => TypeOK
  BY DEF IInv
<1> QED
  BY <1>1, Invariance, PTL

\* The file table is exactly what has been read of the section, each entry once
\* and in order, for any number of iterators in any interleaving.
THEOREM FileTableCorrect == Spec => []FileTableExact
<1>1. IInv => FileTableExact
  BY DEF IInv
<1> QED
  BY <1>1, Invariance, PTL

\* Once file_names_complete is set every good file entry is in the table.
THEOREM CompleteCorrect == Spec => []CompleteMeansAllFiles
<1>1. IInv => CompleteMeansAllFiles
  <2> SUFFICES ASSUME IInv, file_names_complete, NEW o \in 1 .. Size(sec),
                      GoodEntry(sec, o)
               PROVE  \E k \in 1 .. Len(file_names) : file_names[k] = o
    BY DEF CompleteMeansAllFiles
  <2>1. o <= last_file_name_end
    BY DEF IInv, TableWalked, ReadUpTo, GoodEntry
  <2>2. o \in 1 .. last_file_name_end
    BY <2>1, SizeType, SectionsAssumption DEF IInv, TypeOK
  <2> QED
    BY <2>2 DEF IInv, FileTableExact
<1> QED
  BY <1>1, Invariance, PTL

\* A file index, once in the table, names the same file for ever.
THEOREM FileIndexesStable == Spec => FileIndexesAreStable
<1>1. IInv /\ [Next]_vars =>
        [\A k \in 1 .. Len(file_names) :
           k <= Len(file_names') /\ file_names'[k] = file_names[k]]_vars
  <2> SUFFICES ASSUME IInv, Next
               PROVE  \A k \in 1 .. Len(file_names) :
                        k <= Len(file_names') /\ file_names'[k] = file_names[k]
    OBVIOUS
  <2>1. file_names \in Seq(Nat)
    BY DEF IInv, TypeOK
  <2>2. file_names' = file_names \/ \E o \in Nat : file_names' = Append(file_names, o)
    <3>1. CASE HeaderFile
      <4>1. cur + 1 \in Nat
        BY DEF IInv, TypeOK
      <4> QED
        BY <3>1, <4>1 DEF HeaderFile, ReadFileEntry, fileVars
    <3>2. CASE StepDefineFile \/ StepBadFile
      <4>1. cur + 1 \in Nat
        BY DEF IInv, TypeOK
      <4> QED
        BY <3>2, <4>1 DEF StepDefineFile, StepBadFile, ReadFileEntry, fileVars
    <3> QED
      BY <3>1, <3>2, FileActions DEF fileVars
  <2> QED
    BY <2>1, <2>2
<1> QED
  BY <1>1, Invariance, PTL DEF Spec, FileIndexesAreStable

-----------------------------------------------------------------------------
(* A look-up that threw out_of_range was right.                            *)

GoodEntries == {o \in 1 .. Size(sec) : GoodEntry(sec, o)}

\* An iterator of get_file that has come to the end has not started there, so it
\* has read all files on its way.  The table begins with the file of index 0.
LookupInv ==
  /\ file_names # << >> /\ file_names[1] = 0
  /\ call.op = "get_file" /\ pc \in {"step", "back"} /\ AtEnd(self) =>
       ReadUpTo(sec, last_file_name_end, Size(sec))
  /\ OutOfRangeIsFinal

\* The table holds every good entry that has been read, behind the file of
\* index 0.
LEMMA FilesCounted ==
  ASSUME IInv, file_names # << >>, file_names[1] = 0,
         NEW G \in SUBSET (1 .. last_file_name_end), \A o \in G : GoodEntry(sec, o)
  PROVE  Cardinality(G) \in Nat /\ Cardinality(G) < Len(file_names)
<1> DEFINE K == 1 .. Len(file_names)
           T == {file_names[k] : k \in K}
           f == [k \in K |-> file_names[k]]
<1>1. Len(file_names) \in Nat \ {0} /\ last_file_name_end \in Nat
  BY DEF IInv, TypeOK
<1>2. IsFiniteSet(K) /\ Cardinality(K) = Len(file_names)
  <2>1. 1 \in Int /\ Len(file_names) \in Int
    BY <1>1
  <2>2. /\ IsFiniteSet(1 .. Len(file_names))
        /\ Cardinality(1 .. Len(file_names)) =
             IF 1 > Len(file_names) THEN 0 ELSE Len(file_names) - 1 + 1
    BY <2>1, FS_Interval, Zenon
  <2> QED
    BY <1>1, <2>2
<1>3. f \in Surjection(K, T)
  BY DEF Surjection
<1> HIDE DEF f
<1>4. IsFiniteSet(T) /\ Cardinality(T) <= Len(file_names)
  BY <1>2, <1>3, FS_Surjection
<1>5. G \cup {0} \subseteq T
  <2>1. ASSUME NEW o \in G PROVE o \in T
    BY <2>1 DEF IInv, FileTableExact
  <2>2. 0 \in T
    BY <1>1
  <2> QED
    BY <2>1, <2>2
<1> HIDE DEF T
<1>6. IsFiniteSet(G) /\ IsFiniteSet(G \cup {0})
      /\ Cardinality(G \cup {0}) <= Cardinality(T)
  BY <1>4, <1>5, FS_Subset
<1>7. 0 \notin G
  BY <1>1
<1>8. Cardinality(G \cup {0}) = Cardinality(G) + 1
  BY <1>6, <1>7, FS_AddElement
<1>9. Cardinality(G) \in Nat /\ Cardinality(T) \in Nat
  BY <1>4, <1>6, FS_CardinalityType
<1> QED
  BY <1>1, <1>4, <1>6, <1>8, <1>9

\* When all of the section has been read, it holds all good entries.
LEMMA AllFilesCounted ==
  ASSUME IInv, file_names # << >>, file_names[1] = 0,
         ReadUpTo(sec, last_file_name_end, Size(sec))
  PROVE  /\ Cardinality(GoodEntries) \in Nat
         /\ Cardinality(GoodEntries) < Len(file_names)
<1>1. last_file_name_end \in Nat /\ Size(sec) \in Nat
  BY SizeType, SectionsAssumption DEF IInv, TypeOK
<1>2. GoodEntries \in SUBSET (1 .. last_file_name_end)
  BY <1>1 DEF GoodEntries, GoodEntry, ReadUpTo
<1>3. \A o \in GoodEntries : GoodEntry(sec, o)
  BY DEF GoodEntries
<1> QED
  BY <1>2, <1>3, FilesCounted

\* What a look-up answers when all has been read.
LEMMA LookupFinal ==
  ASSUME IInv, LookupInv, Next, NEW x \in Nat, FileLookup(x).status = "out_of_range",
         ReadUpTo(sec, last_file_name_end, Size(sec))
  PROVE  x > Cardinality(GoodEntries')
<1>1. Len(file_names) \in Nat /\ ~(x < Len(file_names))
  BY DEF FileLookup, IInv, TypeOK
<1>2. GoodEntries' = GoodEntries
  BY StepFacts DEF GoodEntries
<1> QED
  BY <1>1, <1>2, AllFilesCounted DEF LookupInv

LEMMA NextLookupInv ==
  ASSUME IInv, LookupInv, Next PROVE LookupInv'
<1>1. (file_names # << >> /\ file_names[1] = 0)'
  <2>1. file_names \in Seq(Nat) /\ file_names # << >> /\ file_names[1] = 0 /\ cur + 1 \in Nat
    BY DEF IInv, TypeOK, LookupInv
  <2>2. file_names' = file_names \/ \E o \in Nat : file_names' = Append(file_names, o)
    BY <2>1, FileActions
    DEF fileVars, HeaderFile, StepDefineFile, StepBadFile, ReadFileEntry
  <2> QED
    BY <2>1, <2>2
<1>2. (call.op = "get_file" /\ pc \in {"step", "back"} /\ AtEnd(self) =>
         ReadUpTo(sec, last_file_name_end, Size(sec)))'
  <2> SUFFICES ASSUME call'.op = "get_file", pc' \in {"step", "back"},
                      self'.pos = Size(sec)
               PROVE  ReadUpTo(sec, last_file_name_end', Size(sec))
    BY StepFacts DEF AtEnd
  <2>1. CASE call.op = "get_file" /\ pc \in {"step", "back"} /\ self'.pos = self.pos
    BY <2>1, StepFacts DEF LookupInv, AtEnd
  <2>2. CASE FinishRow /\ pc' = "back"
    BY <2>2, StepFacts DEF FinishRow, Return, Throw, IInv, CursorWalked, TypeOK, Iterator
  <2>3. CASE \E x \in FileIndexes : GetFile(x)
    BY <2>3, StepFacts
    DEF GetFile, Advance, IteratorAt, IInv, TableWalked
  <2>4. CASE Client
    BY <2>3, <2>4 DEF Client, Begin, Increment, Assign, GetKnownFile, FindAddress, Enter
  <2>5. CASE StepOpcode
    BY <2>1, <2>5 DEF StepOpcode, Running, SelfAfter, IInv, TypeOK, Iterator
  <2>6. CASE StepDefineFile \/ NothingToStep \/ GetFileNext
    BY <2>1, <2>6 DEF StepDefineFile, Running, NothingToStep, GetFileNext, Advance
  <2>7. CASE \/ StepBadFile \/ StepBadOpcode \/ UnexpectedEnd \/ FinishRow
             \/ ReturnIterator \/ GetFileReturn
    BY <2>2, <2>7 DEF StepBadFile, StepBadOpcode, UnexpectedEnd, FinishRow, Throw, Return,
       ReturnIterator, GetFileReturn
  <2>8. CASE FindFirst \/ FindScan
    BY <2>8 DEF FindFirst, FindScan, FindReturn, FindNext, Return, IInv, TypeOK, Call
  <2>9. CASE CheckHeader \/ HeaderFile \/ HeaderEnd \/ NoTable
    BY <2>9 DEF CheckHeader, HeaderFile, HeaderEnd, NoTable, vars
  <2> QED
    BY <2>4, <2>5, <2>6, <2>7, <2>8, <2>9 DEF Next, Library
<1>3. OutOfRangeIsFinal'
  <2>1. CASE UNCHANGED result
    BY <2>1, StepFacts DEF LookupInv, OutOfRangeIsFinal, GoodEntries
  <2>2. CASE result'.call.op # "get_file" \/ result'.status # "out_of_range"
    BY <2>2 DEF OutOfRangeIsFinal
  <2>3. CASE \E x \in FileIndexes : GetKnownFile(x)
    <3>1. PICK x \in FileIndexes : GetKnownFile(x)
      BY <2>3
    <3>2. SUFFICES ASSUME FileLookup(x).status = "out_of_range"
                   PROVE  x > Cardinality(GoodEntries')
      BY <3>1, ArgumentsAssumption DEF GetKnownFile, FileLookup, NoCall, OutOfRangeIsFinal, GoodEntries
    <3>3. file_names_complete
      BY <3>1, <3>2 DEF GetKnownFile, FileLookup
    <3> QED
      BY <3>2, <3>3, LookupFinal, ArgumentsAssumption DEF IInv, TableWalked
  <2>4. CASE GetFileReturn
    <3>1. result'.call = call /\ result'.status = FileLookup(call.arg).status
      BY <2>4 DEF GetFileReturn, Return
    <3>2. ReadUpTo(sec, last_file_name_end, Size(sec)) /\ call.arg \in Nat
      BY <2>4 DEF GetFileReturn, LookupInv, IInv, TypeOK, Call
    <3> QED
      BY <3>1, <3>2, LookupFinal DEF OutOfRangeIsFinal, GoodEntries
  <2>5. CASE Client
    BY <2>2, <2>3, <2>5
    DEF Client, Begin, Increment, Assign, GetFile, FindAddress, Enter, NoResult, NoCall
  <2>6. CASE StepOpcode \/ StepDefineFile \/ NothingToStep \/ GetFileNext
    BY <2>1, <2>6 DEF StepOpcode, StepDefineFile, NothingToStep, GetFileNext
  <2>7. CASE StepBadFile \/ StepBadOpcode \/ UnexpectedEnd \/ ReturnIterator
    BY <2>2, <2>7 DEF StepBadFile, StepBadOpcode, UnexpectedEnd, Throw, Return, ReturnIterator
  <2>8. CASE FinishRow
    <3>1. UNCHANGED result \/ Throw(self)
      BY <2>8 DEF FinishRow
    <3>2. Throw(self) => result'.status = "threw"
      BY DEF Throw, Return
    <3> QED
      BY <2>1, <2>2, <3>1, <3>2
  <2>9. CASE FindFirst \/ FindScan
    BY <2>1, <2>2, <2>9 DEF FindFirst, FindScan, FindReturn, FindNext, Return
  <2>10. CASE CheckHeader \/ HeaderFile \/ HeaderEnd \/ NoTable
    BY <2>1, <2>10 DEF CheckHeader, HeaderFile, HeaderEnd, NoTable, vars
  <2> QED
    BY <2>4, <2>5, <2>6, <2>7, <2>8, <2>9, <2>10 DEF Next, Library
<1> QED
  BY <1>1, <1>2, <1>3 DEF LookupInv

\* get_file throws out_of_range only for an index that no section entry can ever
\* make valid, whatever iterators have read, and thrown on, before (line.cc:187-197).
THEOREM OutOfRangeFinal == Spec => []OutOfRangeIsFinal
<1>1. Init => LookupInv
  BY DEF Init, LookupInv, OutOfRangeIsFinal, NoResult, NoCall
<1>2. IInv /\ LookupInv /\ [Next]_vars => LookupInv'
  <2>1. IInv /\ LookupInv /\ UNCHANGED vars => LookupInv'
    BY DEF vars, LookupInv, OutOfRangeIsFinal, AtEnd
  <2> QED
    BY <2>1, NextLookupInv
<1>3. LookupInv => OutOfRangeIsFinal
  BY DEF LookupInv
<1> QED
  BY <1>1, <1>2, <1>3, Invariance, PTL DEF Spec

-----------------------------------------------------------------------------
(* Sets of opcodes, and one more opcode behind them.                       *)

\* Quotients and remainders of what is already a remainder.
LEMMA QuotientUnique ==
  ASSUME NEW m \in Nat \ {0}, NEW q \in Int, NEW r \in 0..(m-1)
  PROVE (m * q + r) \div m = q /\ (m * q + r) % m = r
  OBVIOUS
LEMMA ModShift ==
  ASSUME NEW m \in Nat \ {0}, NEW a \in Int, NEW n \in Int
  PROVE  /\ ((a % m) + n) \div m = ((a + n) \div m) - (a \div m)
         /\ ((a % m) + n) % m = (a + n) % m
<1> DEFINE q == a \div m
           r == a % m
           t == (r + n) \div m
           u == (r + n) % m
<1>1. q \in Int /\ r \in 0..(m-1) /\ a = m * q + r
  OBVIOUS
<1>2. t \in Int /\ u \in 0..(m-1) /\ r + n = m * t + u
  OBVIOUS
<1> HIDE DEF q, r, t, u
<1>3. a + n = m * (q + t) + u
  BY <1>1, <1>2
<1>4. q + t \in Int
  BY <1>1, <1>2
<1>5. (a + n) \div m = q + t /\ (a + n) % m = u
  BY <1>2, <1>3, <1>4, QuotientUnique
<1>6. (a + n) \div m - q = t
  BY <1>1, <1>2, <1>5
<1> QED
  BY <1>5, <1>6 DEF q, r, t, u

\* A sum with one more summand.
LEMMA SumMore ==
  ASSUME NEW Q, IsFiniteSet(Q), NEW o, o \notin Q, NEW f, NEW g,
         DOMAIN f = Q, DOMAIN g = Q \cup {o},
         \A q \in Q : f[q] \in Int /\ g[q] = f[q], g[o] \in Int
  PROVE  SumFunction(g) = SumFunction(f) + g[o] /\ SumFunction(f) \in Int
<1>1. \A q \in Q \cup {o} : g[q] \in Int
  OBVIOUS
<1>2. SumFunctionOnSet(g, Q \cup {o}) = SumFunctionOnSet(g, Q) + g[o]
  BY <1>1, SumAdd
<1>3. SumFunctionOnSet(f, Q) = SumFunctionOnSet(g, Q)
  BY SumEqual
<1>4. SumFunctionOnSet(f, Q) \in Int
  BY SumType
<1> QED
  BY <1>2, <1>3, <1>4 DEF SumFunction

LEMMA SumNone == ASSUME NEW f, DOMAIN f = {} PROVE SumFunction(f) = 0
  BY SumEmpty DEF SumFunction

\* The latest opcode of a set is one that ends behind all others.
LEMMA LatestMore ==
  ASSUME NEW s, NEW Q, NEW o \in Int, \A q \in Q : q \in Int /\ q < o, NEW default
  PROVE  LatestArg(s, Q \cup {o}, default) = OpcodeAt(s, o).arg
<1> DEFINE last == CHOOSE q \in Q \cup {o} : \A p \in Q \cup {o} : p <= q
<1>1. o \in Q \cup {o} /\ \A p \in Q \cup {o} : p <= o
  OBVIOUS
<1>2. last \in Q \cup {o} /\ \A p \in Q \cup {o} : p <= last
  BY <1>1, Zenon
<1>3. last = o
  <2> HIDE DEF last
  <2> QED
    BY <1>2
<1>4. Q \cup {o} # {}
  OBVIOUS
<1> QED
  BY <1>3, <1>4 DEF LatestArg

\* A set of offsets has a latest one.
LEMMA Greatest ==
  ASSUME NEW n \in Nat, NEW Q \in SUBSET (0 .. n), Q # {}
  PROVE  \E q \in Q : \A p \in Q : p <= q
<1> DEFINE T == {k \in Nat : \E q \in Q : k = n - q}
<1>1. T # {} /\ T \in SUBSET Nat
  <2>1. PICK q \in Q : TRUE
    OBVIOUS
  <2>2. n - q \in T
    BY <2>1
  <2> QED
    BY <2>2
<1> HIDE DEF T
<1>2. PICK k \in T : \A l \in T : k <= l
  BY <1>1, Least
<1>3. PICK q \in Q : k = n - q
  BY <1>2 DEF T
<1>4. \A p \in Q : n - p \in T
  BY DEF T
<1>5. \A p \in Q : p <= q
  BY <1>2, <1>3, <1>4
<1> QED
  BY <1>5

\* Sets of opcodes are finite sets of numbers.
LEMMA OffsetsIn ==
  ASSUME NEW s \in Section
  PROVE  /\ ProgramOffsets(s) \subseteq 0 .. Size(s) /\ Size(s) \in Nat
         /\ \A o \in ProgramOffsets(s) : OpcodeAt(s, o) \in Opcode /\ o \in Nat
         /\ IsFiniteSet(ProgramOffsets(s))
<1>1. ProgramOffset(s) \in Nat /\ Size(s) \in Nat
  BY SizeType
<1>2. ProgramOffsets(s) = (ProgramOffset(s) + 1) .. Size(s)
  BY DEF ProgramOffsets, Opcodes
<1>3. \A o \in ProgramOffsets(s) : o \in Nat /\ ProgramOffset(s) < o /\ o <= Size(s)
  BY <1>1, <1>2
<1>4. IsFiniteSet((ProgramOffset(s) + 1) .. Size(s))
  <2>1. ProgramOffset(s) + 1 \in Int /\ Size(s) \in Int
    BY <1>1
  <2> QED
    BY <2>1, FS_Interval
<1> QED
  BY <1>1, <1>2, <1>3, <1>4, OpcodeAtType

\* What the latest opcode says is an operand of one of them.
LEMMA LatestType ==
  ASSUME NEW s \in Section, NEW Q \in SUBSET ProgramOffsets(s), NEW default \in Int
  PROVE  LatestArg(s, Q, default) \in Int
<1>1. CASE Q = {}
  BY <1>1 DEF LatestArg
<1>2. CASE Q # {}
  <2>1. Q \in SUBSET (0 .. Size(s)) /\ Size(s) \in Nat
    BY OffsetsIn
  <2>2. \E q \in Q : \A p \in Q : p <= q
    BY <1>2, <2>1, Greatest
  <2>3. (CHOOSE q \in Q : \A p \in Q : p <= q) \in ProgramOffsets(s)
    BY <2>2
  <2>4. OpcodeAt(s, CHOOSE q \in Q : \A p \in Q : p <= q).arg \in Int
    BY <2>3, OffsetsIn, OpcodeFields
  <2> QED
    BY <1>2, <2>4 DEF LatestArg
<1> QED
  BY <1>1, <1>2

\* One more opcode, o, behind the opcodes Q.
Onward(s, Q, o) ==
  /\ Q \in SUBSET ProgramOffsets(s) /\ o \in ProgramOffsets(s)
  /\ \A q \in Q : q < o

\* What it means that opcode o is behind all of Q.
LEMMA OnwardIs ==
  ASSUME NEW s \in Section, NEW Q, NEW o, Onward(s, Q, o)
  PROVE  /\ Q \cup {o} \in SUBSET ProgramOffsets(s) /\ o \notin Q /\ o \in Nat
         /\ \A q \in Q : q \in Nat /\ q < o
         /\ IsFiniteSet(Q) /\ OpcodeAt(s, o) \in Opcode
<1>1. Q \in SUBSET ProgramOffsets(s) /\ IsFiniteSet(ProgramOffsets(s))
  BY OffsetsIn DEF Onward
<1>2. IsFiniteSet(Q)
  BY <1>1, FS_Subset
<1>3. o \in Nat /\ \A q \in Q : q \in Nat /\ q < o
  BY <1>1, OffsetsIn DEF Onward
<1>4. o \notin Q
  BY <1>3
<1>5. OpcodeAt(s, o) \in Opcode
  BY OffsetsIn DEF Onward
<1> QED
  BY <1>1, <1>2, <1>3, <1>4, <1>5 DEF Onward

\* One more opcode among those of a kind.
LEMMA StandardsMore ==
  ASSUME NEW s, NEW Q, NEW o, NEW n
  PROVE  /\ StandardsIn(s, Q \cup {o}, n) =
              IF Standard(s, o, n) THEN StandardsIn(s, Q, n) \cup {o}
              ELSE StandardsIn(s, Q, n)
         /\ ExtendedIn(s, Q \cup {o}, n) =
              IF Extended(s, o, n) THEN ExtendedIn(s, Q, n) \cup {o}
              ELSE ExtendedIn(s, Q, n)
  BY DEF StandardsIn, ExtendedIn

\* The latest argument of the standard opcodes n, and of the extended ones.
LEMMA LatestArgMore ==
  ASSUME NEW s \in Section, NEW Q, NEW o, Onward(s, Q, o), NEW n, NEW default \in Int
  PROVE  /\ LatestArg(s, StandardsIn(s, Q \cup {o}, n), default) =
              IF Standard(s, o, n) THEN OpcodeAt(s, o).arg
              ELSE LatestArg(s, StandardsIn(s, Q, n), default)
         /\ LatestArg(s, ExtendedIn(s, Q \cup {o}, n), default) =
              IF Extended(s, o, n) THEN OpcodeAt(s, o).arg
              ELSE LatestArg(s, ExtendedIn(s, Q, n), default)
<1>1. o \in Int /\ \A q \in Q : q \in Int /\ q < o
  BY OnwardIs
<1>2. \A q \in StandardsIn(s, Q, n) : q \in Int /\ q < o
  BY <1>1 DEF StandardsIn
<1>3. \A q \in ExtendedIn(s, Q, n) : q \in Int /\ q < o
  BY <1>1 DEF ExtendedIn
<1>4. /\ LatestArg(s, StandardsIn(s, Q, n) \cup {o}, default) = OpcodeAt(s, o).arg
      /\ LatestArg(s, ExtendedIn(s, Q, n) \cup {o}, default) = OpcodeAt(s, o).arg
  BY <1>1, <1>2, <1>3, LatestMore
<1> QED
  BY <1>4, StandardsMore

\* One more opcode behind a set.
LEMMA BehindMore ==
  ASSUME NEW Q, NEW P \in SUBSET Q, NEW o \in Int, \A q \in Q : q \in Int /\ q < o
  PROVE  Behind(Q \cup {o}, P) = Behind(Q, P) \cup {o}
  BY DEF Behind

LEMMA BehindNone ==
  ASSUME NEW Q, NEW P \in SUBSET Q, NEW o \in Int, \A q \in Q : q \in Int /\ q < o
  PROVE  Behind(Q \cup {o}, P \cup {o}) = {}
  BY DEF Behind

LEMMA AdvanceType ==
  ASSUME NEW s \in Section, HeaderAccepted(s), NEW q \in ProgramOffsets(s)
  PROVE  OperationAdvance(s, q) \in Int /\ LineIncrement(s, q) \in Int
<1> DEFINE op == OpcodeAt(s, q)
<1>1. op.code \in Nat /\ op.arg \in Int
  BY OffsetsIn, OpcodeFields
<1>2. /\ s.line_base \in Int /\ s.opcode_base \in Nat /\ s.line_range \in Nat \ {0}
  BY SectionFields, MaxOpsPositive
<1>3. /\ (op.code - s.opcode_base) \div s.line_range \in Int
      /\ s.line_base + ((op.code - s.opcode_base) % s.line_range) \in Int
      /\ (255 - s.opcode_base) \div s.line_range \in Int
  BY <1>1, <1>2
<1> QED
  BY <1>1, <1>3 DEF OperationAdvance, LineIncrement

\* The operations since the address was last set.
LEMMA OperationsMore ==
  ASSUME NEW s \in Section, HeaderAccepted(s), NEW Q, NEW o, Onward(s, Q, o)
  PROVE  /\ Operations(s, Q \cup {o}) =
              IF SetsAddress(s, o) THEN 0 ELSE Operations(s, Q) + OperationAdvance(s, o)
         /\ Operations(s, Q) \in Int
<1> DEFINE P == {p \in Q : SetsAddress(s, p)}
           R == {p \in Q \cup {o} : SetsAddress(s, p)}
           f == [q \in Behind(Q, P) |-> OperationAdvance(s, q)]
           g == [q \in Behind(Q \cup {o}, R) |-> OperationAdvance(s, q)]
<1>1. /\ o \in Int /\ \A q \in Q : q \in Int /\ q < o
      /\ o \notin Q /\ IsFiniteSet(Q) /\ Q \cup {o} \in SUBSET ProgramOffsets(s)
  BY OnwardIs
<1>2. /\ IsFiniteSet(Behind(Q, P)) /\ Behind(Q, P) \subseteq Q
  <2>1. Behind(Q, P) \in SUBSET Q
    BY DEF Behind
  <2> QED
    BY <1>1, <2>1, FS_Subset
<1>3. \A q \in Behind(Q, P) \cup {o} : OperationAdvance(s, q) \in Int
  BY <1>1, <1>2, AdvanceType
<1>4. /\ Behind(Q \cup {o}, P) = Behind(Q, P) \cup {o}
      /\ Behind(Q \cup {o}, P \cup {o}) = {}
  <2>1. P \in SUBSET Q
    OBVIOUS
  <2> HIDE DEF P
  <2>2. Behind(Q \cup {o}, P) = Behind(Q, P) \cup {o}
    BY <1>1, <2>1, BehindMore
  <2>3. Behind(Q \cup {o}, P \cup {o}) = {}
    BY <1>1, <2>1, BehindNone
  <2> QED
    BY <2>2, <2>3
<1>5. Operations(s, Q) = SumFunction(f) /\ Operations(s, Q \cup {o}) = SumFunction(g)
  BY DEF Operations
<1>6. CASE SetsAddress(s, o)
  <2>1. R = P \cup {o}
    BY <1>6
  <2>2. DOMAIN g = {}
    BY <1>4, <2>1
  <2>3. SumFunction(f) \in Int
    BY <1>2, <1>3, SumType DEF SumFunction
  <2> QED
    BY <1>5, <1>6, <2>2, <2>3, SumNone
<1>7. CASE ~SetsAddress(s, o)
  <2>1. R = P
    BY <1>7
  <2>2. /\ DOMAIN f = Behind(Q, P) /\ DOMAIN g = Behind(Q, P) \cup {o}
        /\ \A q \in Behind(Q, P) : f[q] \in Int /\ g[q] = f[q]
        /\ g[o] = OperationAdvance(s, o) /\ g[o] \in Int
    BY <1>3, <1>4, <2>1
  <2>3. o \notin Behind(Q, P)
    BY <1>1, <1>2
  <2> HIDE DEF f, g
  <2>4. SumFunction(g) = SumFunction(f) + g[o] /\ SumFunction(f) \in Int
    BY <1>2, <2>2, <2>3, SumMore
  <2> QED
    BY <1>5, <1>7, <2>2, <2>4
<1> QED
  BY <1>6, <1>7

\* Operation advances are natural numbers.
LEMMA OperationsType ==
  ASSUME NEW s \in Section, HeaderAccepted(s), NEW Q \in SUBSET ProgramOffsets(s)
  PROVE  /\ Operations(s, Q) \in Int /\ Instructions(s, Q) \in Int
         /\ \A q \in Q : Moved(s, Q, q) \in Int
<1>0. MaxOps(s) \in Nat \ {0} /\ s.min_inst_len \in Nat
  BY MaxOpsPositive, SectionFields
<1>1. ASSUME NEW P \in SUBSET ProgramOffsets(s)
      PROVE  Operations(s, P) \in Int /\ Instructions(s, P) \in Int
  <2> DEFINE B == Behind(P, {p \in P : SetsAddress(s, p)})
             f == [q \in B |-> OperationAdvance(s, q)]
  <2>1. B \in SUBSET ProgramOffsets(s) /\ IsFiniteSet(ProgramOffsets(s))
    BY OffsetsIn DEF Behind
  <2>2. IsFiniteSet(B)
    BY <2>1, FS_Subset
  <2>3. \A q \in B : f[q] \in Int
    BY <2>1, AdvanceType
  <2>4. Operations(s, P) = SumFunctionOnSet(f, B)
    BY DEF Operations, SumFunction
  <2> HIDE DEF f, B
  <2>5. Operations(s, P) \in Int
    BY <2>2, <2>3, <2>4, SumType
  <2> QED
    BY <1>0, <2>5 DEF Instructions
<1>2. ASSUME NEW q \in Q PROVE Moved(s, Q, q) \in Int
  <2> DEFINE i == Instructions(s, {p \in Q : p <= q})
             j == Instructions(s, {p \in Q : p < q})
  <2>1. {p \in Q : p <= q} \in SUBSET ProgramOffsets(s)
        /\ {p \in Q : p < q} \in SUBSET ProgramOffsets(s)
    OBVIOUS
  <2>2. i \in Int /\ j \in Int
    BY <1>1, <2>1
  <2>3. OpcodeAt(s, q).arg \in Int
    BY OffsetsIn, OpcodeFields
  <2>4. Moved(s, Q, q) = IF Standard(s, q, LNS_fixed_advance_pc) THEN OpcodeAt(s, q).arg
                         ELSE s.min_inst_len * (i - j)
    BY DEF Moved
  <2> HIDE DEF i, j
  <2>5. s.min_inst_len * (i - j) \in Int
    BY <1>0, <2>2
  <2> QED
    BY <2>3, <2>4, <2>5
<1> QED
  BY <1>1, <1>2

\* The address before it wraps.
Unwrapped(s, Q) ==
  LatestArg(s, ExtendedIn(s, Q, LNE_set_address), 0)
    + SumFunction([q \in Behind(Q, ExtendedIn(s, Q, LNE_set_address)) |-> Moved(s, Q, q)])

LEMMA AddressIs == \A s, Q : Address(s, Q) = Unwrapped(s, Q) % AddrMod
  BY DEF Address, Unwrapped

\* Opcodes behind q do not change how far q has moved the address.
LEMMA MovedSame ==
  ASSUME NEW s \in Section, NEW Q, NEW o, Onward(s, Q, o), NEW q \in Q
  PROVE  Moved(s, Q \cup {o}, q) = Moved(s, Q, q)
<1>1. o \in Nat /\ \A p \in Q : p \in Nat /\ p < o
  BY OnwardIs
<1>2. /\ {p \in Q \cup {o} : p <= q} = {p \in Q : p <= q}
      /\ {p \in Q \cup {o} : p < q} = {p \in Q : p < q}
  BY <1>1
<1> QED
  BY <1>2 DEF Moved

\* How far the last opcode moves the address.
LEMMA MovedLast ==
  ASSUME NEW s \in Section, NEW Q, NEW o, Onward(s, Q, o)
  PROVE  Moved(s, Q \cup {o}, o) =
           IF Standard(s, o, LNS_fixed_advance_pc) THEN OpcodeAt(s, o).arg
           ELSE s.min_inst_len * (Instructions(s, Q \cup {o}) - Instructions(s, Q))
<1>1. o \in Nat /\ \A q \in Q : q \in Nat /\ q < o
  BY OnwardIs
<1>2. /\ {p \in Q \cup {o} : p <= o} = Q \cup {o}
      /\ {p \in Q \cup {o} : p < o} = Q
  BY <1>1
<1> QED
  BY <1>2 DEF Moved

\* The address before it wraps, with one more opcode.
LEMMA UnwrappedMore ==
  ASSUME NEW s \in Section, HeaderAccepted(s), NEW Q, NEW o, Onward(s, Q, o)
  PROVE  /\ Unwrapped(s, Q \cup {o}) =
              IF Extended(s, o, LNE_set_address) THEN OpcodeAt(s, o).arg
              ELSE Unwrapped(s, Q) + Moved(s, Q \cup {o}, o)
         /\ Unwrapped(s, Q) \in Int /\ Moved(s, Q \cup {o}, o) \in Int
<1> DEFINE P == ExtendedIn(s, Q, LNE_set_address)
           R == ExtendedIn(s, Q \cup {o}, LNE_set_address)
           f == [q \in Behind(Q, P) |-> Moved(s, Q, q)]
           g == [q \in Behind(Q \cup {o}, R) |-> Moved(s, Q \cup {o}, q)]
           arg == LatestArg(s, P, 0)
<1>1. /\ o \in Int /\ \A q \in Q : q \in Int /\ q < o
      /\ o \notin Q /\ IsFiniteSet(Q) /\ Q \cup {o} \in SUBSET ProgramOffsets(s)
  BY OnwardIs
<1>0. Q \in SUBSET ProgramOffsets(s)
  BY DEF Onward
<1>2. /\ IsFiniteSet(Behind(Q, P)) /\ Behind(Q, P) \subseteq Q
  <2>1. Behind(Q, P) \in SUBSET Q
    BY DEF Behind
  <2> QED
    BY <1>1, <2>1, FS_Subset
<1>3. /\ \A q \in Behind(Q, P) : Moved(s, Q, q) \in Int
                                  /\ Moved(s, Q \cup {o}, q) = Moved(s, Q, q)
      /\ Moved(s, Q \cup {o}, o) \in Int
  <2>1. /\ \A q \in Q : Moved(s, Q, q) \in Int
        /\ \A q \in Q \cup {o} : Moved(s, Q \cup {o}, q) \in Int
    BY <1>0, <1>1, OperationsType
  <2> HIDE DEF P, R, f, g, arg
  <2>2. \A q \in Q : Moved(s, Q \cup {o}, q) = Moved(s, Q, q)
    BY MovedSame
  <2> QED
    BY <1>2, <2>1, <2>2
<1>4. /\ Behind(Q \cup {o}, P) = Behind(Q, P) \cup {o}
      /\ Behind(Q \cup {o}, P \cup {o}) = {}
  <2>1. P \in SUBSET Q
    BY DEF ExtendedIn
  <2> HIDE DEF P
  <2>2. Behind(Q \cup {o}, P) = Behind(Q, P) \cup {o}
    BY <1>1, <2>1, BehindMore
  <2>3. Behind(Q \cup {o}, P \cup {o}) = {}
    BY <1>1, <2>1, BehindNone
  <2> QED
    BY <2>2, <2>3
<1>5. /\ Unwrapped(s, Q) = arg + SumFunction(f)
      /\ Unwrapped(s, Q \cup {o}) = LatestArg(s, R, 0) + SumFunction(g)
  BY DEF Unwrapped
<1>6. /\ LatestArg(s, R, 0) = IF Extended(s, o, LNE_set_address) THEN OpcodeAt(s, o).arg
                              ELSE arg
      /\ arg \in Int /\ OpcodeAt(s, o).arg \in Int
  <2>1. P \in SUBSET ProgramOffsets(s)
    BY <1>0 DEF ExtendedIn
  <2> QED
    BY <2>1, LatestArgMore, LatestType, OnwardIs, OpcodeFields
<1>7. SumFunction(f) \in Int
  <2>1. \A q \in Behind(Q, P) : f[q] \in Int
    BY <1>3
  <2> HIDE DEF f
  <2>2. DOMAIN f = Behind(Q, P)
    BY DEF f
  <2> QED
    BY <1>2, <2>1, <2>2, SumType DEF SumFunction
<1>8. CASE Extended(s, o, LNE_set_address)
  <2>1. R = P \cup {o}
    BY <1>8, StandardsMore
  <2>2. DOMAIN g = {}
    BY <1>4, <2>1
  <2> HIDE DEF f, g, P, R, arg
  <2>3. SumFunction(g) = 0
    BY <2>2, SumNone
  <2> QED
    BY <1>3, <1>5, <1>6, <1>7, <1>8, <2>3
<1>9. CASE ~Extended(s, o, LNE_set_address)
  <2>1. R = P
    BY <1>9, StandardsMore
  <2>2. /\ DOMAIN f = Behind(Q, P) /\ DOMAIN g = Behind(Q, P) \cup {o}
        /\ \A q \in Behind(Q, P) : f[q] \in Int /\ g[q] = f[q]
        /\ g[o] = Moved(s, Q \cup {o}, o) /\ g[o] \in Int
    BY <1>3, <1>4, <2>1
  <2>3. o \notin Behind(Q, P)
    BY <1>1, <1>2
  <2> HIDE DEF f, g, P, R, arg
  <2>4. SumFunction(g) = SumFunction(f) + g[o]
    BY <1>2, <2>2, <2>3, SumMore
  <2> QED
    BY <1>3, <1>5, <1>6, <1>7, <1>9, <2>2, <2>4
<1> QED
  BY <1>8, <1>9

-----------------------------------------------------------------------------
(* One more opcode: the line, the statement flag and the address.          *)

\* One more opcode adds what it adds to the line.
LEMMA LinesMore ==
  ASSUME NEW s \in Section, HeaderAccepted(s), NEW Q, NEW o, Onward(s, Q, o)
  PROVE  /\ Lines(s, Q \cup {o}) = Lines(s, Q) + LineIncrement(s, o)
         /\ Lines(s, Q) \in Int
<1> DEFINE f == [q \in Q |-> LineIncrement(s, q)]
           g == [q \in Q \cup {o} |-> LineIncrement(s, q)]
<1>1. o \notin Q /\ IsFiniteSet(Q) /\ Q \cup {o} \in SUBSET ProgramOffsets(s)
  BY OnwardIs
<1>2. \A q \in Q \cup {o} : LineIncrement(s, q) \in Int
  BY <1>1, AdvanceType
<1>3. /\ DOMAIN f = Q /\ DOMAIN g = Q \cup {o}
      /\ \A q \in Q : f[q] \in Int /\ g[q] = f[q]
      /\ g[o] = LineIncrement(s, o) /\ g[o] \in Int
  BY <1>2
<1>4. Lines(s, Q) = SumFunction(f) /\ Lines(s, Q \cup {o}) = SumFunction(g)
  BY DEF Lines
<1> HIDE DEF f, g
<1>5. SumFunction(g) = SumFunction(f) + g[o] /\ SumFunction(f) \in Int
  BY <1>1, <1>3, SumMore
<1> QED
  BY <1>3, <1>4, <1>5

\* How often negate_stmt has been executed.
LEMMA NegationsMore ==
  ASSUME NEW s \in Section, NEW Q, NEW o, Onward(s, Q, o)
  PROVE  (Cardinality(StandardsIn(s, Q \cup {o}, LNS_negate_stmt)) % 2 = 0) =
           IF Standard(s, o, LNS_negate_stmt)
           THEN ~(Cardinality(StandardsIn(s, Q, LNS_negate_stmt)) % 2 = 0)
           ELSE Cardinality(StandardsIn(s, Q, LNS_negate_stmt)) % 2 = 0
<1> DEFINE N == StandardsIn(s, Q, LNS_negate_stmt)
<1>1. o \notin Q /\ IsFiniteSet(Q)
  BY OnwardIs
<1>2. N \in SUBSET Q
  BY DEF StandardsIn
<1>3. IsFiniteSet(N) /\ o \notin N
  BY <1>1, <1>2, FS_Subset
<1>4. Cardinality(N) \in Nat /\ Cardinality(N \cup {o}) = Cardinality(N) + 1
  BY <1>3, FS_AddElement, FS_CardinalityType
<1>5. StandardsIn(s, Q \cup {o}, LNS_negate_stmt) =
        IF Standard(s, o, LNS_negate_stmt) THEN N \cup {o} ELSE N
  BY StandardsMore
<1> HIDE DEF N
<1>6. (Cardinality(N) + 1) % 2 = 0 <=> Cardinality(N) % 2 # 0
  BY <1>4
<1>7. CASE Standard(s, o, LNS_negate_stmt)
  BY <1>4, <1>5, <1>6, <1>7 DEF N
<1>8. CASE ~Standard(s, o, LNS_negate_stmt)
  BY <1>5, <1>8 DEF N
<1> QED
  BY <1>7, <1>8

\* Wrapping twice.
LEMMA WrapAdd ==
  ASSUME NEW m \in Nat \ {0}, NEW a \in Int, NEW n \in Int
  PROVE  /\ ((a % m) + n) % m = (a + n) % m
         /\ (a % m) % m = a % m /\ ((a % m) \div m) = 0 /\ a % m \in Nat
<1> DEFINE r == a % m
<1>1. r \in 0..(m - 1)
  OBVIOUS
<1> HIDE DEF r
<1>2. r = m * 0 + r /\ 0 \in Int
  BY <1>1
<1>3. (m * 0 + r) \div m = 0 /\ (m * 0 + r) % m = r
  BY <1>1, <1>2, QuotientUnique
<1>4. r % m = r /\ r \div m = 0 /\ r \in Nat
  BY <1>1, <1>2, <1>3
<1>5. (r + n) % m = (a + n) % m
  BY ModShift DEF r
<1> QED
  BY <1>4, <1>5 DEF r

\* The address and the op_index after one more opcode.
AddressStep(s, Q, o, address, op_index) ==
  /\ Extended(s, o, LNE_set_address) =>
       /\ Address(s, Q \cup {o}) = OpcodeAt(s, o).arg % AddrMod
       /\ Operations(s, Q \cup {o}) % MaxOps(s) = 0
  /\ ~Extended(s, o, LNE_set_address) /\ Standard(s, o, LNS_fixed_advance_pc) =>
       /\ Address(s, Q \cup {o}) = (address + OpcodeAt(s, o).arg) % AddrMod
       /\ Operations(s, Q \cup {o}) % MaxOps(s) = 0
  /\ ~SetsAddress(s, o) =>
       /\ Address(s, Q \cup {o}) =
            (address + s.min_inst_len * ((op_index + OperationAdvance(s, o)) \div MaxOps(s)))
              % AddrMod
       /\ Operations(s, Q \cup {o}) % MaxOps(s) =
            (op_index + OperationAdvance(s, o)) % MaxOps(s)
  /\ ~SetsAddress(s, o) /\ OperationAdvance(s, o) = 0 =>
       /\ Address(s, Q \cup {o}) = address
       /\ Operations(s, Q \cup {o}) % MaxOps(s) = op_index

\* The address with one more opcode.
LEMMA AddressMore ==
  ASSUME NEW s \in Section, HeaderAccepted(s), NEW Q, NEW o, Onward(s, Q, o)
  PROVE  AddressStep(s, Q, o, Address(s, Q), Operations(s, Q) % MaxOps(s))
<1> DEFINE address == Address(s, Q)
           op_index == Operations(s, Q) % MaxOps(s)
<1> DEFINE m == MaxOps(s)
           n == OperationAdvance(s, o)
           i == Operations(s, Q)
           j == Operations(s, Q \cup {o})
           u == Unwrapped(s, Q)
           v == Unwrapped(s, Q \cup {o})
           x == Moved(s, Q \cup {o}, o)
           arg == OpcodeAt(s, o).arg
           sets == Extended(s, o, LNE_set_address)
           fixed == Standard(s, o, LNS_fixed_advance_pc)
<1>1. /\ m \in Nat \ {0} /\ n \in Int /\ i \in Int /\ arg \in Int
      /\ AddrMod \in Nat \ {0} /\ s.min_inst_len \in Nat
  <2>0. o \in ProgramOffsets(s)
    BY DEF Onward
  <2>1. OpcodeAt(s, o) \in Opcode
    BY OnwardIs
  <2>2. m \in Nat \ {0} /\ AddrMod \in Nat \ {0} /\ s.min_inst_len \in Nat
    BY MaxOpsPositive, ModAssumption, SectionFields
  <2>3. n \in Int /\ arg \in Int
    BY <2>0, <2>1, AdvanceType, OpcodeFields
  <2>4. i \in Int
    BY OperationsMore
  <2> QED
    BY <2>2, <2>3, <2>4
<1>2. j = IF sets \/ fixed THEN 0 ELSE i + n
  BY OperationsMore DEF SetsAddress
<1>3. /\ v = IF sets THEN arg ELSE u + x
      /\ u \in Int /\ x \in Int
  BY UnwrappedMore
<1>4. x = IF fixed THEN arg ELSE s.min_inst_len * ((j \div m) - (i \div m))
  BY MovedLast DEF Instructions
<1>5. address = u % AddrMod /\ Address(s, Q \cup {o}) = v % AddrMod /\ op_index = i % m
  BY AddressIs
<1>6. (SetsAddress(s, o) <=> sets \/ fixed)
  BY DEF SetsAddress
<1> HIDE DEF address, op_index, m, n, i, j, u, v, x, arg, sets, fixed
<1>7. address \in Nat /\ op_index \in Nat
  BY <1>1, <1>3, <1>5, WrapAdd
<1>13. ASSUME NEW k \in Int PROVE (u + k) % AddrMod = (address + k) % AddrMod
  <2>1. ((u % AddrMod) + k) % AddrMod = (u + k) % AddrMod
    BY <1>1, <1>3, WrapAdd
  <2> QED
    BY <1>5, <2>1
<1>14. op_index % m = op_index /\ op_index \div m = 0 /\ address % AddrMod = address
  BY <1>1, <1>3, <1>5, WrapAdd
<1>8. 0 % m = 0
  BY <1>1
<1>9. ASSUME sets
      PROVE  v = arg /\ j % m = 0
  BY <1>2, <1>3, <1>8, <1>9
<1>10. ASSUME ~sets, fixed
       PROVE  v % AddrMod = (address + arg) % AddrMod /\ j % m = 0
  <2>1. j = 0 /\ v = u + arg
    BY <1>2, <1>3, <1>4, <1>10
  <2>2. (u + arg) % AddrMod = (address + arg) % AddrMod
    BY <1>1, <1>3, <1>13
  <2> QED
    BY <1>8, <2>1, <2>2
<1>11. ASSUME ~sets, ~fixed
       PROVE  /\ v % AddrMod = (address + s.min_inst_len * ((op_index + n) \div m)) % AddrMod
              /\ j % m = (op_index + n) % m
  <2>1. j = i + n /\ v = u + x /\ x = s.min_inst_len * ((j \div m) - (i \div m))
    BY <1>2, <1>3, <1>4, <1>11
  <2>2. /\ (op_index + n) \div m = ((i + n) \div m) - (i \div m)
        /\ (op_index + n) % m = (i + n) % m
    BY <1>1, <1>5, ModShift
  <2>3. x = s.min_inst_len * ((op_index + n) \div m)
    BY <2>1, <2>2
  <2>4. v % AddrMod = (address + x) % AddrMod
    BY <1>3, <1>13, <2>1
  <2> QED
    BY <2>1, <2>2, <2>3, <2>4
<1>12. ASSUME ~sets, ~fixed, n = 0
       PROVE  v % AddrMod = address /\ j % m = op_index
  <2>1. (op_index + n) \div m = 0 /\ (op_index + n) % m = op_index
    BY <1>7, <1>12, <1>14
  <2>2. s.min_inst_len * ((op_index + n) \div m) = 0
    BY <1>1, <2>1
  <2>3. address + s.min_inst_len * ((op_index + n) \div m) = address
    BY <1>7, <2>2
  <2> QED
    BY <1>11, <1>12, <1>14, <2>1, <2>3
<1> QED
  BY <1>5, <1>6, <1>9, <1>10, <1>11, <1>12
  DEF AddressStep, address, op_index, m, n, j, v, arg, sets, fixed

-----------------------------------------------------------------------------
(* One more opcode: what its execution does to the registers.              *)

\* Registers are the same if each one is.
LEMMA SameRegisters ==
  ASSUME NEW r \in Registers, NEW t \in Registers,
         r.address = t.address, r.op_index = t.op_index, r.file_index = t.file_index,
         r.line = t.line, r.column = t.column, r.is_stmt = t.is_stmt,
         r.basic_block = t.basic_block, r.end_sequence = t.end_sequence,
         r.prologue_end = t.prologue_end, r.epilogue_begin = t.epilogue_begin,
         r.isa = t.isa, r.discriminator = t.discriminator
  PROVE  r = t
  BY DEF Registers

\* x is what opcode o makes of the registers r, register by register.
RegisterByRegister(s, o, r, x) ==
  LET arg == OpcodeAt(s, o).arg
      special == IsSpecial(s, OpcodeAt(s, o))
      std(n) == Standard(s, o, n)
      ext(n) == Extended(s, o, n)
      advances == special \/ std(LNS_advance_pc) \/ std(LNS_const_add_pc)
      index == r.op_index + OperationAdvance(s, o)
  IN  /\ x.address =
           IF ext(LNE_set_address) THEN arg % AddrMod
           ELSE IF std(LNS_fixed_advance_pc) THEN (r.address + arg) % AddrMod
           ELSE IF advances
           THEN (r.address + s.min_inst_len * (index \div MaxOps(s))) % AddrMod
           ELSE r.address
      /\ x.op_index =
           IF SetsAddress(s, o) THEN 0
           ELSE IF advances THEN index % MaxOps(s) ELSE r.op_index
      /\ x.file_index = IF std(LNS_set_file) THEN arg % UintMod ELSE r.file_index
      /\ x.line = IF special \/ std(LNS_advance_line)
                  THEN (r.line + LineIncrement(s, o)) % UintMod ELSE r.line
      /\ x.column = IF std(LNS_set_column) THEN arg % UintMod ELSE r.column
      /\ x.is_stmt = IF std(LNS_negate_stmt) THEN ~r.is_stmt ELSE r.is_stmt
      /\ x.basic_block = IF std(LNS_set_basic_block) THEN TRUE ELSE r.basic_block
      /\ x.end_sequence = IF ext(LNE_end_sequence) THEN TRUE ELSE r.end_sequence
      /\ x.prologue_end = IF std(LNS_set_prologue_end) THEN TRUE ELSE r.prologue_end
      /\ x.epilogue_begin = IF std(LNS_set_epilogue_begin) THEN TRUE ELSE r.epilogue_begin
      /\ x.isa = IF std(LNS_set_isa) THEN arg % UintMod ELSE r.isa
      /\ x.discriminator = IF ext(LNE_set_discriminator) THEN arg % UintMod
                           ELSE r.discriminator

LEMMA ByRegisterUnique ==
  ASSUME NEW s, NEW o, NEW r, NEW x \in Registers, NEW t \in Registers,
         RegisterByRegister(s, o, r, x), RegisterByRegister(s, o, r, t)
  PROVE  x = t
<1>1. x.address = t.address
  <2> DEFINE moved == (r.address + s.min_inst_len
                         * ((r.op_index + OperationAdvance(s, o)) \div MaxOps(s))) % AddrMod
  <2> HIDE DEF moved
  <2> QED
    BY DEF RegisterByRegister, moved
<1>3. x.op_index = t.op_index
  BY Zenon DEF RegisterByRegister
<1>4. x.file_index = t.file_index /\ x.column = t.column
  BY Zenon DEF RegisterByRegister
<1>5. x.line = t.line
  BY Zenon DEF RegisterByRegister
<1>6. x.is_stmt = t.is_stmt
  BY Zenon DEF RegisterByRegister
<1>2. /\ x.basic_block = t.basic_block /\ x.end_sequence = t.end_sequence
      /\ x.prologue_end = t.prologue_end /\ x.epilogue_begin = t.epilogue_begin
      /\ x.isa = t.isa /\ x.discriminator = t.discriminator
  BY Zenon DEF RegisterByRegister
<1> QED
  BY <1>1, <1>2, <1>3, <1>4, <1>5, <1>6, SameRegisters, Zenon

\* What an opcode does to each register.
LEMMA ExecutedFields ==
  ASSUME NEW s \in Section, HeaderAccepted(s), NEW o \in ProgramOffsets(s),
         NEW r \in Registers
  PROVE  RegisterByRegister(s, o, r, Executed(s, r, OpcodeAt(s, o)))
<1> DEFINE op == OpcodeAt(s, o)
<1> DEFINE x == Executed(s, r, op)
           n == OperationAdvance(s, o)
           l == LineIncrement(s, o)
           std(c) == Standard(s, o, c)
           ext(c) == Extended(s, o, c)
           special == IsSpecial(s, op)
           pc1 == (r.address + s.min_inst_len * ((r.op_index + n) \div MaxOps(s))) % AddrMod
           idx1 == (r.op_index + n) % MaxOps(s)
           line1 == (r.line + l) % UintMod
           wide == special \/ std(2) \/ std(8)
<1> DEFINE Goal ==
         /\ x.address = IF ext(2) THEN op.arg % AddrMod
              ELSE IF std(9) THEN (r.address + op.arg) % AddrMod
              ELSE IF wide THEN pc1 ELSE r.address
         /\ x.op_index = IF ext(2) \/ std(9) THEN 0 ELSE IF wide THEN idx1 ELSE r.op_index
         /\ x.file_index = IF std(4) THEN op.arg % UintMod ELSE r.file_index
         /\ x.line = IF special \/ std(3) THEN line1 ELSE r.line
         /\ x.column = IF std(5) THEN op.arg % UintMod ELSE r.column
         /\ x.is_stmt = IF std(6) THEN ~r.is_stmt ELSE r.is_stmt
         /\ x.basic_block = IF std(7) THEN TRUE ELSE r.basic_block
         /\ x.end_sequence = IF ext(1) THEN TRUE ELSE r.end_sequence
         /\ x.prologue_end = IF std(10) THEN TRUE ELSE r.prologue_end
         /\ x.epilogue_begin = IF std(11) THEN TRUE ELSE r.epilogue_begin
         /\ x.isa = IF std(12) THEN op.arg % UintMod ELSE r.isa
         /\ x.discriminator = IF ext(4) THEN op.arg % UintMod ELSE r.discriminator
<1>0. /\ op \in Opcode /\ op.code \in 0 .. 255 /\ s.opcode_base \in 1 .. 255
      /\ special <=> op.code >= s.opcode_base
      /\ \A c \in 1 .. 12 : std(c) <=> op.code = c /\ c < s.opcode_base
      /\ \A c \in 1 .. 4 : ext(c) <=> op.code = 0 /\ op.ext = c
  <2>1. op \in Opcode
    BY OffsetsIn
  <2>2. op.code \in 0 .. 255 /\ s.opcode_base \in 1 .. 255
    BY <2>1 DEF Opcode, Section, Byte
  <2> QED
    BY <2>1, <2>2 DEF Standard, Extended, IsStandard, IsExtended, IsSpecial
<1> HIDE DEF std, ext, special, pc1, idx1, line1, x, n, l, op
<1>g. SUFFICES Goal
  BY DEF RegisterByRegister, x, n, l, op, std, ext, special, pc1, idx1, line1, SetsAddress, LNS_advance_pc,
         LNS_advance_line, LNS_set_file, LNS_set_column, LNS_negate_stmt,
         LNS_set_basic_block, LNS_const_add_pc, LNS_fixed_advance_pc,
         LNS_set_prologue_end, LNS_set_epilogue_begin, LNS_set_isa, LNE_end_sequence,
         LNE_set_address, LNE_set_discriminator
<1>p. AdvancePc(s, r, n) = [r EXCEPT !.address = pc1, !.op_index = idx1]
  BY DEF AdvancePc, Registers, pc1, idx1
<1>1. CASE special
  <2>1. /\ \A c \in 1..12 : ~std(c)
        /\ \A c \in 1..4 : ~ext(c)
    BY <1>0, <1>1
  <2>2. (op.code - s.opcode_base) % 256 = op.code - s.opcode_base
    <3> DEFINE d == op.code - s.opcode_base
    <3>3. op.code \in Nat /\ op.code <= 255 /\ s.opcode_base \in Nat /\ 0 < s.opcode_base
          /\ op.code >= s.opcode_base
      BY <1>0, <1>1
    <3>1. d \in 0 .. 255
      BY <3>3
    <3> HIDE DEF d
    <3>2. d % 256 = d
      BY <3>1
    <3> QED
      BY <3>2 DEF d
  <2>3. n = Adjusted(s, op) \div s.line_range /\ l = s.line_base + (Adjusted(s, op) % s.line_range)
    BY <1>1, <2>2 DEF Adjusted, OperationAdvance, LineIncrement, n, l, op, special
  <2>6. op.code # 0
    BY <1>0, <1>1
  <2>7. x = SpecialOpcode(s, r, op)
    BY <1>1, <2>6, Zenon DEF Executed, x, special
  <2>4. x = AdvanceLine(AdvancePc(s, r, n), l)
    BY <2>3, <2>7, Zenon DEF SpecialOpcode
  <2>5. x = [r EXCEPT !.address = pc1, !.op_index = idx1, !.line = line1]
    BY <1>p, <2>4, Zenon DEF AdvanceLine, Registers, line1
  <2> QED
    BY <1>1, <2>1, <2>5 DEF Registers
<1>2. CASE ~special /\ op.code = 0
  <2>1. /\ \A c \in 1..12 : ~std(c)
        /\ \A c \in 1..4 : ext(c) <=> op.ext = c
    BY <1>0, <1>2
  <2>2. x = ExtendedOpcode(r, op)
    BY <1>2, Zenon DEF Executed, x, special
  <2>3. CASE op.ext = 1
    <3>1. op.ext # 2 /\ op.ext # 4
      BY <2>3
    <3>2. x = [r EXCEPT !.end_sequence = TRUE]
      BY <2>2, <2>3, <3>1, Zenon
      DEF ExtendedOpcode, LNE_end_sequence, LNE_set_address, LNE_set_discriminator
    <3> QED
      BY <1>2, <2>1, <2>3, <3>2 DEF Registers
  <2>4. CASE op.ext = 2
    <3>1. op.ext # 1 /\ op.ext # 4
      BY <2>4
    <3>2. x = [r EXCEPT !.address = op.arg % AddrMod, !.op_index = 0]
      BY <2>2, <2>4, <3>1, Zenon
      DEF ExtendedOpcode, LNE_end_sequence, LNE_set_address, LNE_set_discriminator
    <3> QED
      BY <1>2, <2>1, <2>4, <3>2 DEF Registers
  <2>5. CASE op.ext = 4
    <3>1. op.ext # 1 /\ op.ext # 2
      BY <2>5
    <3>2. x = [r EXCEPT !.discriminator = op.arg % UintMod]
      BY <2>2, <2>5, <3>1, Zenon
      DEF ExtendedOpcode, LNE_end_sequence, LNE_set_address, LNE_set_discriminator
    <3> QED
      BY <1>2, <2>1, <2>5, <3>2 DEF Registers
  <2>6. CASE op.ext # 1 /\ op.ext # 2 /\ op.ext # 4
    <3>2. x = r
      BY <2>2, <2>6, Zenon
      DEF ExtendedOpcode, LNE_end_sequence, LNE_set_address, LNE_set_discriminator
    <3>3. ~ext(1) /\ ~ext(2) /\ ~ext(4)
      BY <2>1, <2>6
    <3> QED
      BY <1>2, <2>1, <3>2, <3>3 DEF Registers
  <2> QED
    BY <2>3, <2>4, <2>5, <2>6
<1>3. CASE ~special /\ op.code # 0
  <2>1. /\ \A c \in 1..12 : std(c) <=> op.code = c
        /\ \A c \in 1..4 : ~ext(c)
    BY <1>0, <1>3
  <2>2. x = StandardOpcode(s, r, op)
    BY <1>3, Zenon DEF Executed, x, special
  <2>3. CASE op.code = 2
    <3>1. \A c \in {3, 4, 5, 6, 7, 8, 9, 10, 11, 12} : op.code # c
      BY <2>3
    <3>5. std(2)
      BY <2>1, <2>3
    <3>2. n = op.arg
      BY <1>3, <3>5, Zenon
      DEF OperationAdvance, LineIncrement, n, l, op, std, special, LNS_advance_pc, LNS_advance_line,
          LNS_const_add_pc
    <3>3. x = AdvancePc(s, r, op.arg)
      BY <2>2, <2>3, <3>1
      DEF StandardOpcode, LNS_advance_pc, LNS_advance_line, LNS_set_file, LNS_set_column,
          LNS_negate_stmt, LNS_set_basic_block, LNS_const_add_pc, LNS_fixed_advance_pc,
          LNS_set_prologue_end, LNS_set_epilogue_begin, LNS_set_isa
    <3>4. x = [r EXCEPT !.address = pc1, !.op_index = idx1]
      BY <1>p, <3>2, <3>3, Zenon
    <3> QED
      BY <1>3, <2>1, <2>3, <3>4 DEF Registers
  <2>4. CASE op.code = 3
    <3>1. \A c \in {2, 4, 5, 6, 7, 8, 9, 10, 11, 12} : op.code # c
      BY <2>4
    <3>5. std(3)
      BY <2>1, <2>4
    <3>2. l = op.arg
      BY <1>3, <3>5, Zenon
      DEF OperationAdvance, LineIncrement, n, l, op, std, special, LNS_advance_pc, LNS_advance_line,
          LNS_const_add_pc
    <3>3. x = AdvanceLine(r, op.arg)
      BY <2>2, <2>4, <3>1
      DEF StandardOpcode, LNS_advance_pc, LNS_advance_line, LNS_set_file, LNS_set_column,
          LNS_negate_stmt, LNS_set_basic_block, LNS_const_add_pc, LNS_fixed_advance_pc,
          LNS_set_prologue_end, LNS_set_epilogue_begin, LNS_set_isa
    <3>4. x = [r EXCEPT !.line = line1]
      BY <3>2, <3>3, Zenon DEF AdvanceLine, Registers, line1
    <3> QED
      BY <1>3, <2>1, <2>4, <3>4 DEF Registers
  <2>5. CASE op.code = 4
    <3>1. \A c \in {2, 3, 5, 6, 7, 8, 9, 10, 11, 12} : op.code # c
      BY <2>5
    <3>2. x = [r EXCEPT !.file_index = op.arg % UintMod]
      BY <2>2, <2>5, <3>1
      DEF StandardOpcode, LNS_advance_pc, LNS_advance_line, LNS_set_file, LNS_set_column,
          LNS_negate_stmt, LNS_set_basic_block, LNS_const_add_pc, LNS_fixed_advance_pc,
          LNS_set_prologue_end, LNS_set_epilogue_begin, LNS_set_isa
    <3> QED
      BY <1>3, <2>1, <2>5, <3>2 DEF Registers
  <2>6. CASE op.code = 5
    <3>1. \A c \in {2, 3, 4, 6, 7, 8, 9, 10, 11, 12} : op.code # c
      BY <2>6
    <3>2. x = [r EXCEPT !.column = op.arg % UintMod]
      BY <2>2, <2>6, <3>1
      DEF StandardOpcode, LNS_advance_pc, LNS_advance_line, LNS_set_file, LNS_set_column,
          LNS_negate_stmt, LNS_set_basic_block, LNS_const_add_pc, LNS_fixed_advance_pc,
          LNS_set_prologue_end, LNS_set_epilogue_begin, LNS_set_isa
    <3> QED
      BY <1>3, <2>1, <2>6, <3>2 DEF Registers
  <2>7. CASE op.code = 6
    <3>1. \A c \in {2, 3, 4, 5, 7, 8, 9, 10, 11, 12} : op.code # c
      BY <2>7
    <3>2. x = [r EXCEPT !.is_stmt = ~@]
      BY <2>2, <2>7, <3>1
      DEF StandardOpcode, LNS_advance_pc, LNS_advance_line, LNS_set_file, LNS_set_column,
          LNS_negate_stmt, LNS_set_basic_block, LNS_const_add_pc, LNS_fixed_advance_pc,
          LNS_set_prologue_end, LNS_set_epilogue_begin, LNS_set_isa
    <3> QED
      BY <1>3, <2>1, <2>7, <3>2 DEF Registers
  <2>8. CASE op.code = 7
    <3>1. \A c \in {2, 3, 4, 5, 6, 8, 9, 10, 11, 12} : op.code # c
      BY <2>8
    <3>2. x = [r EXCEPT !.basic_block = TRUE]
      BY <2>2, <2>8, <3>1
      DEF StandardOpcode, LNS_advance_pc, LNS_advance_line, LNS_set_file, LNS_set_column,
          LNS_negate_stmt, LNS_set_basic_block, LNS_const_add_pc, LNS_fixed_advance_pc,
          LNS_set_prologue_end, LNS_set_epilogue_begin, LNS_set_isa
    <3> QED
      BY <1>3, <2>1, <2>8, <3>2 DEF Registers
  <2>9. CASE op.code = 8
    <3>1. \A c \in {2, 3, 4, 5, 6, 7, 9, 10, 11, 12} : op.code # c
      BY <2>9
    <3>5. std(8) /\ ~std(2)
      BY <2>1, <2>9
    <3>2. n = (255 - s.opcode_base) \div s.line_range
      BY <1>3, <3>5, Zenon
      DEF OperationAdvance, LineIncrement, n, l, op, std, special, LNS_advance_pc, LNS_advance_line,
          LNS_const_add_pc
    <3>3. x = AdvancePc(s, r, (255 - s.opcode_base) \div s.line_range)
      BY <2>2, <2>9, <3>1
      DEF StandardOpcode, LNS_advance_pc, LNS_advance_line, LNS_set_file, LNS_set_column,
          LNS_negate_stmt, LNS_set_basic_block, LNS_const_add_pc, LNS_fixed_advance_pc,
          LNS_set_prologue_end, LNS_set_epilogue_begin, LNS_set_isa
    <3>4. x = [r EXCEPT !.address = pc1, !.op_index = idx1]
      BY <1>p, <3>2, <3>3, Zenon
    <3> QED
      BY <1>3, <2>1, <2>9, <3>4 DEF Registers
  <2>10. CASE op.code = 9
    <3>1. \A c \in {2, 3, 4, 5, 6, 7, 8, 10, 11, 12} : op.code # c
      BY <2>10
    <3>2. x = [r EXCEPT !.address = (@ + op.arg) % AddrMod, !.op_index = 0]
      BY <2>2, <2>10, <3>1
      DEF StandardOpcode, LNS_advance_pc, LNS_advance_line, LNS_set_file, LNS_set_column,
          LNS_negate_stmt, LNS_set_basic_block, LNS_const_add_pc, LNS_fixed_advance_pc,
          LNS_set_prologue_end, LNS_set_epilogue_begin, LNS_set_isa
    <3> QED
      BY <1>3, <2>1, <2>10, <3>2 DEF Registers
  <2>11. CASE op.code = 10
    <3>1. \A c \in {2, 3, 4, 5, 6, 7, 8, 9, 11, 12} : op.code # c
      BY <2>11
    <3>2. x = [r EXCEPT !.prologue_end = TRUE]
      BY <2>2, <2>11, <3>1
      DEF StandardOpcode, LNS_advance_pc, LNS_advance_line, LNS_set_file, LNS_set_column,
          LNS_negate_stmt, LNS_set_basic_block, LNS_const_add_pc, LNS_fixed_advance_pc,
          LNS_set_prologue_end, LNS_set_epilogue_begin, LNS_set_isa
    <3> QED
      BY <1>3, <2>1, <2>11, <3>2 DEF Registers
  <2>12. CASE op.code = 11
    <3>1. \A c \in {2, 3, 4, 5, 6, 7, 8, 9, 10, 12} : op.code # c
      BY <2>12
    <3>2. x = [r EXCEPT !.epilogue_begin = TRUE]
      BY <2>2, <2>12, <3>1
      DEF StandardOpcode, LNS_advance_pc, LNS_advance_line, LNS_set_file, LNS_set_column,
          LNS_negate_stmt, LNS_set_basic_block, LNS_const_add_pc, LNS_fixed_advance_pc,
          LNS_set_prologue_end, LNS_set_epilogue_begin, LNS_set_isa
    <3> QED
      BY <1>3, <2>1, <2>12, <3>2 DEF Registers
  <2>13. CASE op.code = 12
    <3>1. \A c \in {2, 3, 4, 5, 6, 7, 8, 9, 10, 11} : op.code # c
      BY <2>13
    <3>2. x = [r EXCEPT !.isa = op.arg % UintMod]
      BY <2>2, <2>13, <3>1
      DEF StandardOpcode, LNS_advance_pc, LNS_advance_line, LNS_set_file, LNS_set_column,
          LNS_negate_stmt, LNS_set_basic_block, LNS_const_add_pc, LNS_fixed_advance_pc,
          LNS_set_prologue_end, LNS_set_epilogue_begin, LNS_set_isa
    <3> QED
      BY <1>3, <2>1, <2>13, <3>2 DEF Registers
  <2>14. CASE \A c \in 2 .. 12 : op.code # c
    <3>1. x = r
      BY <2>2, <2>14
      DEF StandardOpcode, LNS_advance_pc, LNS_advance_line, LNS_set_file, LNS_set_column,
          LNS_negate_stmt, LNS_set_basic_block, LNS_const_add_pc, LNS_fixed_advance_pc,
          LNS_set_prologue_end, LNS_set_epilogue_begin, LNS_set_isa
    <3>2. \A c \in 2..12 : ~std(c)
      BY <2>1, <2>14
    <3> QED
      BY <1>3, <2>1, <3>1, <3>2 DEF Registers
  <2> HIDE DEF Goal
  <2> QED
    BY <2>3, <2>4, <2>5, <2>6, <2>7, <2>8, <2>9, <2>10, <2>11, <2>12, <2>13, <2>14
<1> QED
  BY <1>1, <1>2, <1>3

-----------------------------------------------------------------------------
(* One more opcode: all registers.                                         *)

LEMMA AddressType ==
  ASSUME NEW s \in Section, HeaderAccepted(s), NEW Q \in SUBSET ProgramOffsets(s)
  PROVE  Address(s, Q) \in Nat
<1> DEFINE P == ExtendedIn(s, Q, LNE_set_address)
           B == Behind(Q, P)
           f == [q \in B |-> Moved(s, Q, q)]
<1>1. B \in SUBSET Q /\ P \in SUBSET Q
  BY DEF Behind, ExtendedIn
<1>2. IsFiniteSet(B)
  BY <1>1, OffsetsIn, FS_Subset
<1>3. \A q \in B : f[q] \in Int
  BY <1>1, OperationsType
<1>4. Address(s, Q) = (LatestArg(s, P, 0) + SumFunctionOnSet(f, B)) % AddrMod
  BY DEF Address, SumFunction
<1>5. LatestArg(s, P, 0) \in Int
  BY <1>1, LatestType
<1> HIDE DEF f, B, P
<1>6. SumFunctionOnSet(f, B) \in Int
  BY <1>2, <1>3, SumType
<1>7. LatestArg(s, P, 0) + SumFunctionOnSet(f, B) \in Int
  BY <1>5, <1>6
<1> QED
  BY <1>4, <1>7, ModNat, ModAssumption

LEMMA LinesType ==
  ASSUME NEW s \in Section, HeaderAccepted(s), NEW Q \in SUBSET ProgramOffsets(s)
  PROVE  Lines(s, Q) \in Int
<1> DEFINE f == [q \in Q |-> LineIncrement(s, q)]
<1>1. IsFiniteSet(Q) /\ \A q \in Q : f[q] \in Int
  BY OffsetsIn, FS_Subset, AdvanceType
<1>2. Lines(s, Q) = SumFunctionOnSet(f, Q)
  BY DEF Lines, SumFunction
<1> HIDE DEF f
<1> QED
  BY <1>1, <1>2, SumType

\* The registers that opcodes make have their types.
LEMMA RegistersOfType ==
  ASSUME NEW s \in Section, HeaderAccepted(s), NEW Q \in SUBSET ProgramOffsets(s),
         NEW R \in SUBSET ProgramOffsets(s), NEW ends \in BOOLEAN
  PROVE  RegistersOf(s, Q, R, ends) \in Registers
<1>1. Address(s, Q) \in Nat
  BY AddressType
<1>2. Operations(s, Q) % MaxOps(s) \in Nat
  BY OperationsType, MaxOpsPositive, ModNat
<1>3. UintMod \in Nat \ {0}
  BY ModAssumption
<1>4. (1 + Lines(s, Q)) % UintMod \in Nat
  <2>1. 1 + Lines(s, Q) \in Int
    BY LinesType
  <2> QED
    BY <1>3, <2>1, ModNat
<1>5. ASSUME NEW n, NEW default \in Int, NEW S \in SUBSET ProgramOffsets(s)
      PROVE  /\ LatestArg(s, StandardsIn(s, S, n), default) % UintMod \in Nat
             /\ LatestArg(s, ExtendedIn(s, S, n), default) % UintMod \in Nat
  <2>1. /\ StandardsIn(s, S, n) \in SUBSET ProgramOffsets(s)
        /\ ExtendedIn(s, S, n) \in SUBSET ProgramOffsets(s)
    BY DEF StandardsIn, ExtendedIn
  <2> QED
    BY <1>3, <2>1, LatestType, ModNat
<1>6. /\ LatestArg(s, StandardsIn(s, Q, LNS_set_file), 1) % UintMod \in Nat
      /\ LatestArg(s, StandardsIn(s, Q, LNS_set_column), 0) % UintMod \in Nat
      /\ LatestArg(s, StandardsIn(s, Q, LNS_set_isa), 0) % UintMod \in Nat
      /\ LatestArg(s, ExtendedIn(s, R, LNE_set_discriminator), 0) % UintMod \in Nat
  BY <1>5
<1> QED
  BY <1>1, <1>2, <1>4, <1>6 DEF RegistersOf, Registers

\* One more opcode of a sequence: executing it makes the registers that
\* ProgramRows defines.
LEMMA RegistersMore ==
  ASSUME NEW s \in Section, HeaderAccepted(s), NEW Q, NEW R, NEW o,
         Onward(s, Q, o), Onward(s, R, o)
  PROVE  Executed(s, RegistersOf(s, Q, R, FALSE), OpcodeAt(s, o)) =
           RegistersOf(s, Q \cup {o}, R \cup {o}, Extended(s, o, LNE_end_sequence))
<1> DEFINE r == RegistersOf(s, Q, R, FALSE)
           ends == Extended(s, o, LNE_end_sequence)
           t == RegistersOf(s, Q \cup {o}, R \cup {o}, ends)
           op == OpcodeAt(s, o)
           x == Executed(s, r, op)
           n == OperationAdvance(s, o)
           l == LineIncrement(s, o)
           special == IsSpecial(s, op)
           wide == special \/ Standard(s, o, LNS_advance_pc)
                     \/ Standard(s, o, LNS_const_add_pc)
           sets == Extended(s, o, LNE_set_address)
           fixed == Standard(s, o, LNS_fixed_advance_pc)
<1>1. /\ o \in ProgramOffsets(s) /\ Q \in SUBSET ProgramOffsets(s)
      /\ R \in SUBSET ProgramOffsets(s)
      /\ Q \cup {o} \in SUBSET ProgramOffsets(s) /\ R \cup {o} \in SUBSET ProgramOffsets(s)
  BY DEF Onward
<1>2. op \in Opcode
  BY OnwardIs
<1>3. ends \in BOOLEAN
  BY DEF Extended, IsExtended
<1>4. r \in Registers /\ t \in Registers
  BY <1>1, <1>3, RegistersOfType
<1>5. x \in Registers
  <2> HIDE DEF r
  <2> QED
    BY <1>2, <1>4, ExecutedType
<1>6. ~wide => n = 0
  BY DEF OperationAdvance
<1>7. ~special /\ ~Standard(s, o, LNS_advance_line) => l = 0
  BY DEF LineIncrement
<1>8. /\ t.address = IF sets THEN op.arg % AddrMod
                     ELSE IF fixed THEN (r.address + op.arg) % AddrMod
                     ELSE IF wide
                     THEN (r.address + s.min_inst_len * ((r.op_index + n) \div MaxOps(s))) % AddrMod
                     ELSE r.address
      /\ t.op_index = IF SetsAddress(s, o) THEN 0
                      ELSE IF wide THEN (r.op_index + n) % MaxOps(s) ELSE r.op_index
  <2>1. /\ r.address = Address(s, Q) /\ r.op_index = Operations(s, Q) % MaxOps(s)
        /\ t.address = Address(s, Q \cup {o})
        /\ t.op_index = Operations(s, Q \cup {o}) % MaxOps(s)
    BY DEF RegistersOf
  <2> HIDE DEF r, t, n, l, special, wide, op, x, sets, fixed
  <2>2. /\ sets => t.address = op.arg % AddrMod /\ t.op_index = 0
        /\ ~sets /\ fixed => t.address = (r.address + op.arg) % AddrMod /\ t.op_index = 0
        /\ ~SetsAddress(s, o) =>
             /\ t.address = (r.address + s.min_inst_len * ((r.op_index + n) \div MaxOps(s))) % AddrMod
             /\ t.op_index = (r.op_index + n) % MaxOps(s)
        /\ ~SetsAddress(s, o) /\ n = 0 => t.address = r.address /\ t.op_index = r.op_index
    <3>1. AddressStep(s, Q, o, r.address, r.op_index)
      BY <2>1, AddressMore
    <3> QED
      BY <2>1, <3>1, Zenon DEF AddressStep, n, op, sets, fixed
  <2>3. SetsAddress(s, o) <=> sets \/ fixed
    BY DEF SetsAddress, sets, fixed
  <2> DEFINE far == (r.address + s.min_inst_len * ((r.op_index + n) \div MaxOps(s))) % AddrMod
             index == (r.op_index + n) % MaxOps(s)
  <2> HIDE DEF far, index
  <2>4. ~SetsAddress(s, o) => t.address = far /\ t.op_index = index
    BY <2>2, Zenon DEF far, index
  <2>5. /\ t.address = IF sets THEN op.arg % AddrMod
                       ELSE IF fixed THEN (r.address + op.arg) % AddrMod
                       ELSE IF wide THEN far ELSE r.address
        /\ t.op_index = IF SetsAddress(s, o) THEN 0 ELSE IF wide THEN index ELSE r.op_index
    BY <1>6, <2>2, <2>3, <2>4
  <2> QED
    BY <2>5 DEF far, index
<1>9. t.line = IF special \/ Standard(s, o, LNS_advance_line) THEN (r.line + l) % UintMod
              ELSE r.line
  <2>1. r.line = (1 + Lines(s, Q)) % UintMod /\ t.line = (1 + Lines(s, Q \cup {o})) % UintMod
    BY DEF RegistersOf
  <2> DEFINE k == 1 + Lines(s, Q)
  <2>2. Lines(s, Q \cup {o}) = Lines(s, Q) + l /\ Lines(s, Q) \in Int /\ l \in Int
    BY <1>1, LinesMore, AdvanceType
  <2> HIDE DEF r, t, n, l, special, wide, op, x
  <2>4. k \in Int /\ 1 + Lines(s, Q \cup {o}) = k + l
    BY <2>2
  <2> HIDE DEF k
  <2>5. ((k % UintMod) + l) % UintMod = (k + l) % UintMod /\ (k % UintMod) % UintMod = k % UintMod
    BY <2>2, <2>4, WrapAdd, ModAssumption
  <2>6. t.line = (r.line + l) % UintMod /\ r.line % UintMod = r.line /\ r.line \in Nat
    BY <2>1, <2>4, <2>5, <1>4 DEF k, Registers
  <2>7. l = 0 => t.line = r.line
    BY <2>6
  <2> QED
    BY <1>7, <2>6, <2>7
<1>10. /\ t.file_index = IF Standard(s, o, LNS_set_file) THEN op.arg % UintMod ELSE r.file_index
       /\ t.column = IF Standard(s, o, LNS_set_column) THEN op.arg % UintMod ELSE r.column
       /\ t.isa = IF Standard(s, o, LNS_set_isa) THEN op.arg % UintMod ELSE r.isa
       /\ t.discriminator = IF Extended(s, o, LNE_set_discriminator) THEN op.arg % UintMod
                            ELSE r.discriminator
  <2>1. /\ t.file_index = LatestArg(s, StandardsIn(s, Q \cup {o}, LNS_set_file), 1) % UintMod
        /\ t.column = LatestArg(s, StandardsIn(s, Q \cup {o}, LNS_set_column), 0) % UintMod
        /\ t.isa = LatestArg(s, StandardsIn(s, Q \cup {o}, LNS_set_isa), 0) % UintMod
        /\ t.discriminator =
             LatestArg(s, ExtendedIn(s, R \cup {o}, LNE_set_discriminator), 0) % UintMod
        /\ r.file_index = LatestArg(s, StandardsIn(s, Q, LNS_set_file), 1) % UintMod
        /\ r.column = LatestArg(s, StandardsIn(s, Q, LNS_set_column), 0) % UintMod
        /\ r.isa = LatestArg(s, StandardsIn(s, Q, LNS_set_isa), 0) % UintMod
        /\ r.discriminator =
             LatestArg(s, ExtendedIn(s, R, LNE_set_discriminator), 0) % UintMod
    BY DEF RegistersOf
  <2>2. ASSUME NEW c, NEW default \in Int
        PROVE  LatestArg(s, StandardsIn(s, Q \cup {o}, c), default) =
                 IF Standard(s, o, c) THEN op.arg ELSE LatestArg(s, StandardsIn(s, Q, c), default)
    BY LatestArgMore
  <2>3. ASSUME NEW c, NEW default \in Int
        PROVE  LatestArg(s, ExtendedIn(s, R \cup {o}, c), default) =
                 IF Extended(s, o, c) THEN op.arg ELSE LatestArg(s, ExtendedIn(s, R, c), default)
    BY LatestArgMore
  <2>4. 0 \in Int /\ 1 \in Int
    OBVIOUS
  <2> HIDE DEF r, t, op
  <2> QED
    BY <2>1, <2>2, <2>3, <2>4, Zenon
<1>11. t.is_stmt = IF Standard(s, o, LNS_negate_stmt) THEN ~r.is_stmt ELSE r.is_stmt
  <2> DEFINE even == Cardinality(StandardsIn(s, Q, LNS_negate_stmt)) % 2 = 0
  <2>1. r.is_stmt = (even = s.default_is_stmt)
    BY DEF RegistersOf
  <2>2. t.is_stmt =
          ((Cardinality(StandardsIn(s, Q \cup {o}, LNS_negate_stmt)) % 2 = 0)
             = s.default_is_stmt)
    BY DEF RegistersOf
  <2>3. (Cardinality(StandardsIn(s, Q \cup {o}, LNS_negate_stmt)) % 2 = 0) =
          IF Standard(s, o, LNS_negate_stmt) THEN ~even ELSE even
    BY NegationsMore, Zenon
  <2>4. s.default_is_stmt = TRUE \/ s.default_is_stmt = FALSE
    BY SectionFields
  <2>5. even \in BOOLEAN
    OBVIOUS
  <2> HIDE DEF r, t, even
  <2>6. CASE Standard(s, o, LNS_negate_stmt)
    BY <2>1, <2>2, <2>3, <2>4, <2>5, <2>6, Zenon
  <2>7. CASE ~Standard(s, o, LNS_negate_stmt)
    BY <2>1, <2>2, <2>3, <2>7, Zenon
  <2> QED
    BY <2>6, <2>7, Zenon
<1>12. /\ t.basic_block = IF Standard(s, o, LNS_set_basic_block) THEN TRUE ELSE r.basic_block
       /\ t.prologue_end = IF Standard(s, o, LNS_set_prologue_end) THEN TRUE ELSE r.prologue_end
       /\ t.epilogue_begin = IF Standard(s, o, LNS_set_epilogue_begin) THEN TRUE
                             ELSE r.epilogue_begin
       /\ t.end_sequence = IF Extended(s, o, LNE_end_sequence) THEN TRUE ELSE r.end_sequence
  <2>1. /\ r.basic_block = (StandardsIn(s, R, LNS_set_basic_block) # {})
        /\ r.prologue_end = (StandardsIn(s, R, LNS_set_prologue_end) # {})
        /\ r.epilogue_begin = (StandardsIn(s, R, LNS_set_epilogue_begin) # {})
        /\ t.basic_block = (StandardsIn(s, R \cup {o}, LNS_set_basic_block) # {})
        /\ t.prologue_end = (StandardsIn(s, R \cup {o}, LNS_set_prologue_end) # {})
        /\ t.epilogue_begin = (StandardsIn(s, R \cup {o}, LNS_set_epilogue_begin) # {})
        /\ t.end_sequence = ends /\ r.end_sequence = FALSE
    BY DEF RegistersOf
  <2>2. ASSUME NEW c
        PROVE  (StandardsIn(s, R \cup {o}, c) # {}) =
                 IF Standard(s, o, c) THEN TRUE ELSE StandardsIn(s, R, c) # {}
    BY StandardsMore
  <2>3. ends = IF ends THEN TRUE ELSE FALSE
    BY <1>3
  <2> HIDE DEF r, t, ends
  <2> QED
    BY <2>1, <2>2, <2>3, Zenon DEF ends
<1>13. RegisterByRegister(s, o, r, t)
  <2> HIDE DEF r, t
  <2>1. /\ t.end_sequence = IF ends THEN TRUE ELSE r.end_sequence
        /\ SetsAddress(s, o) <=> sets \/ fixed
    BY <1>12 DEF SetsAddress
  <2> QED
    BY <1>8, <1>9, <1>10, <1>11, <1>12, Zenon DEF RegisterByRegister
<1>14. RegisterByRegister(s, o, r, x)
  <2> HIDE DEF r
  <2> QED
    BY <1>1, <1>4, ExecutedFields
<1> HIDE DEF r, t, x
<1>16. x = t
  BY <1>4, <1>5, <1>13, <1>14, ByRegisterUnique
<1> QED
  BY <1>16 DEF x, r, t

\* The registers of no opcodes, and what a row leaves of them.
LEMMA RegistersOfNone ==
  ASSUME NEW s \in Section, HeaderAccepted(s)
  PROVE  RegistersOf(s, {}, {}, FALSE) = Reset(s)
<1>1. /\ \A n : StandardsIn(s, {}, n) = {} /\ ExtendedIn(s, {}, n) = {}
      /\ \A P : Behind({}, P) = {} /\ {p \in {} : SetsAddress(s, p)} = {}
      /\ \A d : LatestArg(s, {}, d) = d
  BY DEF StandardsIn, ExtendedIn, Behind, LatestArg
<1>2. Lines(s, {}) = 0
  BY SumNone DEF Lines
<1>3. Operations(s, {}) = 0
  <2> DEFINE f == [q \in Behind({}, {p \in {} : SetsAddress(s, p)}) |-> OperationAdvance(s, q)]
  <2>1. DOMAIN f = {}
    BY DEF Behind
  <2> HIDE DEF f
  <2> QED
    BY <2>1, SumNone DEF Operations, f
<1>4. Address(s, {}) = 0 % AddrMod
  <2> DEFINE f == [q \in Behind({}, ExtendedIn(s, {}, LNE_set_address)) |-> Moved(s, {}, q)]
  <2>1. DOMAIN f = {}
    BY DEF Behind
  <2>2. Address(s, {}) = (0 + SumFunction(f)) % AddrMod
    BY <1>1 DEF Address
  <2> HIDE DEF f
  <2>3. SumFunction(f) = 0
    BY <2>1, SumNone
  <2> QED
    BY <2>2, <2>3
<1>5. Cardinality({}) = 0
  BY FS_EmptySet
<1>6. /\ AddrMod \in Nat \ {0} /\ UintMod \in Nat \ {0, 1} /\ MaxOps(s) \in Nat \ {0}
      /\ s.default_is_stmt \in BOOLEAN
  BY ModAssumption, MaxOpsPositive, SectionFields
<1>7. /\ 0 % AddrMod = 0 /\ 0 % UintMod = 0 /\ 1 % UintMod = 1 /\ 0 % MaxOps(s) = 0
      /\ (1 + 0) % UintMod = 1 /\ (0 % 2 = 0) = TRUE
  BY <1>6
<1>8. ((0 % 2 = 0) = s.default_is_stmt) = s.default_is_stmt
  BY <1>6, <1>7
<1>9. ({} # {}) = FALSE
  OBVIOUS
<1> DEFINE r == RegistersOf(s, {}, {}, FALSE)
           t == Reset(s)
<1>10. r \in Registers /\ t \in Registers
  BY RegistersOfType, ResetType
<1>11. /\ r.address = 0 /\ r.op_index = 0 /\ r.file_index = 1 /\ r.line = 1 /\ r.column = 0
  BY <1>1, <1>2, <1>3, <1>4, <1>7 DEF RegistersOf
<1>12. r.is_stmt = s.default_is_stmt
  BY <1>1, <1>5, <1>8 DEF RegistersOf
<1>13. /\ r.basic_block = FALSE /\ r.end_sequence = FALSE /\ r.prologue_end = FALSE
       /\ r.epilogue_begin = FALSE /\ r.isa = 0 /\ r.discriminator = 0
  BY <1>1, <1>7, <1>9 DEF RegistersOf
<1>14. /\ t.address = 0 /\ t.op_index = 0 /\ t.file_index = 1 /\ t.line = 1 /\ t.column = 0
       /\ t.is_stmt = s.default_is_stmt
       /\ t.basic_block = FALSE /\ t.end_sequence = FALSE /\ t.prologue_end = FALSE
       /\ t.epilogue_begin = FALSE /\ t.isa = 0 /\ t.discriminator = 0
  BY DEF Reset
<1> HIDE DEF r, t
<1>15. r = t
  BY <1>10, <1>11, <1>12, <1>13, <1>14, SameRegisters
<1> QED
  BY <1>15 DEF r, t

\* What a row leaves in the registers is what the opcodes of its sequence make,
\* with none behind the row.
LEMMA RegistersLeft ==
  ASSUME NEW s \in Section, HeaderAccepted(s), NEW Q \in SUBSET ProgramOffsets(s),
         NEW R \in SUBSET ProgramOffsets(s), NEW op, op.code # 0
  PROVE  AfterRow(s, RegistersOf(s, Q, R, FALSE), op) = RegistersOf(s, Q, {}, FALSE)
<1> DEFINE r == RegistersOf(s, Q, R, FALSE)
           x == [r EXCEPT !.basic_block = FALSE, !.prologue_end = FALSE,
                          !.epilogue_begin = FALSE, !.discriminator = 0]
           t == RegistersOf(s, Q, {}, FALSE)
<1>1. \A n : StandardsIn(s, {}, n) = {} /\ ExtendedIn(s, {}, n) = {}
  BY DEF StandardsIn, ExtendedIn
<1>2. LatestArg(s, {}, 0) = 0 /\ 0 % UintMod = 0
  BY ModAssumption DEF LatestArg
<1>3. AfterRow(s, r, op) = x
  BY DEF AfterRow
<1>4. r \in Registers /\ t \in Registers
  BY RegistersOfType
<1>5. /\ t.basic_block = FALSE /\ t.prologue_end = FALSE /\ t.epilogue_begin = FALSE
      /\ t.discriminator = 0
  BY <1>1, <1>2 DEF RegistersOf
<1>6. /\ t.address = r.address /\ t.op_index = r.op_index /\ t.file_index = r.file_index
      /\ t.line = r.line /\ t.column = r.column /\ t.is_stmt = r.is_stmt
      /\ t.end_sequence = r.end_sequence /\ t.isa = r.isa
  BY DEF RegistersOf
<1> HIDE DEF r, t
<1>7. /\ x.basic_block = FALSE /\ x.prologue_end = FALSE /\ x.epilogue_begin = FALSE
      /\ x.discriminator = 0 /\ x \in Registers
      /\ x.address = r.address /\ x.op_index = r.op_index /\ x.file_index = r.file_index
      /\ x.line = r.line /\ x.column = r.column /\ x.is_stmt = r.is_stmt
      /\ x.end_sequence = r.end_sequence /\ x.isa = r.isa
  BY <1>4 DEF Registers
<1> HIDE DEF x
<1>8. x = t
  BY <1>4, <1>5, <1>6, <1>7, SameRegisters
<1> QED
  BY <1>3, <1>8 DEF r, t

-----------------------------------------------------------------------------
(* Sequences and rows: executing the program makes the rows of ProgramRows.*)

\* The registers when all opcodes up to offset o have been executed.
After(s, o) ==
  IF o = ProgramOffset(s) THEN Reset(s)
  ELSE IF EmitsRow(s, OpcodeAt(s, o)) THEN AfterRow(s, RowAt(s, o), OpcodeAt(s, o))
  ELSE RowAt(s, o)

\* The opcodes up to offset o that the next one has in its sequence, and behind
\* its previous row.
SequenceBefore(s, o) ==
  Behind(Opcodes(s, o), {q \in Opcodes(s, o) : Extended(s, q, LNE_end_sequence)})
RowBefore(s, o) ==
  Behind(Opcodes(s, o), {q \in Opcodes(s, o) : EmitsRow(s, OpcodeAt(s, q))})

\* The opcodes up to o are those before it, and it.
LEMMA OpcodesMore ==
  ASSUME NEW s \in Section, NEW o \in ProgramOffsets(s)
  PROVE  /\ o \in Nat /\ o - 1 \in Nat /\ (o - 1) + 1 = o
         /\ o - 1 \in {ProgramOffset(s)} \cup ProgramOffsets(s)
         /\ Opcodes(s, o) = Opcodes(s, o - 1) \cup {o}
         /\ \A q \in Opcodes(s, o - 1) : q \in ProgramOffsets(s) /\ q \in Nat /\ q < o
<1> DEFINE first == ProgramOffset(s)
           last == Size(s)
<1>1. first \in Nat /\ last \in Nat /\ first <= last
  BY SizeType
<1>2. /\ Opcodes(s, o) = (first + 1) .. o /\ Opcodes(s, o - 1) = (first + 1) .. (o - 1)
      /\ ProgramOffsets(s) = (first + 1) .. last
  BY DEF ProgramOffsets, Opcodes
<1> HIDE DEF first, last
<1>3. o \in (first + 1) .. last
  BY <1>2
<1>4. /\ o \in Nat /\ o - 1 \in Nat /\ (o - 1) + 1 = o
      /\ o - 1 \in {first} \cup ((first + 1) .. last)
  BY <1>1, <1>3
<1>5. (first + 1) .. o = ((first + 1) .. (o - 1)) \cup {o}
  BY <1>1, <1>3
<1>6. \A q \in (first + 1) .. (o - 1) : q \in (first + 1) .. last /\ q \in Nat /\ q < o
  BY <1>1, <1>3
<1> QED
  BY <1>2, <1>4, <1>5, <1>6 DEF first

\* The sequence and the row that an opcode continues.
LEMMA InSequenceIs ==
  ASSUME NEW s \in Section, NEW o \in ProgramOffsets(s)
  PROVE  /\ InSequence(s, o) = SequenceBefore(s, o - 1) \cup {o}
         /\ InRow(s, o) = RowBefore(s, o - 1) \cup {o}
         /\ Onward(s, SequenceBefore(s, o - 1), o)
         /\ Onward(s, RowBefore(s, o - 1), o)
<1>1. /\ o \in Nat /\ Opcodes(s, o) = Opcodes(s, o - 1) \cup {o}
      /\ \A q \in Opcodes(s, o - 1) : q \in ProgramOffsets(s) /\ q \in Nat /\ q < o
  BY OpcodesMore
<1>2. ASSUME NEW P \in SUBSET Opcodes(s, o - 1)
      PROVE  Behind(Opcodes(s, o), P) = Behind(Opcodes(s, o - 1), P) \cup {o}
  <2> DEFINE O == Opcodes(s, o - 1)
  <2>1. o \in Int /\ \A q \in O : q \in Int /\ q < o
    BY <1>1
  <2> HIDE DEF O
  <2>2. P \in SUBSET O
    BY DEF O
  <2>3. Behind(O \cup {o}, P) = Behind(O, P) \cup {o}
    BY <2>1, <2>2, BehindMore
  <2> QED
    BY <1>1, <2>3 DEF O
<1>3. /\ InSequence(s, o) = SequenceBefore(s, o - 1) \cup {o}
      /\ InRow(s, o) = RowBefore(s, o - 1) \cup {o}
  BY <1>2 DEF InSequence, InRow, SequenceBefore, RowBefore
<1>4. /\ SequenceBefore(s, o - 1) \in SUBSET Opcodes(s, o - 1)
      /\ RowBefore(s, o - 1) \in SUBSET Opcodes(s, o - 1)
  BY DEF SequenceBefore, RowBefore, Behind
<1> QED
  BY <1>1, <1>3, <1>4 DEF Onward

\* The sequence goes on or begins with the next opcode.
LEMMA SequenceBeforeIs ==
  ASSUME NEW s \in Section, NEW o \in ProgramOffsets(s)
  PROVE  /\ SequenceBefore(s, o) = IF Extended(s, o, LNE_end_sequence) THEN {}
                                   ELSE InSequence(s, o)
         /\ RowBefore(s, o) = IF EmitsRow(s, OpcodeAt(s, o)) THEN {} ELSE InRow(s, o)
<1>1. /\ o \in Nat /\ Opcodes(s, o) = Opcodes(s, o - 1) \cup {o}
      /\ \A q \in Opcodes(s, o - 1) : q \in ProgramOffsets(s) /\ q \in Nat /\ q < o
  BY OpcodesMore
<1>2. ASSUME NEW P \in SUBSET Opcodes(s, o - 1)
      PROVE  Behind(Opcodes(s, o), P \cup {o}) = {}
  <2> DEFINE O == Opcodes(s, o - 1)
  <2>1. o \in Int /\ \A q \in O : q \in Int /\ q < o
    BY <1>1
  <2> HIDE DEF O
  <2>2. P \in SUBSET O
    BY DEF O
  <2>3. Behind(O \cup {o}, P \cup {o}) = {}
    BY <2>1, <2>2, BehindNone
  <2> QED
    BY <1>1, <2>3 DEF O
<1> DEFINE E == {q \in Opcodes(s, o - 1) : Extended(s, q, LNE_end_sequence)}
           W == {q \in Opcodes(s, o - 1) : EmitsRow(s, OpcodeAt(s, q))}
<1>3. /\ {q \in Opcodes(s, o) : Extended(s, q, LNE_end_sequence)} =
           IF Extended(s, o, LNE_end_sequence) THEN E \cup {o} ELSE E
      /\ {q \in Opcodes(s, o) : EmitsRow(s, OpcodeAt(s, q))} =
           IF EmitsRow(s, OpcodeAt(s, o)) THEN W \cup {o} ELSE W
  BY <1>1
<1>4. E \in SUBSET Opcodes(s, o - 1) /\ W \in SUBSET Opcodes(s, o - 1)
  OBVIOUS
<1>5. InSequence(s, o) = Behind(Opcodes(s, o), E) /\ InRow(s, o) = Behind(Opcodes(s, o), W)
  BY DEF InSequence, InRow
<1> HIDE DEF E, W
<1> QED
  BY <1>2, <1>3, <1>4, <1>5 DEF SequenceBefore, RowBefore

\* The end of a sequence emits a row.
LEMMA EndsEmit ==
  ASSUME NEW s \in Section, NEW o \in ProgramOffsets(s)
  PROVE  /\ Extended(s, o, LNE_end_sequence) => EmitsRow(s, OpcodeAt(s, o))
         /\ EmitsRow(s, OpcodeAt(s, o)) =>
              (OpcodeAt(s, o).code = 0 <=> Extended(s, o, LNE_end_sequence))
<1>1. s.opcode_base \in Nat /\ 0 < s.opcode_base
  <2>1. s.opcode_base \in Byte \ {0}
    BY DEF Section
  <2> QED
    BY <2>1 DEF Byte
<1> QED
  BY <1>1 DEF Extended, EmitsRow, IsSpecial, IsStandard, IsExtended, LNS_copy

\* What is left in the registers is what the opcodes that still count make.
LEMMA AfterIs ==
  ASSUME NEW s \in Section, HeaderAccepted(s),
         NEW o \in {ProgramOffset(s)} \cup ProgramOffsets(s)
  PROVE  After(s, o) = RegistersOf(s, SequenceBefore(s, o), RowBefore(s, o), FALSE)
<1>1. CASE o = ProgramOffset(s)
  <2>1. Opcodes(s, o) = {}
    BY <1>1, SizeType DEF Opcodes
  <2>2. SequenceBefore(s, o) = {} /\ RowBefore(s, o) = {}
    BY <2>1 DEF SequenceBefore, RowBefore, Behind
  <2> QED
    BY <1>1, <2>2, RegistersOfNone DEF After
<1>2. CASE o \in ProgramOffsets(s) /\ o # ProgramOffset(s)
  <2> DEFINE op == OpcodeAt(s, o)
             ends == Extended(s, o, LNE_end_sequence)
  <2>1. RowAt(s, o) = RegistersOf(s, InSequence(s, o), InRow(s, o), ends)
    BY DEF RowAt
  <2>2. InSequence(s, o) \in SUBSET ProgramOffsets(s) /\ InRow(s, o) \in SUBSET ProgramOffsets(s)
    BY <1>2, InSequenceIs DEF Onward
  <2>3. ends \in BOOLEAN
    BY DEF Extended, IsExtended
  <2>4. /\ SequenceBefore(s, o) = IF ends THEN {} ELSE InSequence(s, o)
        /\ RowBefore(s, o) = IF EmitsRow(s, op) THEN {} ELSE InRow(s, o)
        /\ ends => EmitsRow(s, op)
        /\ EmitsRow(s, op) => (op.code = 0 <=> ends)
    BY <1>2, SequenceBeforeIs, EndsEmit
  <2> HIDE DEF ends, op
  <2>5. CASE ends
    <3>1. After(s, o) = AfterRow(s, RowAt(s, o), op) /\ op.code = 0
      BY <1>2, <2>4, <2>5 DEF After, op
    <3>2. After(s, o) = Reset(s)
      BY <3>1 DEF AfterRow
    <3> QED
      BY <2>4, <2>5, <3>2, RegistersOfNone
  <2>6. CASE ~ends /\ EmitsRow(s, op)
    <3>1. After(s, o) = AfterRow(s, RowAt(s, o), op) /\ op.code # 0 /\ ends = FALSE
      BY <1>2, <2>3, <2>4, <2>6 DEF After, op
    <3>2. RowAt(s, o) = RegistersOf(s, InSequence(s, o), InRow(s, o), FALSE)
      BY <2>1, <3>1
    <3>3. SequenceBefore(s, o) = InSequence(s, o) /\ RowBefore(s, o) = {}
      BY <2>4, <2>6
    <3>4. AfterRow(s, RegistersOf(s, InSequence(s, o), InRow(s, o), FALSE), op) =
            RegistersOf(s, InSequence(s, o), {}, FALSE)
      BY <2>2, <3>1, RegistersLeft
    <3> QED
      BY <3>1, <3>2, <3>3, <3>4
  <2>7. CASE ~EmitsRow(s, op)
    <3>1. After(s, o) = RowAt(s, o) /\ ends = FALSE
      BY <1>2, <2>3, <2>4, <2>7 DEF After, op
    <3> QED
      BY <2>1, <2>4, <2>7, <3>1
  <2> QED
    BY <2>4, <2>5, <2>6, <2>7
<1>3. o \notin ProgramOffsets(s) => o = ProgramOffset(s)
  OBVIOUS
<1> QED
  BY <1>1, <1>2, <1>3

\* iterator::step makes what DWARF says: executing the program opcode by opcode
\* puts into each register what ProgramRows takes from the opcodes that set it,
\* for every program whose header is accepted, also behind wrapped sums.
THEOREM RowIsExecuted ==
  ASSUME NEW s \in Section, HeaderAccepted(s), NEW o \in ProgramOffsets(s)
  PROVE  /\ RowAt(s, o) = Executed(s, After(s, o - 1), OpcodeAt(s, o))
         /\ RowAt(s, o) \in Registers
<1> DEFINE Q == SequenceBefore(s, o - 1)
           R == RowBefore(s, o - 1)
<1>1. o - 1 \in {ProgramOffset(s)} \cup ProgramOffsets(s)
  BY OpcodesMore
<1>2. /\ InSequence(s, o) = Q \cup {o} /\ InRow(s, o) = R \cup {o}
      /\ Onward(s, Q, o) /\ Onward(s, R, o)
  BY InSequenceIs
<1>3. After(s, o - 1) = RegistersOf(s, Q, R, FALSE)
  BY <1>1, AfterIs
<1> HIDE DEF Q, R
<1>4. Executed(s, After(s, o - 1), OpcodeAt(s, o)) = RowAt(s, o)
  <2>1. Executed(s, RegistersOf(s, Q, R, FALSE), OpcodeAt(s, o)) =
          RegistersOf(s, Q \cup {o}, R \cup {o}, Extended(s, o, LNE_end_sequence))
    BY <1>2, RegistersMore
  <2> QED
    BY <1>2, <1>3, <2>1 DEF RowAt
<1>5. RowAt(s, o) \in Registers
  <2>1. Q \cup {o} \in SUBSET ProgramOffsets(s) /\ R \cup {o} \in SUBSET ProgramOffsets(s)
    BY <1>2 DEF Onward
  <2>2. Extended(s, o, LNE_end_sequence) \in BOOLEAN
    BY DEF Extended, IsExtended
  <2> QED
    BY <1>2, <2>1, <2>2, RegistersOfType DEF RowAt
<1> QED
  BY <1>4, <1>5

-----------------------------------------------------------------------------
(* The rows in order.                                                      *)

\* The opcodes that emit rows are opcodes of the program.
LEMMA RowOffsetsIn ==
  ASSUME NEW s \in Section
  PROVE  /\ RowOffsets(s) \in SUBSET ProgramOffsets(s) /\ IsFiniteSet(RowOffsets(s))
         /\ \A o \in RowOffsets(s) : o \in Nat /\ ProgramOffset(s) < o /\ o <= Size(s)
         /\ ProgramOffset(s) \in Nat /\ Size(s) \in Nat /\ ProgramOffset(s) <= Size(s)
<1>1. RowOffsets(s) \in SUBSET ProgramOffsets(s)
  BY DEF RowOffsets
<1>2. ProgramOffset(s) \in Nat /\ Size(s) \in Nat /\ ProgramOffset(s) <= Size(s)
  BY SizeType
<1>3. \A o \in ProgramOffsets(s) : o \in Nat /\ ProgramOffset(s) < o /\ o <= Size(s)
  BY <1>2 DEF ProgramOffsets, Opcodes
<1>4. IsFiniteSet(RowOffsets(s))
  BY <1>1, OffsetsIn, FS_Subset
<1> QED
  BY <1>1, <1>2, <1>3, <1>4

LEMMA RowsUpToType ==
  ASSUME NEW s \in Section, NEW o
  PROVE  /\ RowsUpTo(s, o) \in Nat
         /\ IsFiniteSet({q \in RowOffsets(s) : q <= o})
<1>1. {q \in RowOffsets(s) : q <= o} \in SUBSET RowOffsets(s)
  OBVIOUS
<1>2. IsFiniteSet({q \in RowOffsets(s) : q <= o})
  BY <1>1, RowOffsetsIn, FS_Subset
<1> QED
  BY <1>2, FS_CardinalityType DEF RowsUpTo

\* One more opcode: one more row, if it emits one.
LEMMA RowsUpToNext ==
  ASSUME NEW s \in Section, NEW o \in Nat
  PROVE  RowsUpTo(s, o + 1) =
           IF o + 1 \in RowOffsets(s) THEN RowsUpTo(s, o) + 1 ELSE RowsUpTo(s, o)
<1> DEFINE A == {q \in RowOffsets(s) : q <= o}
           B == {q \in RowOffsets(s) : q <= o + 1}
<1>1. \A q \in RowOffsets(s) : q \in Nat
  BY RowOffsetsIn
<1>2. /\ o + 1 \in RowOffsets(s) => B = A \cup {o + 1}
      /\ o + 1 \notin RowOffsets(s) => B = A
      /\ o + 1 \notin A
  BY <1>1
<1>3. IsFiniteSet(A) /\ RowsUpTo(s, o) = Cardinality(A) /\ RowsUpTo(s, o + 1) = Cardinality(B)
  BY RowsUpToType DEF RowsUpTo
<1> HIDE DEF A, B
<1>4. Cardinality(A \cup {o + 1}) = Cardinality(A) + 1
  BY <1>2, <1>3, FS_AddElement
<1> QED
  BY <1>2, <1>3, <1>4

\* A later offset has no fewer rows, and more at a row behind the earlier one.
LEMMA RowsUpToGrows ==
  ASSUME NEW s \in Section, NEW a \in Nat, NEW b \in Nat, a <= b
  PROVE  /\ RowsUpTo(s, a) <= RowsUpTo(s, b)
         /\ a < b /\ b \in RowOffsets(s) => RowsUpTo(s, a) < RowsUpTo(s, b)
<1> DEFINE A == {q \in RowOffsets(s) : q <= a}
           B == {q \in RowOffsets(s) : q <= b}
<1>1. \A q \in RowOffsets(s) : q \in Nat
  BY RowOffsetsIn
<1>2. /\ A \subseteq B
      /\ a < b /\ b \in RowOffsets(s) => b \notin A /\ A \cup {b} \subseteq B
  BY <1>1
<1>3. /\ IsFiniteSet(A) /\ RowsUpTo(s, a) = Cardinality(A)
      /\ IsFiniteSet(B) /\ RowsUpTo(s, b) = Cardinality(B)
      /\ RowsUpTo(s, a) \in Nat /\ RowsUpTo(s, b) \in Nat
  BY RowsUpToType DEF RowsUpTo
<1> HIDE DEF A, B
<1>4. Cardinality(A) <= Cardinality(B)
  BY <1>2, <1>3, FS_Subset
<1>5. ASSUME a < b, b \in RowOffsets(s) PROVE Cardinality(A) < Cardinality(B)
  <2>1. Cardinality(A \cup {b}) = Cardinality(A) + 1 /\ IsFiniteSet(A \cup {b})
    BY <1>2, <1>3, <1>5, FS_AddElement
  <2>2. Cardinality(A \cup {b}) <= Cardinality(B)
    BY <1>2, <1>3, <1>5, FS_Subset
  <2> QED
    BY <1>3, <2>1, <2>2
<1> QED
  BY <1>3, <1>4, <1>5

LEMMA NoRowsBefore ==
  ASSUME NEW s \in Section PROVE RowsUpTo(s, ProgramOffset(s)) = 0
<1>1. {q \in RowOffsets(s) : q <= ProgramOffset(s)} = {}
  BY RowOffsetsIn
<1> QED
  BY <1>1, FS_EmptySet DEF RowsUpTo

\* The rows are a sequence, and a row's number is its index.
LEMMA RowNumbers ==
  ASSUME NEW s \in Section
  PROVE  /\ DOMAIN RowsOf(s) = 1 .. RowsUpTo(s, Size(s))
         /\ Len(RowsOf(s)) = RowsUpTo(s, Size(s)) /\ RowsUpTo(s, Size(s)) \in Nat
         /\ RowsUpTo(s, Size(s)) = 0 <=> RowsOf(s) = << >>
         /\ \A o \in RowOffsets(s) :
              /\ RowsUpTo(s, o) \in 1 .. RowsUpTo(s, Size(s))
              /\ RowsOf(s)[RowsUpTo(s, o)] = RowAt(s, o)
<1> DEFINE N == RowsUpTo(s, Size(s))
           row(k) == RowAt(s, CHOOSE o \in RowOffsets(s) : RowsUpTo(s, o) = k)
           V == {row(k) : k \in 1 .. N}
<1>1. N \in Nat
  BY RowsUpToType
<1>2. RowsOf(s) = [k \in 1 .. N |-> row(k)]
  BY DEF RowsOf
<1> HIDE DEF N
<1>3. RowsOf(s) \in [1 .. N -> V]
  BY <1>2
<1>3a. DOMAIN RowsOf(s) = 1 .. N
  BY <1>2
<1> HIDE DEF V, row
<1>4. RowsOf(s) \in Seq(V) /\ Len(RowsOf(s)) = N
  BY <1>1, <1>3
<1>5. N = 0 <=> RowsOf(s) = << >>
  BY <1>4
<1>6. ASSUME NEW o \in RowOffsets(s)
      PROVE  RowsUpTo(s, o) \in 1 .. N /\ RowsOf(s)[RowsUpTo(s, o)] = RowAt(s, o)
  <2> DEFINE k == RowsUpTo(s, o)
             p == CHOOSE q \in RowOffsets(s) : RowsUpTo(s, q) = k
  <2>1. o \in Nat /\ o <= Size(s) /\ Size(s) \in Nat /\ ProgramOffset(s) \in Nat
        /\ ProgramOffset(s) < o
    BY RowOffsetsIn
  <2>2. k \in Nat /\ 0 < k
    <3>1. RowsUpTo(s, ProgramOffset(s)) < RowsUpTo(s, o)
      BY <2>1, RowsUpToGrows
    <3> QED
      BY <3>1, NoRowsBefore, RowsUpToType
  <2>3. k <= N
    BY <2>1, RowsUpToGrows DEF N
  <2>4. p \in RowOffsets(s) /\ RowsUpTo(s, p) = k
    BY Zenon
  <2> HIDE DEF p
  <2>5. p = o
    <3>1. p \in Nat
      BY <2>4, RowOffsetsIn
    <3>2. ~(p < o) /\ ~(o < p)
      BY <2>1, <2>2, <2>4, <3>1, RowsUpToGrows
    <3> QED
      BY <2>1, <3>1, <3>2
  <2>6. k \in 1 .. N
    BY <1>1, <2>2, <2>3
  <2>7. RowsOf(s)[k] = RowAt(s, p)
    BY <1>2, <2>6 DEF row, p
  <2> QED
    BY <2>5, <2>6, <2>7
<1> QED
  BY <1>1, <1>3a, <1>4, <1>5, <1>6 DEF N

-----------------------------------------------------------------------------
(* Where iterators are.                                                    *)

\* Where an iterator can be that no ++ has left in the middle: at a row, at
\* end(), or at begin() before its first ++.
AtRow(s, it) ==
  /\ ~it.torn /\ it.entry.file # NullFile
  /\ it.pos \in RowOffsets(s)
  /\ it.entry.row = RowAt(s, it.pos) /\ it.regs = After(s, it.pos)
AtNone(s, it) == ~it.torn /\ it.entry.file = NullFile /\ it.pos = Size(s)
Fresh(s, it) ==
  /\ ~it.torn /\ it.entry.file = NullFile
  /\ it.pos = ProgramOffset(s) /\ it.regs = Reset(s)
Placed(s, it) == it.torn \/ AtRow(s, it) \/ AtNone(s, it)

RowOf(s, it) == RowsUpTo(s, it.pos)

\* Every iteration gets as far as offset o.
Passable(s, o) == \A q \in Opcodes(s, o) : ~Fatal(s, q)

\* A ++ that has not stepped yet, one between two opcodes, one at its row.
NotStepped(s, it, c, out) ==
  ~out /\ c = it.pos /\ (AtRow(s, it) \/ AtNone(s, it) \/ Fresh(s, it))
InBetween(s, it, c, out) ==
  /\ ~out /\ it.pos < c /\ Passable(s, c)
  /\ RowsUpTo(s, c) = RowOf(s, it) /\ it.regs = After(s, c)
OnRow(s, it, c, out) ==
  /\ out /\ it.pos < c /\ c \in RowOffsets(s)
  /\ RowsUpTo(s, c) = RowOf(s, it) + 1 /\ it.regs = After(s, c)
  /\ it.entry.row = RowAt(s, c)

\* The iterator that a ++ advances.
StepInv ==
  /\ ~self.torn => \/ NotStepped(sec, self, cur, output)
                   \/ InBetween(sec, self, cur, output)
                   \/ OnRow(sec, self, cur, output)
  /\ call.op = "incr" =>
       /\ self.pos = iters[call.it].pos /\ self.torn = iters[call.it].torn
       /\ ~self.torn /\ cur = self.pos => self = iters[call.it]
  /\ call.op # "incr" => ~self.torn
  /\ call.op \in {"begin", "find_first"} => self.pos = ProgramOffset(sec)
  /\ call.op = "find_scan" => self.pos = prev.pos

\* The iterator that a ++ has advanced.
BackInv ==
  /\ Placed(sec, self)
  /\ call.op = "incr" =>
       /\ self.torn = iters[call.it].torn
       /\ ~self.torn => \/ self = iters[call.it]
                        \/ /\ AtRow(sec, self) /\ AtRow(sec, iters[call.it])
                           /\ RowOf(sec, self) = RowOf(sec, iters[call.it]) + 1
  /\ call.op # "incr" => ~self.torn
  /\ call.op \in {"begin", "find_first"} =>
       \/ AtRow(sec, self) /\ RowOf(sec, self) = 1
       \/ AtNone(sec, self) /\ ProgramOffset(sec) = Size(sec)
  /\ call.op = "find_scan" =>
       AtRow(sec, self) /\ RowOf(sec, self) = RowOf(sec, prev) + 1

\* Row k and the one behind it cover the address.
RowCovers(s, a, k) ==
  /\ RowsOf(s)[k].address <= a /\ a < RowsOf(s)[k + 1].address
  /\ ~RowsOf(s)[k].end_sequence

\* find_address has tried all rows before p.
Scanned(s, a, p) ==
  /\ AtRow(s, p) /\ p.pos < Size(s)
  /\ \A k \in 1 .. (RowOf(s, p) - 1) : ~RowCovers(s, a, k)

CallInv ==
  /\ call.op # "none"
  /\ call.op \in {"find_first", "find_scan"} => call.arg \in Addresses
  /\ call.op = "find_scan" => Scanned(sec, call.arg, prev)

\* The inductive invariant of the refinement: the client's iterators are at rows
\* of the program or at none, with the registers of their place, and so is the
\* iterator of the ++ that is running, as far as it has got.
PlacesInv ==
  /\ capacity # 0
  /\ \A i \in Iterators : Placed(sec, iters[i])
  /\ pc = "step" => StepInv
  /\ pc = "back" => BackInv
  /\ pc \in {"step", "back"} => CallInv

-----------------------------------------------------------------------------

\* What the places of iterators say about their positions.
LEMMA PlacesOf ==
  ASSUME NEW s \in Section, NEW it \in Iterator
  PROVE  /\ AtRow(s, it) => /\ it.pos \in ProgramOffsets(s) /\ Passable(s, it.pos)
                            /\ ProgramOffset(s) < it.pos /\ it.pos <= Size(s)
                            /\ ~it.torn
         /\ AtNone(s, it) => ~it.torn /\ it.pos = Size(s)
         /\ Passable(s, ProgramOffset(s))
<1>1. \A o \in RowOffsets(s) : /\ o \in ProgramOffsets(s) /\ Passable(s, o)
                               /\ ProgramOffset(s) < o /\ o <= Size(s)
  BY RowOffsetsIn DEF RowOffsets, Passable
<1>2. Opcodes(s, ProgramOffset(s)) = {}
  BY SizeType DEF Opcodes
<1> QED
  BY <1>1, <1>2 DEF AtRow, AtNone, Passable

\* Before an opcode is executed.
LEMMA BeforeOpcode ==
  ASSUME IInv, PlacesInv, Running, ~self.torn
  PROVE  /\ self.regs = After(sec, cur) /\ RowsUpTo(sec, cur) = RowOf(sec, self)
         /\ Passable(sec, cur) /\ self.pos <= cur
<1>1. sec \in Section /\ self \in Iterator /\ cur \in Nat /\ pc = "step" /\ cur < Size(sec)
      /\ ~output
  BY SectionsAssumption DEF IInv, TypeOK, Running
<1>2. NotStepped(sec, self, cur, output) \/ InBetween(sec, self, cur, output)
  BY <1>1 DEF PlacesInv, StepInv, OnRow
<1>3. CASE InBetween(sec, self, cur, output)
  BY <1>1, <1>3 DEF InBetween, Iterator
<1>4. CASE NotStepped(sec, self, cur, output)
  <2>1. cur = self.pos /\ (AtRow(sec, self) \/ Fresh(sec, self))
    BY <1>1, <1>4, SizeType DEF NotStepped, AtNone
  <2>2. Passable(sec, cur)
    BY <1>1, <2>1, PlacesOf DEF Fresh
  <2>3. self.regs = After(sec, cur)
    BY <2>1 DEF AtRow, Fresh, After
  <2> QED
    BY <1>1, <2>1, <2>2, <2>3 DEF RowOf
<1> QED
  BY <1>2, <1>3, <1>4

\* The next opcode, of an iteration that gets there.
LEMMA OpcodeNext ==
  ASSUME IInv, PlacesInv, Running
  PROVE  /\ cur + 1 \in ProgramOffsets(sec) /\ cur \in Nat
         /\ Op = OpcodeAt(sec, cur + 1)
         /\ Fatal(sec, cur + 1) <=> IsUnknown(sec, Op) \/ Overruns(Op)
         /\ Passable(sec, cur) /\ ~Fatal(sec, cur + 1) => Passable(sec, cur + 1)
         /\ Passable(sec, cur + 1) =>
              (cur + 1 \in RowOffsets(sec) <=> EmitsRow(sec, Op))
         /\ ~self.torn => Executed(sec, self.regs, Op) = RowAt(sec, cur + 1)
         /\ RowAt(sec, cur + 1) \in Registers
         /\ After(sec, cur + 1) = IF EmitsRow(sec, Op) THEN AfterRow(sec, RowAt(sec, cur + 1), Op)
                                  ELSE RowAt(sec, cur + 1)
<1> DEFINE o == cur + 1
<1>1. /\ sec \in Section /\ HeaderAccepted(sec) /\ cur \in Nat /\ o <= Size(sec)
      /\ ProgramOffset(sec) < o /\ Op = OpcodeAt(sec, o)
  BY OpType DEF Op
<1>2. ProgramOffset(sec) \in Nat /\ Size(sec) \in Nat
  BY <1>1, SizeType
<1>3. o \in ProgramOffsets(sec) /\ o - 1 = cur /\ o # ProgramOffset(sec)
  BY <1>1, <1>2 DEF ProgramOffsets, Opcodes
<1> HIDE DEF o
<1>4. Fatal(sec, o) <=> IsUnknown(sec, Op) \/ Overruns(Op)
  BY <1>1 DEF Fatal
<1>5. Opcodes(sec, o) = Opcodes(sec, cur) \cup {o}
  BY <1>1, <1>3, OpcodesMore
<1>6. Passable(sec, cur) /\ ~Fatal(sec, o) => Passable(sec, o)
  BY <1>5 DEF Passable
<1>7. Passable(sec, o) => (o \in RowOffsets(sec) <=> EmitsRow(sec, Op))
  BY <1>1, <1>3 DEF Passable, RowOffsets
<1>8. RowAt(sec, o) = Executed(sec, After(sec, cur), Op) /\ RowAt(sec, o) \in Registers
  BY <1>1, <1>3, RowIsExecuted
<1>9. ~self.torn => Executed(sec, self.regs, Op) = RowAt(sec, o)
  BY <1>8, BeforeOpcode
<1>10. After(sec, o) = IF EmitsRow(sec, Op) THEN AfterRow(sec, RowAt(sec, o), Op)
                       ELSE RowAt(sec, o)
  BY <1>1, <1>3 DEF After
<1> QED
  BY <1>1, <1>3, <1>4, <1>6, <1>7, <1>8, <1>9, <1>10 DEF o

\* An opcode that does not throw.
LEMMA OpcodeDone ==
  ASSUME IInv, PlacesInv, Running, ~self.torn, ~IsUnknown(sec, Op), ~Overruns(Op),
         NEW it \in Iterator, it.pos = self.pos, it.regs = After(sec, cur + 1),
         EmitsRow(sec, Op) => it.entry.row = RowAt(sec, cur + 1)
  PROVE  \/ InBetween(sec, it, cur + 1, EmitsRow(sec, Op))
         \/ OnRow(sec, it, cur + 1, EmitsRow(sec, Op))
<1>1. /\ Passable(sec, cur + 1) /\ cur \in Nat
      /\ cur + 1 \in RowOffsets(sec) <=> EmitsRow(sec, Op)
  BY BeforeOpcode, OpcodeNext
<1>2. RowsUpTo(sec, cur) = RowOf(sec, it) /\ it.pos < cur + 1
  <2>1. it.pos \in Nat
    BY DEF Iterator
  <2> QED
    BY <1>1, <2>1, BeforeOpcode DEF RowOf
<1>3. RowsUpTo(sec, cur + 1) = IF EmitsRow(sec, Op) THEN RowsUpTo(sec, cur) + 1
                               ELSE RowsUpTo(sec, cur)
  BY <1>1, RowsUpToNext, SectionsAssumption DEF IInv, TypeOK
<1> QED
  BY <1>1, <1>2, <1>3 DEF InBetween, OnRow

-----------------------------------------------------------------------------
(* Every step keeps the iterators where rows are: operator++.              *)

\* What every step keeps.
LEMMA StepKeeps ==
  ASSUME IInv, PlacesInv, Next
  PROVE  /\ sec' = sec /\ sec \in Section /\ capacity' # 0
         /\ self \in Iterator /\ prev \in Iterator /\ call \in Call /\ cur \in Nat
         /\ iters \in [Iterators -> Iterator] /\ call.it \in Iterators
         /\ capacity \in Nat
         /\ ProgramOffset(sec) \in Nat /\ Size(sec) \in Nat
         /\ ProgramOffset(sec) <= Size(sec)
<1>1. capacity \in Nat /\ capacity # 0
  BY DEF IInv, TypeOK, PlacesInv
<1>2. capacity' = capacity \/ capacity' = Grown
  BY FileActions DEF fileVars, HeaderFile, StepDefineFile, StepBadFile, ReadFileEntry
<1>3. capacity' # 0
  BY <1>1, <1>2 DEF Grown
<1> QED
  BY <1>1, <1>3, StepFacts DEF IInv, TypeOK, Call

\* A step that leaves no operation in progress.
LEMMA Resting ==
  ASSUME IInv, PlacesInv, Next, pc' \notin {"step", "back"},
         \A i \in Iterators : Placed(sec, iters'[i])
  PROVE  PlacesInv'
  BY StepKeeps DEF PlacesInv

\* A step that starts operator++.
LEMMA Starting ==
  ASSUME IInv, PlacesInv, Next, NEW it, Advance(it), iters' = iters,
         it.torn \/ AtRow(sec, it) \/ AtNone(sec, it) \/ Fresh(sec, it),
         call'.op # "none",
         call'.op \in {"find_first", "find_scan"} => call'.arg \in Addresses,
         call'.op = "find_scan" => Scanned(sec, call'.arg, prev') /\ it.pos = prev'.pos,
         call'.op = "incr" => it = iters[call'.it],
         call'.op # "incr" => ~it.torn,
         call'.op \in {"begin", "find_first"} => it.pos = ProgramOffset(sec)
  PROVE  PlacesInv'
<1>1. pc' = "step" /\ self' = it /\ cur' = it.pos /\ output' = FALSE
  BY DEF Advance
<1>2. ~it.torn => NotStepped(sec, it, it.pos, FALSE)
  BY DEF NotStepped
<1>3. StepInv'
  BY <1>1, <1>2, StepKeeps DEF StepInv
<1>4. CallInv'
  BY StepKeeps DEF CallInv
<1> QED
  BY <1>1, <1>3, <1>4, StepKeeps DEF PlacesInv

\* The calls of the client.
LEMMA ClientPlaces ==
  ASSUME IInv, PlacesInv, Next, Client PROVE PlacesInv'
<1> DEFINE first == IteratorAt(sec, ProgramOffset(sec))
<1>0. /\ \A i \in Iterators : Placed(sec, iters[i])
      /\ first.torn = FALSE /\ first.pos = ProgramOffset(sec) /\ Fresh(sec, first)
  BY DEF PlacesInv, IteratorAt, Fresh
<1> HIDE DEF first
<1>1. ASSUME NEW i \in Iterators, Begin(i) PROVE PlacesInv'
  <2>1. Advance(first) /\ iters' = iters /\ call' = [op |-> "begin", it |-> i, arg |-> 0]
    BY <1>1 DEF Begin, Enter, first
  <2> QED
    BY <1>0, <2>1, Starting
<1>2. ASSUME NEW i \in Iterators, Increment(i) PROVE PlacesInv'
  <2>1. Advance(iters[i]) /\ iters' = iters /\ call' = [op |-> "incr", it |-> i, arg |-> 0]
    BY <1>2 DEF Increment, Enter
  <2>2. iters[i].torn \/ AtRow(sec, iters[i]) \/ AtNone(sec, iters[i])
    BY <1>0 DEF Placed
  <2> QED
    BY <2>1, <2>2, Starting
<1>3. ASSUME NEW i \in Iterators, NEW j \in Iterators, Assign(i, j) PROVE PlacesInv'
  <2>1. iters' = [iters EXCEPT ![i] = iters[j]] /\ pc' = "idle"
    BY <1>3 DEF Assign
  <2>2. \A k \in Iterators : Placed(sec, iters'[k])
    BY <1>0, <2>1, StepKeeps
  <2> QED
    BY <2>1, <2>2, Resting
<1>4. ASSUME NEW x \in FileIndexes, GetFile(x) PROVE PlacesInv'
  <2>1. /\ Advance(first) /\ iters' = iters
        /\ call' = [op |-> "get_file", it |-> NoCall.it, arg |-> x]
    BY <1>4 DEF GetFile, Enter, first
  <2> QED
    BY <1>0, <2>1, Starting
<1>5. ASSUME NEW x \in FileIndexes, GetKnownFile(x) PROVE PlacesInv'
  BY <1>0, <1>5, Resting DEF GetKnownFile
<1>6. ASSUME NEW i \in Iterators, NEW a \in Addresses, FindAddress(i, a) PROVE PlacesInv'
  <2>1. /\ Advance(first) /\ iters' = iters
        /\ call' = [op |-> "find_first", it |-> i, arg |-> a]
    BY <1>6 DEF FindAddress, Enter, first
  <2> QED
    BY <1>0, <2>1, Starting
<1> QED
  BY <1>1, <1>2, <1>3, <1>4, <1>5, <1>6 DEF Client

\* An exception leaves a torn iterator, or none.
LEMMA ThrowPlaces ==
  ASSUME IInv, PlacesInv, Next, NEW obj \in Iterator, Throw(obj)
  PROVE  PlacesInv'
<1>1. pc' = "idle"
  BY DEF Throw, Return
<1>2. [obj EXCEPT !.torn = TRUE].torn
  BY DEF Iterator
<1>3. \A i \in Iterators : Placed(sec, iters'[i])
  BY <1>2, StepKeeps DEF Throw, PlacesInv, Placed
<1> QED
  BY <1>1, <1>3, Resting

\* An opcode that leaves self where it is and, unless an earlier ++ on it has
\* thrown, between opcodes or on a row.
LEMMA OpcodePlaces ==
  ASSUME IInv, PlacesInv, Next, Running, self' \in Iterator, cur' = cur + 1, pc' = "step",
         UNCHANGED <<iters, call, prev>>,
         self'.pos = self.pos, self'.torn = self.torn,
         ~self.torn => \/ InBetween(sec, self', cur', output')
                       \/ OnRow(sec, self', cur', output')
  PROVE  PlacesInv'
<1>1. self'.pos <= cur
  <2>1. pc = "step" /\ self.pos <= cur
    BY DEF Running, IInv, CursorWalked
  <2> QED
    BY <2>1
<1>2. cur' # self'.pos
  BY <1>1, StepKeeps DEF Iterator
<1>3. StepInv /\ CallInv
  BY DEF PlacesInv, Running
<1>4. StepInv' /\ CallInv'
  BY <1>2, <1>3, StepKeeps DEF StepInv, CallInv
<1> QED
  BY <1>4, StepKeeps DEF PlacesInv

\* An opcode leaves the registers that ProgramRows gives for it.
LEMMA SelfAfterIs ==
  ASSUME IInv, PlacesInv, Running, ~self.torn
  PROVE  /\ SelfAfter \in Iterator /\ SelfAfter.pos = self.pos /\ SelfAfter.torn = self.torn
         /\ SelfAfter.regs = After(sec, cur + 1)
         /\ EmitsRow(sec, Op) => SelfAfter.entry.row = RowAt(sec, cur + 1)
<1> DEFINE r == Executed(sec, self.regs, Op)
<1>1. r = RowAt(sec, cur + 1)
  BY OpcodeNext
<1>2. SelfAfter = IF EmitsRow(sec, Op)
                  THEN [self EXCEPT !.regs = AfterRow(sec, r, Op),
                                    !.entry = [row |-> r, file |-> NullFile]]
                  ELSE [self EXCEPT !.regs = r]
  BY DEF SelfAfter
<1>3. After(sec, cur + 1) = IF EmitsRow(sec, Op) THEN AfterRow(sec, r, Op) ELSE r
  BY <1>1, OpcodeNext
<1>4. self \in Iterator
  BY DEF IInv, TypeOK
<1> HIDE DEF r
<1>5. /\ SelfAfter.pos = self.pos /\ SelfAfter.torn = self.torn
      /\ SelfAfter.regs = After(sec, cur + 1)
      /\ EmitsRow(sec, Op) => SelfAfter.entry.row = r
  BY <1>2, <1>3, <1>4 DEF Iterator, Entry
<1> QED
  BY <1>1, <1>5, SelfAfterType

\* An opcode keeps the ++ between opcodes or puts it on a row.
LEMMA StepOpcodePlaces ==
  ASSUME IInv, PlacesInv, Next, StepOpcode PROVE PlacesInv'
<1>1. /\ Running /\ self' = SelfAfter /\ cur' = cur + 1 /\ output' = EmitsRow(sec, Op)
      /\ pc' = "step" /\ UNCHANGED <<iters, call, prev>>
      /\ ~IsUnknown(sec, Op) /\ ~Overruns(Op)
  BY DEF StepOpcode, Running
<1>2. SelfAfter \in Iterator /\ SelfAfter.pos = self.pos
  BY <1>1, SelfAfterType
<1>3. SelfAfter.torn = self.torn
  BY StepKeeps DEF SelfAfter, Iterator
<1>4. ASSUME ~self.torn
      PROVE  \/ InBetween(sec, self', cur', output')
             \/ OnRow(sec, self', cur', output')
  BY <1>1, <1>4, SelfAfterIs, OpcodeDone
<1> QED
  BY <1>1, <1>2, <1>3, <1>4, OpcodePlaces

\* define_file changes no register.
LEMMA DefineFilePlaces ==
  ASSUME IInv, PlacesInv, Next, StepDefineFile PROVE PlacesInv'
<1>1. /\ Running /\ IsDefineFile(Op) /\ ~Overruns(Op) /\ cur' = cur + 1
      /\ pc' = "step" /\ UNCHANGED <<iters, call, prev, self, output>>
      /\ output = FALSE
  <2>1. output \in BOOLEAN
    BY DEF IInv, TypeOK
  <2> QED
    BY <2>1 DEF StepDefineFile, Running
<1>2. Op.code = 0 /\ Op.ext = 3 /\ sec.opcode_base \in Nat /\ 0 < sec.opcode_base
  <2>1. sec.opcode_base \in Byte \ {0}
    BY StepKeeps DEF Section
  <2> QED
    BY <1>1, <2>1 DEF IsDefineFile, IsExtended, LNE_define_file, Byte
<1>3. /\ EmitsRow(sec, Op) = FALSE /\ ~IsUnknown(sec, Op) /\ ~IsSpecial(sec, Op)
  BY <1>2 DEF EmitsRow, IsUnknown, IsSpecial, IsStandard, IsExtended, LNS_copy,
              LNE_end_sequence
<1>4. Executed(sec, self.regs, Op) = self.regs
  <2>1. Op.ext # LNE_end_sequence /\ Op.ext # LNE_set_address /\ Op.ext # LNE_set_discriminator
    BY <1>2 DEF LNE_end_sequence, LNE_set_address, LNE_set_discriminator
  <2> QED
    BY <1>2, <1>3, <2>1, Zenon DEF Executed, ExtendedOpcode
<1>5. ASSUME ~self.torn
      PROVE  \/ InBetween(sec, self', cur', output')
             \/ OnRow(sec, self', cur', output')
  <2>1. self.regs = After(sec, cur + 1)
    BY <1>1, <1>3, <1>4, <1>5, OpcodeNext
  <2>2. \/ InBetween(sec, self, cur + 1, EmitsRow(sec, Op))
        \/ OnRow(sec, self, cur + 1, EmitsRow(sec, Op))
    BY <1>1, <1>3, <1>5, <2>1, StepKeeps, OpcodeDone
  <2> QED
    BY <1>1, <1>3, <2>2
<1> QED
  BY <1>1, <1>5, StepKeeps, OpcodePlaces

\* A ++ that has nothing to step leaves its iterator at no row.
LEMMA NothingPlaces ==
  ASSUME IInv, PlacesInv, Next, NothingToStep PROVE PlacesInv'
<1>1. /\ pc = "step" /\ pc' = "back" /\ cur = Size(sec) /\ ~output /\ cur = self.pos
      /\ UNCHANGED <<iters, call, prev, self>>
  BY DEF NothingToStep, Stepped
<1>2. StepInv /\ CallInv /\ \A i \in Iterators : Placed(sec, iters[i])
  BY <1>1 DEF PlacesInv
<1>3. ~self.torn =>
        \/ AtRow(sec, self)
        \/ AtNone(sec, self)
        \/ Fresh(sec, self)
  BY <1>1, <1>2, StepKeeps DEF StepInv, NotStepped, InBetween, OnRow
<1>4. Fresh(sec, self) => AtNone(sec, self)
  BY <1>1 DEF Fresh, AtNone
<1>5. call.op # "find_scan"
  <2>1. Scanned(sec, call.arg, prev) => prev.pos < Size(sec)
    BY DEF Scanned
  <2> QED
    BY <1>1, <1>2, <2>1, StepKeeps DEF StepInv, CallInv, Iterator
<1>6. self.pos = ProgramOffset(sec) => ~AtRow(sec, self)
  BY StepKeeps, PlacesOf
<1>7. BackInv
  BY <1>1, <1>2, <1>3, <1>4, <1>5, <1>6 DEF StepInv, BackInv, Placed
<1>8. BackInv' /\ CallInv'
  BY <1>1, <1>2, <1>7, StepKeeps DEF BackInv, CallInv
<1> QED
  BY <1>1, <1>2, <1>8, StepKeeps DEF PlacesInv

\* A ++ that is at a row stores its position: the next row.
LEMMA FinishPlaces ==
  ASSUME IInv, PlacesInv, Next, FinishRow PROVE PlacesInv'
<1>1. CASE Throw(self)
  BY <1>1, ThrowPlaces, StepKeeps
<1>2. CASE ~Throw(self)
  <2> DEFINE it == [self EXCEPT !.pos = cur,
                      !.entry = [row  |-> self.entry.row,
                                 file |-> FilePointer(self.entry.row.file_index)]]
  <2>1. /\ pc = "step" /\ pc' = "back" /\ output /\ self' = it
        /\ UNCHANGED <<iters, call, prev>>
    BY <1>2 DEF FinishRow
  <2>2. /\ it.pos = cur /\ it.torn = self.torn /\ it.regs = self.regs
        /\ it.entry.row = self.entry.row
        /\ it.entry.file = FilePointer(self.entry.row.file_index)
    BY StepKeeps DEF Iterator, Entry
  <2>3. FilePointer(self.entry.row.file_index) # NullFile
    BY DEF PlacesInv, FilePointer, NullFile
  <2> HIDE DEF it
  <2>4. StepInv /\ CallInv /\ \A i \in Iterators : Placed(sec, iters[i])
    BY <2>1 DEF PlacesInv
  <2>5. ~self.torn => OnRow(sec, self, cur, output)
    BY <2>1, <2>4 DEF StepInv, NotStepped, InBetween
  <2>6. ~self.torn => AtRow(sec, it) /\ RowOf(sec, it) = RowOf(sec, self) + 1
    BY <2>2, <2>3, <2>5 DEF AtRow, OnRow, RowOf
  <2>7. ASSUME call.op = "incr", ~self.torn
        PROVE  /\ AtRow(sec, iters[call.it])
               /\ RowOf(sec, it) = RowOf(sec, iters[call.it]) + 1
    <3>1. self.pos < cur /\ cur <= Size(sec)
      BY <2>1, <2>5, <2>7 DEF OnRow, IInv, CursorWalked
    <3>2. iters[call.it].pos = self.pos /\ iters[call.it].torn = self.torn
      BY <2>4, <2>7 DEF StepInv
    <3>3. ~AtNone(sec, iters[call.it])
      BY <3>1, <3>2, StepKeeps DEF AtNone, Iterator
    <3>4. AtRow(sec, iters[call.it])
      BY <2>4, <2>7, <3>2, <3>3, StepKeeps DEF Placed
    <3> QED
      BY <2>6, <2>7, <3>2, <3>4 DEF RowOf
  <2>8. ASSUME call.op \in {"begin", "find_first"} PROVE RowOf(sec, self) = 0
    BY <2>4, <2>8, NoRowsBefore, StepKeeps DEF StepInv, RowOf
  <2>9. ASSUME call.op = "find_scan" PROVE RowOf(sec, self) = RowOf(sec, prev)
    BY <2>4, <2>9 DEF StepInv, RowOf
  <2>10. BackInv'
    BY <2>1, <2>2, <2>4, <2>6, <2>7, <2>8, <2>9, StepKeeps DEF BackInv, StepInv, Placed
  <2>11. CallInv'
    BY <2>1, <2>4, StepKeeps DEF CallInv
  <2> QED
    BY <2>1, <2>4, <2>10, <2>11, StepKeeps DEF PlacesInv
<1> QED
  BY <1>1, <1>2

-----------------------------------------------------------------------------
(* ... and what the operations do when it has returned.                    *)

\* What is known when operator++ has returned.
LEMMA BackFacts ==
  ASSUME IInv, PlacesInv, pc = "back"
  PROVE  /\ BackInv /\ CallInv /\ \A i \in Iterators : Placed(sec, iters[i])
         /\ sec \in Section /\ self \in Iterator /\ prev \in Iterator
         /\ call \in Call /\ call.it \in Iterators /\ iters \in [Iterators -> Iterator]
  BY SectionsAssumption DEF PlacesInv, IInv, TypeOK, Call

\* A ++ on an iterator that is at no row and stays there is no part of the loop
\* of get_file: its iterator is at a row or at the end.
LEMMA GetFilePlaces ==
  ASSUME IInv, PlacesInv, Next, GetFileNext \/ GetFileReturn PROVE PlacesInv'
<1>1. pc = "back" /\ call.op = "get_file" /\ iters' = iters
  BY DEF GetFileNext, GetFileReturn
<1>2. AtRow(sec, self) \/ AtNone(sec, self)
  BY <1>1, BackFacts DEF BackInv, Placed
<1>3. CASE GetFileNext
  BY <1>1, <1>2, <1>3, BackFacts, Starting DEF GetFileNext, BackInv
<1>4. CASE GetFileReturn
  BY <1>1, <1>4, BackFacts, Resting, StepKeeps DEF GetFileReturn, Return
<1> QED
  BY <1>3, <1>4

\* begin() and ++ return.
LEMMA ReturnPlaces ==
  ASSUME IInv, PlacesInv, Next, ReturnIterator PROVE PlacesInv'
<1>1. pc = "back" /\ pc' = "idle" /\ iters' = [iters EXCEPT ![call.it] = self]
  BY DEF ReturnIterator, Return
<1>2. \A i \in Iterators : Placed(sec, iters'[i])
  BY <1>1, BackFacts DEF BackInv
<1> QED
  BY <1>1, <1>2, Resting

\* find_address returns an iterator.
LEMMA FindReturnPlaces ==
  ASSUME IInv, PlacesInv, Next, pc = "back", NEW it, Placed(sec, it), FindReturn(it)
  PROVE  PlacesInv'
<1>1. pc' = "idle" /\ iters' = [iters EXCEPT ![call.it] = it]
  BY DEF FindReturn, Return
<1>2. \A i \in Iterators : Placed(sec, iters'[i])
  BY <1>1, BackFacts
<1> QED
  BY <1>1, <1>2, Resting

\* find_address goes on behind a row.
LEMMA FindNextPlaces ==
  ASSUME IInv, PlacesInv, Next, pc = "back", call.op \in {"find_first", "find_scan"},
         Scanned(sec, call.arg, self), FindNext
  PROVE  PlacesInv'
<1>1. /\ Advance(self) /\ iters' = iters /\ prev' = self
      /\ call'.op = "find_scan" /\ call'.arg = call.arg
  BY BackFacts DEF FindNext, Call
<1>2. AtRow(sec, self) /\ ~self.torn
  BY DEF Scanned, AtRow
<1>3. call.arg \in Addresses
  BY BackFacts DEF CallInv
<1> QED
  BY <1>1, <1>2, <1>3, Starting

LEMMA EndIsNone ==
  ASSUME NEW s \in Section
  PROVE  AtNone(s, End(s))
  BY DEF AtNone, End, IteratorAt

\* find_address behind begin().
LEMMA FindFirstPlaces ==
  ASSUME IInv, PlacesInv, Next, FindFirst PROVE PlacesInv'
<1>1. pc = "back" /\ call.op = "find_first"
  BY DEF FindFirst
<1>2. CASE AtEnd(self)
  BY <1>1, <1>2, BackFacts, FindReturnPlaces DEF FindFirst, BackInv
<1>3. CASE ~AtEnd(self)
  <2>1. AtRow(sec, self) /\ RowOf(sec, self) = 1
    BY <1>1, <1>3, BackFacts DEF BackInv, AtNone, AtEnd
  <2>2. self.pos < Size(sec)
    <3>1. self.pos <= Size(sec) /\ self.pos \in Nat /\ Size(sec) \in Nat
      BY <1>1, <2>1, PlacesOf, BackFacts, SizeType DEF Iterator
    <3> QED
      BY <1>3, <3>1 DEF AtEnd
  <2>3. Scanned(sec, call.arg, self)
    BY <2>1, <2>2 DEF Scanned
  <2> QED
    BY <1>1, <1>3, <2>3, FindNextPlaces DEF FindFirst
<1> QED
  BY <1>2, <1>3

\* prev and self are at neighbouring rows, so that the comparison of
\* find_address is the one of the rows.
LEMMA CoversIs ==
  ASSUME NEW s \in Section, NEW a, NEW p \in Iterator, NEW it \in Iterator,
         AtRow(s, p), AtRow(s, it), RowOf(s, it) = RowOf(s, p) + 1
  PROVE  Covers(a, p, it) <=> RowCovers(s, a, RowOf(s, p))
<1>1. /\ p.pos \in RowOffsets(s) /\ p.entry.row = RowAt(s, p.pos)
      /\ it.pos \in RowOffsets(s) /\ it.entry.row = RowAt(s, it.pos)
  BY DEF AtRow
<1>2. /\ RowsOf(s)[RowOf(s, p)] = p.entry.row
      /\ RowsOf(s)[RowOf(s, it)] = it.entry.row
  BY <1>1, RowNumbers DEF RowOf
<1> QED
  BY <1>2 DEF Covers, RowCovers

\* What find_address has when it compares.
LEMMA FindScanFacts ==
  ASSUME IInv, PlacesInv, pc = "back", call.op = "find_scan"
  PROVE  /\ AtRow(sec, self) /\ AtRow(sec, prev) /\ RowOf(sec, self) = RowOf(sec, prev) + 1
         /\ Scanned(sec, call.arg, prev)
         /\ Covers(call.arg, prev, self) <=> RowCovers(sec, call.arg, RowOf(sec, prev))
         /\ self.pos <= Size(sec) /\ self.pos \in Nat /\ Size(sec) \in Nat
         /\ RowOf(sec, prev) \in Nat
<1>1. /\ AtRow(sec, self) /\ RowOf(sec, self) = RowOf(sec, prev) + 1
      /\ Scanned(sec, call.arg, prev)
  BY BackFacts DEF BackInv, CallInv
<1>2. AtRow(sec, prev)
  BY <1>1 DEF Scanned
<1>3. self.pos <= Size(sec) /\ self.pos \in Nat /\ Size(sec) \in Nat
  BY <1>1, PlacesOf, BackFacts, SizeType DEF Iterator
<1>4. RowOf(sec, prev) \in Nat
  BY RowsUpToType, BackFacts DEF RowOf
<1> QED
  BY <1>1, <1>2, <1>3, <1>4, CoversIs, BackFacts

\* find_address has compared a row with its successor.
LEMMA FindScanPlaces ==
  ASSUME IInv, PlacesInv, Next, FindScan PROVE PlacesInv'
<1>1. pc = "back" /\ call.op = "find_scan"
  BY DEF FindScan
<1>2. CASE AtEnd(self)
  <2>1. FindReturn(End(sec))
    BY <1>2 DEF FindScan
  <2>2. Placed(sec, End(sec))
    BY EndIsNone, BackFacts, <1>1 DEF Placed
  <2> QED
    BY <1>1, <2>1, <2>2, FindReturnPlaces
<1>3. CASE ~AtEnd(self) /\ Covers(call.arg, prev, self)
  <2>1. FindReturn(prev)
    BY <1>3 DEF FindScan
  <2>2. Placed(sec, prev)
    BY <1>1, FindScanFacts DEF Placed
  <2> QED
    BY <1>1, <2>1, <2>2, FindReturnPlaces
<1>4. CASE ~AtEnd(self) /\ ~Covers(call.arg, prev, self)
  <2>1. FindNext
    BY <1>4 DEF FindScan
  <2>2. ~RowCovers(sec, call.arg, RowOf(sec, prev)) /\ self.pos < Size(sec)
    BY <1>1, <1>4, FindScanFacts DEF AtEnd
  <2>3. ASSUME NEW k \in 1 .. (RowOf(sec, self) - 1)
        PROVE  ~RowCovers(sec, call.arg, k)
    <3>1. k \in 1 .. (RowOf(sec, prev) - 1) \/ k = RowOf(sec, prev)
      BY <1>1, FindScanFacts
    <3> QED
      BY <1>1, <2>2, <3>1, FindScanFacts DEF Scanned
  <2>4. Scanned(sec, call.arg, self)
    BY <1>1, <2>2, <2>3, FindScanFacts DEF Scanned
  <2> QED
    BY <1>1, <2>1, <2>4, FindNextPlaces
<1> QED
  BY <1>2, <1>3, <1>4

\* The exceptions that leave operator++.
LEMMA ThrowsPlace ==
  ASSUME IInv, PlacesInv, Next, StepBadFile \/ StepBadOpcode \/ UnexpectedEnd
  PROVE  PlacesInv'
<1>1. CASE StepBadFile
  BY <1>1, ThrowPlaces, StepKeeps DEF StepBadFile
<1>2. CASE UnexpectedEnd
  BY <1>2, ThrowPlaces, StepKeeps DEF UnexpectedEnd
<1>3. CASE StepBadOpcode
  <2>1. Running /\ Throw(IF IsUnknown(sec, Op) THEN self ELSE SelfAfter)
    BY <1>3 DEF StepBadOpcode
  <2>2. SelfAfter \in Iterator
    BY <2>1, SelfAfterType
  <2> QED
    BY <2>1, <2>2, ThrowPlaces, StepKeeps
<1> QED
  BY <1>1, <1>2, <1>3

LEMMA HeaderPlaces ==
  ASSUME IInv, PlacesInv, Next, CheckHeader \/ HeaderFile \/ HeaderEnd
  PROVE  PlacesInv'
<1>1. pc' \notin {"step", "back"} /\ iters' = iters
  BY DEF CheckHeader, HeaderFile, HeaderEnd
<1> QED
  BY <1>1, Resting DEF PlacesInv

LEMMA NextPlacesInv ==
  ASSUME IInv, PlacesInv, [Next]_vars PROVE PlacesInv'
<1>1. CASE UNCHANGED vars
  BY <1>1 DEF PlacesInv, StepInv, BackInv, CallInv, vars, fileVars
<1>2. CASE Next
  <2>1. CASE Client
    BY <1>2, <2>1, ClientPlaces
  <2>2. CASE Library
    BY <1>2, <2>2, HeaderPlaces, StepOpcodePlaces, DefineFilePlaces, ThrowsPlace,
       NothingPlaces, FinishPlaces, ReturnPlaces, GetFilePlaces, FindFirstPlaces,
       FindScanPlaces DEF Library
  <2>3. CASE NoTable
    BY <1>1, <2>3 DEF NoTable
  <2> QED
    BY <1>2, <2>1, <2>2, <2>3 DEF Next
<1> QED
  BY <1>1, <1>2

LEMMA InitPlacesInv == IInv /\ Init => PlacesInv
<1> SUFFICES ASSUME IInv, Init PROVE PlacesInv
  OBVIOUS
<1>1. sec \in Section
  BY SectionsAssumption DEF IInv, TypeOK
<1>2. \A i \in Iterators : Placed(sec, iters[i])
  BY <1>1, EndIsNone DEF Init, Placed
<1> QED
  BY <1>2 DEF Init, PlacesInv

-----------------------------------------------------------------------------
(* Only errors of the program make operator++ throw.                       *)

\* In a well formed program the files that a row may name are in the table when
\* ++ looks its file up.
LEMMA RowsFileKnown ==
  ASSUME IInv, PlacesInv, LookupInv, pc = "step", output, ~self.torn, WellFormed(sec)
  PROVE  self.entry.row.file_index < Len(file_names)
<1>1. sec \in Section /\ cur \in Nat /\ last_file_name_end \in Nat
  BY SectionsAssumption DEF IInv, TypeOK
<1>2. cur \in RowOffsets(sec) /\ self.entry.row = RowAt(sec, cur)
  BY DEF PlacesInv, StepInv, NotStepped, InBetween, OnRow
<1>3. ReadUpTo(sec, last_file_name_end, cur) /\ cur <= Size(sec)
  BY DEF IInv, CursorWalked
<1>4. ProgramOffset(sec) \in Nat /\ Size(sec) \in Nat /\ ProgramOffset(sec) < cur
  BY <1>1, <1>2, RowOffsetsIn
<1>5. ASSUME NEW o \in FilesUpTo(sec, cur)
      PROVE  o \in 1 .. last_file_name_end /\ GoodEntry(sec, o)
  <2>1. CASE o \in 1 .. ProgramOffset(sec) /\ sec.files[o] < sec.dirs
    <3>1. IsFileEntry(sec, o) /\ DirOf(sec, o) = sec.files[o] /\ o \in 1 .. cur
      BY <1>1, <1>4, <2>1 DEF IsFileEntry, DirOf
    <3> QED
      BY <1>1, <1>3, <2>1, <3>1 DEF GoodEntry, ReadUpTo
  <2>2. CASE o \in Opcodes(sec, cur) /\ IsDefineFile(OpcodeAt(sec, o))
    <3>1. /\ o \in 1 .. cur /\ o \in (ProgramOffset(sec) + 1) .. Size(sec)
          /\ ~(o <= ProgramOffset(sec)) /\ o \in Nat /\ ProgramOffset(sec) < o
      BY <1>1, <1>3, <1>4, <2>2 DEF Opcodes
    <3>2. IsFileEntry(sec, o) /\ DirOf(sec, o) = OpcodeAt(sec, o).arg
      BY <2>2, <3>1 DEF IsFileEntry, DirOf
    <3>3. ~(OpcodeAt(sec, o).arg >= sec.dirs)
      BY <2>2, <3>1 DEF WellFormed, BadFile, ProgramOffsets, Opcodes
    <3>4. OpcodeAt(sec, o).arg \in Int /\ sec.dirs \in Int
      <4>1. OpcodeAt(sec, o) \in Opcode
        BY <1>1, <1>4, <3>1, OpcodeAtType
      <4>2. sec.dirs \in Nat
        BY <1>1 DEF Section
      <4> QED
        BY <4>1, <4>2, OpcodeFields
    <3>5. DirOf(sec, o) < sec.dirs
      BY <3>2, <3>3, <3>4
    <3> QED
      BY <1>1, <1>3, <3>1, <3>2, <3>5 DEF GoodEntry, ReadUpTo
  <2> QED
    BY <2>1, <2>2 DEF FilesUpTo
<1>6. /\ Cardinality(FilesUpTo(sec, cur)) \in Nat
      /\ Cardinality(FilesUpTo(sec, cur)) < Len(file_names)
  <2>1. FilesUpTo(sec, cur) \in SUBSET (1 .. last_file_name_end)
    BY <1>5
  <2> QED
    BY <1>5, <2>1, FilesCounted DEF LookupInv
<1>7. self.entry.row.file_index <= Cardinality(FilesUpTo(sec, cur))
  BY <1>2 DEF WellFormed
<1>8. self.entry.row.file_index \in Nat /\ Len(file_names) \in Nat
  <2>1. self \in Iterator /\ Len(file_names) \in Nat
    BY DEF IInv, TypeOK
  <2>2. self.entry.row \in Registers
    BY <2>1, IteratorExcept
  <2> QED
    BY <2>1, <2>2 DEF Registers
<1> QED
  BY <1>6, <1>7, <1>8

\* A ++ that throws, on an iterator on which none has thrown before, has met an
\* error of the program.
LEMMA ThrowsMalformed ==
  ASSUME IInv, PlacesInv, LookupInv, ~self.torn,
         \/ StepBadFile \/ StepBadOpcode \/ UnexpectedEnd
         \/ FinishRow /\ Throw(self)
  PROVE  ~WellFormed(sec)
<1>1. CASE StepBadFile
  <2>1. Running /\ IsDefineFile(Op) /\ (Overruns(Op) \/ Op.arg >= sec.dirs)
    BY <1>1 DEF StepBadFile, BadDirectory
  <2>2. Fatal(sec, cur + 1) \/ BadFile(sec, cur + 1)
    BY <2>1, OpcodeNext DEF BadFile
  <2> QED
    BY <2>1, <2>2, OpcodeNext DEF WellFormed
<1>2. CASE StepBadOpcode
  <2>1. Running /\ Fatal(sec, cur + 1)
    BY <1>2, OpcodeNext DEF StepBadOpcode
  <2> QED
    BY <2>1, OpcodeNext DEF WellFormed
<1>3. CASE UnexpectedEnd
  <2> SUFFICES ASSUME WellFormed(sec) PROVE FALSE
    OBVIOUS
  <2>1. pc = "step" /\ cur = Size(sec) /\ ~output /\ cur # self.pos
    BY <1>3 DEF UnexpectedEnd, Stepped
  <2>2. sec \in Section /\ cur \in Nat /\ self \in Iterator
    BY SectionsAssumption DEF IInv, TypeOK
  <2>3. InBetween(sec, self, cur, output)
    BY <2>1 DEF PlacesInv, StepInv, NotStepped, OnRow
  <2>4. self.pos < cur /\ RowsUpTo(sec, cur) = RowsUpTo(sec, self.pos) /\ Passable(sec, cur)
    BY <2>3 DEF InBetween, RowOf
  <2>5. ProgramOffset(sec) <= self.pos /\ self.pos \in Nat
    BY <2>2 DEF IInv, TableWalked, Walked, Iterator
  <2>6. /\ cur \in ProgramOffsets(sec) /\ Len(sec.program) > 0
    BY <2>1, <2>2, <2>4, <2>5, SizeType DEF ProgramOffsets, Opcodes
  <2>7. cur \in RowOffsets(sec)
    BY <2>1, <2>4, <2>6 DEF WellFormed, RowOffsets, Passable
  <2>8. RowsUpTo(sec, self.pos) < RowsUpTo(sec, cur)
    BY <2>2, <2>4, <2>5, <2>7, RowsUpToGrows
  <2>9. RowsUpTo(sec, cur) \in Nat
    BY <2>2, RowsUpToType
  <2> QED
    BY <2>4, <2>8, <2>9
<1>4. CASE FinishRow /\ Throw(self)
  <2>1. pc = "step" /\ output /\ pc' = "idle"
    BY <1>4 DEF FinishRow, Throw, Return
  <2>2. ~(self.entry.row.file_index < Len(file_names))
    BY <1>4, <2>1 DEF FinishRow
  <2> QED
    BY <2>1, <2>2, RowsFileKnown
<1> QED
  BY <1>1, <1>2, <1>3, <1>4

-----------------------------------------------------------------------------
(* LineTable implements LineRows.                                          *)

\* The variables of LineRows.
rowVars == <<RowTable[sec], WellFormedTable[sec],
             [i \in Iterators |-> RowIndex(iters[i])],
             [i \in Iterators |-> RowShown(iters[i])]>>

\* Where the client finds an iterator, and what it shows there.
LEMMA PlaceShown ==
  ASSUME sec \in Sections, NEW it \in Iterator, Placed(sec, it)
  PROVE  /\ it.torn => RowIndex(it) = -1
         /\ AtNone(sec, it) => RowIndex(it) = 0
         /\ AtRow(sec, it) => RowIndex(it) = RowOf(sec, it)
         /\ AtRow(sec, it) => RowOf(sec, it) \in 1 .. Len(RowsOf(sec))
         /\ RowShown(it) = Promise!Shows(RowIndex(it))
<1>1. sec \in Section
  BY SectionsAssumption
<1>2. /\ Len(RowsOf(sec)) \in Nat /\ DOMAIN RowsOf(sec) = 1 .. Len(RowsOf(sec))
      /\ \A o \in RowOffsets(sec) : /\ RowsUpTo(sec, o) \in 1 .. Len(RowsOf(sec))
                                    /\ RowsOf(sec)[RowsUpTo(sec, o)] = RowAt(sec, o)
  BY <1>1, RowNumbers
<1>3. RowTable[sec] = RowsOf(sec)
  BY DEF RowTable
<1>4. CASE it.torn
  <2>1. RowIndex(it) = -1
    BY <1>4 DEF RowIndex
  <2>2. RowShown(it) = << >> /\ -1 \notin DOMAIN RowsOf(sec)
    BY <1>2, <2>1 DEF RowShown
  <2>3. Promise!Shows(RowIndex(it)) = << >>
    BY <1>3, <2>1, <2>2 DEF Promise!Shows, Promise!NoRow
  <2> QED
    BY <1>4, <2>1, <2>2, <2>3 DEF AtNone, AtRow
<1>5. CASE AtNone(sec, it)
  <2>1. RowIndex(it) = 0
    BY <1>5 DEF RowIndex, AtNone
  <2>2. RowShown(it) = << >> /\ 0 \notin DOMAIN RowsOf(sec)
    BY <1>2, <2>1 DEF RowShown
  <2>3. Promise!Shows(RowIndex(it)) = << >>
    BY <1>3, <2>1, <2>2 DEF Promise!Shows, Promise!NoRow
  <2> QED
    BY <1>5, <2>1, <2>2, <2>3 DEF AtNone, AtRow
<1>6. CASE AtRow(sec, it)
  <2>1. it.pos \in RowOffsets(sec) /\ it.entry.row = RowAt(sec, it.pos)
        /\ ~it.torn /\ it.entry.file # NullFile
    BY <1>6 DEF AtRow
  <2>2. it.pos \in 0 .. Size(sec)
    BY <1>1, <1>6, PlacesOf, SizeType DEF Iterator
  <2>3. RowNumber[sec][it.pos] = RowsUpTo(sec, it.pos)
    BY <2>2 DEF RowNumber
  <2>4. RowIndex(it) = RowOf(sec, it)
    BY <2>1, <2>3 DEF RowIndex, RowOf
  <2>5. /\ RowOf(sec, it) \in 1 .. Len(RowsOf(sec))
        /\ RowsOf(sec)[RowOf(sec, it)] = it.entry.row
    BY <1>2, <2>1 DEF RowOf
  <2>6. RowOf(sec, it) \in DOMAIN RowsOf(sec) /\ RowOf(sec, it) > 0
    BY <1>2, <2>5
  <2>7. RowShown(it) = it.entry.row
    BY <2>4, <2>6 DEF RowShown
  <2>8. Promise!Shows(RowIndex(it)) = it.entry.row
    BY <1>3, <2>4, <2>5, <2>6 DEF Promise!Shows
  <2> QED
    BY <1>6, <2>1, <2>4, <2>5, <2>7, <2>8 DEF AtNone
<1> QED
  BY <1>4, <1>5, <1>6 DEF Placed

\* A step that gives the client iterator i its place moves it there.
LEMMA Moving ==
  ASSUME sec \in Sections, sec' = sec, iters \in [Iterators -> Iterator],
         NEW i \in Iterators, NEW it \in Iterator, Placed(sec, it),
         iters' = [iters EXCEPT ![i] = it], NEW k, k = RowIndex(it)
  PROVE  Promise!Move(i, k)
<1>1. [j \in Iterators |-> RowIndex(iters[j])]'
        = [[j \in Iterators |-> RowIndex(iters[j])] EXCEPT ![i] = RowIndex(it)]
  <2>1. \A j \in Iterators : RowIndex(iters[j])' = IF j = i THEN RowIndex(it)
                                                   ELSE RowIndex(iters[j])
    BY DEF RowIndex
  <2> QED
    BY <2>1
<1>2. [j \in Iterators |-> RowShown(iters[j])]'
        = [[j \in Iterators |-> RowShown(iters[j])] EXCEPT ![i] = RowShown(it)]
  <2>1. \A j \in Iterators : RowShown(iters[j])' = IF j = i THEN RowShown(it)
                                                   ELSE RowShown(iters[j])
    BY DEF RowShown, RowIndex
  <2> QED
    BY <2>1
<1>3. RowShown(it) = Promise!Shows(k)
  BY PlaceShown
<1> QED
  BY <1>1, <1>2, <1>3 DEF Promise!Move

\* A step that leaves every iterator of the client where it was.
LEMMA Staying ==
  ASSUME sec' = sec, iters' = iters
  PROVE  UNCHANGED rowVars
  BY DEF rowVars, RowIndex, RowShown

\* Neither does one that gives an iterator a place that looks the same.
LEMMA ReplacedBySame ==
  ASSUME sec' = sec, iters \in [Iterators -> Iterator], NEW i \in Iterators, NEW it,
         iters' = [iters EXCEPT ![i] = it],
         RowIndex(it) = RowIndex(iters[i]), RowShown(it) = RowShown(iters[i])
  PROVE  UNCHANGED rowVars
<1>1. \A j \in Iterators : /\ RowIndex(iters[j])' = RowIndex(iters[j])
                           /\ RowShown(iters[j])' = RowShown(iters[j])
  BY DEF RowIndex, RowShown
<1> QED
  BY <1>1 DEF rowVars

\* What the steps below share.
LEMMA MapFacts ==
  ASSUME IInv, PlacesInv, Next
  PROVE  /\ sec' = sec /\ sec \in Sections /\ sec \in Section
         /\ iters \in [Iterators -> Iterator] /\ call.it \in Iterators
         /\ self \in Iterator /\ prev \in Iterator /\ End(sec) \in Iterator
         /\ RowTable[sec] = RowsOf(sec) /\ WellFormedTable[sec] = WellFormed(sec)
         /\ \A i \in Iterators : Placed(sec, iters[i])
<1>1. sec \in Sections
  BY DEF IInv, TypeOK
<1>2. RowTable[sec] = RowsOf(sec) /\ WellFormedTable[sec] = WellFormed(sec)
  BY <1>1 DEF RowTable, WellFormedTable
<1>3. End(sec) \in Iterator
  BY StepKeeps, IteratorType DEF End
<1> QED
  BY <1>1, <1>2, <1>3, StepKeeps DEF PlacesInv

LEMMA AssignMaps ==
  ASSUME IInv, PlacesInv, Next, NEW i \in Iterators, NEW j \in Iterators, Assign(i, j)
  PROVE  Promise!Next
<1>1. iters' = [iters EXCEPT ![i] = iters[j]]
  BY DEF Assign
<1>2. Promise!Move(i, RowIndex(iters[j]))
  <2>1. iters[j] \in Iterator /\ Placed(sec, iters[j])
    BY MapFacts
  <2> QED
    BY <1>1, <2>1, MapFacts, Moving
<1>3. Promise!Assign(i, j)
  BY <1>2 DEF Promise!Assign
<1> QED
  BY <1>3 DEF Promise!Next

\* An exception loses the iterator whose ++ has thrown, and no other.
LEMMA ThrowMaps ==
  ASSUME IInv, PlacesInv, Next, NEW obj \in Iterator, Throw(obj),
         call.op = "incr" /\ ~iters[call.it].torn => ~WellFormed(sec)
  PROVE  Promise!Next \/ UNCHANGED rowVars
<1> DEFINE it == [obj EXCEPT !.torn = TRUE]
<1>1. it \in Iterator /\ it.torn
  BY IteratorExcept DEF Iterator
<1>2. iters' = IF call.op = "incr" THEN [iters EXCEPT ![call.it] = it] ELSE iters
  BY DEF Throw
<1> HIDE DEF it
<1>3. RowIndex(it) = -1 /\ RowShown(it) = << >>
  BY <1>1 DEF RowIndex, RowShown
<1>4. CASE call.op # "incr"
  BY <1>2, <1>4, MapFacts, Staying
<1>5. CASE call.op = "incr" /\ iters[call.it].torn
  <2>1. RowIndex(iters[call.it]) = -1 /\ RowShown(iters[call.it]) = << >>
    BY <1>5 DEF RowIndex, RowShown
  <2> QED
    BY <1>2, <1>3, <1>5, <2>1, MapFacts, ReplacedBySame
<1>6. CASE call.op = "incr" /\ ~iters[call.it].torn
  <2>1. Promise!Move(call.it, -1)
    BY <1>1, <1>2, <1>3, <1>6, MapFacts, Moving DEF Placed
  <2>2. Promise!Fail(call.it)
    BY <1>6, <2>1, MapFacts DEF Promise!Fail, Promise!Lost
  <2> QED
    BY <2>2, MapFacts DEF Promise!Next
<1> QED
  BY <1>4, <1>5, <1>6

\* All exceptions of operator++.
LEMMA ThrowingMaps ==
  ASSUME IInv, PlacesInv, LookupInv, Next,
         \/ StepBadFile \/ StepBadOpcode \/ UnexpectedEnd
         \/ FinishRow /\ Throw(self)
  PROVE  Promise!Next \/ UNCHANGED rowVars
<1>1. PICK obj \in Iterator : Throw(obj)
  <2>1. CASE StepBadFile \/ UnexpectedEnd \/ (FinishRow /\ Throw(self))
    BY <2>1, MapFacts DEF StepBadFile, UnexpectedEnd
  <2>2. CASE StepBadOpcode
    <3>1. Running /\ Throw(IF IsUnknown(sec, Op) THEN self ELSE SelfAfter)
      BY <2>2 DEF StepBadOpcode
    <3> QED
      BY <3>1, SelfAfterType, MapFacts
  <2> QED
    BY <2>1, <2>2
<1>2. pc = "step"
  BY DEF StepBadFile, StepBadOpcode, UnexpectedEnd, FinishRow, Running
<1>3. ASSUME call.op = "incr", ~iters[call.it].torn PROVE ~WellFormed(sec)
  <2>1. ~self.torn
    BY <1>2, <1>3 DEF PlacesInv, StepInv
  <2> QED
    BY <2>1, ThrowsMalformed
<1> QED
  BY <1>1, <1>3, ThrowMaps

\* begin() has advanced its iterator to the first row.
LEMMA FirstMaps ==
  ASSUME IInv, PlacesInv, Next, pc = "back", call.op \in {"begin", "find_first"},
         iters' = [iters EXCEPT ![call.it] = self]
  PROVE  Promise!Begin(call.it)
<1>1. Promise!Move(call.it, RowIndex(self))
  BY BackFacts, MapFacts, Moving DEF BackInv
<1>2. CASE AtRow(sec, self) /\ RowOf(sec, self) = 1
  <2>1. RowIndex(self) = 1 /\ 1 \in 1 .. Len(RowsOf(sec))
    BY <1>2, MapFacts, PlaceShown DEF Placed
  <2>2. RowsOf(sec) # << >>
    BY <2>1
  <2> QED
    BY <1>1, <2>1, <2>2, MapFacts DEF Promise!Begin
<1>3. CASE AtNone(sec, self) /\ ProgramOffset(sec) = Size(sec)
  <2>1. RowIndex(self) = 0
    BY <1>3, MapFacts, PlaceShown DEF Placed
  <2>2. RowsOf(sec) = << >>
    BY <1>3, MapFacts, NoRowsBefore, RowNumbers
  <2> QED
    BY <1>1, <2>1, <2>2, MapFacts DEF Promise!Begin, Promise!AtNoRow
<1> QED
  BY <1>2, <1>3, BackFacts DEF BackInv

\* begin() and ++ return: the first row, or the next one.
LEMMA ReturnMaps ==
  ASSUME IInv, PlacesInv, Next, ReturnIterator
  PROVE  Promise!Next \/ UNCHANGED rowVars
<1> DEFINE i == call.it
<1>1. pc = "back" /\ call.op \in {"begin", "incr"} /\ iters' = [iters EXCEPT ![i] = self]
  BY DEF ReturnIterator
<1>2. BackInv /\ Placed(sec, self) /\ i \in Iterators
  BY <1>1, BackFacts DEF BackInv
<1>3. CASE call.op = "begin"
  BY <1>1, <1>2, <1>3, FirstMaps DEF Promise!Next
<1>4. CASE call.op = "incr" /\ self.torn
  <2>1. iters[i].torn
    BY <1>2, <1>4 DEF BackInv
  <2>2. /\ RowIndex(iters[i]) = -1 /\ RowShown(iters[i]) = << >>
        /\ RowIndex(self) = -1 /\ RowShown(self) = << >>
    BY <1>4, <2>1 DEF RowIndex, RowShown
  <2> QED
    BY <1>1, <1>2, <2>2, MapFacts, ReplacedBySame
<1>5. CASE call.op = "incr" /\ self = iters[i]
  BY <1>1, <1>2, <1>5, MapFacts, ReplacedBySame
<1>6. CASE /\ call.op = "incr" /\ AtRow(sec, self) /\ AtRow(sec, iters[i])
           /\ RowOf(sec, self) = RowOf(sec, iters[i]) + 1
  <2>1. /\ RowIndex(self) = RowOf(sec, self)
        /\ RowOf(sec, self) \in 1 .. Len(RowsOf(sec))
    BY <1>2, <1>6, MapFacts, PlaceShown
  <2>2. iters[i] \in Iterator /\ Placed(sec, iters[i])
    BY <1>2, MapFacts
  <2>3. /\ RowIndex(iters[i]) = RowOf(sec, iters[i])
        /\ RowOf(sec, iters[i]) \in 1 .. Len(RowsOf(sec))
    BY <1>6, <2>2, MapFacts, PlaceShown
  <2>4. Promise!Move(i, RowIndex(iters[i]) + 1)
    BY <1>1, <1>2, <1>6, <2>1, <2>3, MapFacts, Moving
  <2>5. /\ RowIndex(iters[i]) \in DOMAIN RowsOf(sec)
        /\ RowIndex(iters[i]) < Len(RowsOf(sec))
    <3>1. Len(RowsOf(sec)) \in Nat /\ DOMAIN RowsOf(sec) = 1 .. Len(RowsOf(sec))
      BY MapFacts, RowNumbers
    <3> QED
      BY <1>6, <2>1, <2>3, <3>1
  <2>6. Promise!Increment(i)
    BY <1>2, <2>4, <2>5, MapFacts DEF Promise!Increment
  <2> QED
    BY <1>2, <2>6 DEF Promise!Next
<1> QED
  BY <1>1, <1>2, <1>3, <1>4, <1>5, <1>6 DEF BackInv

\* find_address without a second row returns begin().
LEMMA FindFirstMaps ==
  ASSUME IInv, PlacesInv, Next, FindFirst
  PROVE  Promise!Next \/ UNCHANGED rowVars
<1>1. pc = "back" /\ call.op = "find_first"
  BY DEF FindFirst
<1>2. CASE ~AtEnd(self)
  <2>1. iters' = iters
    BY <1>2 DEF FindFirst, FindNext
  <2> QED
    BY <2>1, MapFacts, Staying
<1>3. CASE AtEnd(self)
  <2>1. iters' = [iters EXCEPT ![call.it] = self]
    BY <1>3 DEF FindFirst, FindReturn
  <2>2. Promise!Begin(call.it)
    BY <1>1, <2>1, FirstMaps
  <2>3. Len(RowsOf(sec)) <= 1
    <3>1. Len(RowsOf(sec)) = RowsUpTo(sec, Size(sec)) /\ self.pos = Size(sec)
      BY <1>3, MapFacts, RowNumbers DEF AtEnd
    <3>2. CASE RowOf(sec, self) = 1
      BY <3>1, <3>2 DEF RowOf
    <3>3. CASE ProgramOffset(sec) = Size(sec)
      BY <3>1, <3>3, MapFacts, NoRowsBefore
    <3> QED
      BY <1>1, <3>2, <3>3, BackFacts DEF BackInv
  <2>4. Promise!Seek(call.it, call.arg) /\ call.arg \in Addresses
    BY <1>1, <2>2, <2>3, MapFacts, BackFacts DEF Promise!Seek, CallInv
  <2> QED
    BY <2>4, MapFacts DEF Promise!Next
<1> QED
  BY <1>2, <1>3

\* A well formed program ends with a row.
LEMMA LastRow ==
  ASSUME NEW s \in Section, WellFormed(s), Size(s) \in ProgramOffsets(s)
  PROVE  Size(s) \in RowOffsets(s)
<1>1. Len(s.program) > 0
  BY SizeType DEF ProgramOffsets, Opcodes
<1> QED
  BY <1>1 DEF WellFormed, RowOffsets, ProgramOffsets

\* The first covering row is the one before which none covers.
LEMMA FirstCoveringIs ==
  ASSUME sec \in Sections, NEW a, NEW n \in Nat, NEW k \in 1 .. (n - 1),
         RowCovers(sec, a, k), \A l \in 1 .. (k - 1) : ~RowCovers(sec, a, l)
  PROVE  Promise!FirstCovering(a, n) = k
<1>1. Promise!Covering(a, n) = {l \in 1 .. (n - 1) : RowCovers(sec, a, l)}
  BY DEF Promise!Covering, RowCovers, RowTable
<1> DEFINE C == Promise!Covering(a, n)
<1>2. k \in C /\ \A l \in C : l \in Nat /\ k <= l
  BY <1>1
<1> HIDE DEF C
<1>3. (CHOOSE c \in C : \A l \in C : c <= l) = k
  <2>1. \A c \in C : (\A l \in C : c <= l) => c = k
    BY <1>2
  <2> QED
    BY <1>2, <2>1
<1> QED
  BY <1>2, <1>3 DEF Promise!FirstCovering, C

LEMMA NothingCovering ==
  ASSUME sec \in Sections, NEW a, NEW n \in Nat,
         \A l \in 1 .. (n - 1) : ~RowCovers(sec, a, l)
  PROVE  Promise!FirstCovering(a, n) = 0
<1>1. Promise!Covering(a, n) = {l \in 1 .. (n - 1) : RowCovers(sec, a, l)}
  BY DEF Promise!Covering, RowCovers, RowTable
<1> QED
  BY <1>1 DEF Promise!FirstCovering, Promise!AtNoRow

\* find_address returns the first row that covers the address, when a row
\* follows the one behind it.
LEMMA FindScanMaps ==
  ASSUME IInv, PlacesInv, Next, FindScan
  PROVE  Promise!Next \/ UNCHANGED rowVars
<1> DEFINE i == call.it
           a == call.arg
           k == RowOf(sec, prev)
           n == Len(RowsOf(sec))
<1>1. pc = "back" /\ call.op = "find_scan"
  BY DEF FindScan
<1>2. /\ AtRow(sec, self) /\ AtRow(sec, prev) /\ RowOf(sec, self) = k + 1
      /\ \A l \in 1 .. (k - 1) : ~RowCovers(sec, a, l)
      /\ Covers(a, prev, self) <=> RowCovers(sec, a, k)
      /\ i \in Iterators /\ a \in Addresses /\ a \in Nat
  BY <1>1, FindScanFacts, MapFacts, BackFacts DEF Scanned, CallInv, Call
<1>3. k \in Nat /\ n \in Nat /\ 1 <= k /\ k + 1 <= n /\ RowIndex(prev) = k
  <2>1. n \in Nat /\ k \in 1 .. n /\ k + 1 \in 1 .. n /\ RowIndex(prev) = k
    BY <1>2, MapFacts, PlaceShown, RowNumbers DEF Placed
  <2> QED
    BY <2>1
<1>4. n = RowsUpTo(sec, Size(sec))
  BY MapFacts, RowNumbers
<1> HIDE DEF i, a, k, n
<1>5. CASE AtEnd(self)
  <2>1. iters' = [iters EXCEPT ![i] = End(sec)]
    BY <1>1, <1>5 DEF FindScan, FindReturn, i
  <2>2. Placed(sec, End(sec)) /\ RowIndex(End(sec)) = 0
    BY MapFacts, EndIsNone, PlaceShown DEF Placed
  <2>3. Promise!Move(i, 0)
    BY <1>2, <2>1, <2>2, MapFacts, Moving
  <2>4. k + 1 = n
    BY <1>2, <1>4, <1>5 DEF AtEnd, RowOf
  <2>5. Promise!FirstCovering(a, n - 1) = 0
    <3>1. n - 1 \in Nat /\ 1 .. (n - 1 - 1) = 1 .. (k - 1)
      BY <1>3, <2>4
    <3> QED
      BY <1>2, <3>1, MapFacts, NothingCovering
  <2>6. Promise!Seek(i, a)
    BY <1>3, <2>3, <2>5, MapFacts DEF Promise!Seek, n
  <2> QED
    BY <1>2, <2>6 DEF Promise!Next
<1>6. CASE ~AtEnd(self) /\ Covers(a, prev, self)
  <2>1. iters' = [iters EXCEPT ![i] = prev]
    BY <1>1, <1>6 DEF FindScan, FindReturn, i, a
  <2>2. Promise!Move(i, k)
    BY <1>2, <1>3, <2>1, MapFacts, Moving DEF Placed
  <2>3. ASSUME NEW m \in Nat, k <= m - 1 PROVE Promise!FirstCovering(a, m) = k
    <3>1. k \in 1 .. (m - 1)
      BY <1>3, <2>3
    <3> QED
      BY <1>2, <1>6, <3>1, MapFacts, FirstCoveringIs
  <2>4. Promise!FirstCovering(a, n) = k
    BY <1>3, <2>3
  <2>5. ASSUME WellFormed(sec) PROVE Promise!FirstCovering(a, n - 1) = k
    <3>1. /\ self.pos \in Nat /\ Size(sec) \in Nat /\ self.pos < Size(sec)
          /\ ProgramOffset(sec) < self.pos /\ ProgramOffset(sec) \in Nat
      <4>1. self.pos <= Size(sec) /\ self.pos \in Nat /\ Size(sec) \in Nat
        BY <1>1, FindScanFacts
      <4>2. ProgramOffset(sec) < self.pos /\ ProgramOffset(sec) \in Nat
        BY <1>2, MapFacts, PlacesOf, SizeType
      <4> QED
        BY <1>6, <4>1, <4>2 DEF AtEnd
    <3>2. Size(sec) \in RowOffsets(sec)
      BY <2>5, <3>1, MapFacts, LastRow DEF ProgramOffsets, Opcodes
    <3>3. RowOf(sec, self) < n
      BY <1>4, <3>1, <3>2, MapFacts, RowsUpToGrows DEF RowOf
    <3>4. n - 1 \in Nat /\ k <= n - 1 - 1
      BY <1>2, <1>3, <3>3
    <3> QED
      BY <2>3, <3>4
  <2>6. Promise!Seek(i, a)
    <3>1. ~(n <= 1)
      BY <1>3
    <3> QED
      BY <2>2, <2>4, <2>5, <3>1, MapFacts DEF Promise!Seek, n
  <2> QED
    BY <1>2, <2>6 DEF Promise!Next
<1>7. CASE ~AtEnd(self) /\ ~Covers(a, prev, self)
  <2>1. iters' = iters
    BY <1>7 DEF FindScan, FindNext, a
  <2> QED
    BY <2>1, MapFacts, Staying
<1> QED
  BY <1>5, <1>6, <1>7

\* Every step is one of the rows, or leaves them alone.
LEMMA StepMaps ==
  ASSUME IInv, PlacesInv, LookupInv, [Next]_vars
  PROVE  Promise!Next \/ UNCHANGED rowVars
<1>1. CASE UNCHANGED vars
  BY <1>1, Staying DEF vars
<1>2. CASE Next /\ Client
  <2>1. CASE \E i, j \in Iterators : Assign(i, j)
    BY <1>2, <2>1, AssignMaps
  <2>2. CASE ~\E i, j \in Iterators : Assign(i, j)
    <3>1. iters' = iters
      BY <1>2, <2>2 DEF Client, Begin, Increment, GetFile, GetKnownFile, FindAddress, Enter
    <3> QED
      BY <1>2, <3>1, MapFacts, Staying
  <2> QED
    BY <2>1, <2>2
<1>3. CASE Next /\ Library
  <2>1. CASE CheckHeader \/ HeaderFile \/ HeaderEnd \/ StepOpcode \/ StepDefineFile
             \/ NothingToStep \/ GetFileNext \/ GetFileReturn
    <3>1. iters' = iters
      BY <2>1 DEF CheckHeader, HeaderFile, HeaderEnd, StepOpcode, StepDefineFile,
         NothingToStep, GetFileNext, GetFileReturn
    <3> QED
      BY <1>3, <3>1, MapFacts, Staying
  <2>2. CASE FinishRow /\ ~Throw(self)
    <3>1. iters' = iters
      BY <2>2 DEF FinishRow
    <3> QED
      BY <1>3, <3>1, MapFacts, Staying
  <2> QED
    BY <1>3, <2>1, <2>2, ThrowingMaps, ReturnMaps, FindFirstMaps, FindScanMaps DEF Library
<1>4. CASE NoTable
  BY <1>1, <1>4 DEF NoTable
<1> QED
  BY <1>1, <1>2, <1>3, <1>4 DEF Next

LEMMA InitMaps == IInv /\ Init => Promise!Init
<1> SUFFICES ASSUME IInv, Init PROVE Promise!Init
  OBVIOUS
<1>1. sec \in Sections /\ sec \in Section
  BY SectionsAssumption DEF Init
<1>2. End(sec) \in Iterator
  BY <1>1, SizeType, IteratorType DEF End
<1>3. RowIndex(End(sec)) = 0 /\ RowShown(End(sec)) = << >>
  BY DEF End, IteratorAt, RowIndex, RowShown
<1>4. WellFormedTable[sec] \in BOOLEAN
  BY <1>1 DEF WellFormedTable, WellFormed
<1>5. \A i \in Iterators : iters[i] = End(sec)
  BY DEF Init
<1> QED
  BY <1>3, <1>4, <1>5 DEF Promise!Init, Promise!AtNoRow, Promise!NoRow

\* Iterators that interpret the line number program, sharing a file table that
\* they extend, behave as positions in the fixed list of rows that DWARF defines,
\* find_address as a search in it, and no call throws in a well formed program
\* (line_table::iterator::step, operator++ and find_address).
THEOREM Refinement == Spec => RefinesLineRows
<1>1. IInv /\ Init => PlacesInv /\ LookupInv /\ Promise!Init
  <2>1. Init => LookupInv
    BY DEF Init, LookupInv, OutOfRangeIsFinal, NoResult, NoCall
  <2> QED
    BY <2>1, InitPlacesInv, InitMaps
<1>2. IInv /\ PlacesInv /\ LookupInv /\ [Next]_vars => PlacesInv' /\ LookupInv'
  <2>1. IInv /\ LookupInv /\ UNCHANGED vars => LookupInv'
    BY DEF vars, LookupInv, OutOfRangeIsFinal, AtEnd
  <2> QED
    BY <2>1, NextLookupInv, NextPlacesInv
<1>3. IInv /\ PlacesInv /\ LookupInv /\ [Next]_vars => [Promise!Next]_rowVars
  BY StepMaps
<1>4. Spec => Promise!Init /\ [][Promise!Next]_rowVars
  BY <1>1, <1>2, <1>3, Invariance, PTL DEF Spec
<1> QED
  BY <1>4, PTL DEF RefinesLineRows, Promise!Spec, rowVars
=============================================================================
