----------------------------- MODULE LineTable -----------------------------
(***************************************************************************)
(* dwarf::line_table: the table, its iterators and its file names.         *)
(*                                                                         *)
(* A line_table is a handle on a shared impl.  The impl parses the header  *)
(* once; the rows are never stored: every iterator interprets the line     *)
(* number program on its own, from program_offset on, one opcode at a time.*)
(* The file names are shared.  The header starts the list and each         *)
(* define_file opcode that any iterator executes extends it, so what an    *)
(* iterator does is visible to all others, to get_file and to find_address.*)
(*                                                                         *)
(* The client is one thread that calls one operation at a time (begin, ++, *)
(* copy, get_file, find_address), in any order, on the iterators it holds. *)
(* An operation runs in small steps: one per opcode (step()), one to finish*)
(* a ++, one to return to the code that called it.  A call may end in an   *)
(* exception; the client may catch it and go on.                           *)
(***************************************************************************)
EXTENDS LineProgram, FiniteSets

CONSTANTS
  Iterators,   \* the line_table::iterator objects the client holds
  Addresses,   \* the addresses it looks up
  FileIndexes  \* the file indexes it looks up

ASSUME ArgumentsAssumption ==
  Iterators # {} /\ Addresses \subseteq Nat /\ FileIndexes \subseteq Nat

VARIABLES
  sec,                  \* the section, chosen once
  pc,                   \* what the library is doing
  file_names,           \* the offsets of the file entries in the table
  capacity,             \* allocated size of the file_names vector
  last_file_name_end,   \* offset behind the last file entry read
  file_names_complete,  \* an iterator has reached the end of the program
  iters,                \* the client's iterators
  call,                 \* the operation in progress
  self,                 \* the iterator being advanced (this of operator++)
  prev,                 \* prev of find_address
  cur,                  \* offset of the cursor that reads the section
  output,               \* operator++: the last opcode emitted a row
  result                \* outcome of the last operation

fileVars == <<file_names, capacity, last_file_name_end>>
vars == <<sec, pc, file_names, capacity, last_file_name_end,
          file_names_complete, iters, call, self, prev, cur, output, result>>

-----------------------------------------------------------------------------
(* Data.                                                                   *)

\* A pointer into file_names: the element and the buffer it was taken from,
\* identified by its capacity, which grows with every reallocation.
Pointer == [index : Nat, capacity : Nat]
NullFile == [index |-> 0, capacity |-> 0]
FilePointer(index) == [index |-> index, capacity |-> capacity]
Dangling(ptr) == ptr.capacity # capacity

\* torn is a history field: a ++ of the iterator (or of the one it was copied
\* from) has thrown, which leaves registers and position out of step.
Entry == [row : Registers, file : Pointer]
Iterator == [pos : Nat, regs : Registers, entry : Entry, torn : BOOLEAN]

\* An iterator constructed at pos, before its first ++.  The entry of the real
\* object is not initialized here and nothing reads it before a ++ sets it.
IteratorAt(s, pos) ==
  [pos |-> pos, regs |-> Reset(s),
   entry |-> [row |-> Reset(s), file |-> NullFile], torn |-> FALSE]

End(s) == IteratorAt(s, Size(s))
AtEnd(it) == it.pos = Size(sec)

Call == [op : {"none", "begin", "incr", "get_file", "find_first", "find_scan"},
         it : Iterators, arg : Nat]
NoCall == [op |-> "none", it |-> CHOOSE i \in Iterators : TRUE, arg |-> 0]

Status == {"none", "ok", "threw", "out_of_range"}
Result == [call : Call, status : Status, file : Pointer]
NoResult == [call |-> NoCall, status |-> "none", file |-> NullFile]

-----------------------------------------------------------------------------
Init ==
  /\ sec \in Sections
  /\ pc = "header"
  /\ file_names = <<0>> /\ capacity = 1
  /\ last_file_name_end = 0
  /\ file_names_complete = FALSE
  /\ iters = [i \in Iterators |-> End(sec)]
  /\ call = NoCall
  /\ self = End(sec) /\ prev = End(sec)
  /\ cur = 0 /\ output = FALSE
  /\ result = NoResult

\* An operation returns to the client; its locals are gone.
Return(status, file) ==
  /\ pc' = "idle" /\ call' = NoCall
  /\ self' = End(sec) /\ prev' = End(sec) /\ cur' = 0 /\ output' = FALSE
  /\ result' = [call |-> call, status |-> status, file |-> file]

\* An exception leaves operator++ with the iterator as obj, and then leaves
\* the operation.  Only ++ on an iterator of the client has lasting effects:
\* an iterator under construction or local to an operation is destroyed.
Throw(obj) ==
  /\ Return("threw", NullFile)
  /\ iters' = IF call.op = "incr"
              THEN [iters EXCEPT ![call.it] = [obj EXCEPT !.torn = TRUE]]
              ELSE iters

\* std::vector doubles its buffer when an element does not fit.
Grown == IF Len(file_names) < capacity THEN capacity ELSE 2 * capacity

\* Mutants: entries are not recognized when they are read again; an entry that
\* follows the last one directly passes for it; an entry with a bad directory
\* takes the last good one with it.
ReadFileEntry_NoDedup(o, dir) ==
  /\ last_file_name_end' = o
  /\ IF dir < sec.dirs
     THEN file_names' = Append(file_names, o) /\ capacity' = Grown
     ELSE UNCHANGED <<file_names, capacity>>
ReadFileEntry_OffByOne(o, dir) ==
  IF o <= last_file_name_end + 1 THEN UNCHANGED fileVars
  ELSE /\ last_file_name_end' = o
       /\ file_names' = Append(file_names, o) /\ capacity' = Grown
ReadFileEntry_Rollback(o, dir) ==
  IF o <= last_file_name_end THEN UNCHANGED fileVars
  ELSE /\ last_file_name_end' = o
       /\ IF dir < sec.dirs
          THEN file_names' = Append(file_names, o) /\ capacity' = Grown
          ELSE /\ file_names' = SubSeq(file_names, 1, Len(file_names) - 1)
               /\ UNCHANGED capacity

\* impl::read_file_entry for the entry that ends at offset o: an entry seen
\* before is left alone, a new one is appended unless its directory is bad,
\* and it counts as seen in both cases.
ReadFileEntry(o, dir) ==
  IF o <= last_file_name_end THEN UNCHANGED fileVars
  ELSE /\ last_file_name_end' = o
       /\ IF dir < sec.dirs
          THEN file_names' = Append(file_names, o) /\ capacity' = Grown
          ELSE UNCHANGED <<file_names, capacity>>

\* ... in which case it throws.
BadDirectory(o, dir) == o > last_file_name_end /\ dir >= sec.dirs

-----------------------------------------------------------------------------
(* The constructor.                                                        *)

\* The header is checked; a bad one leaves the client without a table.
CheckHeader ==
  /\ pc = "header"
  /\ \/ HeaderAccepted(sec) /\ pc' = "files"
     \/ (~HeaderAccepted(sec) \/ HeaderUndefined(sec)) /\ pc' = "failed"
  /\ UNCHANGED <<sec, fileVars, file_names_complete, iters, call, self, prev,
                 cur, output, result>>

\* The file name list of the header, one entry at a time.
HeaderFile ==
  /\ pc = "files" /\ cur < ProgramOffset(sec)
  /\ cur' = cur + 1
  /\ ReadFileEntry(cur', sec.files[cur'])
  /\ pc' = IF BadDirectory(cur', sec.files[cur']) THEN "failed" ELSE "files"
  /\ UNCHANGED <<sec, file_names_complete, iters, call, self, prev, output,
                 result>>

HeaderEnd ==
  /\ pc = "files" /\ cur = ProgramOffset(sec)
  /\ pc' = "idle" /\ cur' = 0
  /\ UNCHANGED <<sec, fileVars, file_names_complete, iters, call, self, prev,
                 output, result>>

-----------------------------------------------------------------------------
(* Calls of the client.                                                    *)

\* Start operator++ on object it.
Advance(it) ==
  /\ pc' = "step" /\ self' = it /\ cur' = it.pos /\ output' = FALSE

Enter(op, i, arg) ==
  /\ call' = [op |-> op, it |-> i, arg |-> arg]
  /\ result' = NoResult
  /\ UNCHANGED <<sec, fileVars, file_names_complete, iters, prev>>

\* i = table.begin(): construct at program_offset, then ++.
Begin(i) ==
  /\ pc = "idle"
  /\ Enter("begin", i, 0)
  /\ Advance(IteratorAt(sec, ProgramOffset(sec)))

\* ++i
Increment(i) ==
  /\ pc = "idle"
  /\ Enter("incr", i, 0)
  /\ Advance(iters[i])

\* i = j
Assign(i, j) ==
  /\ pc = "idle" /\ i # j
  /\ iters' = [iters EXCEPT ![i] = iters[j]]
  /\ result' = NoResult
  /\ UNCHANGED <<sec, pc, fileVars, file_names_complete, call, self, prev,
                 cur, output>>

\* table.get_file(x) answers from the list as far as it has been read, and
\* otherwise runs an iterator through the whole program first.
GetFile(x) ==
  /\ pc = "idle"
  /\ x >= Len(file_names) /\ ~file_names_complete
  /\ Enter("get_file", NoCall.it, x)
  /\ Advance(IteratorAt(sec, ProgramOffset(sec)))

FileLookup(x) ==
  IF x < Len(file_names)
  THEN [call |-> [NoCall EXCEPT !.op = "get_file", !.arg = x],
        status |-> "ok", file |-> FilePointer(x)]
  ELSE [call |-> [NoCall EXCEPT !.op = "get_file", !.arg = x],
        status |-> "out_of_range", file |-> NullFile]

\* Mutant: does not look at file_names_complete.
GetKnownFile_AnyTime(x) ==
  /\ pc = "idle"
  /\ result' = FileLookup(x)
  /\ UNCHANGED <<sec, pc, fileVars, file_names_complete, iters, call, self,
                 prev, cur, output>>

GetKnownFile(x) ==
  /\ pc = "idle"
  /\ x < Len(file_names) \/ file_names_complete
  /\ result' = FileLookup(x)
  /\ UNCHANGED <<sec, pc, fileVars, file_names_complete, iters, call, self,
                 prev, cur, output>>

\* i = table.find_address(a): scan from begin() with two iterators.
FindAddress(i, a) ==
  /\ pc = "idle"
  /\ Enter("find_first", i, a)
  /\ Advance(IteratorAt(sec, ProgramOffset(sec)))

-----------------------------------------------------------------------------
(* iterator::operator++ and iterator::step.                                *)

Running == pc = "step" /\ cur < Size(sec) /\ ~output

\* The opcode about to be executed.
Op == OpcodeAt(sec, cur + 1)

\* self after the opcode: registers, and the entry if the opcode emits a row.
SelfAfter ==
  LET r == Executed(sec, self.regs, Op)
  IN  IF EmitsRow(sec, Op)
      THEN [self EXCEPT !.regs = AfterRow(sec, r, Op),
                        !.entry = [row |-> r, file |-> NullFile]]
      ELSE [self EXCEPT !.regs = r]

StepOpcode ==
  /\ Running
  /\ ~IsUnknown(sec, Op) /\ ~IsDefineFile(Op) /\ ~Overruns(Op)
  /\ self' = SelfAfter
  /\ output' = EmitsRow(sec, Op)
  /\ cur' = cur + 1
  /\ UNCHANGED <<sec, pc, fileVars, file_names_complete, iters, call, prev,
                 result>>

StepDefineFile ==
  /\ Running
  /\ IsDefineFile(Op) /\ ~Overruns(Op) /\ ~BadDirectory(cur + 1, Op.arg)
  /\ ReadFileEntry(cur + 1, Op.arg)
  /\ cur' = cur + 1
  /\ UNCHANGED <<sec, pc, file_names_complete, iters, call, self, prev,
                 output, result>>

\* define_file throws for a bad directory, or when the entry turns out to
\* exceed the length of the opcode; either way the entry has been read.
StepBadFile ==
  /\ Running
  /\ IsDefineFile(Op) /\ (Overruns(Op) \/ BadDirectory(cur + 1, Op.arg))
  /\ ReadFileEntry(cur + 1, Op.arg)
  /\ Throw(self)
  /\ UNCHANGED <<sec, file_names_complete>>

\* Unknown opcodes throw before they do anything, other extended opcodes that
\* exceed their length after they have done everything.
StepBadOpcode ==
  /\ Running
  /\ ~IsDefineFile(Op)
  /\ IsUnknown(sec, Op) \/ Overruns(Op)
  /\ Throw(IF IsUnknown(sec, Op) THEN self ELSE SelfAfter)
  /\ UNCHANGED <<sec, fileVars, file_names_complete>>

\* The loop of operator++ stops at a row or at the end of the section.  It
\* has stepped if the cursor has moved.
Stepped == cur # self.pos

\* "unexpected end of line table"
UnexpectedEnd ==
  /\ pc = "step" /\ cur = Size(sec) /\ ~output /\ Stepped
  /\ Throw(self)
  /\ UNCHANGED <<sec, fileVars, file_names_complete>>

\* ++ on an iterator at the end, or in a program without opcodes.
NothingToStep ==
  /\ pc = "step" /\ cur = Size(sec) /\ ~output /\ ~Stepped
  /\ pc' = "back"
  /\ UNCHANGED <<sec, fileVars, file_names_complete, iters, call, self, prev,
                 cur, output, result>>

\* Mutant: pos stays behind.
FinishRow_KeepsPos ==
  /\ pc = "step" /\ output
  /\ file_names_complete' = (file_names_complete \/ cur = Size(sec))
  /\ IF self.entry.row.file_index < Len(file_names)
     THEN /\ self' = [self EXCEPT
               !.entry = [row  |-> self.entry.row,
                          file |-> FilePointer(self.entry.row.file_index)]]
          /\ pc' = "back"
          /\ UNCHANGED <<iters, call, prev, cur, output, result>>
     ELSE Throw(self)
  /\ UNCHANGED <<sec, fileVars>>

\* A row: at the end of the section all file names are known.  The file is
\* looked up in the list as it is now, and only then does pos move.
FinishRow ==
  /\ pc = "step" /\ output
  /\ file_names_complete' = (file_names_complete \/ cur = Size(sec))
  /\ IF self.entry.row.file_index < Len(file_names)
     THEN /\ self' = [self EXCEPT
               !.pos = cur,
               !.entry = [row  |-> self.entry.row,
                          file |-> FilePointer(self.entry.row.file_index)]]
          /\ pc' = "back"
          /\ UNCHANGED <<iters, call, prev, cur, output, result>>
     ELSE Throw(self)
  /\ UNCHANGED <<sec, fileVars>>

-----------------------------------------------------------------------------
(* operator++ has returned: what the operation does next.                  *)

\* begin() and ++ are done.
ReturnIterator ==
  /\ pc = "back" /\ call.op \in {"begin", "incr"}
  /\ iters' = [iters EXCEPT ![call.it] = self]
  /\ Return("ok", NullFile)
  /\ UNCHANGED <<sec, fileVars, file_names_complete>>

\* The loop of get_file: for (auto &ent : *this).
GetFileNext ==
  /\ pc = "back" /\ call.op = "get_file" /\ ~AtEnd(self)
  /\ Advance(self)
  /\ UNCHANGED <<sec, fileVars, file_names_complete, iters, call, prev, result>>

GetFileReturn ==
  /\ pc = "back" /\ call.op = "get_file" /\ AtEnd(self)
  /\ LET found == FileLookup(call.arg) IN Return(found.status, found.file)
  /\ UNCHANGED <<sec, fileVars, file_names_complete, iters>>

\* it lies behind prev, and prev covers the address.
Covers(a, p, it) ==
  /\ p.entry.row.address <= a /\ a < it.entry.row.address
  /\ ~p.entry.row.end_sequence

FindReturn(it) ==
  /\ iters' = [iters EXCEPT ![call.it] = it]
  /\ Return("ok", NullFile)
  /\ UNCHANGED <<sec, fileVars, file_names_complete>>

\* prev = it++ (or it = prev, ++it the first time).
FindNext ==
  /\ prev' = self
  /\ Advance(self)
  /\ call' = [call EXCEPT !.op = "find_scan"]
  /\ UNCHANGED <<sec, fileVars, file_names_complete, iters, result>>

FindFirst ==
  /\ pc = "back" /\ call.op = "find_first"
  /\ IF AtEnd(self) THEN FindReturn(self) ELSE FindNext

FindScan ==
  /\ pc = "back" /\ call.op = "find_scan"
  /\ IF AtEnd(self) THEN FindReturn(End(sec))
     ELSE IF Covers(call.arg, prev, self) THEN FindReturn(prev)
     ELSE FindNext

-----------------------------------------------------------------------------
Client ==
  \/ \E i \in Iterators : Begin(i) \/ Increment(i)
  \/ \E i, j \in Iterators : Assign(i, j)
  \/ \E x \in FileIndexes : GetFile(x) \/ GetKnownFile(x)
  \/ \E i \in Iterators, a \in Addresses : FindAddress(i, a)

Library ==
  \/ CheckHeader \/ HeaderFile \/ HeaderEnd
  \/ StepOpcode \/ StepDefineFile \/ StepBadFile \/ StepBadOpcode
  \/ UnexpectedEnd \/ NothingToStep \/ FinishRow
  \/ ReturnIterator \/ GetFileNext \/ GetFileReturn \/ FindFirst \/ FindScan

\* A constructor that threw leaves no table to call.
NoTable == pc = "failed" /\ UNCHANGED vars

Next == Client \/ Library \/ NoTable

\* The calling thread runs an operation it has started to its end.
Spec == Init /\ [][Next]_vars /\ WF_vars(Library)

-----------------------------------------------------------------------------
(* Properties.                                                             *)

\* Every variable has the type its comment gives.
TypeOK ==
  /\ sec \in Sections
  /\ pc \in {"header", "files", "failed", "idle", "step", "back"}
  /\ file_names \in Seq(Nat) /\ capacity \in Nat
  /\ last_file_name_end \in Nat
  /\ file_names_complete \in BOOLEAN
  /\ iters \in [Iterators -> Iterator]
  /\ call \in Call
  /\ self \in Iterator /\ prev \in Iterator
  /\ cur \in Nat /\ output \in BOOLEAN
  /\ result \in Result

\* The file entries of a section, in its header and in its program, and those
\* among them that can be added to the table.
IsFileEntry(s, o) ==
  \/ o \in 1 .. ProgramOffset(s)
  \/ o \in (ProgramOffset(s) + 1) .. Size(s) /\ IsDefineFile(OpcodeAt(s, o))
DirOf(s, o) == IF o <= ProgramOffset(s) THEN s.files[o] ELSE OpcodeAt(s, o).arg
GoodEntry(s, o) == IsFileEntry(s, o) /\ DirOf(s, o) < s.dirs

\* The file table is exactly the file entries read so far, each one once and
\* in the order of the section, whichever iterators executed the define_file
\* opcodes, however often, and in whatever order (read_file_entry's promise
\* that iterating repeatedly does not add an entry twice).
FileTableExact ==
  /\ \A k, l \in 1 .. Len(file_names) : k < l => file_names[k] < file_names[l]
  /\ \A k \in 1 .. Len(file_names) :
       file_names[k] = 0 \/ (GoodEntry(sec, file_names[k])
                             /\ file_names[k] <= last_file_name_end)
  /\ \A o \in 1 .. last_file_name_end :
       GoodEntry(sec, o) => \E k \in 1 .. Len(file_names) : file_names[k] = o

\* Once some iterator has seen the end of the program, all of its files are in
\* the table ("we know we've gathered all file names"), also when increments
\* have thrown on the way: get_file may rely on it without looking again.
CompleteMeansAllFiles ==
  file_names_complete =>
    \A o \in 1 .. Size(sec) :
      GoodEntry(sec, o) => \E k \in 1 .. Len(file_names) : file_names[k] = o

\* get_file answers out_of_range only for an index that no later read of the
\* program can make valid.
OutOfRangeIsFinal ==
  (result.call.op = "get_file" /\ result.status = "out_of_range") =>
    result.call.arg > Cardinality({o \in 1 .. Size(sec) : GoodEntry(sec, o)})

\* The table only grows at its end: an index once resolved names the same file
\* for ever, whatever other iterators do.
FileIndexesAreStable ==
  [][\A k \in 1 .. Len(file_names) :
       k <= Len(file_names') /\ file_names'[k] = file_names[k]]_vars

\* Every operation the client calls comes back, with a result or an exception.
CallsReturn == (pc \in {"header", "files", "step", "back"})
                 ~> (pc \in {"idle", "failed"})
=============================================================================
