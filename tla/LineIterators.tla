--------------------------- MODULE LineIterators ---------------------------
(***************************************************************************)
(* LineTable, which executes the line number program, implements LineRows  *)
(* with the rows that ProgramRows defines: the positions of iterators as   *)
(* indexes of rows.                                                        *)
(***************************************************************************)
EXTENDS LineTable, ProgramRows

\* The rows of every section, computed once.
RowTable == [s \in Sections |-> RowsOf(s)]
RowNumber == [s \in Sections |-> [o \in 0 .. Size(s) |-> RowsUpTo(s, o)]]
WellFormedTable == [s \in Sections |-> WellFormed(s)]

\* The row whose opcode ends at the iterator's position.  An iterator that has
\* never been at a row (end()) has no file.
RowIndex(it) ==
  IF it.torn THEN -1
  ELSE IF it.entry.file = NullFile THEN 0
  ELSE RowNumber[sec][it.pos]

\* The row the client sees.
RowShown(it) == IF RowIndex(it) > 0 THEN it.entry.row ELSE << >>

Promise == INSTANCE LineRows WITH
  rows       <- RowTable[sec],
  wellformed <- WellFormedTable[sec],
  at         <- [i \in Iterators |-> RowIndex(iters[i])],
  shown      <- [i \in Iterators |-> RowShown(iters[i])]

\* Whatever the interleaving of calls, iterators behave as positions in one
\* fixed list of rows (doc of line_table and line_table::iterator); in a well
\* formed program no call throws, and find_address returns the first row that
\* covers the address, up to its treatment of the last row.
RefinesLineRows == Promise!Spec
=============================================================================
