----------------------------- MODULE RangeList -----------------------------
(***************************************************************************)
(* dwarf::rangelist and its iterator.  A list is a slice of .debug_ranges  *)
(* or the memory of a vector of addresses; its entries are read each time  *)
(* they are needed.  An entry is a range relative to the base address, a   *)
(* new base address, or the end of the list.                               *)
(*                                                                         *)
(* The client holds one list and one iterator of it.  begin, ++ and        *)
(* contains are loops over entries; run is the loop in progress.           *)
(***************************************************************************)
EXTENDS Values

CONSTANT Addresses   \* that contains is asked for

VARIABLES
  list,   \* the list: its section, where in it, its base address
  it,     \* the iterator
  run,    \* the call, the iterator it advances, the address it looks for, the cursor
  outcome \* of the last call on the list

listVars == <<list, it, run, outcome>>

\* taddr
M == Xword

\* A list is [addr_size, start, base, memory, of]: addr_size is that of its slice
\* of .debug_ranges; a list in memory has the bytes of a vector of addresses.  of
\* is a history field: what it was made from, a DIE or ranges.
NoSource == [unit |-> 0, offset |-> 0, pairs |-> << >>]
NoList == [addr_size |-> 0, start |-> 0, base |-> 0, memory |-> << >>, of |-> NoSource]
Empty == [NoList EXCEPT !.start = -1]   \* default constructed: no section

\* A vector of addresses in memory.
WordBytes(x) ==
  LET rest[i \in 0..7] == IF i = 0 THEN x ELSE rest[i - 1] \div Base
  IN  [i \in 1..8 |-> rest[i - 1] % Base]
Memory(pairs) ==
  LET Nth(k) == pairs[(k \div 2) + 1][(k % 2) + 1]
  IN  [k \in 1..(16 * Len(pairs)) |-> WordBytes(Nth((k - 1) \div 8))[((k - 1) % 8) + 1]]

\* rangelist::rangelist
InSection(off, addr_size, base, of) ==
  [addr_size |-> addr_size, start |-> off, base |-> base, memory |-> << >>, of |-> of]
Synthetic(ranges, of) ==
  [addr_size |-> 8, start |-> 0, base |-> 0, memory |-> Memory(ranges \o <<<<0, 0>>>>),
   of |-> of]

\* The slice of .debug_ranges ends too far behind the section: its length is
\* that of all of it (section::slice).
Slice(s, off, addr_size) ==
  [s EXCEPT !.end = off + Len(s.data), !.addr_size = addr_size]

\* The section a list reads.
ListSec ==
  IF list.memory = << >> THEN Slice(file.ranges, list.start, list.addr_size)
  ELSE [data |-> list.memory, end |-> Len(list.memory), ord |-> "lsb", width |-> 0,
        addr_size |-> 8]

NoIterator == [status |-> "none", base |-> 0, pos |-> 0, low |-> 0, high |-> 0]
End == [NoIterator EXCEPT !.status = "end"]
NoRun == [op |-> "none", it |-> NoIterator, arg |-> 0, cur |-> 0]
Returned(op, arg, status) == [op |-> op, arg |-> arg, status |-> status]
NoOutcome == Returned("none", 0, "none")

ListInit == list = NoList /\ it = NoIterator /\ run = NoRun /\ outcome = NoOutcome

Resting == list # NoList /\ run = NoRun

\* A loop begins at the entry behind the current one.
Enter(op, i, arg) ==
  /\ run' = [op |-> op, it |-> i, arg |-> arg, cur |-> list.start + i.pos]
  /\ outcome' = NoOutcome /\ UNCHANGED it

Fresh == [NoIterator EXCEPT !.base = list.base]

\* rangelist::begin
Begin ==
  /\ Resting
  /\ IF list = Empty
     THEN it' = End /\ outcome' = Returned("begin", 0, "ok") /\ UNCHANGED run
     ELSE Enter("begin", Fresh, 0)
  /\ UNCHANGED list

\* rangelist::iterator::operator++
Increment ==
  /\ Resting /\ it.status \in {"at", "threw"}
  /\ Enter("incr", it, 0)
  /\ UNCHANGED list

\* rangelist::contains
ListContains(a) ==
  /\ Resting
  /\ IF list = Empty THEN outcome' = Returned("contains", a, "no") /\ UNCHANGED <<it, run>>
     ELSE Enter("contains", Fresh, a)
  /\ UNCHANGED list

-----------------------------------------------------------------------------
(* The loop of operator++.                                                 *)

\* largest_offset.  A shift by the 32 bits of an int is undefined: it gives 1
\* (x86 masks the count) or 0, and the sum ends at 0 or at the largest taddr.
LargestOffset(n) ==
  CASE n < 4 -> {Base^n - 1}
    [] n \in 4..7 -> {0, M - 1}
    [] OTHER -> {M - 1}

Running == run # NoRun

\* The call returns; i is the client's iterator afterwards.
Return(i, status) ==
  run' = NoRun /\ it' = i /\ outcome' = Returned(run.op, run.arg, status)

\* begin and ++ hand the iterator to the client, contains looks at its entry.
Leave(i, status) == Return(IF run.op = "contains" THEN it ELSE i, status)

\* An address cannot be read.  An iterator that was there before ++ keeps what
\* has been written so far; begin() returns none.
Throw(status, low) ==
  Leave(IF run.op = "begin" THEN it
        ELSE [run.it EXCEPT !.status = status, !.low = IF low.status = "ok" THEN low.value ELSE @],
        status)

\* low and high are the readings of the two addresses of an entry.
EntryOK(low, high) == low.status = "ok" /\ high.status = "ok"
Ends(low, high) == low.value = 0 /\ high.value = 0

CannotRead(low, high) ==
  /\ ~EntryOK(low, high)
  /\ LET failed == IF low.status = "ok" THEN high ELSE low
     IN  Throw(IF failed.status = "wild" THEN "wild" ELSE "threw", low)
  /\ UNCHANGED list

EndOfList(low, high) ==
  /\ EntryOK(low, high) /\ Ends(low, high)
  /\ Leave(End, IF run.op = "contains" THEN "no" ELSE "ok")
  /\ UNCHANGED list

\* Mutant: the new base is relative to the old one.
BaseAddress_Adds(low, high) ==
  /\ EntryOK(low, high) /\ ~Ends(low, high) /\ low.value \in LargestOffset(list.addr_size)
  /\ run' = [run EXCEPT !.it.base = (@ + high.value) % M, !.cur = high.pos]
  /\ UNCHANGED <<list, it, outcome>>

\* Mutant: the entry is read again.
BaseAddress_Stays(low, high) ==
  /\ EntryOK(low, high) /\ ~Ends(low, high) /\ low.value \in LargestOffset(list.addr_size)
  /\ run' = [run EXCEPT !.it.base = high.value]
  /\ UNCHANGED <<list, it, outcome>>

BaseAddress(low, high) ==
  /\ EntryOK(low, high) /\ ~Ends(low, high) /\ low.value \in LargestOffset(list.addr_size)
  /\ run' = [run EXCEPT !.it.base = high.value, !.it.low = low.value, !.it.high = high.value,
                        !.cur = high.pos]
  /\ UNCHANGED <<list, it, outcome>>

RegularEntry(low, high) ==
  /\ EntryOK(low, high) /\ ~Ends(low, high) /\ LargestOffset(list.addr_size) # {low.value}
  /\ \E entry \in {[run.it EXCEPT !.status = "at", !.pos = high.pos - list.start,
                                   !.low = (low.value + run.it.base) % M,
                                   !.high = (high.value + run.it.base) % M]} :
       IF run.op # "contains" THEN Leave(entry, "ok")
       ELSE IF entry.low <= run.arg /\ run.arg < entry.high THEN Leave(entry, "yes")
       ELSE run' = [run EXCEPT !.it = entry, !.cur = high.pos] /\ UNCHANGED <<it, outcome>>
  /\ UNCHANGED list

ReadEntry ==
  /\ Running
  /\ \E low \in {Address(ListSec, run.cur)} : \E high \in {Address(ListSec, low.pos)} :
       \/ CannotRead(low, high)
       \/ EndOfList(low, high)
       \/ BaseAddress(low, high)
       \/ RegularEntry(low, high)

ListClient == Begin \/ Increment \/ \E a \in Addresses : ListContains(a)
=============================================================================
