---------------------------- MODULE ListRanges -----------------------------
(***************************************************************************)
(* What is in a range list, without going through it: its entries are the  *)
(* pairs of addresses in front of the first pair of zeros; one whose first *)
(* address is the largest gives the base address of those behind it, the   *)
(* others are ranges (rangelist.cc).  Lists that can be read implement      *)
(* Ranges, whatever the file; in those that cannot, loops may leave the    *)
(* section.                                                                *)
(***************************************************************************)
EXTENDS PcRanges, FiniteSets

\* The two addresses of entry k, the first entry being 1.
Width == ListSec.addr_size
Low(k) == Address(ListSec, list.start + 2 * Width * (k - 1))
High(k) == Address(ListSec, list.start + 2 * Width * (k - 1) + Width)

IsEntry(k) == EntryOK(Low(k), High(k)) /\ ~Ends(Low(k), High(k))
IsEnd(k) == EntryOK(Low(k), High(k)) /\ Ends(Low(k), High(k))

\* Entry k is the end of the list, which can be read up to there.
EndsAt(k) == IsEnd(k) /\ \A j \in 1..(k - 1) : IsEntry(j)

\* The list comes to its end inside of what it reads.
Terminated == list # Empty /\ \E k \in 1..Len(ListSec.data) : EndsAt(k)

\* What the ranges of a list are is settled.  With addresses of 4 bytes base
\* addresses are not recognized (LargestOffset).
Exact == list = Empty \/ (list.addr_size \notin 4..7 /\ Terminated)

\* How many entries are in front of the end.
LastEntry == IF list = Empty THEN 0 ELSE (CHOOSE k \in 1..Len(ListSec.data) : EndsAt(k)) - 1

SetsBase(k) == Low(k).value \in LargestOffset(list.addr_size)

\* The base address of the entries behind entry k.
BaseBehind ==
  [k \in Nat |->
     IF \A j \in 1..k : ~SetsBase(j) THEN list.base
     ELSE High(CHOOSE j \in 1..k : SetsBase(j) /\ \A i \in (j + 1)..k : ~SetsBase(i)).value]

RangeOf ==
  [k \in Nat |->
     <<(Low(k).value + BaseBehind[k]) % M, (High(k).value + BaseBehind[k]) % M>>]

\* How many ranges the first k entries have, and the ranges.
RangesUpTo == [k \in Nat |-> Cardinality({j \in 1..k : ~SetsBase(j)})]
RangesOf ==
  [n \in 1..RangesUpTo[LastEntry] |->
     RangeOf[CHOOSE k \in 1..LastEntry : ~SetsBase(k) /\ RangesUpTo[k] = n]]

\* The ranges that end at or before position pos of the list.
RangesBefore(pos) ==
  Cardinality({j \in 1..LastEntry : ~SetsBase(j) /\ 2 * Width * j <= pos})

RangeIndex(i) ==
  CASE i.status = "none" -> 0
    [] i.status = "at" -> IF Exact THEN RangesBefore(i.pos) ELSE 0
    [] i.status = "end" -> IF Exact THEN RangesUpTo[LastEntry] + 1 ELSE 0
    [] OTHER -> -1

Promise == INSTANCE Ranges WITH
  ranges <- IF Exact THEN RangesOf ELSE << >>,
  exact  <- Exact,
  at     <- RangeIndex(it),
  entry  <- IF it.status = "at" THEN <<it.low, it.high>> ELSE <<0, 0>>

\* A list that comes to its end is the ranges in front of it, in any file:
\* iterators are positions among them, and contains is about all of them
\* (rangelist.cc).
RefinesRanges == Promise!Spec

\* begin, ++ and contains read memory outside of a section only in a list of
\* .debug_ranges that has no end there: its slice is as long as all of the section
\* and ends too far behind it (internal.hh:67-80, rangelist.cc:11-16, 66-101).
LoopsInside == outcome.status = "wild" => list.memory = << >> /\ ~Terminated

\* Whatever the file, and whatever the client asks of DIEs, values and lists,
\* memory outside of a section is read only where AnswersInside and LoopsInside
\* say so.
InsideTheSections == AnswersInside /\ LoopsInside
=============================================================================
