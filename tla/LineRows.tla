------------------------------ MODULE LineRows ------------------------------
(***************************************************************************)
(* What a line table promises its users: a fixed list of rows, and         *)
(* iterators that are positions in that list.  Nothing one iterator does   *)
(* shows through another one.                                              *)
(***************************************************************************)
EXTENDS Integers, Sequences

CONSTANTS Iterators, Addresses

VARIABLES
  rows,        \* the rows of the table
  wellformed,  \* iteration cannot fail
  at,          \* the row an iterator is at; AtNoRow for end() and before begin();
               \* Lost when its ++ has failed
  shown        \* the row *it gives the client

AtNoRow == 0
Lost == -1
NoRow == << >>

Shows(k) == IF k \in DOMAIN rows THEN rows[k] ELSE NoRow

Move(i, k) ==
  /\ at' = [at EXCEPT ![i] = k]
  /\ shown' = [shown EXCEPT ![i] = Shows(k)]
  /\ UNCHANGED <<rows, wellformed>>

Init ==
  /\ wellformed \in BOOLEAN
  /\ at = [i \in Iterators |-> AtNoRow]
  /\ shown = [i \in Iterators |-> NoRow]

\* begin() is the first row; a table without rows only has end().
Begin(i) == Move(i, IF rows = << >> THEN AtNoRow ELSE 1)

\* ++ moves one row on.  At the last row it stays.
Increment(i) == at[i] \in DOMAIN rows /\ at[i] < Len(rows) /\ Move(i, at[i] + 1)

\* A malformed program makes ++ throw, whatever the row.
Fail(i) == ~wellformed /\ Move(i, Lost)

Assign(i, j) == Move(i, at[j])

\* The first of the rows 1 .. n - 1 that covers address a: the row after it
\* starts behind a, and it is not the end of a sequence.
Covering(a, n) ==
  {k \in 1 .. (n - 1) : /\ rows[k].address <= a /\ a < rows[k + 1].address
                        /\ ~rows[k].end_sequence}
FirstCovering(a, n) ==
  IF Covering(a, n) = {} THEN AtNoRow
  ELSE CHOOSE k \in Covering(a, n) : \A l \in Covering(a, n) : k <= l

\* find_address.  It compares a row with its successor, and the scan stops
\* when the successor is the last row, which it takes for end().  In a
\* malformed program the last row may not be at the end of the section.
Seek(i, a) ==
  IF Len(rows) <= 1 THEN Begin(i)
  ELSE \/ Move(i, FirstCovering(a, Len(rows) - 1))
       \/ ~wellformed /\ Move(i, FirstCovering(a, Len(rows)))

Next ==
  \E i \in Iterators :
    \/ Begin(i) \/ Increment(i) \/ Fail(i)
    \/ \E j \in Iterators : Assign(i, j)
    \/ \E a \in Addresses : Seek(i, a)

Spec == Init /\ [][Next]_<<rows, wellformed, at, shown>>
=============================================================================
