------------------------------ MODULE Numerals ------------------------------
(***************************************************************************)
(* Numbers made of digits.                                                 *)
(***************************************************************************)
EXTENDS Integers, Sequences

\* The number with these digits, the most significant first.
NumberOf(base, digits) ==
  LET number[k \in 0..Len(digits)] ==
        IF k = 0 THEN 0 ELSE base * number[k - 1] + digits[k]
  IN  number[Len(digits)]

\* The powers of two.
TwoTo[n \in Nat] == IF n = 0 THEN 1 ELSE 2 * TwoTo[n - 1]

\* The sum of a sequence is its number to base 1.
TotalOf(numbers) == NumberOf(1, numbers)
=============================================================================
