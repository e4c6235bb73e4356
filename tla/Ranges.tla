------------------------------- MODULE Ranges -------------------------------
(***************************************************************************)
(* What a range list promises: it is a fixed sequence of ranges [low,      *)
(* high).  An iterator is a position in it (0 before begin(), one more     *)
(* than there are ranges at end()), and contains is about all of them.     *)
(* Of a list that is not exact (it cannot be read) nothing is said.        *)
(***************************************************************************)
EXTENDS Integers, Sequences

CONSTANT Addresses

VARIABLES ranges, exact, at, entry, outcome

promised == <<ranges, exact, at, entry, outcome>>

Entry == IF at \in DOMAIN ranges THEN ranges[at] ELSE <<0, 0>>
Covers(a) == \E k \in DOMAIN ranges : ranges[k][1] <= a /\ a < ranges[k][2]

Returned(op, arg, status) == [op |-> op, arg |-> arg, status |-> status]
NoOutcome == Returned("none", 0, "none")
Found(a) == Returned("contains", a, IF Covers(a) THEN "yes" ELSE "no")
Nothing == at = 0 /\ entry = <<0, 0>> /\ outcome = NoOutcome

Init == ranges = << >> /\ Nothing

MoveTo(k, op) == outcome' = Returned(op, 0, "ok") /\ at' = k /\ entry' = Entry'

Begin == MoveTo(1, "begin")
Increment == at \in DOMAIN ranges /\ MoveTo(at + 1, "incr")
Contains == outcome'.arg \in Addresses /\ outcome' = Found(outcome.arg)' /\ UNCHANGED <<at, entry>>

Next ==
  \/ Nothing'                                                        \* another list
  \/ outcome' = NoOutcome /\ UNCHANGED <<at, entry, exact, ranges>>   \* a call begins
  \/ /\ exact => Begin \/ Increment \/ Contains
     /\ UNCHANGED <<exact, ranges>>

Spec == Init /\ [][Next]_promised
=============================================================================
