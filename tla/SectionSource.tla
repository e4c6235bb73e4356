--------------------------- MODULE SectionSource ---------------------------
(***************************************************************************)
(* What libdwarf++ expects of a loader of sections (dwarf::loader): once   *)
(* there is a source, what it answers for a section is settled.  It is     *)
(* always the same data at the same place, always nullptr, or always an    *)
(* exception; nothing that is asked of the source or of what is behind it  *)
(* makes a difference.                                                     *)
(***************************************************************************)
CONSTANTS
  SectionTypes,
  Closed,      \* the contents before there is a source, or after it is gone
  NoReply      \* no answer is outstanding

VARIABLES contents, reply

vars == <<contents, reply>>

Init == contents = Closed /\ reply = NoReply

\* Whatever the contents are, they come at once and stay.
Open ==
  /\ contents = Closed /\ contents' # Closed
  /\ UNCHANGED reply

Load(t) ==
  /\ contents # Closed /\ UNCHANGED contents
  /\ reply' = [type |-> t, data |-> contents[t]]

\* The client turns to something else.
Return ==
  /\ reply' = NoReply /\ UNCHANGED contents

Close ==
  /\ contents # Closed
  /\ contents' = Closed /\ reply' = NoReply

Next == Open \/ (\E t \in SectionTypes : Load(t)) \/ Return \/ Close

Spec == Init /\ [][Next]_vars
=============================================================================
