----------------------------- MODULE VectorSpec -----------------------------
(***************************************************************************)
(* What a client of small_vector relies on: every vector object is a       *)
(* sequence of its own.  Nothing here knows of buffers or capacities, so a *)
(* vector that shared memory with another, lost elements when it grew or   *)
(* kept elements after clear() would not implement this specification.     *)
(***************************************************************************)
EXTENDS Naturals, Sequences

CONSTANTS Vectors, Values

VARIABLES live, seq

Init == live = {} /\ seq = [v \in Vectors |-> <<>>]

\* A constructor: s is empty, the elements of another, or what the source of
\* a move held.
Construct(v) ==
  /\ v \notin live /\ live' = live \cup {v}
  /\ UNCHANGED seq

Copy(v, w) ==
  /\ v \notin live /\ w \in live /\ live' = live \cup {v}
  /\ seq' = [seq EXCEPT ![v] = seq[w]]

\* The source is empty afterwards.
Move(v, w) ==
  /\ v \notin live /\ w \in live /\ live' = live \cup {v}
  /\ seq' = [seq EXCEPT ![v] = seq[w], ![w] = <<>>]

Destroy(v) ==
  /\ v \in live /\ live' = live \ {v}
  /\ seq' = [seq EXCEPT ![v] = <<>>]

Assign(v, w) ==
  /\ {v, w} \subseteq live
  /\ seq' = [seq EXCEPT ![v] = seq[w]]
  /\ UNCHANGED live

Push(v) ==
  /\ v \in live
  /\ \E x \in Values : seq' = [seq EXCEPT ![v] = Append(@, x)]
  /\ UNCHANGED live

PopBack(v) ==
  /\ v \in live /\ seq[v] # <<>>
  /\ seq' = [seq EXCEPT ![v] = SubSeq(@, 1, Len(@) - 1)]
  /\ UNCHANGED live

\* clear(), and all that an assignment that runs out of memory has done.
Clear(v) ==
  /\ v \in live
  /\ seq' = [seq EXCEPT ![v] = <<>>]
  /\ UNCHANGED live

Set(v) ==
  /\ v \in live
  /\ \E i \in DOMAIN seq[v], x \in Values :
       seq' = [seq EXCEPT ![v] = [seq[v] EXCEPT ![i] = x]]
  /\ UNCHANGED live

Next ==
  \E v \in Vectors :
    \/ Construct(v) \/ Destroy(v) \/ Push(v) \/ PopBack(v) \/ Clear(v) \/ Set(v)
    \/ \E w \in Vectors : Copy(v, w) \/ Move(v, w) \/ Assign(v, w)

Spec == Init /\ [][Next]_<<live, seq>>
=============================================================================
