---------------------------- MODULE SmallVector ----------------------------
(***************************************************************************)
(* dwarf::small_vector<T, Min>: a vector that keeps up to Min elements in  *)
(* the object itself and moves to a buffer on the heap above that.         *)
(*                                                                         *)
(* A place is memory for elements: the buf of a vector object, or a buffer *)
(* on the heap.  base says which place a vector uses.  mem holds the       *)
(* elements that have been constructed in a place and not been destroyed.  *)
(* An allocation may fail at any time (std::bad_alloc).  T is one of the   *)
(* types the library instantiates the template with: integers, whose       *)
(* constructors and destructors have no effects of their own.              *)
(***************************************************************************)
EXTENDS Naturals, Sequences, FiniteSets

CONSTANTS
  Vectors,   \* the vector objects of the client
  Buffers,   \* the blocks the heap can provide
  Values,    \* element values
  Min,       \* elements that fit into the object
  MaxSize    \* bound: the client pushes no more elements than this

ASSUME PlacesAssumption == Vectors \cap Buffers = {}
ASSUME SizesAssumption == Min \in Nat /\ MaxSize \in Nat

Places == Vectors \cup Buffers

VARIABLES
  live,   \* vector objects that exist
  base,   \* where the elements of a vector are
  end,    \* number of elements (end - base)
  cap,    \* capacity (cap - base)
  mem,    \* the elements that exist in each place
  heap    \* the blocks that are allocated

vars == <<live, base, end, cap, mem, heap>>

\* An object that does not exist looks like one that was just constructed.
Init ==
  /\ live = {}
  /\ base = [v \in Vectors |-> v]
  /\ end = [v \in Vectors |-> 0]
  /\ cap = [v \in Vectors |-> Min]
  /\ mem = [p \in Places |-> <<>>]
  /\ heap = {}

Inline(v) == base[v] = v
Elements(v) == mem[base[v]]

-----------------------------------------------------------------------------
(* Memory.                                                                 *)

\* The capacity that reserve(n) allocates when n does not fit: the current
\* one, or 1, doubled until n fits.  It is the only such number below 2n.
Target(c, n) ==
  {t \in n..(2 * n - 1) : \E k \in 0..n : t = (IF c = 0 THEN 1 ELSE c) * 2^k}

\* Mutant: reserve() takes the capacity for the number of elements less one.
Room_OffByOne(v, n) ==
  IF n <= cap[v] + 1 THEN {<<base[v], cap[v]>>}
  ELSE (Buffers \ heap) \X Target(cap[v], n)

\* Where v can be, and with which capacity, after reserve(n): right where it
\* is, or in any free block.
Room(v, n) ==
  IF n <= cap[v] THEN {<<base[v], cap[v]>>}
  ELSE (Buffers \ heap) \X Target(cap[v], n)

\* Mutant: the old block is not deleted.
Settle_Leaks(v, r, s) ==
  /\ base' = [base EXCEPT ![v] = r[1]]
  /\ cap' = [cap EXCEPT ![v] = r[2]]
  /\ end' = [end EXCEPT ![v] = Len(s)]
  /\ mem' = [[mem EXCEPT ![base[v]] = <<>>] EXCEPT ![r[1]] = s]
  /\ heap' = heap \cup ({r[1]} \cap Buffers)

\* v now has the elements s in place r[1] with capacity r[2].  If that is not
\* where it was, the block it had is deleted.
Settle(v, r, s) ==
  /\ base' = [base EXCEPT ![v] = r[1]]
  /\ cap' = [cap EXCEPT ![v] = r[2]]
  /\ end' = [end EXCEPT ![v] = Len(s)]
  /\ mem' = [[mem EXCEPT ![base[v]] = <<>>] EXCEPT ![r[1]] = s]
  /\ heap' = (heap \ {base[v]}) \cup ({r[1]} \cap Buffers)

\* v has the elements s where it is.
Replace(v, s) == Settle(v, <<base[v], cap[v]>>, s)

-----------------------------------------------------------------------------
(* Constructors, destructor, assignment.                                   *)

Construct(v) ==
  /\ v \notin live /\ live' = live \cup {v}
  /\ UNCHANGED <<base, end, cap, mem, heap>>

\* small_vector v(w): the empty vector, then v = w.  If that fails there is
\* no v, and nothing to delete.
CopyConstruct(v, w) ==
  /\ v \notin live /\ w \in live /\ live' = live \cup {v}
  /\ \E r \in Room(v, end[w]) : Settle(v, r, Elements(w))

\* small_vector v(std::move(w)), elements inline: they are copied and w is
\* cleared.
MoveInline(v, w) ==
  /\ v \notin live /\ w \in live /\ live' = live \cup {v}
  /\ Inline(w)
  /\ end' = [end EXCEPT ![v] = end[w], ![w] = 0]
  /\ mem' = [mem EXCEPT ![v] = mem[w], ![w] = <<>>]
  /\ UNCHANGED <<base, cap, heap>>

\* Mutant: w keeps its pointers.
MoveExternal_Shares(v, w) ==
  /\ v \notin live /\ w \in live /\ live' = live \cup {v}
  /\ ~Inline(w)
  /\ base' = [base EXCEPT ![v] = base[w]]
  /\ end' = [end EXCEPT ![v] = end[w]]
  /\ cap' = [cap EXCEPT ![v] = cap[w]]
  /\ UNCHANGED <<mem, heap>>

\* ... elements external: v takes the block and w starts over inline.
MoveExternal(v, w) ==
  /\ v \notin live /\ w \in live /\ live' = live \cup {v}
  /\ ~Inline(w)
  /\ base' = [base EXCEPT ![v] = base[w], ![w] = w]
  /\ end' = [end EXCEPT ![v] = end[w], ![w] = 0]
  /\ cap' = [cap EXCEPT ![v] = cap[w], ![w] = Min]
  /\ UNCHANGED <<mem, heap>>

Destroy(v) ==
  /\ v \in live /\ live' = live \ {v}
  /\ Settle(v, <<v, Min>>, <<>>)

\* v = w, of the same vector too.
Assign(v, w) ==
  /\ {v, w} \subseteq live
  /\ \E r \in Room(v, end[w]) : Settle(v, r, Elements(w))
  /\ UNCHANGED live

\* v = w when the allocation fails: clear() came before reserve().
AssignFails(v, w) ==
  /\ {v, w} \subseteq live /\ end[w] > cap[v]
  /\ Replace(v, <<>>)
  /\ UNCHANGED live

-----------------------------------------------------------------------------
(* Elements.                                                               *)

\* A reserve() or push_back() whose allocation fails changes nothing.
Reserve(v, n) ==
  /\ v \in live
  /\ \E r \in Room(v, n) : Settle(v, r, Elements(v))
  /\ UNCHANGED live

\* push_back of a value from elsewhere.
PushValue(v, x) ==
  /\ v \in live /\ end[v] < MaxSize
  /\ \E r \in Room(v, end[v] + 1) : Settle(v, r, Append(Elements(v), x))
  /\ UNCHANGED live

\* push_back(v[i]), as DW_OP_dup, over and pick do: x is a reference to an
\* element.  It is read after reserve(), which may have deleted the block it
\* is in; then any value is read.  Elements in the object stay readable.
PushOwn(v, i) ==
  /\ v \in live /\ end[v] < MaxSize /\ i \in DOMAIN Elements(v)
  /\ \E r \in Room(v, end[v] + 1) :
       \E x \in IF r[1] # base[v] /\ ~Inline(v) THEN Values
                ELSE {Elements(v)[i]} :
         Settle(v, r, Append(Elements(v), x))
  /\ UNCHANGED live

\* The client checks that there is an element.
PopBack(v) ==
  /\ v \in live /\ end[v] > 0
  /\ Replace(v, SubSeq(Elements(v), 1, end[v] - 1))
  /\ UNCHANGED live

Clear(v) ==
  /\ v \in live
  /\ Replace(v, <<>>)
  /\ UNCHANGED live

\* v[i] = x, and the same through at, revat, front and back.
Set(v, i, x) ==
  /\ v \in live /\ i \in 1..end[v]
  /\ mem' = [mem EXCEPT ![base[v]] = [@ EXCEPT ![i] = x]]
  /\ UNCHANGED <<live, base, end, cap, heap>>

Next ==
  \E v \in Vectors :
    \/ Construct(v) \/ Destroy(v) \/ PopBack(v) \/ Clear(v)
    \/ \E n \in 1..MaxSize : Reserve(v, n)
    \/ \E x \in Values : PushValue(v, x)
    \/ \E i \in 1..MaxSize : PushOwn(v, i)
    \/ \E i \in 1..MaxSize, x \in Values : Set(v, i, x)
    \/ \E w \in Vectors :
         \/ CopyConstruct(v, w) \/ MoveInline(v, w) \/ MoveExternal(v, w)
         \/ Assign(v, w) \/ AssignFails(v, w)

Spec == Init /\ [][Next]_vars

-----------------------------------------------------------------------------
(* Properties.                                                             *)

\* Types of the state.
TypeOK ==
  /\ live \subseteq Vectors /\ heap \subseteq Buffers
  /\ base \in [Vectors -> Places]
  /\ end \in [Vectors -> Nat] /\ cap \in [Vectors -> Nat]
  /\ mem \in [Places -> Seq(Values)]

\* Every allocated block belongs to exactly one existing vector and every
\* vector that is not inline has one: nothing is leaked, deleted twice, shared
\* or used after it was deleted (small_vector.hh move, destructor, reserve).
BuffersOwned ==
  /\ \A v \in Vectors : Inline(v) \/ (v \in live /\ base[v] \in heap)
  /\ \A v, w \in Vectors : base[v] = base[w] => v = w
  /\ \A b \in heap : \E v \in Vectors : base[v] = b

\* end - base is the number of elements that exist, and they fit into the
\* memory that is there for them: push_back never constructs beyond cap, clear
\* and pop_back leave none behind.
SizesAgree ==
  \A v \in Vectors :
    /\ end[v] = Len(Elements(v)) /\ end[v] <= cap[v]
    /\ Inline(v) => cap[v] = Min

\* The vectors behave as independent sequences: each call changes the elements
\* of its own vector as it says and (except for the source of a move) leaves
\* the others alone, wherever the elements are and whatever grows.
Contents == [v \in Vectors |-> Elements(v)]
VS == INSTANCE VectorSpec WITH seq <- Contents
RefinesVectorSpec == VS!Spec
=============================================================================
