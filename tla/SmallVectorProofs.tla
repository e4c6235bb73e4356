------------------------- MODULE SmallVectorProofs -------------------------
(***************************************************************************)
(* Proofs about SmallVector, for every set of vectors, blocks and values   *)
(* and every inline capacity.                                              *)
(*                                                                         *)
(* The invariant says who owns which place and what is in it; SettleOK     *)
(* shows once that a change of one vector keeps it, and what the change is *)
(* in terms of sequences, so that each action only has to show that it     *)
(* asks for memory that is there.                                          *)
(***************************************************************************)
EXTENDS SmallVector, SequenceTheorems, TLAPS

\* A place that no vector uses holds no elements, and no dead vector has any.
Spare ==
  /\ \A p \in Places : (\A v \in Vectors : base[v] # p) => mem[p] = <<>>
  /\ \A v \in Vectors \ live : mem[v] = <<>>

IInv == TypeOK /\ BuffersOwned /\ SizesAgree /\ Spare

\* A request for memory that Settle can serve: the place v has, its own buf,
\* or a free block, large enough for the elements s.
Serves(v, r, s) ==
  /\ r[1] \in {base[v], v} \cup (Buffers \ heap)
  /\ r[2] \in Nat /\ Len(s) <= r[2]
  /\ r[1] = v => r[2] = Min

\* The initial state satisfies the invariant.
LEMMA InitIInv == Init => IInv
<1> SUFFICES ASSUME Init PROVE IInv
  OBVIOUS
<1> USE DEF Init, Places
<1>1. TypeOK
  BY SizesAssumption DEF TypeOK
<1>2. BuffersOwned
  BY DEF BuffersOwned, Inline
<1>3. SizesAgree
  BY SizesAssumption DEF SizesAgree, Elements, Inline
<1>4. Spare
  BY DEF Spare
<1> QED
  BY <1>1, <1>2, <1>3, <1>4 DEF IInv

\* reserve(n) finds memory for n elements.
LEMMA RoomOK ==
  ASSUME IInv, NEW v \in Vectors, NEW n \in Nat, NEW r \in Room(v, n),
         NEW s \in Seq(Values), Len(s) = n
  PROVE  Serves(v, r, s)
<1>1. CASE n <= cap[v]
  <2>1. r = <<base[v], cap[v]>>
    BY <1>1 DEF Room
  <2> QED
    BY <2>1, <1>1 DEF Serves, IInv, TypeOK, SizesAgree, Inline
<1>2. CASE ~(n <= cap[v])
  <2>1. r \in (Buffers \ heap) \X Target(cap[v], n)
    BY <1>2 DEF Room
  <2>2. Target(cap[v], n) \subseteq n..(2 * n - 1)
    BY DEF Target
  <2>3. r[1] \in Buffers \ heap /\ r[2] \in n..(2 * n - 1)
    BY <2>1, <2>2
  <2> QED
    BY <2>3, PlacesAssumption DEF Serves
<1> QED
  BY <1>1, <1>2

\* Giving v the elements s keeps the invariant and changes no other vector.
LEMMA SettleOK ==
  ASSUME IInv, NEW v \in Vectors, NEW r, NEW s \in Seq(Values),
         Serves(v, r, s), Settle(v, r, s),
         \/ live' = live \cup {v}
         \/ live' = live \ {v} /\ r[1] = v /\ s = <<>>
  PROVE  IInv' /\ Contents' = [Contents EXCEPT ![v] = s]
<1> USE DEF IInv
<1>1. r[1] \in Places /\ (r[1] \in Vectors => r[1] = v)
  BY PlacesAssumption DEF Serves, Places, TypeOK, BuffersOwned, Inline
<1>2. \A w \in Vectors : w # v => base[w] # r[1] /\ base'[w] = base[w]
  BY <1>1, PlacesAssumption DEF Serves, Settle, TypeOK, BuffersOwned, Inline
<1>3. base'[v] = r[1] /\ cap'[v] = r[2] /\ end'[v] = Len(s)
  BY DEF Settle, TypeOK
<1>4. mem'[r[1]] = s /\ \A p \in Places \ {base[v], r[1]} : mem'[p] = mem[p]
  BY <1>1 DEF Settle, TypeOK
<1>5. base[v] # r[1] => mem'[base[v]] = <<>>
  BY <1>1 DEF Settle, TypeOK
<1>6. TypeOK'
  <2>1. live' \subseteq Vectors
    BY DEF TypeOK
  <2>2. heap' \subseteq Buffers
    BY DEF TypeOK, Settle
  <2>3. base' \in [Vectors -> Places]
    BY <1>1 DEF TypeOK, Settle
  <2>4. end' \in [Vectors -> Nat] /\ cap' \in [Vectors -> Nat]
    BY DEF TypeOK, Settle, Serves
  <2>5. mem' \in [Places -> Seq(Values)]
    <3> DEFINE m == [mem EXCEPT ![base[v]] = <<>>]
    <3>1. <<>> \in Seq(Values)
      OBVIOUS
    <3>2. m \in [Places -> Seq(Values)]
      BY <3>1 DEF TypeOK
    <3>3. mem' = [m EXCEPT ![r[1]] = s]
      BY DEF Settle
    <3> HIDE DEF m
    <3> QED
      BY <3>2, <3>3, <1>1
  <2> QED
    BY <2>1, <2>2, <2>3, <2>4, <2>5 DEF TypeOK
<1>7. BuffersOwned'
  <2>1. \A w \in Vectors : base'[w] = w \/ (w \in live' /\ base'[w] \in heap')
    <3> TAKE w \in Vectors
    <3>1. CASE w = v
      <4>1. CASE r[1] = v
        BY <3>1, <4>1, <1>3
      <4>2. CASE r[1] # v
        <5>1. r[1] \in Buffers /\ v \in live'
          BY <4>2, <1>1 DEF Places, BuffersOwned, Inline, Serves
        <5>2. r[1] \in heap'
          BY <5>1 DEF Settle
        <5> QED
          BY <3>1, <5>1, <5>2, <1>3
      <4> QED
        BY <4>1, <4>2
    <3>2. CASE w # v
      BY <3>2, <1>2 DEF Settle, BuffersOwned, Inline
    <3> QED
      BY <3>1, <3>2
  <2>2. \A w, u \in Vectors : base'[w] = base'[u] => w = u
    BY <1>2, <1>3 DEF BuffersOwned
  <2>3. \A b \in heap' : \E w \in Vectors : base'[w] = b
    <3> TAKE b \in heap'
    <3>1. CASE b = r[1]
      BY <3>1, <1>3
    <3>2. CASE b # r[1]
      <4>1. b \in heap /\ b # base[v]
        BY <3>2 DEF Settle
      <4>2. PICK w \in Vectors : base[w] = b
        BY <4>1 DEF BuffersOwned
      <4> QED
        BY <4>1, <4>2, <1>2
    <3> QED
      BY <3>1, <3>2
  <2> QED
    BY <2>1, <2>2, <2>3 DEF BuffersOwned, Inline
<1>8. \A w \in Vectors : w # v => mem'[base'[w]] = mem[base[w]]
  BY <1>2, <1>4 DEF BuffersOwned, TypeOK
<1>9. SizesAgree'
  <2> SUFFICES ASSUME NEW w \in Vectors
               PROVE  /\ end'[w] = Len(mem'[base'[w]]) /\ end'[w] <= cap'[w]
                      /\ base'[w] = w => cap'[w] = Min
    BY DEF SizesAgree, Elements, Inline
  <2>1. CASE w = v
    BY <2>1, <1>3, <1>4 DEF Serves
  <2>2. CASE w # v
    <3>1. end'[w] = end[w] /\ cap'[w] = cap[w]
      BY <2>2 DEF Settle, TypeOK
    <3> QED
      BY <2>2, <3>1, <1>2, <1>8 DEF SizesAgree, Elements, Inline
  <2> QED
    BY <2>1, <2>2
<1>10. Spare'
  <2>1. ASSUME NEW p \in Places, \A w \in Vectors : base'[w] # p
        PROVE  mem'[p] = <<>>
    <3>1. p # r[1]
      BY <2>1, <1>3
    <3>2. CASE p = base[v]
      BY <3>1, <3>2, <1>5
    <3>3. CASE p # base[v]
      <4>1. \A w \in Vectors : base[w] # p
        BY <2>1, <3>3, <1>2
      <4> QED
        BY <4>1, <3>1, <3>3, <1>4 DEF Spare
    <3> QED
      BY <3>2, <3>3
  <2>2. ASSUME NEW w \in Vectors \ live' PROVE mem'[w] = <<>>
    <3>1. CASE w = v
      BY <3>1, <2>2, <1>4
    <3>2. CASE w # v
      <4>1. w \notin live /\ base[w] = w
        BY <3>2, <2>2 DEF BuffersOwned, Inline
      <4> QED
        BY <3>2, <4>1, <1>8, <1>2 DEF Spare
    <3> QED
      BY <3>1, <3>2
  <2> QED
    BY <2>1, <2>2 DEF Spare
<1>11. Contents' = [Contents EXCEPT ![v] = s]
  BY <1>3, <1>4, <1>8 DEF Contents, Elements
<1> QED
  BY <1>6, <1>7, <1>9, <1>10, <1>11

\* Elements of a vector are a sequence of its size.
LEMMA ElementsType ==
  ASSUME IInv, NEW v \in Vectors
  PROVE  /\ Elements(v) \in Seq(Values) /\ end[v] = Len(Elements(v))
         /\ end[v] \in Nat /\ end[v] <= cap[v] /\ cap[v] \in Nat
         /\ Contents[v] = Elements(v)
BY DEF IInv, TypeOK, SizesAgree, Elements, Contents

\* A vector that does not exist is inline and empty.
LEMMA DeadIsEmpty ==
  ASSUME IInv, NEW v \in Vectors, v \notin live
  PROVE  Inline(v) /\ Elements(v) = <<>> /\ end[v] = 0 /\ cap[v] = Min
BY DEF IInv, BuffersOwned, SizesAgree, Spare, Inline, Elements

\* The place a vector has serves as many elements as fit.
LEMMA ReplaceServes ==
  ASSUME IInv, NEW v \in Vectors, NEW s \in Seq(Values), Len(s) <= cap[v]
  PROVE  Serves(v, <<base[v], cap[v]>>, s)
BY DEF IInv, TypeOK, SizesAgree, Inline, Serves

\* The actions that take memory from Room or keep what they have.
LEMMA CopyOK ==
  ASSUME IInv, NEW v \in Vectors, NEW w \in Vectors,
         CopyConstruct(v, w) \/ Assign(v, w)
  PROVE  IInv' /\ Contents' = [Contents EXCEPT ![v] = Contents[w]]
<1>1. PICK r \in Room(v, end[w]) : Settle(v, r, Elements(w))
  BY DEF CopyConstruct, Assign
<1>2. Serves(v, r, Elements(w))
  BY ElementsType, RoomOK
<1>3. live' = live \cup {v}
  BY DEF CopyConstruct, Assign
<1> QED
  BY <1>1, <1>2, <1>3, SettleOK, ElementsType

LEMMA ReserveOK ==
  ASSUME IInv, NEW v \in Vectors, NEW n \in 1..MaxSize, Reserve(v, n)
  PROVE  IInv' /\ Contents' = Contents
<1>1. PICK r \in Room(v, n) : Settle(v, r, Elements(v))
  BY DEF Reserve
<1>2. Serves(v, r, Elements(v))
  <2>1. CASE n <= cap[v]
    <3>1. r = <<base[v], cap[v]>>
      BY <2>1 DEF Room
    <3> QED
      BY <3>1, ElementsType, ReplaceServes
  <2>2. CASE ~(n <= cap[v])
    <3>1. r \in (Buffers \ heap) \X Target(cap[v], n)
      BY <2>2 DEF Room
    <3>2. Target(cap[v], n) \subseteq n..(2 * n - 1)
      BY DEF Target
    <3>3. r[1] \in Buffers \ heap /\ r[2] \in n..(2 * n - 1)
      BY <3>1, <3>2
    <3>4. Len(Elements(v)) <= r[2] /\ r[2] \in Nat
      BY <3>3, <2>2, ElementsType
    <3> QED
      BY <3>3, <3>4, PlacesAssumption DEF Serves
  <2> QED
    BY <2>1, <2>2, SizesAssumption DEF IInv, TypeOK
<1>3. live' = live \cup {v}
  BY DEF Reserve
<1>4. Contents' = [Contents EXCEPT ![v] = Contents[v]] /\ IInv'
  BY <1>1, <1>2, <1>3, SettleOK, ElementsType
<1> QED
  BY <1>4 DEF Contents

LEMMA PushOK ==
  ASSUME IInv, NEW v \in Vectors,
         \/ \E x \in Values : PushValue(v, x)
         \/ \E i \in 1..MaxSize : PushOwn(v, i)
  PROVE  /\ IInv' /\ v \in live /\ UNCHANGED live
         /\ \E x \in Values :
              Contents' = [Contents EXCEPT ![v] = Append(Contents[v], x)]
<1>1. v \in live /\ live' = live
  BY DEF PushValue, PushOwn
<1>2. PICK r \in Room(v, end[v] + 1), x \in Values :
        Settle(v, r, Append(Elements(v), x))
  <2>1. CASE \E x \in Values : PushValue(v, x)
    BY <2>1 DEF PushValue
  <2>2. CASE \E i \in 1..MaxSize : PushOwn(v, i)
    <3>1. PICK i \in 1..MaxSize : PushOwn(v, i)
      BY <2>2
    <3>2. i \in DOMAIN Elements(v)
      BY <3>1 DEF PushOwn
    <3>3. Elements(v)[i] \in Values
      BY <3>2, ElementsType
    <3> QED
      BY <3>1, <3>3 DEF PushOwn
  <2> QED
    BY <2>1, <2>2
<1>3. /\ Append(Elements(v), x) \in Seq(Values)
      /\ Len(Append(Elements(v), x)) = end[v] + 1 /\ end[v] + 1 \in Nat
  BY ElementsType
<1>4. Serves(v, r, Append(Elements(v), x))
  BY <1>3, RoomOK
<1>5. live' = live \cup {v}
  BY <1>1
<1>6. IInv' /\ Contents' = [Contents EXCEPT ![v] = Append(Elements(v), x)]
  BY <1>2, <1>3, <1>4, <1>5, SettleOK
<1> QED
  BY <1>1, <1>6, ElementsType

LEMMA ShrinkOK ==
  ASSUME IInv, NEW v \in Vectors, NEW s \in Seq(Values), Len(s) <= end[v],
         Replace(v, s), v \in live, UNCHANGED live
  PROVE  IInv' /\ Contents' = [Contents EXCEPT ![v] = s]
<1>1. Len(s) <= cap[v]
  BY ElementsType
<1>2. Serves(v, <<base[v], cap[v]>>, s)
  BY <1>1, ReplaceServes
<1>3. Settle(v, <<base[v], cap[v]>>, s)
  BY DEF Replace
<1> QED
  BY <1>2, <1>3, SettleOK

LEMMA PopBackOK ==
  ASSUME IInv, NEW v \in Vectors, PopBack(v)
  PROVE  IInv' /\ VS!PopBack(v)
<1> DEFINE s == SubSeq(Elements(v), 1, end[v] - 1)
<1>1. /\ Elements(v) \in Seq(Values) /\ end[v] = Len(Elements(v))
      /\ end[v] > 0 /\ Contents[v] = Elements(v)
  BY ElementsType DEF PopBack
<1>2. s \in Seq(Values) /\ Len(s) = end[v] - 1 /\ Contents[v] # <<>>
  <2> DEFINE e == Elements(v)
  <2>1. e \in Seq(Values) /\ Len(e) \in Nat /\ Len(e) > 0
    BY <1>1
  <2>2. e # <<>> /\ SubSeq(e, 1, Len(e) - 1) \in Seq(Values)
        /\ Len(SubSeq(e, 1, Len(e) - 1)) = Len(e) - 1
    <3> HIDE DEF e
    <3>1. e # <<>> /\ \A i \in 1..(Len(e) - 1) : e[i] \in Values
      BY <2>1
    <3>2. Len(e) - 1 \in Int
      BY <2>1
    <3>3. /\ SubSeq(e, 1, Len(e) - 1) \in Seq(Values)
          /\ Len(SubSeq(e, 1, Len(e) - 1))
               = IF 1 <= Len(e) - 1 THEN Len(e) - 1 - 1 + 1 ELSE 0
      BY <3>1, <3>2, SubSeqProperties
    <3>4. ASSUME NEW k \in Nat, k > 0
          PROVE  k - 1 = IF 1 <= k - 1 THEN k - 1 - 1 + 1 ELSE 0
      BY <3>4
    <3>5. Len(e) - 1 = IF 1 <= Len(e) - 1 THEN Len(e) - 1 - 1 + 1 ELSE 0
      BY <2>1, <3>4
    <3> QED
      BY <3>1, <3>3, <3>5
  <2> QED
    BY <1>1, <2>2
<1>3. IInv' /\ Contents' = [Contents EXCEPT ![v] = s]
  <2>1. Len(s) <= end[v]
    BY <1>1, <1>2
  <2> HIDE DEF s
  <2> QED
    BY <1>2, <2>1, ShrinkOK DEF PopBack, s
<1> QED
  BY <1>1, <1>2, <1>3 DEF VS!PopBack, PopBack

LEMMA ClearOK ==
  ASSUME IInv, NEW v \in Vectors,
         Clear(v) \/ \E w \in Vectors : AssignFails(v, w)
  PROVE  IInv' /\ VS!Clear(v)
<1>1. Replace(v, <<>>) /\ v \in live /\ UNCHANGED live
  BY DEF Clear, AssignFails
<1>2. <<>> \in Seq(Values) /\ Len(<<>>) <= end[v]
  BY ElementsType
<1> QED
  BY <1>1, <1>2, ShrinkOK DEF VS!Clear

LEMMA SetOK ==
  ASSUME IInv, NEW v \in Vectors, NEW i \in 1..MaxSize, NEW x \in Values,
         Set(v, i, x)
  PROVE  IInv' /\ VS!Set(v)
<1> DEFINE s == [Elements(v) EXCEPT ![i] = x]
<1>1. i \in DOMAIN Elements(v)
  BY ElementsType DEF Set
<1>2. s \in Seq(Values) /\ Len(s) = end[v]
  BY <1>1, ElementsType
<1>3. mem' = [[mem EXCEPT ![base[v]] = <<>>] EXCEPT ![base[v]] = s]
  BY DEF Set, Elements, IInv, TypeOK
<1>4. Replace(v, s) /\ v \in live /\ UNCHANGED live
  <2>1. heap = (heap \ {base[v]}) \cup ({base[v]} \cap Buffers)
    BY PlacesAssumption DEF IInv, TypeOK, BuffersOwned, Inline
  <2>2. end = [end EXCEPT ![v] = Len(s)]
    BY <1>2 DEF IInv, TypeOK
  <2> HIDE DEF s
  <2> QED
    BY <1>3, <2>1, <2>2 DEF Set, Replace, Settle, IInv, TypeOK
<1>5. IInv' /\ Contents' = [Contents EXCEPT ![v] = s]
  <2> HIDE DEF s
  <2> QED
    BY <1>2, <1>4, ShrinkOK, ElementsType
<1>6. s = [Contents[v] EXCEPT ![i] = x] /\ i \in DOMAIN Contents[v]
  BY <1>1, ElementsType
<1> QED
  BY <1>4, <1>5, <1>6 DEF VS!Set

LEMMA ConstructOK ==
  ASSUME IInv, NEW v \in Vectors, Construct(v)
  PROVE  IInv' /\ VS!Construct(v)
<1> USE DEF IInv, Construct
<1>1. TypeOK'
  BY DEF TypeOK
<1>2. BuffersOwned'
  BY DEF BuffersOwned, Inline
<1>3. SizesAgree'
  BY DEF SizesAgree, Inline, Elements
<1>4. Spare'
  BY DEF Spare
<1> QED
  BY <1>1, <1>2, <1>3, <1>4 DEF VS!Construct, Contents, Elements

LEMMA DestroyOK ==
  ASSUME IInv, NEW v \in Vectors, Destroy(v)
  PROVE  IInv' /\ VS!Destroy(v)
<1>1. Serves(v, <<v, Min>>, <<>>) /\ <<>> \in Seq(Values)
  BY SizesAssumption DEF Serves
<1>2. IInv' /\ Contents' = [Contents EXCEPT ![v] = <<>>]
  BY <1>1, SettleOK DEF Destroy
<1> QED
  BY <1>2 DEF Destroy, VS!Destroy

LEMMA MoveInlineOK ==
  ASSUME IInv, NEW v \in Vectors, NEW w \in Vectors, MoveInline(v, w)
  PROVE  IInv' /\ VS!Move(v, w)
<1> USE DEF IInv
<1>1. /\ v # w /\ base[v] = v /\ base[w] = w /\ cap[v] = Min /\ cap[w] = Min
      /\ mem[v] = <<>> /\ v \in Places /\ w \in Places
      /\ end[w] = Len(mem[w]) /\ end[w] <= Min /\ mem[w] \in Seq(Values)
      /\ end[w] \in Nat
  <2>1. v \notin live /\ w \in live /\ base[w] = w
    BY DEF MoveInline, Inline
  <2>2. base[v] = v /\ mem[v] = <<>> /\ cap[v] = Min
    BY <2>1, DeadIsEmpty DEF Inline, Elements
  <2>3. cap[w] = Min /\ end[w] = Len(mem[w]) /\ end[w] <= Min
    BY <2>1 DEF SizesAgree, Inline, Elements
  <2>4. mem[w] \in Seq(Values) /\ end[w] \in Nat
    BY DEF TypeOK, Places
  <2> QED
    BY <2>1, <2>2, <2>3, <2>4 DEF Places
<1>2. /\ mem' = [mem EXCEPT ![v] = mem[w], ![w] = <<>>]
      /\ end' = [end EXCEPT ![v] = end[w], ![w] = 0]
      /\ base' = base /\ cap' = cap /\ heap' = heap /\ live' = live \cup {v}
  BY DEF MoveInline
<1>3. mem'[v] = mem[w] /\ mem'[w] = <<>> /\ end'[v] = end[w] /\ end'[w] = 0
  BY <1>1, <1>2 DEF TypeOK
<1>4. /\ \A p \in Places \ {v, w} : mem'[p] = mem[p]
      /\ \A u \in Vectors \ {v, w} : end'[u] = end[u] /\ base[u] \notin {v, w}
  BY <1>1, <1>2 DEF TypeOK, BuffersOwned
<1>5. TypeOK'
  BY <1>1, <1>2 DEF TypeOK
<1>6. BuffersOwned'
  BY <1>2 DEF BuffersOwned, Inline
<1>7. SizesAgree'
  <2> SUFFICES ASSUME NEW u \in Vectors
               PROVE  /\ end'[u] = Len(mem'[base[u]]) /\ end'[u] <= cap[u]
                      /\ base[u] = u => cap[u] = Min
    BY <1>2 DEF SizesAgree, Elements, Inline
  <2>1. CASE u = v
    BY <2>1, <1>1, <1>3
  <2>2. CASE u = w
    BY <2>2, <1>1, <1>3, SizesAssumption
  <2>3. CASE u \notin {v, w}
    BY <2>3, <1>4 DEF SizesAgree, Elements, Inline, TypeOK
  <2> QED
    BY <2>1, <2>2, <2>3
<1>8. Spare'
  <2>1. ASSUME NEW p \in Places, \A u \in Vectors : base[u] # p
        PROVE  mem'[p] = <<>>
    BY <2>1, <1>1, <1>4 DEF Spare
  <2>2. ASSUME NEW u \in Vectors \ (live \cup {v}) PROVE mem'[u] = <<>>
    BY <2>2, <1>3, <1>4 DEF Spare, Places
  <2> QED
    BY <2>1, <2>2, <1>2 DEF Spare
<1>9. Contents' = [Contents EXCEPT ![v] = Contents[w], ![w] = <<>>]
  <2> SUFFICES \A u \in Vectors :
        mem'[base'[u]] = IF u = w THEN <<>>
                         ELSE IF u = v THEN mem[base[w]] ELSE mem[base[u]]
    BY DEF Contents, Elements
  <2> TAKE u \in Vectors
  <2>1. base'[u] = base[u] /\ base[u] \in Places
    BY <1>2 DEF TypeOK
  <2>2. CASE u \in {v, w}
    BY <2>1, <2>2, <1>1, <1>3
  <2>3. CASE u \notin {v, w}
    BY <2>1, <2>3, <1>4
  <2> QED
    BY <2>2, <2>3
<1> QED
  BY <1>5, <1>6, <1>7, <1>8, <1>9 DEF VS!Move, MoveInline

LEMMA MoveExternalOK ==
  ASSUME IInv, NEW v \in Vectors, NEW w \in Vectors, MoveExternal(v, w)
  PROVE  IInv' /\ VS!Move(v, w)
<1> USE DEF IInv
<1>1. /\ v # w /\ base[v] = v /\ base[w] # w /\ v \notin live /\ w \in live
      /\ base[w] \in heap /\ base[w] \in Places /\ v \in Places /\ w \in Places
      /\ base[w] \notin Vectors
  BY DeadIsEmpty, PlacesAssumption
  DEF MoveExternal, Inline, Places, BuffersOwned, TypeOK
<1>2. /\ base' = [base EXCEPT ![v] = base[w], ![w] = w]
      /\ end' = [end EXCEPT ![v] = end[w], ![w] = 0]
      /\ cap' = [cap EXCEPT ![v] = cap[w], ![w] = Min]
      /\ mem' = mem /\ heap' = heap /\ live' = live \cup {v}
  BY DEF MoveExternal
<1>3. /\ base'[v] = base[w] /\ base'[w] = w
      /\ end'[v] = end[w] /\ end'[w] = 0 /\ cap'[v] = cap[w] /\ cap'[w] = Min
      /\ \A u \in Vectors \ {v, w} :
           base'[u] = base[u] /\ end'[u] = end[u] /\ cap'[u] = cap[u]
  BY <1>1, <1>2 DEF TypeOK
<1>4. mem[v] = <<>> /\ mem[w] = <<>>
  BY <1>1, PlacesAssumption DEF Spare, BuffersOwned, Inline, TypeOK
<1>5. TypeOK'
  BY <1>1, <1>2, SizesAssumption DEF TypeOK
<1>6. BuffersOwned'
  <2>1. \A u \in Vectors : base'[u] = u \/ (u \in live' /\ base'[u] \in heap')
    <3> TAKE u \in Vectors
    <3>1. CASE u = v
      BY <3>1, <1>1, <1>2, <1>3
    <3>2. CASE u = w
      BY <3>2, <1>3
    <3>3. CASE u \notin {v, w}
      <4>1. base'[u] = base[u]
        BY <3>3, <1>3
      <4>2. base[u] = u \/ (u \in live /\ base[u] \in heap)
        BY DEF BuffersOwned, Inline
      <4> QED
        BY <4>1, <4>2, <1>2
    <3> QED
      BY <3>1, <3>2, <3>3
  <2>2. \A u, x \in Vectors : base'[u] = base'[x] => u = x
    <3> SUFFICES \A u, x \in Vectors \ {v, w} :
                   /\ base[u] # base[w] /\ base[u] # w
                   /\ base[u] = base[x] => u = x
      BY <1>1, <1>3
    <3> QED
      BY <1>1, PlacesAssumption DEF BuffersOwned, Inline, TypeOK
  <2>3. \A b \in heap' : \E u \in Vectors : base'[u] = b
    <3> TAKE b \in heap'
    <3>1. PICK u \in Vectors : base[u] = b
      BY <1>2 DEF BuffersOwned
    <3>2. u # v
      BY <3>1, <1>1, <1>2, PlacesAssumption DEF TypeOK
    <3>3. CASE u = w
      BY <3>1, <3>3, <1>3
    <3>4. CASE u # w
      BY <3>1, <3>2, <3>4, <1>3
    <3> QED
      BY <3>3, <3>4
  <2> QED
    BY <2>1, <2>2, <2>3 DEF BuffersOwned, Inline
<1>7. SizesAgree'
  <2> SUFFICES ASSUME NEW u \in Vectors
               PROVE  /\ end'[u] = Len(mem[base'[u]]) /\ end'[u] <= cap'[u]
                      /\ base'[u] = u => cap'[u] = Min
    BY <1>2 DEF SizesAgree, Elements, Inline
  <2>1. CASE u = v
    BY <2>1, <1>1, <1>3 DEF SizesAgree, Elements
  <2>2. CASE u = w
    BY <2>2, <1>3, <1>4, SizesAssumption
  <2>3. CASE u \notin {v, w}
    BY <2>3, <1>3 DEF SizesAgree, Elements, Inline
  <2> QED
    BY <2>1, <2>2, <2>3
<1>8. Spare'
  <2>1. ASSUME NEW p \in Places, \A u \in Vectors : base'[u] # p
        PROVE  mem[p] = <<>>
    <3>1. CASE p = v
      BY <3>1, <1>4
    <3>2. CASE p # v
      <4>1. \A u \in Vectors : base[u] # p
        BY <2>1, <3>2, <1>1, <1>3
      <4> QED
        BY <4>1 DEF Spare
    <3> QED
      BY <3>1, <3>2
  <2> QED
    BY <2>1, <1>2 DEF Spare
<1>9. Contents' = [Contents EXCEPT ![v] = Contents[w], ![w] = <<>>]
  <2> SUFFICES \A u \in Vectors :
        mem'[base'[u]] = IF u = w THEN <<>>
                         ELSE IF u = v THEN mem[base[w]] ELSE mem[base[u]]
    BY DEF Contents, Elements
  <2> TAKE u \in Vectors
  <2>1. CASE u = v
    BY <2>1, <1>1, <1>2, <1>3
  <2>2. CASE u = w
    BY <2>2, <1>2, <1>3, <1>4
  <2>3. CASE u \notin {v, w}
    <3>1. base'[u] = base[u]
      BY <2>3, <1>3
    <3> QED
      BY <2>3, <3>1, <1>2
  <2> QED
    BY <2>1, <2>2, <2>3
<1> QED
  BY <1>5, <1>6, <1>7, <1>8, <1>9 DEF VS!Move, MoveExternal

\* Every step keeps the invariant and is a step of VectorSpec or changes
\* nothing that VectorSpec can see.
LEMMA NextOK ==
  IInv /\ [Next]_vars => IInv' /\ [VS!Next]_<<live, Contents>>
<1> SUFFICES ASSUME IInv, [Next]_vars
             PROVE  IInv' /\ [VS!Next]_<<live, Contents>>
  OBVIOUS
<1>1. CASE UNCHANGED vars
  BY <1>1 DEF vars, IInv, TypeOK, BuffersOwned, SizesAgree, Spare, Inline,
     Elements, Contents
<1>2. CASE Next
  <2>1. PICK v \in Vectors :
          \/ Construct(v) \/ Destroy(v) \/ PopBack(v) \/ Clear(v)
          \/ \E n \in 1..MaxSize : Reserve(v, n)
          \/ \E x \in Values : PushValue(v, x)
          \/ \E i \in 1..MaxSize : PushOwn(v, i)
          \/ \E i \in 1..MaxSize, x \in Values : Set(v, i, x)
          \/ \E w \in Vectors :
               \/ CopyConstruct(v, w) \/ MoveInline(v, w) \/ MoveExternal(v, w)
               \/ Assign(v, w) \/ AssignFails(v, w)
    BY <1>2 DEF Next
  <2>2. CASE Construct(v)
    BY <2>2, ConstructOK DEF VS!Next
  <2>3. CASE Destroy(v)
    BY <2>3, DestroyOK DEF VS!Next
  <2>4. CASE PopBack(v)
    BY <2>4, PopBackOK DEF VS!Next
  <2>5. CASE Clear(v) \/ \E w \in Vectors : AssignFails(v, w)
    BY <2>5, ClearOK DEF VS!Next
  <2>6. CASE \E n \in 1..MaxSize : Reserve(v, n)
    BY <2>6, ReserveOK DEF Reserve
  <2>7. CASE \/ \E x \in Values : PushValue(v, x)
             \/ \E i \in 1..MaxSize : PushOwn(v, i)
    BY <2>7, PushOK DEF VS!Next, VS!Push
  <2>8. CASE \E i \in 1..MaxSize, x \in Values : Set(v, i, x)
    BY <2>8, SetOK DEF VS!Next
  <2>9. ASSUME NEW w \in Vectors, CopyConstruct(v, w)
        PROVE  IInv' /\ VS!Next
    BY <2>9, CopyOK DEF CopyConstruct, VS!Copy, VS!Next
  <2>10. ASSUME NEW w \in Vectors, Assign(v, w) PROVE IInv' /\ VS!Next
    BY <2>10, CopyOK DEF Assign, VS!Assign, VS!Next
  <2>11. CASE \E w \in Vectors : MoveInline(v, w) \/ MoveExternal(v, w)
    BY <2>11, MoveInlineOK, MoveExternalOK DEF VS!Next
  <2> QED
    BY <2>1, <2>2, <2>3, <2>4, <2>5, <2>6, <2>7, <2>8, <2>9, <2>10, <2>11
<1> QED
  BY <1>1, <1>2

-----------------------------------------------------------------------------
\* Nothing is leaked, shared or deleted twice, whatever the client does with
\* its vectors and whichever allocations fail (small_vector.hh 23-107).
THEOREM Ownership == Spec => []BuffersOwned
<1>1. IInv => BuffersOwned
  BY DEF IInv
<1> QED
  BY <1>1, InitIInv, NextOK, PTL DEF Spec

\* No element is constructed beyond the capacity and none is left behind.
THEOREM Sizes == Spec => []SizesAgree
<1>1. IInv => SizesAgree
  BY DEF IInv
<1> QED
  BY <1>1, InitIInv, NextOK, PTL DEF Spec

\* The state is well typed.
THEOREM TypeCorrect == Spec => []TypeOK
<1>1. IInv => TypeOK
  BY DEF IInv
<1> QED
  BY <1>1, InitIInv, NextOK, PTL DEF Spec

\* The vectors implement independent sequences.
THEOREM Refinement == Spec => RefinesVectorSpec
<1>1. Init => VS!Init
  BY DEF Init, VS!Init, Contents, Elements, Places
<1> QED
  BY <1>1, InitIInv, NextOK, PTL DEF Spec, RefinesVectorSpec, VS!Spec
=============================================================================
