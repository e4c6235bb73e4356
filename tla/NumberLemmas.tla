---------------------------- MODULE NumberLemmas ----------------------------
(***************************************************************************)
(* Least elements of sets of natural numbers: the lemma the other proofs   *)
(* take "the first position such that" and "the highest code" from.  And   *)
(* what it gives about numbers made of digits: the shortest sequence that  *)
(* does not behave would have a shorter one.  The same way: that a sum     *)
(* over a finite set does not depend on the order of its elements, and     *)
(* powers of two.                                                          *)
(***************************************************************************)
EXTENDS Numerals, FiniteSets, Functions, FiniteSetTheorems, TLAPS

\* A set of natural numbers has a least element.
LEMMA Least ==
  ASSUME NEW T \in SUBSET Nat, T # {}
  PROVE  \E x \in T : \A y \in T : x <= y
<1>1. PICK x \in T : \A y \in T : ~(<<y, x>> \in OpToRel(<, Nat))
  BY NatLessThanWellFounded, WFMin, Zenon
<1>2. \A y \in T : ~(y < x)
  BY <1>1 DEF OpToRel
<1> QED
  BY <1>2

LEMMA ProductIsNatural == \A a, b \in Nat : a * b \in Nat
  OBVIOUS

-----------------------------------------------------------------------------
(* Numbers made of digits.                                                 *)

\* The numbers of the first k digits.
Partials(base, digits, n, g) ==
  /\ g \in [0..n -> Nat]
  /\ g = [k \in 0..n |-> IF k = 0 THEN 0 ELSE base * g[k - 1] + digits[k]]

LEMMA PartialsExist ==
  ASSUME NEW base \in Nat, NEW digits \in Seq(Nat), NEW n \in 0..Len(digits)
  PROVE  \E g : Partials(base, digits, n, g)
<1> DEFINE T == {m \in 0..Len(digits) : ~\E g : Partials(base, digits, m, g)}
<1>1. SUFFICES ASSUME T # {} PROVE FALSE
  OBVIOUS
<1>2. PICK m \in T : \A y \in T : m <= y
  <2>1. T \in SUBSET Nat
    OBVIOUS
  <2> HIDE DEF T
  <2> QED
    BY <1>1, <2>1, Least
<1>3. CASE m = 0
  <2> DEFINE g == [k \in 0..0 |-> 0]
  <2>1. Partials(base, digits, 0, g)
    BY DEF Partials
  <2> QED
    BY <1>2, <1>3, <2>1
<1>4. CASE m # 0
  <2>1. m - 1 \in 0..Len(digits) /\ m \in 1..Len(digits) /\ m - 1 \notin T
    BY <1>2, <1>4
  <2>2. PICK h : Partials(base, digits, m - 1, h)
    BY <2>1
  <2> DEFINE g == [k \in 0..m |-> IF k = m THEN base * h[m - 1] + digits[m] ELSE h[k]]
  <2>3. h[m - 1] \in Nat /\ digits[m] \in Nat
    BY <2>1, <2>2 DEF Partials
  <2>4. base * h[m - 1] + digits[m] \in Nat
    <3>1. base * h[m - 1] \in Nat
      BY <2>3, ProductIsNatural, Zenon
    <3> QED
      BY <2>3, <3>1
  <2>5. g \in [0..m -> Nat]
    <3>1. ASSUME NEW k \in 0..m, k # m PROVE h[k] \in Nat
      <4>1. k \in 0..(m - 1)
        BY <2>1, <3>1
      <4>2. h \in [0..(m - 1) -> Nat]
        BY <2>2 DEF Partials
      <4> QED
        BY <4>1, <4>2, Zenon
    <3> QED
      BY <2>4, <3>1
  <2>6. ASSUME NEW k \in 0..m
        PROVE  g[k] = IF k = 0 THEN 0 ELSE base * g[k - 1] + digits[k]
    <3>1. CASE k = m
      BY <1>4, <3>1, <2>1
    <3>2. CASE k # m
      <4>1. k \in 0..(m - 1) /\ g[k] = h[k]
        BY <3>2, <2>1
      <4>2. k # 0 => k - 1 \in 0..m /\ k - 1 # m /\ g[k - 1] = h[k - 1]
        BY <4>1
      <4> QED
        BY <2>2, <4>1, <4>2 DEF Partials
    <3> QED
      BY <3>1, <3>2
  <2>7. Partials(base, digits, m, g)
    BY <2>5, <2>6 DEF Partials
  <2> QED
    BY <1>2, <2>7
<1> QED
  BY <1>3, <1>4

\* There is one such function for all lengths.
LEMMA PartialsAgree ==
  ASSUME NEW base \in Nat, NEW digits \in Seq(Nat), NEW n \in 0..Len(digits),
         NEW m \in 0..n, NEW g, NEW h,
         Partials(base, digits, n, g), Partials(base, digits, m, h)
  PROVE  g[m] = h[m]
<1> DEFINE T == {k \in 0..m : g[k] # h[k]}
<1>1. SUFFICES ASSUME T # {} PROVE FALSE
  OBVIOUS
<1>2. PICK k \in T : \A y \in T : k <= y
  <2>1. T \in SUBSET Nat
    OBVIOUS
  <2> HIDE DEF T
  <2> QED
    BY <1>1, <2>1, Least
<1>3. k \in 0..n /\ k \in 0..m /\ g[0] = 0 /\ h[0] = 0
  BY DEF Partials
<1>4. k # 0
  BY <1>2, <1>3
<1>5. k - 1 \in 0..m /\ k - 1 \notin T
  BY <1>2, <1>3, <1>4
<1>6. g[k - 1] = h[k - 1]
  BY <1>5
<1> QED
  BY <1>2, <1>3, <1>4, <1>6 DEF Partials

LEMMA NumberIs ==
  ASSUME NEW base \in Nat, NEW digits \in Seq(Nat), NEW g, Partials(base, digits, Len(digits), g)
  PROVE  NumberOf(base, digits) = g[Len(digits)]
<1> DEFINE body(f) == [k \in 0..Len(digits) |-> IF k = 0 THEN 0 ELSE base * f[k - 1] + digits[k]]
           number == CHOOSE f : f = body(f)
<1>1. NumberOf(base, digits) = number[Len(digits)]
  BY DEF NumberOf
<1>2. g = body(g)
  BY DEF Partials
<1>3. number = body(number)
  BY <1>2, Zenon
<1> HIDE DEF number
<1>4. \A k \in 0..Len(digits) : number[k] = IF k = 0 THEN 0 ELSE base * number[k - 1] + digits[k]
  BY <1>3
<1> DEFINE T == {k \in 0..Len(digits) : number[k] # g[k]}
<1>5. ASSUME T # {} PROVE FALSE
  <2>1. PICK k \in T : \A y \in T : k <= y
    <3>1. T \in SUBSET Nat
      OBVIOUS
    <3> HIDE DEF T
    <3> QED
      BY <1>5, <3>1, Least
  <2>2. k # 0
    BY <1>4, <2>1 DEF Partials
  <2>3. k - 1 \in 0..Len(digits) /\ k - 1 \notin T
    BY <2>1, <2>2
  <2>4. number[k - 1] = g[k - 1]
    BY <2>3
  <2> QED
    BY <1>4, <2>1, <2>2, <2>4 DEF Partials
<1> QED
  BY <1>1, <1>5

\* Natural digits make a natural number.
LEMMA NumberIsNatural ==
  ASSUME NEW base \in Nat, NEW digits \in Seq(Nat)
  PROVE  NumberOf(base, digits) \in Nat
<1>1. PICK g : Partials(base, digits, Len(digits), g)
  BY PartialsExist
<1> QED
  BY <1>1, NumberIs DEF Partials

\* A number without its last digit.
LEMMA NumberStep ==
  ASSUME NEW base \in Nat, NEW digits \in Seq(Nat), NEW n \in 1..Len(digits)
  PROVE  NumberOf(base, SubSeq(digits, 1, n)) =
           base * NumberOf(base, SubSeq(digits, 1, n - 1)) + digits[n]
<1> DEFINE long == SubSeq(digits, 1, n)
           short == SubSeq(digits, 1, n - 1)
<1>1. /\ long \in Seq(Nat) /\ Len(long) = n /\ \A k \in 1..n : long[k] = digits[k]
      /\ short \in Seq(Nat) /\ Len(short) = n - 1 /\ \A k \in 1..(n - 1) : short[k] = long[k]
  OBVIOUS
<1> HIDE DEF long, short
<1>2. n \in 0..Len(long) /\ n - 1 \in 0..Len(long) /\ n - 1 \in 0..Len(short)
  BY <1>1
<1>3. PICK g : Partials(base, long, n, g)
  BY <1>1, <1>2, PartialsExist, Zenon
<1>4. PICK h : Partials(base, short, n - 1, h)
  BY <1>1, <1>2, PartialsExist, Zenon
<1>5. NumberOf(base, long) = g[n] /\ NumberOf(base, short) = h[n - 1]
  BY <1>1, <1>3, <1>4, NumberIs
<1>6. Partials(base, long, n - 1, h)
  <2>1. ASSUME NEW k \in 0..(n - 1)
        PROVE  (IF k = 0 THEN 0 ELSE base * h[k - 1] + short[k]) =
               IF k = 0 THEN 0 ELSE base * h[k - 1] + long[k]
    BY <1>1
  <2> QED
    BY <1>4, <2>1, Zenon DEF Partials
<1>7. g[n - 1] = h[n - 1]
  <2>1. n - 1 \in 0..n /\ long \in Seq(Nat) /\ n \in 0..Len(long)
    BY <1>1
  <2> QED
    BY <1>3, <1>6, <2>1, PartialsAgree
<1> QED
  BY <1>1, <1>3, <1>5, <1>7 DEF Partials, long, short

LEMMA NumberOfNone == ASSUME NEW base PROVE NumberOf(base, << >>) = 0
<1> DEFINE body(f) == [k \in 0..0 |-> IF k = 0 THEN 0 ELSE base * f[k - 1] + << >>[k]]
           g == [k \in 0..0 |-> 0]
<1>1. g = body(g)
  OBVIOUS
<1>2. (CHOOSE f : f = body(f)) = body(CHOOSE f : f = body(f))
  BY <1>1, Zenon
<1> QED
  BY <1>2 DEF NumberOf

\* A number with one more digit is below one more power of the base.
LEMMA NumberGrows ==
  ASSUME NEW base \in Nat, NEW digits \in Seq(0..(base - 1)), NEW n \in 1..Len(digits),
         NEW limit \in Nat, NumberOf(base, SubSeq(digits, 1, n - 1)) < limit
  PROVE  NumberOf(base, SubSeq(digits, 1, n)) < base * limit
<1> DEFINE short == NumberOf(base, SubSeq(digits, 1, n - 1))
<1>1. digits \in Seq(Nat) /\ SubSeq(digits, 1, n - 1) \in Seq(Nat) /\ digits[n] \in 0..(base - 1)
  <2>1. \A k \in 1..Len(digits) : digits[k] \in 0..(base - 1)
    OBVIOUS
  <2>2. digits \in [1..Len(digits) -> Nat] /\ Len(digits) \in Nat
    BY <2>1
  <2>3. digits \in Seq(Nat)
    BY <2>2
  <2> QED
    BY <2>1, <2>3
<1>2. NumberOf(base, SubSeq(digits, 1, n)) = base * short + digits[n]
  BY <1>1, NumberStep
<1>3. short \in Nat /\ short + 1 <= limit
  <2>1. short \in Nat
    BY <1>1, NumberIsNatural
  <2> QED
    BY <2>1
<1> HIDE DEF short
<1>4. \A b, x \in Nat : \A y \in Nat : x + 1 <= y => b * x + b <= b * y
  <2> SUFFICES ASSUME NEW b \in Nat, NEW x \in Nat, NEW y \in Nat, x + 1 <= y
               PROVE  b * x + b <= b * y
    OBVIOUS
  <2>1. PICK z \in Nat : y = x + 1 + z
    <3>1. y - x - 1 \in Nat /\ y = x + 1 + (y - x - 1)
      OBVIOUS
    <3> QED
      BY <3>1
  <2>2. b * (x + 1 + z) = b * x + b + b * z /\ b * z \in Nat /\ b * x \in Nat
    BY ProductIsNatural
  <2> QED
    BY <2>1, <2>2
<1>5. base * short + base <= base * limit /\ base * short \in Nat /\ base * limit \in Nat
  BY <1>3, <1>4, ProductIsNatural
<1> QED
  BY <1>1, <1>2, <1>5

-----------------------------------------------------------------------------
(* Recursion.                                                              *)

\* A function that is defined by its first value and by what a step makes of the
\* value before it.
Steps(S, first, step, n, g) ==
  /\ g \in [0..n -> S]
  /\ \A k \in 0..n : g[k] = IF k = 0 THEN first ELSE step[k][g[k - 1]]

LEMMA StepsExist ==
  ASSUME NEW S, NEW first \in S, NEW n \in Nat, NEW step \in [1..n -> [S -> S]]
  PROVE  \E g : Steps(S, first, step, n, g)
<1> DEFINE T == {m \in 0..n : ~\E g : Steps(S, first, step, m, g)}
<1>1. SUFFICES ASSUME T # {} PROVE FALSE
  OBVIOUS
<1>2. PICK m \in T : \A y \in T : m <= y
  <2>1. T \in SUBSET Nat
    OBVIOUS
  <2> HIDE DEF T
  <2> QED
    BY <1>1, <2>1, Least
<1>3. CASE m = 0
  <2> DEFINE g == [k \in 0..0 |-> first]
  <2>1. Steps(S, first, step, 0, g)
    BY DEF Steps
  <2> QED
    BY <1>2, <1>3, <2>1
<1>4. CASE m # 0
  <2>1. m \in 1..n /\ m - 1 \in 0..n /\ m - 1 \notin T
    BY <1>2, <1>4
  <2>2. PICK h : Steps(S, first, step, m - 1, h)
    BY <2>1
  <2> DEFINE g == [k \in 0..m |-> IF k = m THEN step[m][h[m - 1]] ELSE h[k]]
  <2>3. step[m][h[m - 1]] \in S
    <3>1. step[m] \in [S -> S] /\ h[m - 1] \in S
      BY <2>1, <2>2 DEF Steps
    <3> QED
      BY <3>1
  <2>4. \A k \in 0..m : k # m => k \in 0..(m - 1)
    BY <2>1
  <2>5. g \in [0..m -> S]
    BY <2>2, <2>3, <2>4 DEF Steps
  <2>6. ASSUME NEW k \in 0..m
        PROVE  g[k] = IF k = 0 THEN first ELSE step[k][g[k - 1]]
    <3>1. CASE k = m
      <4>1. k # 0 /\ k - 1 \in 0..m /\ k - 1 # m /\ g[k] = step[m][h[m - 1]]
        BY <1>4, <2>1, <3>1
      <4>2. g[k - 1] = h[m - 1]
        BY <3>1, <4>1
      <4> QED
        BY <3>1, <4>1, <4>2
    <3>2. CASE k # m
      <4>1. k \in 0..(m - 1) /\ g[k] = h[k]
        BY <2>1, <3>2
      <4>2. k # 0 => k - 1 \in 0..m /\ k - 1 # m /\ g[k - 1] = h[k - 1]
        BY <2>1, <4>1
      <4> QED
        BY <2>2, <4>1, <4>2 DEF Steps
    <3> QED
      BY <3>1, <3>2
  <2>7. Steps(S, first, step, m, g)
    BY <2>5, <2>6 DEF Steps
  <2> QED
    BY <1>2, <2>7
<1> QED
  BY <1>3, <1>4

-----------------------------------------------------------------------------
(* Sums over finite sets.                                                  *)

\* What a sum adds last, and the sums of all parts of a finite set.
FirstAdded(S) == CHOOSE x \in S : TRUE
PartSums(f, D, g) ==
  g = [s \in SUBSET D |-> IF s = {} THEN 0 ELSE f[FirstAdded(s)] + g[s \ {FirstAdded(s)}]]

LEMMA FirstRemoved ==
  ASSUME NEW S, IsFiniteSet(S), S # {}
  PROVE  /\ FirstAdded(S) \in S /\ IsFiniteSet(S \ {FirstAdded(S)})
         /\ Cardinality(S) \in Nat /\ Cardinality(S \ {FirstAdded(S)}) = Cardinality(S) - 1
<1>1. FirstAdded(S) \in S
  BY DEF FirstAdded
<1> QED
  BY <1>1, FS_RemoveElement, FS_CardinalityType

LEMMA PartSumsExist ==
  ASSUME NEW D, IsFiniteSet(D), NEW f, \A x \in D : f[x] \in Int
  PROVE  \E g : g \in [SUBSET D -> Int] /\ PartSums(f, D, g)
<1> DEFINE Small(n) == {s \in SUBSET D : Cardinality(s) <= n}
           Fits(n, g) == /\ g \in [Small(n) -> Int]
                         /\ \A s \in Small(n) :
                              g[s] = IF s = {} THEN 0 ELSE f[FirstAdded(s)] + g[s \ {FirstAdded(s)}]
           T == {n \in Nat : ~\E g : Fits(n, g)}
<1>0. /\ Cardinality(D) \in Nat
      /\ \A s \in SUBSET D : /\ IsFiniteSet(s) /\ Cardinality(s) \in 0..Cardinality(D)
                             /\ Cardinality(s) = 0 <=> s = {}
  BY FS_Subset, FS_CardinalityType, FS_EmptySet
<1>00. \A s \in SUBSET D : s # {} =>
         /\ FirstAdded(s) \in D /\ s \ {FirstAdded(s)} \in SUBSET D
         /\ Cardinality(s \ {FirstAdded(s)}) = Cardinality(s) - 1
  BY <1>0, FirstRemoved
<1>1. T = {}
  <2>1. SUFFICES ASSUME T # {} PROVE FALSE
    OBVIOUS
  <2>2. PICK m \in T : \A y \in T : m <= y
    <3>1. T \in SUBSET Nat
      OBVIOUS
    <3> HIDE DEF T
    <3> QED
      BY <2>1, <3>1, Least
  <2>3. CASE m = 0
    <3> DEFINE g == [s \in Small(0) |-> 0]
    <3>1. \A s \in Small(0) : s = {}
      BY <1>0
    <3>2. Fits(0, g)
      BY <3>1
    <3> QED
      BY <2>2, <2>3, <3>2
  <2>4. CASE m # 0
    <3>0. m \in Nat
      OBVIOUS
    <3>1. m \in Nat /\ m - 1 \in Nat /\ m - 1 \notin T
      <4> HIDE DEF T
      <4> QED
        BY <2>2, <2>4, <3>0
    <3>2. PICK h : Fits(m - 1, h)
      BY <3>1
    <3> DEFINE V(s) == IF s = {} THEN 0 ELSE f[FirstAdded(s)] + h[s \ {FirstAdded(s)}]
               g == [s \in Small(m) |-> V(s)]
    <3>3. ASSUME NEW s \in Small(m), s # {}
          PROVE  s \ {FirstAdded(s)} \in Small(m - 1) /\ s \ {FirstAdded(s)} \in Small(m) /\ FirstAdded(s) \in D
      BY <1>0, <1>00, <3>1, <3>3
    <3>4. ASSUME NEW s \in Small(m) PROVE V(s) \in Int
      <4>1. s # {} => f[FirstAdded(s)] \in Int /\ h[s \ {FirstAdded(s)}] \in Int
        BY <3>2, <3>3
      <4> QED
        BY <4>1
    <3>5. ASSUME NEW s \in Small(m - 1) PROVE h[s] = V(s)
      BY <3>2
    <3>6. \A s \in Small(m) : g[s] = IF s = {} THEN 0 ELSE f[FirstAdded(s)] + g[s \ {FirstAdded(s)}]
      <4> SUFFICES ASSUME NEW s \in Small(m), s # {}
                   PROVE  g[s] = f[FirstAdded(s)] + g[s \ {FirstAdded(s)}]
        OBVIOUS
      <4>1. g[s \ {FirstAdded(s)}] = h[s \ {FirstAdded(s)}]
        BY <3>3, <3>5
      <4> QED
        BY <4>1
    <3>7. g \in [Small(m) -> Int]
      BY <3>4
    <3>8. Fits(m, g)
      BY <3>6, <3>7
    <3> QED
      BY <2>2, <3>8
  <2> QED
    BY <2>3, <2>4
<1>2. PICK g : Fits(Cardinality(D), g)
  BY <1>0, <1>1
<1>3. Small(Cardinality(D)) = SUBSET D
  BY <1>0
<1> QED
  BY <1>2, <1>3 DEF PartSums

\* Whatever set is summed up over, the sum of a part of it is the same.
LEMMA PartSumsAgree ==
  ASSUME NEW D, IsFiniteSet(D), NEW f, NEW h, \A x \in D : f[x] = h[x],
         NEW g, PartSums(f, D, g),
         NEW E \in SUBSET D, NEW k, PartSums(h, E, k)
  PROVE  k[E] = g[E]
<1> DEFINE T == {n \in Nat : \E s \in SUBSET E : Cardinality(s) = n /\ g[s] # k[s]}
<1>1. \A s \in SUBSET E : IsFiniteSet(s) /\ Cardinality(s) \in Nat
  BY FS_Subset, FS_CardinalityType
<1>2. CASE T = {}
  BY <1>1, <1>2
<1>3. CASE T # {}
  <2>1. PICK m \in T : \A y \in T : m <= y
    <3>1. T \in SUBSET Nat
      OBVIOUS
    <3> HIDE DEF T
    <3> QED
      BY <1>3, <3>1, Least
  <2>2. PICK s \in SUBSET E : Cardinality(s) = m /\ g[s] # k[s]
    BY <2>1
  <2>3. s # {}
    BY <2>2 DEF PartSums
  <2> DEFINE r == s \ {FirstAdded(s)}
  <2>4. /\ FirstAdded(s) \in D /\ r \in SUBSET E /\ r \in SUBSET D
        /\ Cardinality(r) = m - 1 /\ m - 1 \in Nat
    BY <1>1, <2>2, <2>3, FirstRemoved
  <2>5. g[r] = k[r]
    BY <2>1, <2>4
  <2>6. g[s] = f[FirstAdded(s)] + g[r] /\ k[s] = h[FirstAdded(s)] + k[r]
    BY <2>2, <2>3 DEF PartSums
  <2> QED
    BY <2>2, <2>4, <2>5, <2>6
<1> QED
  BY <1>2, <1>3

LEMMA SumIs ==
  ASSUME NEW D, IsFiniteSet(D), NEW f, \A x \in D : f[x] \in Int,
         NEW g, PartSums(f, D, g), NEW S \in SUBSET D
  PROVE  SumFunctionOnSet(f, S) = g[S]
<1> DEFINE sums == CHOOSE h : PartSums(f, S, h)
<1>1. SumFunctionOnSet(f, S) = sums[S]
  BY Zenon DEF SumFunctionOnSet, FoldFunctionOnSet, MapThenFoldSet, PartSums, FirstAdded
<1>2. IsFiniteSet(S)
  BY FS_Subset
<1>3. PartSums(f, S, sums)
  <2>1. \E h : PartSums(f, S, h)
    BY <1>2, PartSumsExist
  <2> QED
    BY <2>1, Zenon
<1> HIDE DEF sums
<1> QED
  BY <1>1, <1>3, PartSumsAgree

LEMMA SumEmpty == ASSUME NEW f PROVE SumFunctionOnSet(f, {}) = 0
<1>1. IsFiniteSet({}) /\ \A x \in {} : f[x] \in Int
  BY FS_EmptySet
<1>2. PICK g : PartSums(f, {}, g)
  BY <1>1, PartSumsExist
<1>3. SumFunctionOnSet(f, {}) = g[{}]
  BY <1>1, <1>2, SumIs
<1> QED
  BY <1>2, <1>3 DEF PartSums

LEMMA SumType ==
  ASSUME NEW S, IsFiniteSet(S), NEW f, \A x \in S : f[x] \in Int
  PROVE  SumFunctionOnSet(f, S) \in Int
<1>1. PICK g : g \in [SUBSET S -> Int] /\ PartSums(f, S, g)
  BY PartSumsExist
<1>2. SumFunctionOnSet(f, S) = g[S]
  BY <1>1, SumIs
<1> QED
  BY <1>1, <1>2

LEMMA SumNatural ==
  ASSUME NEW S, IsFiniteSet(S), NEW f, \A x \in S : f[x] \in Nat
  PROVE  SumFunctionOnSet(f, S) \in Nat
<1>0. \A x \in S : f[x] \in Int
  OBVIOUS
<1>1. PICK g : g \in [SUBSET S -> Int] /\ PartSums(f, S, g)
  BY <1>0, PartSumsExist
<1>2. SumFunctionOnSet(f, S) = g[S]
  BY <1>0, <1>1, SumIs
<1> DEFINE T == {n \in Nat : \E s \in SUBSET S : Cardinality(s) = n /\ g[s] \notin Nat}
<1>3. \A s \in SUBSET S : IsFiniteSet(s) /\ Cardinality(s) \in Nat
  BY FS_Subset, FS_CardinalityType
<1>4. CASE T = {}
  BY <1>2, <1>3, <1>4
<1>5. CASE T # {}
  <2>1. PICK m \in T : \A y \in T : m <= y
    <3>1. T \in SUBSET Nat
      OBVIOUS
    <3> HIDE DEF T
    <3> QED
      BY <1>5, <3>1, Least
  <2>2. PICK s \in SUBSET S : Cardinality(s) = m /\ g[s] \notin Nat
    BY <2>1
  <2>3. s # {}
    BY <1>1, <2>2 DEF PartSums
  <2> DEFINE r == s \ {FirstAdded(s)}
  <2>4. /\ FirstAdded(s) \in S /\ r \in SUBSET S /\ Cardinality(r) = m - 1 /\ m - 1 \in Nat
    BY <1>3, <2>2, <2>3, FirstRemoved
  <2>5. g[r] \in Nat
    BY <2>1, <2>4
  <2>6. g[s] = f[FirstAdded(s)] + g[r]
    BY <1>1, <2>2, <2>3 DEF PartSums
  <2> QED
    BY <2>2, <2>4, <2>5, <2>6
<1> QED
  BY <1>4, <1>5

LEMMA SumEqual ==
  ASSUME NEW S, IsFiniteSet(S), NEW f, NEW h, \A x \in S : f[x] \in Int /\ f[x] = h[x]
  PROVE  SumFunctionOnSet(f, S) = SumFunctionOnSet(h, S)
<1>1. PICK g : PartSums(f, S, g)
  BY PartSumsExist
<1>2. PICK k : PartSums(h, S, k)
  BY PartSumsExist
<1>3. SumFunctionOnSet(f, S) = g[S]
  BY <1>1, SumIs
<1>4. SumFunctionOnSet(h, S) = k[S]
  BY <1>2, SumIs
<1> QED
  BY <1>1, <1>2, <1>3, <1>4, PartSumsAgree

\* It does not matter which one is added last.
LEMMA SumAdd ==
  ASSUME NEW S, IsFiniteSet(S), NEW x, x \notin S,
         NEW f, \A y \in S \cup {x} : f[y] \in Int
  PROVE  SumFunctionOnSet(f, S \cup {x}) = SumFunctionOnSet(f, S) + f[x]
<1> DEFINE D == S \cup {x}
<1>0. IsFiniteSet(D)
  BY FS_AddElement
<1>1. PICK g : g \in [SUBSET D -> Int] /\ PartSums(f, D, g)
  BY <1>0, PartSumsExist
<1>2. SumFunctionOnSet(f, D) = g[D] /\ SumFunctionOnSet(f, S) = g[S]
  BY <1>0, <1>1, SumIs
<1> DEFINE T == {n \in Nat : \E s \in SUBSET D :
                   Cardinality(s) = n /\ \E y \in s : g[s] # f[y] + g[s \ {y}]}
<1>3. \A s \in SUBSET D : IsFiniteSet(s) /\ Cardinality(s) \in Nat
  BY <1>0, FS_Subset, FS_CardinalityType
<1>4. T = {}
  <2>1. SUFFICES ASSUME T # {} PROVE FALSE
    OBVIOUS
  <2>2. PICK m \in T : \A n \in T : m <= n
    <3>1. T \in SUBSET Nat
      OBVIOUS
    <3> HIDE DEF T
    <3> QED
      BY <2>1, <3>1, Least
  <2>3. PICK s \in SUBSET D : Cardinality(s) = m /\ \E y \in s : g[s] # f[y] + g[s \ {y}]
    BY <2>2
  <2>3a. PICK y \in s : g[s] # f[y] + g[s \ {y}]
    BY <2>3
  <2> DEFINE c == FirstAdded(s)
  <2>4. /\ c \in s /\ y \in s
        /\ g[s] = f[c] + g[s \ {c}]
    BY <1>1, <1>3, <2>3, <2>3a, FirstRemoved DEF PartSums
  <2>5. y # c
    BY <2>3a, <2>4
  <2>6. /\ Cardinality(s \ {c}) = m - 1 /\ Cardinality(s \ {y}) = m - 1 /\ m - 1 \in Nat
        /\ s \ {c} \in SUBSET D /\ s \ {y} \in SUBSET D
    <3>1. IsFiniteSet(s) /\ Cardinality(s) = m /\ m \in Nat /\ m # 0
      BY <1>3, <2>3, <2>4, FS_EmptySet
    <3>2. Cardinality(s \ {c}) = m - 1
      <4> HIDE DEF c
      <4> QED
        BY <2>4, <3>1, FS_RemoveElement
    <3>3. Cardinality(s \ {y}) = m - 1
      BY <3>1, FS_RemoveElement
    <3> QED
      BY <3>1, <3>2, <3>3
  <2>7. m - 1 \notin T
    <3>1. m \in Nat
      OBVIOUS
    <3> HIDE DEF T
    <3> QED
      BY <2>2, <2>6, <3>1
  <2>8. g[s \ {c}] = f[y] + g[(s \ {c}) \ {y}] /\ g[s \ {y}] = f[c] + g[(s \ {y}) \ {c}]
    BY <2>4, <2>5, <2>6, <2>7
  <2>9. (s \ {c}) \ {y} = (s \ {y}) \ {c} /\ (s \ {c}) \ {y} \in SUBSET D
    BY <2>3
  <2>10. f[c] \in Int /\ f[y] \in Int /\ g[(s \ {c}) \ {y}] \in Int
    BY <1>1, <2>3, <2>4, <2>9
  <2>11. g[s] = f[c] + (f[y] + g[(s \ {c}) \ {y}]) /\ g[s] # f[y] + (f[c] + g[(s \ {c}) \ {y}])
    BY <2>3a, <2>4, <2>8, <2>9, Zenon
  <2> QED
    BY <2>10, <2>11
<1>5. g[D] = f[x] + g[D \ {x}]
  BY <1>3, <1>4
<1>6. D \ {x} = S
  OBVIOUS
<1>7. f[x] \in Int /\ g[S] \in Int
  BY <1>1
<1>7a. g[D] = f[x] + g[S]
  BY <1>5, <1>6, Zenon
<1> HIDE DEF D, T
<1>8. SumFunctionOnSet(f, D) = SumFunctionOnSet(f, S) + f[x]
  BY <1>2, <1>7, <1>7a
<1> QED
  BY <1>8 DEF D

-----------------------------------------------------------------------------
(* Powers of two.                                                          *)

DoublingUpTo(n, g) == g \in [0..n -> Nat] /\ \A k \in 0..n : g[k] = IF k = 0 THEN 1 ELSE 2 * g[k - 1]

LEMMA DoublingExists == ASSUME NEW n \in Nat PROVE \E g : DoublingUpTo(n, g)
<1> DEFINE step == [k \in 1..n |-> [x \in Nat |-> 2 * x]]
<1>1. step \in [1..n -> [Nat -> Nat]]
  OBVIOUS
<1>2. PICK g : Steps(Nat, 1, step, n, g)
  BY <1>1, StepsExist
<1>3. \A k \in 0..n : k # 0 => k \in 1..n /\ k - 1 \in 0..n
  OBVIOUS
<1>4. g \in [0..n -> Nat] /\ \A k \in 0..n : g[k] = IF k = 0 THEN 1 ELSE step[k][g[k - 1]]
  BY <1>2 DEF Steps
<1> QED
  BY <1>3, <1>4 DEF DoublingUpTo

LEMMA DoublingAgrees ==
  ASSUME NEW n \in Nat, NEW m \in 0..n, NEW g, NEW h, DoublingUpTo(n, g), DoublingUpTo(m, h)
  PROVE  g[m] = h[m]
<1> DEFINE T == {k \in 0..m : g[k] # h[k]}
<1>1. SUFFICES ASSUME T # {} PROVE FALSE
  OBVIOUS
<1>2. PICK k \in T : \A y \in T : k <= y
  <2>1. T \in SUBSET Nat
    OBVIOUS
  <2> HIDE DEF T
  <2> QED
    BY <1>1, <2>1, Least
<1>3. k \in 0..n /\ k \in 0..m /\ k # 0
  BY <1>2 DEF DoublingUpTo
<1>4. k - 1 \in 0..m /\ k - 1 \notin T
  <2>1. k - 1 \in 0..m /\ k - 1 < k
    BY <1>3
  <2> HIDE DEF T
  <2> QED
    BY <1>2, <1>3, <2>1
<1> QED
  BY <1>2, <1>3, <1>4 DEF DoublingUpTo

LEMMA TwoToIs ==
  TwoTo \in [Nat -> Nat] /\ \A n \in Nat : TwoTo[n] = IF n = 0 THEN 1 ELSE 2 * TwoTo[n - 1]
<1> DEFINE up(n) == CHOOSE g : DoublingUpTo(n, g)
           power == [n \in Nat |-> up(n)[n]]
<1>1. \A n \in Nat : DoublingUpTo(n, up(n))
  BY DoublingExists, Zenon
<1> HIDE DEF up
<1>2. ASSUME NEW n \in Nat
      PROVE  power[n] \in Nat /\ power[n] = IF n = 0 THEN 1 ELSE 2 * power[n - 1]
  <2>0. DoublingUpTo(n, up(n)) /\ n \in 0..n
    BY <1>1
  <2>1. CASE n = 0
    BY <2>0, <2>1 DEF DoublingUpTo
  <2>2. CASE n # 0
    <3>1. n - 1 \in Nat /\ n - 1 \in 0..n
      BY <2>2
    <3>2. DoublingUpTo(n - 1, up(n - 1))
      BY <1>1, <3>1
    <3>3. up(n)[n - 1] = up(n - 1)[n - 1]
      BY <2>0, <3>1, <3>2, DoublingAgrees
    <3> QED
      BY <2>0, <2>2, <3>1, <3>3 DEF DoublingUpTo
  <2> QED
    BY <2>1, <2>2
<1> HIDE DEF power
<1>3. power = [n \in Nat |-> IF n = 0 THEN 1 ELSE 2 * power[n - 1]]
  BY <1>2 DEF power
<1>4. TwoTo = [n \in Nat |-> IF n = 0 THEN 1 ELSE 2 * TwoTo[n - 1]]
  BY <1>3, Zenon DEF TwoTo
<1>5. \A n \in Nat : TwoTo[n] = IF n = 0 THEN 1 ELSE 2 * TwoTo[n - 1]
  BY <1>4
<1>6. ASSUME NEW n \in Nat PROVE TwoTo[n] \in Nat
  <2> DEFINE T == {k \in Nat : TwoTo[k] \notin Nat}
  <2>1. SUFFICES ASSUME T # {} PROVE FALSE
    OBVIOUS
  <2>2. PICK k \in T : \A y \in T : k <= y
    <3>1. T \in SUBSET Nat
      OBVIOUS
    <3> HIDE DEF T
    <3> QED
      BY <2>1, <3>1, Least
  <2>3. k # 0
    BY <1>5, <2>2
  <2>4. k - 1 \in Nat /\ k - 1 \notin T
    <3>1. k \in Nat /\ k - 1 \in Nat
      BY <2>3
    <3> HIDE DEF T
    <3> QED
      BY <2>2, <3>1
  <2> QED
    BY <1>5, <2>3, <2>4
<1>7. TwoTo \in [Nat -> Nat]
  <2>1. TwoTo = [n \in Nat |-> TwoTo[n]]
    BY <1>4
  <2> QED
    BY <1>6, <2>1
<1> QED
  BY <1>5, <1>7

LEMMA TwoToStep ==
  /\ TwoTo[0] = 1
  /\ \A n \in Nat : TwoTo[n] \in Nat /\ TwoTo[n + 1] = 2 * TwoTo[n] /\ TwoTo[n] > n
<1>1. TwoTo[0] = 1
  BY TwoToIs
<1>2. ASSUME NEW n \in Nat PROVE TwoTo[n] \in Nat /\ TwoTo[n + 1] = 2 * TwoTo[n]
  <2>1. n + 1 \in Nat /\ n + 1 # 0 /\ (n + 1) - 1 = n
    OBVIOUS
  <2> QED
    BY <2>1, TwoToIs
<1>3. ASSUME NEW n \in Nat PROVE TwoTo[n] > n
  <2> DEFINE T == {k \in Nat : ~(TwoTo[k] > k)}
  <2>1. SUFFICES ASSUME T # {} PROVE FALSE
    OBVIOUS
  <2>2. PICK k \in T : \A y \in T : k <= y
    <3>1. T \in SUBSET Nat
      OBVIOUS
    <3> HIDE DEF T
    <3> QED
      BY <2>1, <3>1, Least
  <2>3. k # 0
    BY <1>1, <2>2
  <2>4. k \in Nat /\ k - 1 \in Nat /\ (k - 1) + 1 = k
    BY <2>3
  <2>5. k - 1 \notin T
    <3> HIDE DEF T
    <3> QED
      BY <2>2, <2>4
  <2>6. TwoTo[k - 1] \in Nat /\ TwoTo[k - 1] > k - 1 /\ TwoTo[k] = 2 * TwoTo[k - 1]
    <3>1. TwoTo[k - 1] \in Nat /\ TwoTo[(k - 1) + 1] = 2 * TwoTo[k - 1]
      BY <1>2, <2>4
    <3> QED
      BY <2>4, <2>5, <3>1
  <2> QED
    BY <2>2, <2>4, <2>6
<1> QED
  BY <1>1, <1>2, <1>3

LEMMA TwoToGrows == ASSUME NEW n \in Nat, NEW m \in Nat, n <= m PROVE TwoTo[n] <= TwoTo[m]
<1> DEFINE T == {k \in Nat : n <= k /\ ~(TwoTo[n] <= TwoTo[k])}
<1>1. SUFFICES ASSUME T # {} PROVE FALSE
  OBVIOUS
<1>2. PICK k \in T : \A y \in T : k <= y
  <2>1. T \in SUBSET Nat
    OBVIOUS
  <2> HIDE DEF T
  <2> QED
    BY <1>1, <2>1, Least
<1>3. k \in Nat /\ n <= k /\ k # n
  BY <1>2, TwoToStep
<1>4. k - 1 \in Nat /\ n <= k - 1 /\ (k - 1) + 1 = k
  BY <1>3
<1>5. k - 1 \notin T
  <2> HIDE DEF T
  <2> QED
    BY <1>2, <1>3, <1>4
<1>6. TwoTo[k - 1] \in Nat /\ TwoTo[(k - 1) + 1] = 2 * TwoTo[k - 1] /\ TwoTo[n] \in Nat
  BY <1>4, TwoToStep
<1>7. TwoTo[n] <= TwoTo[k - 1]
  BY <1>4, <1>5
<1> QED
  BY <1>2, <1>4, <1>6, <1>7

\* n bits make a number below the nth power.
LEMMA BitsMakeNumber ==
  ASSUME NEW n \in Nat, NEW f, NEW S \in SUBSET (0..(n - 1)), \A i \in S : f[i] = TwoTo[i]
  PROVE  SumFunctionOnSet(f, S) \in 0..(TwoTo[n] - 1)
<1> DEFINE OK(k) == SumFunctionOnSet(TwoTo, S \cap (0..(k - 1))) \in 0..(TwoTo[k] - 1)
           T == {k \in Nat : ~OK(k)}
<1>1. \A k \in Nat : /\ IsFiniteSet(S \cap (0..(k - 1)))
                     /\ \A i \in S \cap (0..(k - 1)) : TwoTo[i] \in Int
                     /\ TwoTo[k] \in Int
  <2>1. \A k \in Nat : IsFiniteSet(S \cap (0..(k - 1)))
    <3> SUFFICES ASSUME NEW k \in Nat PROVE IsFiniteSet(S \cap (0..(k - 1)))
      OBVIOUS
    <3>1. IsFiniteSet(0..(k - 1)) /\ S \cap (0..(k - 1)) \in SUBSET (0..(k - 1))
      BY FS_Interval
    <3> QED
      BY <3>1, FS_Subset
  <2>2. \A i \in Nat : TwoTo[i] \in Nat
    BY TwoToStep
  <2>3. \A k \in Nat : TwoTo[k] \in Int /\ \A i \in S \cap (0..(k - 1)) : TwoTo[i] \in Int
    BY <2>2
  <2> QED
    BY <2>1, <2>3
<1>2. T = {}
  <2>1. SUFFICES ASSUME T # {} PROVE FALSE
    OBVIOUS
  <2>2. PICK k \in T : \A y \in T : k <= y
    <3>1. T \in SUBSET Nat
      OBVIOUS
    <3> HIDE DEF T
    <3> QED
      BY <2>1, <3>1, Least
  <2>3. k \in Nat /\ ~OK(k)
    OBVIOUS
  <2>4. k # 0
    <3>1. S \cap (0..(0 - 1)) = {}
      OBVIOUS
    <3>2. OK(0)
      BY <3>1, SumEmpty, TwoToStep
    <3> HIDE DEF OK
    <3> QED
      BY <2>3, <3>2
  <2>5. k - 1 \in Nat /\ (k - 1) + 1 = k
    BY <2>3, <2>4
  <2>6. k - 1 \notin T
    <3> HIDE DEF T
    <3> QED
      BY <2>2, <2>3, <2>5
  <2>7. OK(k - 1)
    <3> HIDE DEF OK
    <3> QED
      BY <2>5, <2>6
  <2> DEFINE R == S \cap (0..((k - 1) - 1))
  <2>8. TwoTo[k] = 2 * TwoTo[k - 1] /\ TwoTo[k - 1] \in Nat
    BY <2>5, TwoToStep
  <2>9. CASE k - 1 \in S
    <3>1. S \cap (0..(k - 1)) = R \cup {k - 1} /\ k - 1 \notin R
      BY <2>5, <2>9
    <3>2. IsFiniteSet(R) /\ \A y \in R \cup {k - 1} : TwoTo[y] \in Int
      BY <1>1, <2>5, TwoToStep
    <3> HIDE DEF R
    <3>3. SumFunctionOnSet(TwoTo, R \cup {k - 1}) = SumFunctionOnSet(TwoTo, R) + TwoTo[k - 1]
      BY <3>1, <3>2, SumAdd
    <3>4. SumFunctionOnSet(TwoTo, R) \in 0..(TwoTo[k - 1] - 1)
      BY <2>7 DEF R
    <3>5. SumFunctionOnSet(TwoTo, R \cup {k - 1}) \in 0..(TwoTo[k] - 1)
      BY <2>8, <3>3, <3>4
    <3> QED
      BY <2>3, <3>1, <3>5
  <2>10. CASE k - 1 \notin S
    <3>1. S \cap (0..(k - 1)) = R
      BY <2>5, <2>10
    <3>2. SumFunctionOnSet(TwoTo, R) \in 0..(TwoTo[k - 1] - 1)
      BY <2>7
    <3> HIDE DEF R
    <3>3. SumFunctionOnSet(TwoTo, R) \in 0..(TwoTo[k] - 1)
      BY <2>8, <3>2
    <3> QED
      BY <2>3, <3>1, <3>3
  <2> QED
    BY <2>9, <2>10
<1>3. OK(n)
  <2> HIDE DEF OK
  <2> QED
    BY <1>2
<1>4. S \cap (0..(n - 1)) = S
  OBVIOUS
<1>5. SumFunctionOnSet(TwoTo, S) \in 0..(TwoTo[n] - 1)
  BY <1>3, <1>4
<1>6. SumFunctionOnSet(TwoTo, S) = SumFunctionOnSet(f, S)
  <2>1. IsFiniteSet(S) /\ \A i \in S : TwoTo[i] \in Int /\ TwoTo[i] = f[i]
    BY <1>1, <1>4
  <2> QED
    BY <2>1, SumEqual
<1> QED
  BY <1>5, <1>6
=============================================================================
