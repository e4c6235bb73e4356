--------------------------- MODULE PcRangesProofs ---------------------------
(***************************************************************************)
(* Proofs about PcRanges, for all files, well-formed or not.               *)
(*                                                                         *)
(* Readings are Safe: they end in one of the known ways, and leave the     *)
(* bytes there are only in a unit that claims more than the file has.      *)
(* That is shown for numbers, addresses and LEB128, then for attributes    *)
(* that are passed over (SkipFormIs, also through any chain of             *)
(* DW_FORM_indirect, which leads forwards and so ends), for DIEs           *)
(* (ReadDieIs), attributes, the methods of values and for what resolve and *)
(* die_pc_range make of them.  Strings are the exception: AnswersInside    *)
(* says which.                                                             *)
(*                                                                         *)
(* AnswersInside is inductive once what the client holds is known to be in *)
(* the file (ValueInv): a DIE of one of its units, with as many positions  *)
(* as attributes, a value with one of the forms.                           *)
(*                                                                         *)
(* Loops end because addresses take bytes: an entry is read behind the one *)
(* before it, and in front of the end of what the list reads (ListInv).    *)
(*                                                                         *)
(* A list that comes to its end implements Ranges: iterators stand at the  *)
(* ranges of entries, and a call that goes on has passed some entries, the *)
(* ranges of which it has counted or found not to have its address         *)
(* (RangeInv).  How many ranges the first entries have (RangesUpTo) is the *)
(* number of an iterator in the promised sequence.  Of a list with         *)
(* addresses of any size, iterators and cursors are at the borders of      *)
(* entries (PlaceInv): a loop reads outside of its section only in a list  *)
(* that does not end.                                                      *)
(***************************************************************************)
EXTENDS ListRanges, NumberLemmas, FiniteSetTheorems, TLAPS

-----------------------------------------------------------------------------
(* Numbers.                                                                *)

Bytes == 0..(Base - 1)

\* What is read inside of the data is a natural number.
LEMMA NumberNatural ==
  ASSUME NEW data \in Seq(Bytes), NEW order, NEW p \in Nat, NEW n \in Nat, p + n <= Len(data)
  PROVE  Number(data, order, p, n) \in Nat
<1> DEFINE digits == [k \in 1..n |-> data[p + (IF order = "msb" THEN k ELSE n + 1 - k)]]
<1>1. Base \in Nat /\ Bytes \in SUBSET Nat
  BY BaseAssumption DEF Bytes
<1>2. ASSUME NEW k \in 1..n PROVE digits[k] \in Nat
  <2>1. \A i \in 1..Len(data) : data[i] \in Nat
    <3>1. \A i \in 1..Len(data) : data[i] \in Bytes
      OBVIOUS
    <3> QED
      BY <1>1, <3>1
  <2>2. p + k \in 1..Len(data) /\ p + (n + 1 - k) \in 1..Len(data)
    OBVIOUS
  <2> QED
    BY <2>1, <2>2
<1>3. digits \in Seq(Nat)
  <2>1. digits \in [1..n -> Nat]
    BY <1>2
  <2> HIDE DEF digits
  <2> QED
    BY <2>1
<1> HIDE DEF digits
<1> QED
  BY <1>1, <1>3, NumberIsNatural DEF Number, digits

\* A reading of section s that ends in a way that is known, and does not leave
\* the bytes of a section that does not claim more than it has.
SafeIn(s, r) == r.status \in Statuses /\ (s.end <= Len(s.data) => r.status # "wild")

\* A number of some bytes is whole, or the reading fails.
LEMMA FixedIs ==
  ASSUME NEW s, IsSection(s), NEW p \in Nat, NEW n \in Nat
  PROVE  /\ SafeIn(s, Fixed(s, p, n))
         /\ Fixed(s, p, n).status = "ok" =>
              /\ Fixed(s, p, n).value \in Nat /\ Fixed(s, p, n).pos = p + n
              /\ p + n <= Len(s.data) /\ p + n <= s.end
<1>1. s.data \in Seq(Bytes) /\ s.end \in Nat
  BY DEF IsSection, Bytes
<1>2. CASE ~Fits(s.end, p, n)
  BY <1>2 DEF Fixed, Failed, SafeIn, Statuses
<1>3. CASE Fits(s.end, p, n) /\ p + n > Len(s.data)
  BY <1>1, <1>3 DEF Fixed, Failed, SafeIn, Statuses, Fits
<1>4. CASE Fits(s.end, p, n) /\ ~(p + n > Len(s.data))
  <2>1. Number(s.data, s.ord, p, n) \in Nat
    BY <1>1, <1>4, NumberNatural
  <2> QED
    BY <1>1, <1>4, <2>1 DEF Fixed, Got, SafeIn, Statuses, Fits
<1> QED
  BY <1>2, <1>3, <1>4

\* There is a largest address.
LEMMA MIs == M \in Nat /\ M > 0 /\ \A x \in Nat : x % M \in 0..(M - 1)
<1>1. Base \in Nat /\ Base > 0
  BY BaseAssumption
<1>2. \A a, b \in Nat : a > 0 /\ b > 0 => a * b \in Nat /\ a * b > 0
  OBVIOUS
<1>3. Word \in Nat /\ Word > 0
  BY <1>1, <1>2 DEF Word
<1>4. M \in Nat /\ M > 0
  BY <1>2, <1>3 DEF M, Xword
<1>5. \A m \in Nat : m > 0 => \A x \in Nat : x % m \in 0..(m - 1)
  OBVIOUS
<1> QED
  BY <1>4, <1>5

\* A number of up to eight bytes is a taddr.
LEMMA NumberSmall ==
  ASSUME NEW data \in Seq(Bytes), NEW order, NEW p \in Nat, NEW n \in {1, 2, 4, 8},
         p + n <= Len(data)
  PROVE  Number(data, order, p, n) \in 0..(M - 1)
<1> DEFINE digits == [k \in 1..n |-> data[p + (IF order = "msb" THEN k ELSE n + 1 - k)]]
           N(k) == NumberOf(Base, SubSeq(digits, 1, k))
<1>1. digits \in Seq(Bytes) /\ Len(digits) = n
  <2>1. ASSUME NEW k \in 1..n PROVE digits[k] \in Bytes
    <3>1. p + k \in 1..Len(data) /\ p + (n + 1 - k) \in 1..Len(data)
      OBVIOUS
    <3> QED
      BY <3>1
  <2>2. digits \in [1..n -> Bytes]
    BY <2>1
  <2> HIDE DEF digits
  <2> QED
    BY <2>2
<1> HIDE DEF digits
<1>2. Number(data, order, p, n) = N(n)
  <2>1. SubSeq(digits, 1, n) = digits
    BY <1>1
  <2> QED
    BY <2>1 DEF Number, digits
<1>3. Base \in Nat
  BY BaseAssumption
<1>4. N(0) < 1
  <2>1. SubSeq(digits, 1, 0) = << >>
    BY <1>1
  <2>2. N(0) = 0
    BY <2>1, NumberOfNone, Zenon
  <2> QED
    BY <2>2
<1>5. \A k \in 1..n : \A limit \in Nat : N(k - 1) < limit => N(k) < Base * limit
  BY <1>1, <1>3, NumberGrows DEF Bytes
<1>6. N(n) \in Nat
  <2>1. SubSeq(digits, 1, n) \in Seq(Nat)
    <3>1. \A k \in 1..n : digits[k] \in Nat
      BY <1>1, <1>3 DEF Bytes
    <3>2. SubSeq(digits, 1, n) = digits /\ digits \in [1..n -> Nat]
      BY <1>1, <3>1
    <3> QED
      BY <3>2
  <2> QED
    BY <1>3, <2>1, NumberIsNatural
<1> HIDE DEF N
<1> DEFINE two == Base * Base
           three == Base * two
           four == Base * three
           five == Base * four
           six == Base * five
           seven == Base * six
           eight == Base * seven
<1>7. /\ Base \in Nat /\ two \in Nat /\ three \in Nat /\ four \in Nat
      /\ five \in Nat /\ six \in Nat /\ seven \in Nat /\ eight \in Nat
  BY <1>3, ProductIsNatural
<1>8. Word = four /\ M = eight
  <2>1. \A b \in Nat : \A w \in Nat :
          /\ b * b * b * b = b * (b * (b * b))
          /\ (b * (b * (b * b))) * w = b * (b * (b * (b * w)))
    OBVIOUS
  <2>2. Word = four
    BY <1>3, <2>1 DEF Word
  <2>3. Word * four = eight
    BY <1>3, <1>7, <2>1, <2>2
  <2> QED
    BY <2>2, <2>3 DEF M, Xword
<1>9. Base <= two /\ two <= four /\ four <= eight
  <2>1. \A a \in Nat : a <= Base * a
    <3>1. \A a, b \in Nat : b >= 1 => a <= b * a
      <4> SUFFICES ASSUME NEW a \in Nat, NEW b \in Nat, b >= 1 PROVE a <= b * a
        OBVIOUS
      <4>1. b - 1 \in Nat /\ b * a = a + (b - 1) * a
        OBVIOUS
      <4>2. (b - 1) * a \in Nat
        BY <4>1, ProductIsNatural
      <4> QED
        BY <4>1, <4>2
    <3>2. Base >= 1
      BY BaseAssumption
    <3> QED
      BY <1>3, <3>1, <3>2
  <2>2. Base <= two /\ two <= three /\ three <= four
    BY <1>7, <2>1
  <2>3. four <= five /\ five <= six /\ six <= seven /\ seven <= eight
    BY <1>7, <2>1
  <2> HIDE DEF two, three, four, five, six, seven, eight
  <2> QED
    BY <1>7, <2>2, <2>3
<1>11. N(1) < Base
  <2>1. N(1) < Base * 1
    <3>1. 1 \in 1..n /\ 1 - 1 = 0
      OBVIOUS
    <3> QED
      BY <1>4, <1>5, <3>1
  <2> QED
    BY <1>3, <2>1
<1>12. n >= 2 => N(2) < two
  <2>1. n >= 2 => 2 \in 1..n /\ 2 - 1 = 1
    OBVIOUS
  <2> QED
    BY <1>3, <1>5, <1>11, <2>1
<1>13. n >= 4 => N(4) < four
  <2>1. n >= 4 => 3 \in 1..n /\ 3 - 1 = 2 /\ 4 \in 1..n /\ 4 - 1 = 3
    OBVIOUS
  <2>2. n >= 4 => N(3) < three
    BY <1>5, <1>7, <1>12, <2>1
  <2> QED
    BY <1>5, <1>7, <2>1, <2>2
<1>14. n = 8 => N(8) < eight
  <2> SUFFICES ASSUME n = 8 PROVE N(8) < eight
    OBVIOUS
  <2>1. /\ 5 \in 1..n /\ 5 - 1 = 4 /\ 6 \in 1..n /\ 6 - 1 = 5
        /\ 7 \in 1..n /\ 7 - 1 = 6 /\ 8 \in 1..n /\ 8 - 1 = 7
    OBVIOUS
  <2>2. N(5) < five
    BY <1>5, <1>7, <1>13, <2>1
  <2>3. N(6) < six
    BY <1>5, <1>7, <2>1, <2>2
  <2>4. N(7) < seven
    BY <1>5, <1>7, <2>1, <2>3
  <2> QED
    BY <1>5, <1>7, <2>1, <2>4
<1> HIDE DEF two, three, four, five, six, seven, eight
<1>15. N(n) < M
  <2>1. CASE n = 1
    BY <1>6, <1>7, <1>8, <1>9, <1>11, <2>1
  <2>2. CASE n = 2
    BY <1>6, <1>7, <1>8, <1>9, <1>12, <2>2
  <2>3. CASE n = 4
    BY <1>6, <1>7, <1>8, <1>9, <1>13, <2>3
  <2>4. CASE n = 8
    BY <1>8, <1>14, <2>4
  <2> QED
    BY <2>1, <2>2, <2>3, <2>4
<1> QED
  BY <1>2, <1>6, <1>15, MIs

\* Addresses are words, and take bytes that are there.
LEMMA AddressIs ==
  ASSUME NEW s, IsSection(s), NEW p \in Nat
  PROVE  /\ SafeIn(s, Address(s, p))
         /\ Address(s, p).status = "ok" =>
              /\ Address(s, p).value \in 0..(M - 1) /\ Address(s, p).pos \in Nat
              /\ p < Address(s, p).pos /\ Address(s, p).pos <= Len(s.data)
<1>1. CASE s.addr_size \in {1, 2, 4, 8}
  <2> DEFINE n == s.addr_size
  <2>1. Address(s, p) = Fixed(s, p, n) /\ n \in Nat /\ n > 0
    BY <1>1 DEF Address
  <2>2. /\ SafeIn(s, Fixed(s, p, n))
        /\ Fixed(s, p, n).status = "ok" =>
              Fixed(s, p, n).pos = p + n /\ p + n <= Len(s.data)
    BY <2>1, FixedIs
  <2>3. ASSUME Fixed(s, p, n).status = "ok" PROVE Fixed(s, p, n).value \in 0..(M - 1)
    <3>1. s.data \in Seq(Bytes)
      BY DEF IsSection, Bytes
    <3>2. Number(s.data, s.ord, p, n) \in 0..(M - 1)
      BY <1>1, <2>2, <2>3, <3>1, NumberSmall
    <3>3. Fixed(s, p, n).value = Number(s.data, s.ord, p, n)
      BY <2>3 DEF Fixed, Got, Failed
    <3> QED
      BY <3>2, <3>3
  <2> HIDE DEF n
  <2> QED
    BY <2>1, <2>2, <2>3
<1>2. CASE s.addr_size \notin {1, 2, 4, 8}
  BY <1>2 DEF Address, Failed, SafeIn, Statuses
<1> QED
  BY <1>1, <1>2

-----------------------------------------------------------------------------
(* Cursors.                                                                *)

LEMMA MinIs ==
  ASSUME NEW S \in SUBSET Nat, S # {}
  PROVE  Min(S) \in S /\ \A x \in S : Min(S) <= x
<1>1. \E x \in S : \A y \in S : x <= y
  BY Least
<1> QED
  BY <1>1 DEF Min

LEMMA PlacesAre ==
  ASSUME NEW s, IsSection(s), NEW p \in Nat, NEW S \in SUBSET Places(s, p), S # {}
  PROVE  /\ Min(S) \in S /\ Min(S) \in Nat
         /\ p <= Min(S) /\ Min(S) + 1 <= Len(s.data) /\ Min(S) + 1 <= s.end
<1>1. Len(s.data) \in Nat /\ s.end \in Nat
  BY DEF IsSection
<1>2. S \in SUBSET Nat
  BY <1>1 DEF Places
<1>3. Min(S) \in S
  BY <1>2, MinIs
<1>4. Min(S) \in Places(s, p)
  BY <1>3
<1> QED
  BY <1>1, <1>3, <1>4 DEF Places

\* A LEB128 number is a natural number when it is unsigned, and leads forwards.
LEMMA LebIs ==
  ASSUME NEW s, IsSection(s), NEW p \in Nat, NEW signed
  PROVE  /\ SafeIn(s, Leb(s, p, signed))
         /\ Leb(s, p, signed).status = "ok" =>
              /\ Leb(s, p, signed).pos \in Nat
              /\ p < Leb(s, p, signed).pos /\ Leb(s, p, signed).pos <= Len(s.data)
              /\ ~signed => Leb(s, p, signed).value \in Nat
<1> DEFINE stops == LastDigits(s, p)
           n == Min(stops) - p + 1
           digits == [k \in 1..n |-> s.data[p + n + 1 - k] % Half]
<1>1. s.data \in Seq(Bytes) /\ s.end \in Nat /\ Len(s.data) \in Nat
  BY DEF IsSection, Bytes
<1>2. CASE stops = {}
  BY <1>1, <1>2 DEF Leb, Failed, SafeIn, Statuses
<1>3. CASE stops # {}
  <2>1. /\ n \in Nat /\ n > 0 /\ p + n \in Nat /\ p + n <= Len(s.data)
    <3>1. stops \in SUBSET Places(s, p)
      BY DEF LastDigits
    <3>2. Min(stops) \in Nat /\ p <= Min(stops) /\ Min(stops) + 1 <= Len(s.data)
      BY <1>3, <3>1, PlacesAre
    <3> QED
      BY <1>1, <3>2
  <2> HIDE DEF n
  <2>2. NumberOf(Half, digits) \in Nat
    <3>1. Half \in Nat /\ Base \in Nat /\ Half > 0
      BY BaseAssumption DEF Half
    <3>2. \A h \in Nat : h > 0 => \A x \in Nat : x % h \in Nat
      OBVIOUS
    <3>3. ASSUME NEW k \in 1..n PROVE digits[k] \in Nat
      <4>1. p + n + 1 - k \in 1..Len(s.data)
        BY <1>1, <2>1
      <4>2. s.data[p + n + 1 - k] \in Bytes
        BY <1>1, <4>1
      <4>3. s.data[p + n + 1 - k] \in Nat
        BY <3>1, <4>2 DEF Bytes
      <4> QED
        BY <3>1, <3>2, <4>3
    <3>4. digits \in Seq(Nat)
      <4>1. digits \in [1..n -> Nat]
        BY <3>3
      <4> HIDE DEF digits
      <4> QED
        BY <2>1, <4>1
    <3> HIDE DEF digits
    <3> QED
      BY <3>1, <3>4, NumberIsNatural
  <2>3. Leb(s, p, signed) =
          Got(IF signed THEN Signed(NumberOf(Half, digits), Half^n) ELSE NumberOf(Half, digits), p + n)
    BY <1>3 DEF Leb, n
  <2> HIDE DEF digits, stops
  <2> QED
    BY <2>1, <2>2, <2>3 DEF Got, SafeIn, Statuses
<1> QED
  BY <1>2, <1>3

\* A string of a section may be looked for in front of the section's end or not.
LEMMA CStrIs ==
  ASSUME NEW s, IsSection(s), NEW p \in Nat
  PROVE  /\ CStr(s, p).status \in Statuses
         /\ CStr(s, p).status = "wild" => p > s.end \/ s.end > Len(s.data)
         /\ CStr(s, p).status = "ok" => CStr(s, p).value \in Nat
<1>1. CASE Nuls(s, p) = {}
  BY <1>1 DEF CStr, Failed, Statuses
<1>2. CASE Nuls(s, p) # {}
  <2>1. Nuls(s, p) \in SUBSET Places(s, p)
    BY DEF Nuls
  <2>2. Min(Nuls(s, p)) \in Nat /\ p <= Min(Nuls(s, p))
    BY <1>2, <2>1, PlacesAre
  <2> QED
    BY <1>2, <2>2 DEF CStr, Got, Statuses
<1> QED
  BY <1>1, <1>2

-----------------------------------------------------------------------------
(* Forms.                                                                  *)

LEMMA PassedIs ==
  ASSUME NEW s, IsSection(s), NEW p \in Nat, NEW stops \in SUBSET Places(s, p)
  PROVE  /\ SafeIn(s, Passed(s, p, stops))
         /\ Passed(s, p, stops).status = "ok" => Passed(s, p, stops).pos \in Nat
<1>1. s.end \in Nat /\ Len(s.data) \in Nat
  BY DEF IsSection
<1>2. stops # {} => Min(stops) + 1 \in Nat
  <2>1. stops # {} => Min(stops) \in Nat
    BY PlacesAre
  <2> QED
    BY <2>1
<1> QED
  BY <1>1, <1>2 DEF Passed, Got, Failed, SafeIn, Statuses

LEMMA SizeIs ==
  ASSUME NEW s, IsSection(s),
         NEW form \in DOMAIN FormCode \ ({"block", "exprloc", "string", "ref8", "indirect"} \cup Lebs)
  PROVE  Size(s, form) \in Nat
  BY DEF Size, IsSection, FormCode, Lebs

LEMMA BlockLengthIs ==
  ASSUME NEW s, IsSection(s), NEW p \in Nat, NEW form \in Blocks
  PROVE  /\ SafeIn(s, BlockLength(s, form, p))
         /\ BlockLength(s, form, p).status = "ok" =>
              BlockLength(s, form, p).pos \in Nat /\ BlockLength(s, form, p).value \in Nat
<1>1. CASE form \in {"block", "exprloc"}
  BY <1>1, LebIs DEF BlockLength
<1>2. CASE form \notin {"block", "exprloc"}
  <2>1. Size(s, form) \in Nat
    BY <1>2 DEF Size, Blocks
  <2>2. \A n \in Nat : p + n \in Nat
    OBVIOUS
  <2> QED
    BY <1>2, <2>1, <2>2, FixedIs DEF BlockLength
<1> QED
  BY <1>1, <1>2

LEMMA SkipDirectIs ==
  ASSUME NEW s, IsSection(s), NEW p \in Nat, NEW form \in DOMAIN FormCode \cup {"unknown"}
  PROVE  /\ SafeIn(s, SkipDirect(s, form, p))
         /\ SkipDirect(s, form, p).status = "ok" => SkipDirect(s, form, p).pos \in Nat
<1>1. CASE form \in Blocks
  <2> DEFINE length == BlockLength(s, form, p)
  <2>1. SkipDirect(s, form, p) = IF length.status = "ok" THEN Got(0, length.pos + length.value) ELSE Failed(length.status)
    BY <1>1 DEF SkipDirect, Then, Blocks, Lebs
  <2>2. SafeIn(s, length) /\ (length.status = "ok" => length.pos \in Nat /\ length.value \in Nat)
    BY <1>1, BlockLengthIs
  <2> HIDE DEF length
  <2> QED
    BY <2>1, <2>2 DEF Got, Failed, SafeIn, Statuses
<1>2. CASE form \in Lebs
  <2>1. LastDigits(s, p) \in SUBSET Places(s, p)
    BY DEF LastDigits
  <2>2. SkipDirect(s, form, p) = Passed(s, p, LastDigits(s, p))
    BY <1>2 DEF SkipDirect, Lebs, Blocks
  <2> QED
    BY <2>1, <2>2, PassedIs
<1>3. CASE form = "string"
  <2>1. Nuls(s, p) \in SUBSET Places(s, p)
    BY DEF Nuls
  <2>2. SkipDirect(s, form, p) = Passed(s, p, Nuls(s, p))
    BY <1>3 DEF SkipDirect, Lebs, Blocks
  <2> QED
    BY <2>1, <2>2, PassedIs
<1>4. CASE form \in {"ref8", "indirect", "unknown"}
  BY <1>4 DEF SkipDirect, Lebs, Blocks, Failed, SafeIn, Statuses
<1>5. CASE form \notin Blocks \cup Lebs \cup {"string", "ref8", "indirect", "unknown"}
  <2>1. SkipDirect(s, form, p) = Got(0, p + Size(s, form))
    BY <1>5 DEF SkipDirect
  <2>2. Size(s, form) \in Nat
    BY <1>5, SizeIs DEF Blocks
  <2> QED
    BY <2>1, <2>2 DEF Got, SafeIn, Statuses
<1> QED
  BY <1>1, <1>2, <1>3, <1>4, <1>5

-----------------------------------------------------------------------------
(* Forms that lead to forms.                                               *)

\* Where a number leads that may be the code of DW_FORM_indirect; the same, from
\* m on.
Coded(s, g, q) ==
  Then(Leb(s, q, FALSE), LAMBDA c : IF FormOf(c.value) = "indirect" THEN g[c.pos] ELSE c)
Codes(s, m, g) ==
  /\ g = [q \in {q \in Nat : q >= m} |-> g[q]]
  /\ \A q \in Nat : q >= m => g[q] = Coded(s, g, q)

LEMMA FormIs == ASSUME NEW code PROVE FormOf(code) \in DOMAIN FormCode \cup {"unknown"}
  BY DEF FormOf

\* Numbers lead forwards, up to the end of the section.
LEMMA CodesExist ==
  ASSUME NEW s, IsSection(s)
  PROVE  \E g : Codes(s, 0, g)
<1> DEFINE length == Len(s.data)
           T == {n \in 0..length : ~\E g : Codes(s, length - n, g)}
<1>1. length \in Nat
  BY DEF IsSection
<1>2. SUFFICES ASSUME T # {} PROVE FALSE
  <2>1. length \in 0..length /\ length - length = 0
    BY <1>1
  <2> QED
    BY <2>1
<1>3. PICK n \in T : \A k \in T : n <= k
  <2>1. T \in SUBSET Nat
    BY <1>1
  <2> HIDE DEF T
  <2> QED
    BY <1>2, <2>1, Least
<1> DEFINE m == length - n
<1>4. m \in Nat /\ m <= length /\ n \in Nat /\ ~\E g : Codes(s, m, g)
  BY <1>1, <1>3
<1>5. ASSUME NEW q \in Nat
      PROVE  Leb(s, q, FALSE).status = "ok" =>
               /\ Leb(s, q, FALSE).pos \in Nat /\ q < Leb(s, q, FALSE).pos
               /\ Leb(s, q, FALSE).pos <= length
  BY LebIs
<1>6. CASE n = 0
  <2> DEFINE g == [q \in {q \in Nat : q >= m} |-> Failed(Leb(s, q, FALSE).status)]
  <2>1. m = length
    BY <1>1, <1>6
  <2>2. ASSUME NEW q \in Nat, q >= m PROVE g[q] = Coded(s, g, q)
    <3>1. Leb(s, q, FALSE).status # "ok"
      <4>1. \A x \in Nat : ~(q < x /\ x <= length)
        BY <1>1, <2>1, <2>2
      <4> QED
        BY <1>5, <4>1
    <3>2. Coded(s, g, q) = Failed(Leb(s, q, FALSE).status)
      BY <3>1 DEF Coded, Then
    <3> QED
      BY <2>2, <3>2
  <2>3. Codes(s, m, g)
    <3>1. g = [q \in {q \in Nat : q >= m} |-> g[q]]
      OBVIOUS
    <3> HIDE DEF g, m
    <3> QED
      BY <2>2, <3>1 DEF Codes
  <2> QED
    BY <1>4, <2>3
<1>7. CASE n # 0
  <2>1. n - 1 \in 0..length /\ n - 1 \notin T /\ length - (n - 1) = m + 1
    BY <1>1, <1>3, <1>7
  <2>2. PICK h : Codes(s, m + 1, h)
    BY <2>1
  <2> DEFINE g == [q \in {q \in Nat : q >= m} |-> IF q = m THEN Coded(s, h, m) ELSE h[q]]
  <2> HIDE DEF m, T
  <2>3. \A q \in Nat : q > m => g[q] = h[q]
    BY <1>4
  <2>4. ASSUME NEW q \in Nat, q >= m PROVE Coded(s, g, q) = Coded(s, h, q)
    <3>1. Leb(s, q, FALSE).status = "ok" => g[Leb(s, q, FALSE).pos] = h[Leb(s, q, FALSE).pos]
      <4> SUFFICES ASSUME Leb(s, q, FALSE).status = "ok"
                   PROVE  g[Leb(s, q, FALSE).pos] = h[Leb(s, q, FALSE).pos]
        OBVIOUS
      <4>1. Leb(s, q, FALSE).pos \in Nat /\ Leb(s, q, FALSE).pos > m
        <5>1. \A x \in Nat : q < x => x > m
          BY <1>4, <2>4
        <5> QED
          BY <1>5, <5>1
      <4> HIDE DEF g
      <4> QED
        BY <2>3, <4>1
    <3> HIDE DEF g
    <3> QED
      BY <3>1 DEF Coded, Then
  <2>5. ASSUME NEW q \in Nat, q >= m PROVE g[q] = Coded(s, g, q)
    <3>1. CASE q = m
      BY <2>4, <2>5, <3>1
    <3>2. CASE q # m
      <4>1. q >= m + 1
        BY <1>4, <2>5, <3>2
      <4>2. h[q] = Coded(s, h, q)
        BY <2>2, <4>1 DEF Codes
      <4> QED
        BY <2>4, <2>5, <3>2, <4>2
    <3> QED
      BY <3>1, <3>2
  <2>6. Codes(s, m, g)
    <3>1. g = [q \in {q \in Nat : q >= m} |-> g[q]]
      OBVIOUS
    <3> HIDE DEF g
    <3> QED
      BY <2>5, <3>1 DEF Codes
  <2> QED
    BY <1>4, <2>6
<1> QED
  BY <1>6, <1>7

LEMMA IndirectIs ==
  ASSUME NEW s, IsSection(s), NEW p \in Nat
  PROVE  /\ SafeIn(s, IndirectCode(s, p))
         /\ IndirectCode(s, p).status = "ok" => IndirectCode(s, p).pos \in Nat
<1> DEFINE body(f) == [q \in Nat |->
             Then(Leb(s, q, FALSE), LAMBDA c : IF FormOf(c.value) = "indirect" THEN f[c.pos] ELSE c)]
           code == CHOOSE f : f = body(f)
           Good(r) == SafeIn(s, r) /\ (r.status = "ok" => r.pos \in Nat)
<1>1. IndirectCode(s, p) = code[p]
  BY DEF IndirectCode
<1>2. code = body(code)
  <2>1. PICK g : Codes(s, 0, g)
    BY CodesExist
  <2>2. \A q \in Nat : g[q] = Coded(s, g, q)
    BY <2>1 DEF Codes
  <2>3. g = [q \in Nat |-> g[q]]
    <3>1. {q \in Nat : q >= 0} = Nat
      OBVIOUS
    <3>2. g = [q \in {q \in Nat : q >= 0} |-> g[q]]
      BY <2>1 DEF Codes
    <3> QED
      BY <3>1, <3>2
  <2>4. g = body(g)
    BY <2>2, <2>3 DEF Coded
  <2> QED
    BY <2>4, Zenon
<1> HIDE DEF code
<1>3. \A q \in Nat : code[q] = Coded(s, code, q)
  <2>1. \A q \in Nat : body(code)[q] = Coded(s, code, q)
    BY DEF Coded
  <2> HIDE DEF body
  <2> QED
    BY <1>2, <2>1
<1> HIDE DEF body
<1> DEFINE length == Len(s.data)
           T == {n \in Nat : \E q \in Nat : ~Good(code[q]) /\ (q + n = length \/ (n = 0 /\ q >= length))}
<1>4. length \in Nat
  BY DEF IsSection
<1>5. ASSUME NEW q \in Nat
      PROVE  /\ SafeIn(s, Leb(s, q, FALSE))
             /\ Leb(s, q, FALSE).status = "ok" =>
                  /\ Leb(s, q, FALSE).pos \in Nat /\ q < Leb(s, q, FALSE).pos
                  /\ Leb(s, q, FALSE).pos <= length
  BY LebIs
<1>6. T = {}
  <2> SUFFICES ASSUME T # {} PROVE FALSE
    OBVIOUS
  <2>1. PICK n \in T : \A k \in T : n <= k
    <3>1. T \in SUBSET Nat
      OBVIOUS
    <3> HIDE DEF T
    <3> QED
      BY <3>1, Least
  <2>2. PICK q \in Nat : ~Good(code[q]) /\ (q + n = length \/ (n = 0 /\ q >= length))
    BY <2>1
  <2> DEFINE c == Leb(s, q, FALSE)
  <2>3. CASE c.status # "ok"
    <3>1. code[q] = Failed(c.status)
      BY <1>3, <2>3 DEF Coded, Then
    <3>2. SafeIn(s, c)
      BY <1>5
    <3>3. code[q].status = c.status
      BY <3>1 DEF Failed
    <3> HIDE DEF c
    <3>4. Good(code[q])
      BY <2>3, <3>2, <3>3 DEF SafeIn
    <3> QED
      BY <2>2, <3>4
  <2>4. CASE c.status = "ok" /\ FormOf(c.value) # "indirect"
    <3>1. code[q] = c
      BY <1>3, <2>4 DEF Coded, Then
    <3> QED
      BY <1>5, <2>2, <2>4, <3>1
  <2>5. CASE c.status = "ok" /\ FormOf(c.value) = "indirect"
    <3>1. code[q] = code[c.pos]
      BY <1>3, <2>5 DEF Coded, Then
    <3>2. c.pos \in Nat /\ q < c.pos /\ c.pos <= length
      BY <1>5, <2>5
    <3> HIDE DEF c
    <3>3. n \in Nat /\ length - c.pos \in Nat /\ length - c.pos < n
      BY <1>4, <2>1, <2>2, <3>2
    <3>4. length - c.pos \in T
      <4>1. c.pos + (length - c.pos) = length
        BY <1>4, <3>2
      <4> QED
        BY <2>2, <3>1, <3>2, <3>3, <4>1
    <3> HIDE DEF T
    <3> QED
      BY <2>1, <3>3, <3>4
  <2> QED
    BY <2>3, <2>4, <2>5
<1>7. Good(code[p])
  <2>1. p + (length - p) = length /\ (length - p \in Nat \/ p >= length)
    BY <1>4
  <2>2. \A n \in Nat : ~(~Good(code[p]) /\ (p + n = length \/ (n = 0 /\ p >= length)))
    BY <1>6
  <2> HIDE DEF T, Good
  <2> QED
    BY <2>1, <2>2
<1> QED
  BY <1>1, <1>7

\* Passing over an attribute of any form, also one that its data names.
LEMMA SkipFormIs ==
  ASSUME NEW s, IsSection(s), NEW p \in Nat, NEW form \in DOMAIN FormCode
  PROVE  /\ SafeIn(s, SkipForm(s, form, p))
         /\ SkipForm(s, form, p).status = "ok" => SkipForm(s, form, p).pos \in Nat
<1>1. CASE form # "indirect"
  BY <1>1, SkipDirectIs DEF SkipForm
<1>2. CASE form = "indirect"
  <2> DEFINE code == IndirectCode(s, p)
  <2>1. SafeIn(s, code) /\ (code.status = "ok" => code.pos \in Nat)
    BY IndirectIs
  <2>2. SkipForm(s, form, p) =
          IF code.status = "ok" THEN SkipDirect(s, FormOf(code.value), code.pos)
          ELSE Failed(code.status)
    BY <1>2 DEF SkipForm, Then
  <2>3. CASE code.status = "ok"
    BY <2>1, <2>2, <2>3, FormIs, SkipDirectIs
  <2>4. CASE code.status # "ok"
    <3> HIDE DEF code
    <3> QED
      BY <2>1, <2>2, <2>4 DEF Failed, SafeIn
  <2> QED
    BY <2>3, <2>4
<1> QED
  BY <1>1, <1>2

AttributeSpec == [name : STRING, form : DOMAIN FormCode]

\* One attribute more.
Another(s, spec, r) ==
  Then(r, LAMBDA a :
  Then(SkipForm(s, spec.form, a.pos), LAMBDA next : Got(Append(a.value, a.pos), next.pos)))
Found == {Failed(status) : status \in Statuses \ {"ok"}} \cup
         {Got(at, p) : at \in Seq(Nat), p \in Nat}

LEMMA FoundIs ==
  /\ \A at \in Seq(Nat), p \in Nat : Got(at, p) \in Found
  /\ \A status \in Statuses \ {"ok"} : Failed(status) \in Found
<1>1. ASSUME NEW at \in Seq(Nat), NEW p \in Nat PROVE Got(at, p) \in Found
  <2>1. Got(at, p) \in {Got(a, q) : a \in Seq(Nat), q \in Nat}
    OBVIOUS
  <2> QED
    BY <2>1 DEF Found
<1>2. ASSUME NEW status \in Statuses \ {"ok"} PROVE Failed(status) \in Found
  <2>1. Failed(status) \in {Failed(st) : st \in Statuses \ {"ok"}}
    OBVIOUS
  <2> QED
    BY <2>1 DEF Found
<1> QED
  BY <1>1, <1>2

LEMMA AnotherIs ==
  ASSUME NEW s, IsSection(s), NEW spec \in AttributeSpec, NEW r \in Found
  PROVE  /\ Another(s, spec, r) \in Found
         /\ SafeIn(s, r) => SafeIn(s, Another(s, spec, r))
         /\ Another(s, spec, r).status = "ok" =>
              r.status = "ok" /\ Len(Another(s, spec, r).value) = Len(r.value) + 1
<1> DEFINE next == SkipForm(s, spec.form, r.pos)
<1>1. CASE r.status # "ok"
  <2>1. Another(s, spec, r) = Failed(r.status)
    BY <1>1 DEF Another, Then
  <2>2. r.status \in Statuses
    BY DEF Found, Failed, Got, Statuses
  <2>3. Failed(r.status).status = r.status
    BY DEF Failed
  <2> QED
    BY <1>1, <2>1, <2>2, <2>3 DEF Found, SafeIn
<1>2. CASE r.status = "ok"
  <2>1. r.value \in Seq(Nat) /\ r.pos \in Nat
    <3>1. \A status \in Statuses \ {"ok"} : Failed(status).status # "ok"
      BY DEF Failed
    <3>2. PICK at \in Seq(Nat), p \in Nat : r = Got(at, p)
      BY <1>2, <3>1 DEF Found
    <3> QED
      BY <3>2 DEF Got
  <2>2. SafeIn(s, next) /\ (next.status = "ok" => next.pos \in Nat)
    BY <2>1, SkipFormIs DEF AttributeSpec
  <2>3. Another(s, spec, r) =
          IF next.status = "ok" THEN Got(Append(r.value, r.pos), next.pos) ELSE Failed(next.status)
    BY <1>2 DEF Another, Then
  <2> HIDE DEF next
  <2>4. CASE next.status = "ok"
    <3>1. Append(r.value, r.pos) \in Seq(Nat) /\ Len(Append(r.value, r.pos)) = Len(r.value) + 1
      BY <2>1
    <3>2. Another(s, spec, r) = Got(Append(r.value, r.pos), next.pos)
      BY <2>3, <2>4
    <3>3. Another(s, spec, r) \in Found
      BY <2>2, <2>4, <3>1, <3>2, FoundIs
    <3>4. SafeIn(s, Another(s, spec, r)) /\ Another(s, spec, r).value = Append(r.value, r.pos)
      BY <3>2 DEF Got, SafeIn, Statuses
    <3> QED
      BY <1>2, <3>1, <3>3, <3>4
  <2>5. CASE next.status # "ok"
    <3>1. Another(s, spec, r) = Failed(next.status) /\ Failed(next.status).status = next.status
      BY <2>3, <2>5 DEF Failed
    <3> QED
      BY <2>2, <2>5, <3>1 DEF Found, SafeIn
  <2> QED
    BY <2>4, <2>5
<1> QED
  BY <1>1, <1>2

\* Passing over attribute after attribute gives a position for each.
LEMMA PositionsAre ==
  ASSUME NEW s, IsSection(s), NEW specs \in Seq(AttributeSpec), NEW p \in Nat
  PROVE  /\ SafeIn(s, Positions(s, specs, p))
         /\ Positions(s, specs, p).status = "ok" =>
              /\ Positions(s, specs, p).value \in Seq(Nat)
              /\ Len(Positions(s, specs, p).value) = Len(specs)
<1> DEFINE n == Len(specs)
           body(f) == [k \in 0..Len(specs) |->
             IF k = 0 THEN Got(<< >>, p)
             ELSE Then(f[k - 1], LAMBDA r :
                  Then(SkipForm(s, specs[k].form, r.pos), LAMBDA next :
                    Got(Append(r.value, r.pos), next.pos)))]
           first == CHOOSE f : f = body(f)
           step == [k \in 1..n |-> [r \in Found |-> Another(s, specs[k], r)]]
           start == Got(<< >>, p)
           Good(k, r) == SafeIn(s, r) /\ (r.status = "ok" => Len(r.value) = k)
<1>1. Positions(s, specs, p) = first[n]
  BY DEF Positions
<1>2. n \in Nat /\ start \in Found /\ \A k \in 1..n : specs[k] \in AttributeSpec
  <2>1. << >> \in Seq(Nat)
    OBVIOUS
  <2>2. start \in Found
    BY <2>1, FoundIs
  <2> QED
    BY <2>2
<1>3. \A k \in 1..n : \A r \in Found : Another(s, specs[k], r) \in Found
  BY <1>2, AnotherIs
<1>4. PICK g : Steps(Found, start, step, n, g)
  <2>1. step \in [1..n -> [Found -> Found]]
    BY <1>3
  <2> HIDE DEF step, start, n
  <2> QED
    BY <1>2, <2>1, StepsExist
<1>5. /\ g \in [0..n -> Found]
      /\ \A k \in 0..n : g[k] = IF k = 0 THEN start ELSE Another(s, specs[k], g[k - 1])
  <2>1. g \in [0..n -> Found]
    BY <1>4 DEF Steps
  <2>2. ASSUME NEW k \in 0..n
        PROVE  g[k] = IF k = 0 THEN start ELSE Another(s, specs[k], g[k - 1])
    <3>1. k # 0 => k \in 1..n /\ k - 1 \in 0..n
      BY <1>2
    <3>2. k # 0 => g[k - 1] \in Found
      BY <2>1, <3>1
    <3>3. g[k] = IF k = 0 THEN start ELSE step[k][g[k - 1]]
      BY <1>4 DEF Steps
    <3> QED
      BY <3>1, <3>2, <3>3
  <2> QED
    BY <2>1, <2>2
<1>6. g = body(g)
  <2>1. g = [k \in 0..n |-> g[k]]
    BY <1>5
  <2>2. \A k \in 0..n : g[k] = body(g)[k]
    BY <1>5 DEF Another
  <2> QED
    BY <2>1, <2>2
<1>7. first = body(first)
  BY <1>6, Zenon
<1> HIDE DEF first
<1>8. \A k \in 0..n : first[k] = IF k = 0 THEN start ELSE Another(s, specs[k], first[k - 1])
  <2>1. \A k \in 0..n : body(first)[k] = IF k = 0 THEN start ELSE Another(s, specs[k], first[k - 1])
    BY DEF Another
  <2> HIDE DEF body
  <2> QED
    BY <1>7, <2>1
<1> HIDE DEF body
<1> DEFINE T == {k \in 0..n : ~(first[k] \in Found /\ Good(k, first[k]))}
<1>9. T = {}
  <2> SUFFICES ASSUME T # {} PROVE FALSE
    OBVIOUS
  <2>1. PICK k \in T : \A j \in T : k <= j
    <3>1. T \in SUBSET Nat
      OBVIOUS
    <3> HIDE DEF T
    <3> QED
      BY <3>1, Least
  <2>2. k # 0
    <3>1. start.status = "ok" /\ start.value = << >>
      BY DEF Got
    <3>2. Good(0, start)
      BY <3>1 DEF SafeIn, Statuses
    <3> HIDE DEF start, Good
    <3> QED
      BY <1>2, <1>8, <2>1, <3>2
  <2>3. k \in 1..n /\ k - 1 \in 0..n /\ k - 1 \notin T
    BY <1>2, <2>1, <2>2
  <2>4. first[k - 1] \in Found /\ Good(k - 1, first[k - 1])
    BY <2>3
  <2>5. first[k] = Another(s, specs[k], first[k - 1])
    BY <1>8, <2>2, <2>3
  <2> DEFINE r == first[k - 1]
             a == Another(s, specs[k], r)
  <2>6. /\ a \in Found /\ (SafeIn(s, r) => SafeIn(s, a))
        /\ a.status = "ok" => r.status = "ok" /\ Len(a.value) = Len(r.value) + 1
    BY <1>2, <2>3, <2>4, AnotherIs
  <2> HIDE DEF r, a
  <2>7. Good(k, a)
    BY <2>3, <2>4, <2>6 DEF r
  <2> QED
    BY <2>1, <2>5, <2>6, <2>7 DEF a, r
<1>10. first[n] \in Found /\ Good(n, first[n])
  <2>1. n \in 0..n /\ n \notin T
    BY <1>2, <1>9
  <2> QED
    BY <2>1
<1>11. first[n].status = "ok" => first[n].value \in Seq(Nat)
  <2>1. \A status \in Statuses \ {"ok"} : Failed(status).status # "ok"
    BY DEF Failed
  <2>2. \A at \in Seq(Nat), q \in Nat : Got(at, q).value = at
    BY DEF Got
  <2> QED
    BY <1>10, <2>1, <2>2 DEF Found
<1> QED
  BY <1>1, <1>10, <1>11

-----------------------------------------------------------------------------
(* DIEs and values.                                                        *)

\* No unit claims to be longer than the file; what then a reading of units does.
Honest == \A u \in DOMAIN file.units : Sec(u).end <= Len(Sec(u).data)
Safe(r) == r.status \in Statuses /\ (Honest => r.status # "wild")

IsDie(d) ==
  \/ d = NoDie
  \/ /\ d.unit \in DOMAIN file.units /\ d.offset \in Nat
     /\ d.code \in {0} \cup DOMAIN file.units[d.unit].abbrevs
     /\ d.attrs \in Seq(Nat) /\ Len(d.attrs) = Len(Specs(d))
IsValue(v) ==
  \/ v = NoValue
  \/ v.unit \in DOMAIN file.units /\ v.form \in DOMAIN FormCode /\ v.offset \in Nat

LEMMA FileIs ==
  ASSUME file \in Files
  PROVE  /\ IsSection(file.str) /\ IsSection(file.ranges)
         /\ DOMAIN file.units = 1..Len(file.units)
         /\ \A u \in DOMAIN file.units :
              /\ IsSection(Sec(u)) /\ file.units[u].offset \in Nat
              /\ file.units[u].root \in Nat /\ file.units[u].type \in Nat
              /\ file.units[u].dies \subseteq Nat
              /\ \A code \in DOMAIN file.units[u].abbrevs :
                   file.units[u].abbrevs[code] \in Seq(AttributeSpec)
         /\ \E u \in Compilation : file.units[u].offset = 0
<1>1. ASSUME NEW u \in DOMAIN file.units PROVE IsUnit(file.units[u])
  BY FilesAssumption
<1> QED
  BY <1>1, FilesAssumption DEF IsUnit, Sec, AttributeSpec, Compilation

LEMMA SafeHere ==
  ASSUME NEW u \in DOMAIN file.units, NEW r, SafeIn(Sec(u), r)
  PROVE  Safe(r)
  BY DEF SafeIn, Safe, Honest

LEMMA FailedIs ==
  ASSUME NEW status
  PROVE  /\ Failed(status).status = status
         /\ status \in Statuses /\ (Honest => status # "wild") => Safe(Failed(status))
  BY DEF Failed, Safe

LEMMA GotIs ==
  ASSUME NEW value, NEW pos
  PROVE  /\ Got(value, pos).status = "ok" /\ Got(value, pos).value = value
         /\ Got(value, pos).pos = pos /\ Safe(Got(value, pos))
  BY DEF Got, Safe, Statuses

\* die::read at any place of a unit.
LEMMA ReadDieIs ==
  ASSUME file \in Files, NEW u \in DOMAIN file.units, NEW off \in Nat
  PROVE  /\ Safe(ReadDie(u, off))
         /\ ReadDie(u, off).status = "ok" =>
              /\ IsDie(ReadDie(u, off).value) /\ ReadDie(u, off).value # NoDie
              /\ ReadDie(u, off).value.unit = u
<1> DEFINE s == Sec(u)
           c == Leb(s, off, FALSE)
           abbrevs == file.units[u].abbrevs
           d(code, at) == [unit |-> u, offset |-> off, code |-> code, attrs |-> at]
           at == Positions(s, abbrevs[c.value], c.pos)
<1>1. /\ IsSection(s) /\ DOMAIN file.units = 1..Len(file.units)
      /\ \A code \in DOMAIN abbrevs : abbrevs[code] \in Seq(AttributeSpec)
  BY FileIs
<1>2. /\ Safe(c)
      /\ c.status = "ok" => c.pos \in Nat /\ c.value \in Nat
  BY <1>1, LebIs, SafeHere
<1>3. ASSUME NEW code, NEW positions PROVE d(code, positions) # NoDie
  <2>1. u # 0
    BY <1>1
  <2> QED
    BY <2>1 DEF NoDie
<1>4. CASE c.status # "ok"
  <2>1. ReadDie(u, off) = Failed(c.status)
    BY <1>4 DEF ReadDie, Then
  <2> QED
    BY <1>2, <1>4, <2>1, FailedIs DEF Safe
<1>5. CASE c.status = "ok" /\ c.value = 0
  <2>1. ReadDie(u, off) = Got(d(0, << >>), 0)
    BY <1>5 DEF ReadDie, Then
  <2>2. IsDie(d(0, << >>))
    BY DEF IsDie, Specs
  <2> QED
    BY <1>3, <2>1, <2>2, GotIs
<1>6. CASE c.status = "ok" /\ c.value # 0 /\ c.value \notin DOMAIN abbrevs
  <2>1. ReadDie(u, off) = Failed("format_error")
    BY <1>6 DEF ReadDie, Then
  <2> QED
    BY <2>1, FailedIs DEF Statuses
<1>7. CASE c.status = "ok" /\ c.value # 0 /\ c.value \in DOMAIN abbrevs
  <2>1. /\ Safe(at)
        /\ at.status = "ok" => at.value \in Seq(Nat) /\ Len(at.value) = Len(abbrevs[c.value])
    BY <1>1, <1>2, <1>7, PositionsAre, SafeHere
  <2>2. ReadDie(u, off) = IF at.status = "ok" THEN Got(d(c.value, at.value), 0) ELSE Failed(at.status)
    BY <1>7 DEF ReadDie, Then
  <2>3. CASE at.status = "ok"
    <3>1. Specs(d(c.value, at.value)) = abbrevs[c.value]
      BY <1>7 DEF Specs
    <3> HIDE DEF at, c
    <3>2. IsDie(d(c.value, at.value))
      BY <1>7, <2>1, <2>3, <3>1 DEF IsDie
    <3>3. ReadDie(u, off) = Got(d(c.value, at.value), 0)
      BY <2>2, <2>3
    <3>4. d(c.value, at.value) # NoDie /\ d(c.value, at.value).unit = u
      BY <1>3
    <3> HIDE DEF d
    <3> QED
      BY <3>2, <3>3, <3>4, GotIs
  <2>4. CASE at.status # "ok"
    BY <2>1, <2>2, <2>4, FailedIs DEF Safe
  <2> QED
    BY <2>3, <2>4
<1> QED
  BY <1>4, <1>5, <1>6, <1>7

LEMMA SpecsAre ==
  ASSUME file \in Files, NEW d, IsDie(d)
  PROVE  Specs(d) \in Seq(AttributeSpec) /\ Len(d.attrs) = Len(Specs(d)) /\ d.attrs \in Seq(Nat)
<1>1. CASE d = NoDie
  BY <1>1 DEF NoDie, Specs
<1>2. CASE d # NoDie
  <2>1. /\ d.unit \in DOMAIN file.units /\ d.code \in {0} \cup DOMAIN file.units[d.unit].abbrevs
        /\ Len(d.attrs) = Len(Specs(d)) /\ d.attrs \in Seq(Nat)
    BY <1>2 DEF IsDie
  <2>2. Specs(d) \in Seq(AttributeSpec)
    BY <2>1, FileIs DEF Specs
  <2> QED
    BY <2>1, <2>2
<1> QED
  BY <1>1, <1>2

\* die::operator[] gives a value of the unit the DIE is in.
LEMMA AttributeIs ==
  ASSUME file \in Files, NEW d, IsDie(d), NEW name
  PROVE  /\ Safe(Attribute(d, name))
         /\ Attribute(d, name).status = "ok" =>
              /\ IsValue(Attribute(d, name).value) /\ Attribute(d, name).value # NoValue
              /\ Attribute(d, name).value.unit \in DOMAIN file.units
              /\ Attribute(d, name).value.unit = d.unit
<1> DEFINE S == {j \in DOMAIN Specs(d) : Specs(d)[j].name = name}
           k == Min(S)
           form == Specs(d)[k].form
           v(type, pos) == [unit |-> d.unit, name |-> name, form |-> form, type |-> type,
                            offset |-> pos]
           r == ResolveIndirect(Sec(d.unit), name, d.attrs[k])
<1>1. CASE ~Has(d, name)
  <2>1. Attribute(d, name) = Failed("out_of_range")
    BY <1>1 DEF Attribute
  <2> QED
    BY <2>1, FailedIs DEF Statuses
<1>2. CASE Has(d, name)
  <2>1. Specs(d) \in Seq(AttributeSpec) /\ Len(d.attrs) = Len(Specs(d)) /\ d.attrs \in Seq(Nat)
    BY SpecsAre
  <2>2. k \in DOMAIN Specs(d)
    <3>1. S # {} /\ S \in SUBSET Nat
      BY <1>2, <2>1 DEF Has
    <3> HIDE DEF S
    <3>2. Min(S) \in S
      BY <3>1, MinIs
    <3> QED
      BY <3>2 DEF S
  <2> HIDE DEF k
  <2>3. form \in DOMAIN FormCode /\ d.attrs[k] \in Nat
    <3>1. Specs(d)[k] \in AttributeSpec
      BY <2>1, <2>2
    <3> QED
      BY <2>1, <2>2, <3>1 DEF AttributeSpec
  <2>4. d.unit \in DOMAIN file.units /\ d.unit # 0
    <3>1. d # NoDie
      BY <1>2 DEF Has, Specs, NoDie
    <3> QED
      BY <3>1, FileIs DEF IsDie
  <2>5. ASSUME NEW type, NEW pos \in Nat
        PROVE  IsValue(v(type, pos)) /\ v(type, pos) # NoValue /\ v(type, pos).unit = d.unit
    <3>1. v(type, pos) # NoValue
      BY <2>4 DEF NoValue
    <3> HIDE DEF form
    <3> QED
      BY <2>3, <2>4, <2>5, <3>1 DEF IsValue
  <2>6. CASE form # "indirect"
    <3> DEFINE w == v(ResolveType[name, form], d.attrs[k])
    <3>1. Attribute(d, name) = Got(w, 0)
      BY <1>2, <2>6 DEF Attribute, k
    <3>2. IsValue(w) /\ w # NoValue /\ w.unit = d.unit
      BY <2>3, <2>5
    <3> HIDE DEF w
    <3> QED
      BY <2>4, <3>1, <3>2, GotIs
  <2>7. CASE form = "indirect"
    <3>1. Attribute(d, name) =
            IF r.status = "ok" THEN Got(v(r.value, r.pos), 0) ELSE Failed(r.status)
      BY <1>2, <2>7 DEF Attribute, Then, k
    <3>2. Safe(r) /\ (r.status = "ok" => r.pos \in Nat)
      <4> DEFINE code == IndirectCode(Sec(d.unit), d.attrs[k])
                 type == ResolveType[name, FormOf(code.value)]
      <4>1. Safe(code) /\ (code.status = "ok" => code.pos \in Nat)
        BY <2>3, <2>4, FileIs, IndirectIs, SafeHere
      <4>2. r = IF code.status = "ok"
                THEN IF type = "none" THEN Failed("format_error") ELSE Got(type, code.pos)
                ELSE Failed(code.status)
        BY DEF ResolveIndirect, Then
      <4> HIDE DEF code, type
      <4> QED
        BY <4>1, <4>2, FailedIs, GotIs DEF Safe, Statuses
    <3> HIDE DEF v, r, form
    <3>3. CASE r.status = "ok"
      <4>1. Attribute(d, name) = Got(v(r.value, r.pos), 0)
        BY <3>1, <3>3
      <4>2. IsValue(v(r.value, r.pos)) /\ v(r.value, r.pos) # NoValue /\ v(r.value, r.pos).unit = d.unit
        BY <2>5, <3>2, <3>3
      <4> QED
        BY <2>4, <4>1, <4>2, GotIs
    <3>4. CASE r.status # "ok"
      <4>1. Attribute(d, name) = Failed(r.status)
        BY <3>1, <3>4
      <4> QED
        BY <3>2, <3>4, <4>1, FailedIs DEF Safe
    <3> QED
      BY <3>3, <3>4
  <2> QED
    BY <2>6, <2>7
<1> QED
  BY <1>1, <1>2

-----------------------------------------------------------------------------
(* The methods of values.                                                  *)

LEMMA ValueIs ==
  ASSUME file \in Files, NEW v, IsValue(v), v # NoValue
  PROVE  /\ v.unit \in DOMAIN file.units /\ v.form \in DOMAIN FormCode /\ v.offset \in Nat
         /\ IsSection(Sec(v.unit))
  BY FileIs DEF IsValue

LEMMA MismatchIs == Mismatch.status = "type_mismatch" /\ Safe(Mismatch)
  BY FailedIs DEF Mismatch, Statuses

LEMMA ListedIs ==
  ASSUME NEW r, Safe(r)
  PROVE  /\ Safe(Listed(r))
         /\ Listed(r).status = "ok" => r.status = "ok" /\ Listed(r).value = <<r.value>>
<1>1. Listed(r) = IF r.status = "ok" THEN Got(<<r.value>>, r.pos) ELSE Failed(r.status)
  BY DEF Listed, Then
<1>2. CASE r.status = "ok"
  BY <1>1, <1>2, GotIs
<1>3. CASE r.status # "ok"
  BY <1>1, <1>3, FailedIs DEF Safe
<1> QED
  BY <1>2, <1>3

\* A number of some bytes.
LEMMA FixedHere ==
  ASSUME file \in Files, NEW v, IsValue(v), v # NoValue, NEW n \in Nat
  PROVE  /\ Safe(Fixed(Sec(v.unit), v.offset, n))
         /\ Fixed(Sec(v.unit), v.offset, n).status = "ok" =>
              Fixed(Sec(v.unit), v.offset, n).value \in Nat
  BY ValueIs, FixedIs, SafeHere

LEMMA LebHere ==
  ASSUME file \in Files, NEW v, IsValue(v), v # NoValue, NEW signed
  PROVE  /\ Safe(Leb(Sec(v.unit), v.offset, signed))
         /\ Leb(Sec(v.unit), v.offset, signed).status = "ok" /\ ~signed =>
              Leb(Sec(v.unit), v.offset, signed).value \in Nat
  BY ValueIs, LebIs, SafeHere

LEMMA AsAddressIs ==
  ASSUME file \in Files, NEW v, IsValue(v), v # NoValue
  PROVE  /\ Safe(AsAddress(v))
         /\ AsAddress(v).status = "ok" => AsAddress(v).value[1] \in 0..(M - 1)
<1> DEFINE a == Address(Sec(v.unit), v.offset)
<1>1. Safe(a) /\ (a.status = "ok" => a.value \in 0..(M - 1))
  BY ValueIs, AddressIs, SafeHere
<1>2. CASE v.form = "addr"
  <2>1. AsAddress(v) = Listed(a)
    BY <1>2 DEF AsAddress
  <2> HIDE DEF a
  <2> QED
    BY <1>1, <2>1, ListedIs
<1>3. CASE v.form # "addr"
  BY <1>3, MismatchIs DEF AsAddress
<1> QED
  BY <1>2, <1>3

LEMMA AsExprlocIs ==
  ASSUME file \in Files, NEW v, IsValue(v), v # NoValue
  PROVE  /\ Safe(AsExprloc(v))
         /\ AsExprloc(v).status = "ok" =>
              AsExprloc(v).value[1] = AsExprloc(v).pos /\ AsExprloc(v).pos \in Nat
<1> DEFINE length == BlockLength(Sec(v.unit), v.form, v.offset)
<1>1. CASE v.form \in Blocks
  <2>1. Safe(length) /\ (length.status = "ok" => length.pos \in Nat)
    BY <1>1, ValueIs, BlockLengthIs, SafeHere
  <2>2. AsExprloc(v) =
          IF length.status = "ok" THEN Got(<<length.pos, length.value>>, length.pos)
          ELSE Failed(length.status)
    BY <1>1 DEF AsExprloc, Then
  <2> HIDE DEF length
  <2>3. CASE length.status = "ok"
    BY <2>1, <2>2, <2>3, GotIs
  <2>4. CASE length.status # "ok"
    BY <2>1, <2>2, <2>4, FailedIs DEF Safe
  <2> QED
    BY <2>3, <2>4
<1>2. CASE v.form \notin Blocks
  BY <1>2, MismatchIs DEF AsExprloc
<1> QED
  BY <1>1, <1>2

\* What as_block returns is inside of the unit.
LEMMA AsBlockIs ==
  ASSUME file \in Files, NEW v, IsValue(v), v # NoValue
  PROVE  /\ Safe(AsBlock(v))
         /\ AsBlock(v).status = "ok" =>
              AsBlock(v).value[1] + AsBlock(v).value[2] <= Sec(v.unit).end
<1> DEFINE block == AsExprloc(v)
<1>1. Safe(block) /\ (block.status = "ok" => block.value[1] = block.pos)
  BY AsExprlocIs
<1>2. AsBlock(v) = IF block.status # "ok" THEN Failed(block.status)
                   ELSE IF Fits(Sec(v.unit).end, block.pos, block.value[2]) THEN block
                   ELSE Failed("underflow")
  BY DEF AsBlock, Then
<1> HIDE DEF block
<1>3. CASE block.status # "ok"
  BY <1>1, <1>2, <1>3, FailedIs DEF Safe
<1>4. CASE block.status = "ok" /\ Fits(Sec(v.unit).end, block.pos, block.value[2])
  BY <1>1, <1>2, <1>4 DEF Fits
<1>5. CASE block.status = "ok" /\ ~Fits(Sec(v.unit).end, block.pos, block.value[2])
  BY <1>2, <1>5, FailedIs DEF Statuses
<1> QED
  BY <1>3, <1>4, <1>5

LEMMA AsUconstantIs ==
  ASSUME file \in Files, NEW v, IsValue(v), v # NoValue
  PROVE  /\ Safe(AsUconstant(v))
         /\ AsUconstant(v).status = "ok" => AsUconstant(v).value[1] \in Nat
<1> DEFINE n == Size(Sec(v.unit), v.form)
           f == Fixed(Sec(v.unit), v.offset, n)
           c == Leb(Sec(v.unit), v.offset, FALSE)
<1>1. CASE v.form \in {"data1", "data2", "data4", "data8"}
  <2>1. AsUconstant(v) = Listed(f)
    BY <1>1 DEF AsUconstant
  <2>2. n \in Nat
    BY <1>1 DEF Size
  <2>3. Safe(f) /\ (f.status = "ok" => f.value \in Nat)
    BY <2>2, FixedHere
  <2> HIDE DEF f
  <2> QED
    BY <2>1, <2>3, ListedIs
<1>2. CASE v.form = "udata"
  <2>1. AsUconstant(v) = Listed(c)
    BY <1>2 DEF AsUconstant
  <2>2. Safe(c) /\ (c.status = "ok" => c.value \in Nat)
    BY LebHere
  <2> HIDE DEF c
  <2> QED
    BY <2>1, <2>2, ListedIs
<1>3. CASE v.form \notin {"data1", "data2", "data4", "data8", "udata"}
  BY <1>3, MismatchIs DEF AsUconstant
<1> QED
  BY <1>1, <1>2, <1>3

LEMMA AsSconstantIs ==
  ASSUME file \in Files, NEW v, IsValue(v), v # NoValue
  PROVE  Safe(AsSconstant(v))
<1> DEFINE n == Size(Sec(v.unit), v.form)
           f == Fixed(Sec(v.unit), v.offset, n)
<1>1. CASE v.form \in {"data1", "data2", "data4", "data8"}
  <2>1. AsSconstant(v) =
          IF f.status = "ok" THEN Got(<<Signed(f.value, Base^n)>>, f.pos) ELSE Failed(f.status)
    BY <1>1 DEF AsSconstant, Then
  <2>2. n \in Nat
    BY <1>1 DEF Size
  <2>3. Safe(f)
    BY <2>2, FixedHere
  <2> HIDE DEF f
  <2> QED
    BY <2>1, <2>3, GotIs, FailedIs DEF Safe
<1>2. CASE v.form = "sdata"
  <2>1. AsSconstant(v) = Listed(Leb(Sec(v.unit), v.offset, TRUE))
    BY <1>2 DEF AsSconstant
  <2> QED
    BY <2>1, LebHere, ListedIs
<1>3. CASE v.form \notin {"data1", "data2", "data4", "data8", "sdata"}
  BY <1>3, MismatchIs DEF AsSconstant
<1> QED
  BY <1>1, <1>2, <1>3

LEMMA AsFlagIs ==
  ASSUME file \in Files, NEW v, IsValue(v), v # NoValue
  PROVE  Safe(AsFlag(v))
<1> DEFINE f == Fixed(Sec(v.unit), v.offset, 1)
<1>1. CASE v.form = "flag"
  <2>1. AsFlag(v) = IF f.status = "ok" THEN Got(<<IF f.value = 0 THEN 0 ELSE 1>>, f.pos)
                    ELSE Failed(f.status)
    BY <1>1 DEF AsFlag, Then
  <2>2. Safe(f)
    BY FixedHere
  <2> HIDE DEF f
  <2> QED
    BY <2>1, <2>2, GotIs, FailedIs DEF Safe
<1>2. CASE v.form # "flag"
  BY <1>2, GotIs, MismatchIs DEF AsFlag
<1> QED
  BY <1>1, <1>2

LEMMA AsSecOffsetIs ==
  ASSUME file \in Files, NEW v, IsValue(v), v # NoValue
  PROVE  /\ Safe(AsSecOffset(v))
         /\ AsSecOffset(v).status = "ok" => AsSecOffset(v).value[1] \in Nat
<1> DEFINE n == Size(Sec(v.unit), v.form)
           f == Fixed(Sec(v.unit), v.offset, n)
<1>1. CASE v.form \in {"data4", "data8", "sec_offset"}
  <2>1. AsSecOffset(v) = Listed(f)
    BY <1>1 DEF AsSecOffset
  <2>2. n \in Nat
    BY <1>1, ValueIs DEF Size, IsSection
  <2>3. Safe(f) /\ (f.status = "ok" => f.value \in Nat)
    BY <2>2, FixedHere
  <2> HIDE DEF f
  <2> QED
    BY <2>1, <2>3, ListedIs
<1>2. CASE v.form \notin {"data4", "data8", "sec_offset"}
  BY <1>2, MismatchIs DEF AsSecOffset
<1> QED
  BY <1>1, <1>2

\* A string may begin where no one has looked before: behind the end of its unit,
\* or wherever an offset leads.
LEMMA AsCStrIs ==
  ASSUME file \in Files, NEW v, IsValue(v), v # NoValue
  PROVE  /\ AsCStr(v).status \in Statuses
         /\ AsCStr(v).status = "wild" =>
              \/ ~Honest
              \/ v.form = "string" /\ v.offset > Sec(v.unit).end
              \/ v.form = "strp"
<1>1. ASSUME NEW s, IsSection(s), NEW p \in Nat
      PROVE  /\ Characters(s, p).status \in Statuses
             /\ Characters(s, p).status = "wild" => p > s.end \/ s.end > Len(s.data)
  <2> DEFINE c == CStr(s, p)
  <2>1. c.status \in Statuses /\ (c.status = "wild" => p > s.end \/ s.end > Len(s.data))
    BY <1>1, CStrIs
  <2>2. Characters(s, p) = IF c.status = "ok" THEN Got(SubSeq(s.data, p + 1, p + c.value), c.pos)
                           ELSE Failed(c.status)
    BY DEF Characters, Then
  <2> HIDE DEF c
  <2> QED
    BY <2>1, <2>2, GotIs, FailedIs
<1>2. CASE v.form = "string"
  <2>1. AsCStr(v) = Characters(Sec(v.unit), v.offset)
    BY <1>2 DEF AsCStr
  <2>2. Sec(v.unit).end > Len(Sec(v.unit).data) => ~Honest
    <3>1. IsSection(Sec(v.unit)) /\ v.unit \in DOMAIN file.units
      BY ValueIs
    <3> QED
      BY <3>1 DEF Honest, IsSection
  <2> QED
    BY <1>1, <1>2, <2>1, <2>2, ValueIs
<1>3. CASE v.form = "strp"
  <2> DEFINE s == Sec(v.unit)
             off == Fixed(s, v.offset, s.width)
  <2>1. Safe(off) /\ (off.status = "ok" => off.value \in Nat)
    BY ValueIs, FixedHere DEF IsSection
  <2>2. AsCStr(v) = IF off.status # "ok" THEN Failed(off.status)
                    ELSE IF file.str.data = << >> THEN Failed("format_error")
                    ELSE Characters(file.str, off.value)
    BY <1>3 DEF AsCStr, Offset, Then
  <2> HIDE DEF off
  <2>3. CASE off.status # "ok"
    BY <1>3, <2>1, <2>2, <2>3, FailedIs DEF Safe
  <2>4. CASE off.status = "ok" /\ file.str.data = << >>
    BY <2>2, <2>4, FailedIs DEF Statuses
  <2>5. CASE off.status = "ok" /\ file.str.data # << >>
    BY <1>1, <1>3, <2>1, <2>2, <2>5, FileIs
  <2> QED
    BY <2>3, <2>4, <2>5
<1>4. CASE v.form \notin {"string", "strp"}
  BY <1>4, MismatchIs DEF AsCStr, Safe
<1> QED
  BY <1>2, <1>3, <1>4

LEMMA MaxIs ==
  ASSUME NEW n \in Nat, NEW S \in SUBSET (1..n), S # {}
  PROVE  Max(S) \in S
<1> DEFINE T == {n - x : x \in S}
<1>1. T \in SUBSET Nat /\ T # {}
  <2>1. \A x \in S : n - x \in Nat
    OBVIOUS
  <2>2. PICK x \in S : TRUE
    OBVIOUS
  <2>3. n - x \in T
    OBVIOUS
  <2> QED
    BY <2>1, <2>3
<1>2. PICK t \in T : \A y \in T : t <= y
  <2> HIDE DEF T
  <2> QED
    BY <1>1, Least
<1>3. PICK x \in S : t = n - x
  BY <1>2
<1>4. \A y \in S : x >= y
  <2> TAKE y \in S
  <2>1. n - y \in T
    OBVIOUS
  <2>2. n - x <= n - y
    BY <1>2, <1>3, <2>1
  <2> QED
    BY <2>2
<1> QED
  BY <1>4 DEF Max

\* A reference leads to a place in some unit.
LEMMA RefersToIs ==
  ASSUME file \in Files, NEW v, IsValue(v), v # NoValue, NEW off \in Nat
  PROVE  /\ Safe(RefersTo(v, off))
         /\ RefersTo(v, off).status = "ok" =>
              RefersTo(v, off).value[1] \in DOMAIN file.units /\ RefersTo(v, off).value[2] \in Nat
<1> DEFINE before == {u \in Compilation : file.units[u].offset <= off}
           types == {u \in DOMAIN file.units \ Compilation : file.units[u].signature = off}
<1>1. /\ DOMAIN file.units = 1..Len(file.units)
      /\ \A u \in DOMAIN file.units : file.units[u].offset \in Nat /\ file.units[u].type \in Nat
      /\ \E u \in Compilation : file.units[u].offset = 0
      /\ Compilation \subseteq DOMAIN file.units
  BY FileIs DEF Compilation
<1>2. \E n \in Nat : DOMAIN file.units = 1..n
  <2>1. CASE Len(file.units) \in Nat
    BY <1>1, <2>1
  <2> QED
    BY <1>1, <2>1
<1>3. before # {} /\ before \in SUBSET DOMAIN file.units
  BY <1>1
<1>4. Max(before) \in before
  BY <1>2, <1>3, MaxIs
<1>5. types # {} => Max(types) \in DOMAIN file.units
  <2>1. types \in SUBSET DOMAIN file.units
    OBVIOUS
  <2> HIDE DEF types
  <2> QED
    BY <1>2, <2>1, MaxIs
<1>6. CASE v.form = "ref_addr"
  <2>1. RefersTo(v, off) = Got(<<Max(before), off - file.units[Max(before)].offset>>, 0)
    BY <1>6 DEF RefersTo
  <2>2. Max(before) \in DOMAIN file.units /\ off - file.units[Max(before)].offset \in Nat
    <3>1. file.units[Max(before)].offset <= off /\ Max(before) \in DOMAIN file.units
      BY <1>3, <1>4
    <3> HIDE DEF before
    <3> QED
      BY <1>1, <3>1
  <2> HIDE DEF before
  <2> QED
    BY <2>1, <2>2, GotIs
<1>7. CASE v.form = "ref_sig8"
  <2>1. RefersTo(v, off) = IF types = {} THEN Failed("format_error")
                           ELSE Got(<<Max(types), file.units[Max(types)].type>>, 0)
    BY <1>7 DEF RefersTo
  <2> HIDE DEF types
  <2>2. CASE types = {}
    BY <2>1, <2>2, FailedIs DEF Statuses
  <2>3. CASE types # {}
    BY <1>1, <1>5, <2>1, <2>3, GotIs
  <2> QED
    BY <2>2, <2>3
<1>8. CASE v.form \notin {"ref_addr", "ref_sig8"}
  <2>1. RefersTo(v, off) = Got(<<v.unit, off>>, 0)
    BY <1>8 DEF RefersTo
  <2> QED
    BY <2>1, ValueIs, GotIs
<1> QED
  BY <1>6, <1>7, <1>8

\* A reference leads to a DIE, or to an exception.
LEMMA AsReferenceIs ==
  ASSUME file \in Files, NEW v, IsValue(v), v # NoValue
  PROVE  /\ Safe(AsReference(v))
         /\ AsReference(v).status = "ok" => IsDie(AsReference(v).value) /\ AsReference(v).value # NoDie
<1> DEFINE off == IF v.form = "ref_udata" THEN Leb(Sec(v.unit), v.offset, FALSE)
                  ELSE Fixed(Sec(v.unit), v.offset, Size(Sec(v.unit), v.form))
           place == RefersTo(v, off.value)
           d == ReadDie(place.value[1], place.value[2])
<1>1. CASE v.form \notin References
  BY <1>1, MismatchIs DEF AsReference
<1>2. CASE v.form \in References
  <2>1. Safe(off) /\ (off.status = "ok" => off.value \in Nat)
    <3>1. CASE v.form = "ref_udata"
      BY <3>1, LebHere
    <3>2. CASE v.form # "ref_udata"
      <4>1. Size(Sec(v.unit), v.form) \in Nat
        BY <1>2, <3>2, ValueIs DEF Size, References, IsSection
      <4> QED
        BY <3>2, <4>1, FixedHere
    <3> QED
      BY <3>1, <3>2
  <2>2. AsReference(v) = IF off.status # "ok" THEN Failed(off.status)
                         ELSE IF place.status # "ok" THEN Failed(place.status)
                         ELSE d
    BY <1>2 DEF AsReference, Then
  <2> HIDE DEF off
  <2>3. CASE off.status # "ok"
    BY <2>1, <2>2, <2>3, FailedIs DEF Safe
  <2>4. CASE off.status = "ok"
    <3>1. /\ Safe(place)
          /\ place.status = "ok" => place.value[1] \in DOMAIN file.units /\ place.value[2] \in Nat
      BY <2>1, <2>4, RefersToIs
    <3> HIDE DEF place
    <3>2. place.status = "ok" => Safe(d) /\ (d.status = "ok" => IsDie(d.value) /\ d.value # NoDie)
      BY <3>1, ReadDieIs
    <3> HIDE DEF d
    <3> QED
      BY <2>2, <2>4, <3>1, <3>2, FailedIs DEF Safe
  <2> QED
    BY <2>3, <2>4
<1> QED
  BY <1>1, <1>2

\* What AnswersInside needs to know of the methods.
LEMMA ReadingIs ==
  ASSUME file \in Files, NEW v, IsValue(v), v # NoValue, NEW how \in Readings
  PROVE  /\ Reading(v, how).status \in Statuses
         /\ Reading(v, how).status = "wild" =>
              \/ ~Honest
              \/ v.form = "string" /\ v.offset > Sec(v.unit).end
              \/ v.form = "strp" /\ AsCStr(v).status = "wild"
         /\ how = "block" /\ Reading(v, how).status = "ok" =>
              Reading(v, how).value[1] + Reading(v, how).value[2] <= Sec(v.unit).end
<1>1. CASE how = "string"
  <2>1. Reading(v, how) = AsCStr(v)
    BY <1>1 DEF Reading
  <2> QED
    BY <1>1, <2>1, AsCStrIs
<1>2. CASE how = "block"
  <2>1. Reading(v, how) = AsBlock(v)
    BY <1>2 DEF Reading
  <2> QED
    BY <2>1, AsBlockIs DEF Safe
<1>3. CASE how \notin {"string", "block"}
  <2>1. Safe(Reading(v, how))
    <3>1. CASE how = "address"
      BY <3>1, AsAddressIs DEF Reading
    <3>2. CASE how = "uconstant"
      BY <3>2, AsUconstantIs DEF Reading
    <3>3. CASE how = "sconstant"
      BY <3>3, AsSconstantIs DEF Reading
    <3>4. CASE how = "exprloc"
      BY <3>4, AsExprlocIs DEF Reading
    <3>5. CASE how = "flag"
      BY <3>5, AsFlagIs DEF Reading
    <3>6. CASE how = "sec_offset"
      BY <3>6, AsSecOffsetIs DEF Reading
    <3> QED
      BY <1>3, <3>1, <3>2, <3>3, <3>4, <3>5, <3>6 DEF Readings
  <2> QED
    BY <1>3, <2>1 DEF Safe
<1> QED
  BY <1>1, <1>2, <1>3

-----------------------------------------------------------------------------
(* From DIE to DIE.                                                        *)

LEMMA LedIs ==
  ASSUME file \in Files, NEW d, IsDie(d), NEW via
  PROVE  Safe(Led(d, via)) /\ (Led(d, via).status = "ok" => IsDie(Led(d, via).value))
<1> DEFINE a == Attribute(d, via)
           r == AsReference(a.value)
<1>1. Safe(a) /\ (a.status = "ok" => IsValue(a.value) /\ a.value # NoValue)
  BY AttributeIs
<1>2. Led(d, via) = IF a.status = "ok" THEN r ELSE Failed(a.status)
  BY DEF Led, Then
<1> HIDE DEF a
<1>3. CASE a.status = "ok"
  BY <1>1, <1>2, <1>3, AsReferenceIs
<1>4. CASE a.status # "ok"
  BY <1>1, <1>2, <1>4, FailedIs DEF Safe
<1> QED
  BY <1>3, <1>4

LEMMA CompletedIs ==
  ASSUME file \in Files, NEW d, IsDie(d), NEW name
  PROVE  Safe(Completed(d, name))
<1> DEFINE e == Led(d, "specification")
<1>1. Safe(e) /\ (e.status = "ok" => IsDie(e.value))
  BY LedIs
<1>2. Completed(d, name) =
        IF ~Has(d, "specification") THEN Got(NoValue, 0)
        ELSE IF e.status # "ok" THEN Failed(e.status)
        ELSE IF Has(e.value, name) THEN Attribute(e.value, name) ELSE Got(NoValue, 0)
  BY DEF Completed, Then
<1> HIDE DEF e
<1>3. e.status = "ok" => Safe(Attribute(e.value, name))
  BY <1>1, AttributeIs
<1>4. e.status # "ok" => Safe(Failed(e.status))
  BY <1>1, FailedIs DEF Safe
<1>5. Safe(Got(NoValue, 0))
  BY GotIs
<1> QED
  BY <1>2, <1>3, <1>4, <1>5

LEMMA ResolveIs ==
  ASSUME file \in Files, NEW d, IsDie(d), NEW name
  PROVE  Safe(Resolve(d, name))
<1> DEFINE o == Led(d, "abstract_origin")
<1>1. Safe(o) /\ (o.status = "ok" => IsDie(o.value))
  BY LedIs
<1>2. Resolve(d, name) =
        IF Has(d, name) THEN Attribute(d, name)
        ELSE IF ~Has(d, "abstract_origin") THEN Completed(d, name)
        ELSE IF o.status # "ok" THEN Failed(o.status)
        ELSE IF Has(o.value, name) THEN Attribute(o.value, name) ELSE Completed(o.value, name)
  BY DEF Resolve, Then
<1> HIDE DEF o
<1>3. Safe(Attribute(d, name)) /\ Safe(Completed(d, name))
  BY AttributeIs, CompletedIs
<1>4. o.status = "ok" => Safe(Attribute(o.value, name)) /\ Safe(Completed(o.value, name))
  BY <1>1, AttributeIs, CompletedIs
<1>5. o.status # "ok" => Safe(Failed(o.status))
  BY <1>1, FailedIs DEF Safe
<1> QED
  BY <1>2, <1>3, <1>4, <1>5

-----------------------------------------------------------------------------
(* From a DIE to a list.                                                   *)

\* A reading that is an address, when it is anything.
IsAddress(r) == Safe(r) /\ (r.status = "ok" => r.value[1] \in 0..(M - 1))

IsList(l) ==
  \/ l = Empty
  \/ /\ l.addr_size \in Nat /\ l.start \in Nat /\ l.base \in 0..(M - 1)
     /\ l.memory \in Seq(Bytes)

LEMMA LowPcIs ==
  ASSUME file \in Files, NEW d, IsDie(d)
  PROVE  IsAddress(LowPc(d))
<1> DEFINE a == Attribute(d, "low_pc")
           r == AsAddress(a.value)
<1>1. Safe(a) /\ (a.status = "ok" => IsValue(a.value) /\ a.value # NoValue)
  BY AttributeIs
<1>2. LowPc(d) = IF a.status = "ok" THEN r ELSE Failed(a.status)
  BY DEF LowPc, Then
<1> HIDE DEF a
<1>3. CASE a.status = "ok"
  BY <1>1, <1>2, <1>3, AsAddressIs DEF IsAddress
<1>4. CASE a.status # "ok"
  BY <1>1, <1>2, <1>4, FailedIs DEF Safe, IsAddress
<1> QED
  BY <1>3, <1>4

\* Addresses wrap around.
LEMMA Wrapped == \A x, y \in Nat : (x + y) % M \in 0..(M - 1)
  BY MIs

LEMMA HighPcIs ==
  ASSUME file \in Files, NEW d, IsDie(d)
  PROVE  IsAddress(HighPc(d))
<1> DEFINE a == Attribute(d, "high_pc")
           low == LowPc(d)
           size == AsUconstant(a.value)
           sum == Got(<<(low.value[1] + size.value[1]) % M>>, 0)
           failed(r) == Failed(r.status)
<1>1. Safe(a) /\ (a.status = "ok" => IsValue(a.value) /\ a.value # NoValue)
  BY AttributeIs
<1>2. CASE a.status # "ok"
  <2>1. HighPc(d) = failed(a)
    BY <1>2 DEF HighPc, Then
  <2> QED
    BY <1>1, <1>2, <2>1, FailedIs DEF Safe, IsAddress
<1>3. CASE a.status = "ok" /\ a.value.type = "address"
  <2>1. HighPc(d) = AsAddress(a.value)
    BY <1>3 DEF HighPc, Then
  <2> QED
    BY <1>1, <1>3, <2>1, AsAddressIs DEF IsAddress
<1>4. CASE a.status = "ok" /\ a.value.type \in {"constant", "uconstant"}
  <2>1. HighPc(d) = IF low.status # "ok" THEN failed(low)
                    ELSE IF size.status # "ok" THEN failed(size) ELSE sum
    BY <1>4 DEF HighPc, Then
  <2>2. IsAddress(low)
    BY LowPcIs
  <2>3. Safe(size) /\ (size.status = "ok" => size.value[1] \in Nat)
    BY <1>1, <1>4, AsUconstantIs
  <2> HIDE DEF low, size
  <2>4. CASE low.status # "ok"
    BY <2>1, <2>2, <2>4, FailedIs DEF Safe, IsAddress
  <2>5. CASE low.status = "ok" /\ size.status # "ok"
    BY <2>1, <2>3, <2>5, FailedIs DEF Safe, IsAddress
  <2>6. CASE low.status = "ok" /\ size.status = "ok"
    <3>1. (low.value[1] + size.value[1]) % M \in 0..(M - 1)
      <4>1. low.value[1] \in Nat /\ size.value[1] \in Nat
        BY <2>2, <2>3, <2>6, MIs DEF IsAddress
      <4> QED
        BY <4>1, Wrapped
    <3>2. HighPc(d) = sum
      BY <2>1, <2>6
    <3> QED
      BY <3>1, <3>2, GotIs DEF IsAddress
  <2> QED
    BY <2>4, <2>5, <2>6
<1>5. CASE a.status = "ok" /\ a.value.type \notin {"address", "constant", "uconstant"}
  <2>1. HighPc(d) = Failed("format_error")
    BY <1>5 DEF HighPc, Then
  <2> QED
    BY <2>1, FailedIs DEF Statuses, IsAddress
<1> QED
  BY <1>2, <1>3, <1>4, <1>5

LEMMA AsRangelistIs ==
  ASSUME file \in Files, NEW v, IsValue(v), v # NoValue, NEW of
  PROVE  /\ Safe(AsRangelist(v, of))
         /\ AsRangelist(v, of).status = "ok" => IsList(AsRangelist(v, of).value)
<1> DEFINE off == AsSecOffset(v)
           root == ReadDie(v.unit, file.units[v.unit].root)
           base == IF Has(root.value, "low_pc") THEN LowPc(root.value) ELSE Got(<<0>>, 0)
           l == InSection(off.value[1], Sec(v.unit).addr_size, base.value[1], of)
<1>1. Safe(off) /\ (off.status = "ok" => off.value[1] \in Nat)
  BY AsSecOffsetIs
<1>2. Safe(root) /\ (root.status = "ok" => IsDie(root.value))
  BY ValueIs, FileIs, ReadDieIs
<1>3. root.status = "ok" => IsAddress(base)
  <2>1. root.status = "ok" => IsAddress(LowPc(root.value))
    BY <1>2, LowPcIs
  <2>2. IsAddress(Got(<<0>>, 0))
    BY GotIs, MIs DEF IsAddress
  <2> QED
    BY <2>1, <2>2
<1>4. AsRangelist(v, of) =
        IF off.status # "ok" THEN Failed(off.status)
        ELSE IF root.status # "ok" THEN Failed(root.status)
        ELSE IF base.status # "ok" THEN Failed(base.status)
        ELSE IF file.ranges.data = << >> THEN Failed("format_error") ELSE Got(l, 0)
  BY DEF AsRangelist, Then
<1>5. Sec(v.unit).addr_size \in Nat
  BY ValueIs DEF IsSection
<1> HIDE DEF off, root, base
<1>6. CASE off.status # "ok"
  BY <1>1, <1>4, <1>6, FailedIs DEF Safe
<1>7. CASE off.status = "ok" /\ root.status # "ok"
  BY <1>2, <1>4, <1>7, FailedIs DEF Safe
<1>8. CASE off.status = "ok" /\ root.status = "ok" /\ base.status # "ok"
  BY <1>3, <1>4, <1>8, FailedIs DEF Safe, IsAddress
<1>9. CASE off.status = "ok" /\ root.status = "ok" /\ base.status = "ok"
  <2>1. CASE file.ranges.data = << >>
    BY <1>4, <1>9, <2>1, FailedIs DEF Statuses
  <2>2. CASE file.ranges.data # << >>
    <3>1. AsRangelist(v, of) = Got(l, 0)
      BY <1>4, <1>9, <2>2
    <3>2. /\ l.addr_size = Sec(v.unit).addr_size /\ l.start = off.value[1]
          /\ l.base = base.value[1] /\ l.memory = << >>
      BY DEF InSection
    <3>3. << >> \in Seq(Bytes)
      OBVIOUS
    <3> HIDE DEF l
    <3>4. IsList(l)
      BY <1>1, <1>3, <1>5, <1>9, <3>2, <3>3 DEF IsAddress, IsList
    <3> QED
      BY <3>1, <3>4, GotIs
  <2> QED
    BY <2>1, <2>2
<1> QED
  BY <1>6, <1>7, <1>8, <1>9

\* The bytes of an address in memory.
LEMMA WordBytesAre ==
  ASSUME NEW x \in Nat
  PROVE  WordBytes(x) \in [1..8 -> Bytes]
<1> DEFINE body(f) == [i \in 0..7 |-> IF i = 0 THEN x ELSE f[i - 1] \div Base]
           rest == CHOOSE f : f = body(f)
           step == [i \in 1..7 |-> [y \in Nat |-> y \div Base]]
<1>1. Base \in Nat /\ Base > 0
  BY BaseAssumption
<1>2. \A y \in Nat : y \div Base \in Nat /\ y % Base \in Bytes
  BY <1>1 DEF Bytes
<1>3. PICK g : Steps(Nat, x, step, 7, g)
  <2>1. step \in [1..7 -> [Nat -> Nat]]
    BY <1>2
  <2> HIDE DEF step
  <2> QED
    BY <2>1, StepsExist
<1>4. g \in [0..7 -> Nat] /\ \A i \in 0..7 : g[i] = IF i = 0 THEN x ELSE g[i - 1] \div Base
  <2>1. g \in [0..7 -> Nat]
    BY <1>3 DEF Steps
  <2>2. ASSUME NEW i \in 0..7 PROVE g[i] = IF i = 0 THEN x ELSE g[i - 1] \div Base
    <3>1. i # 0 => i \in 1..7 /\ i - 1 \in 0..7 /\ g[i - 1] \in Nat
      BY <2>1
    <3>2. g[i] = IF i = 0 THEN x ELSE step[i][g[i - 1]]
      BY <1>3 DEF Steps
    <3> QED
      BY <3>1, <3>2
  <2> QED
    BY <2>1, <2>2
<1>5. g = body(g)
  <2>1. g = [i \in 0..7 |-> g[i]]
    BY <1>4
  <2>2. \A i \in 0..7 : g[i] = body(g)[i]
    BY <1>4
  <2> QED
    BY <2>1, <2>2
<1>6. rest = body(rest)
  BY <1>5, Zenon
<1>7. WordBytes(x) = [i \in 1..8 |-> rest[i - 1] % Base]
  BY DEF WordBytes
<1> HIDE DEF rest
<1>8. \A i \in 0..7 : rest[i] = IF i = 0 THEN x ELSE rest[i - 1] \div Base
  <2>1. \A i \in 0..7 : body(rest)[i] = IF i = 0 THEN x ELSE rest[i - 1] \div Base
    OBVIOUS
  <2> HIDE DEF body
  <2> QED
    BY <1>6, <2>1
<1>9. \A i \in 0..7 : rest[i] \in Nat
  <2>0. rest[0] \in Nat
    BY <1>8
  <2>1. rest[1] \in Nat
    BY <1>2, <1>8, <2>0
  <2>2. rest[2] \in Nat
    BY <1>2, <1>8, <2>1
  <2>3. rest[3] \in Nat
    BY <1>2, <1>8, <2>2
  <2>4. rest[4] \in Nat
    BY <1>2, <1>8, <2>3
  <2>5. rest[5] \in Nat
    BY <1>2, <1>8, <2>4
  <2>6. rest[6] \in Nat
    BY <1>2, <1>8, <2>5
  <2>7. rest[7] \in Nat
    BY <1>2, <1>8, <2>6
  <2> QED
    BY <2>0, <2>1, <2>2, <2>3, <2>4, <2>5, <2>6, <2>7
<1>10. ASSUME NEW i \in 1..8 PROVE rest[i - 1] % Base \in Bytes
  <2>1. i - 1 \in 0..7
    OBVIOUS
  <2> QED
    BY <1>2, <1>9, <2>1
<1> QED
  BY <1>7, <1>10

LEMMA MemoryIs ==
  ASSUME NEW pairs \in Seq(Nat \X Nat)
  PROVE  Memory(pairs) \in Seq(Bytes)
<1> DEFINE n == Len(pairs)
           nth(k) == pairs[(k \div 2) + 1][(k % 2) + 1]
           byte(k) == WordBytes(nth((k - 1) \div 8))[((k - 1) % 8) + 1]
<1>1. ASSUME NEW k \in 0..(2 * n - 1) PROVE nth(k) \in Nat
  <2>1. (k \div 2) + 1 \in 1..n /\ (k % 2) + 1 \in {1, 2}
    OBVIOUS
  <2>2. pairs[(k \div 2) + 1] \in Nat \X Nat
    BY <2>1
  <2>3. \A pair \in Nat \X Nat : \A i \in {1, 2} : pair[i] \in Nat
    OBVIOUS
  <2> QED
    BY <2>1, <2>2, <2>3
<1>2. ASSUME NEW k \in 1..(16 * n) PROVE byte(k) \in Bytes
  <2>1. (k - 1) \div 8 \in 0..(2 * n - 1) /\ ((k - 1) % 8) + 1 \in 1..8
    OBVIOUS
  <2>2. nth((k - 1) \div 8) \in Nat
    BY <1>1, <2>1
  <2>3. WordBytes(nth((k - 1) \div 8)) \in [1..8 -> Bytes]
    BY <2>2, WordBytesAre
  <2> HIDE DEF nth
  <2> QED
    BY <2>1, <2>3
<1>3. Memory(pairs) = [k \in 1..(16 * n) |-> byte(k)]
  BY DEF Memory
<1>4. 16 * n \in Nat
  OBVIOUS
<1> HIDE DEF n, byte
<1>5. Memory(pairs) \in [1..(16 * n) -> Bytes]
  BY <1>2, <1>3
<1> QED
  BY <1>4, <1>5

\* A list that is made of ranges.
LEMMA SyntheticIs ==
  ASSUME NEW pairs \in Seq(Nat \X Nat), NEW of
  PROVE  IsList(Synthetic(pairs, of))
<1>1. pairs \o <<<<0, 0>>>> \in Seq(Nat \X Nat)
  <2>1. <<<<0, 0>>>> \in Seq(Nat \X Nat)
    OBVIOUS
  <2> QED
    BY <2>1
<1> DEFINE all == pairs \o <<<<0, 0>>>>
           l == Synthetic(pairs, of)
<1>2. l.addr_size = 8 /\ l.start = 0 /\ l.base = 0 /\ l.memory = Memory(all)
  BY DEF Synthetic
<1>3. Memory(all) \in Seq(Bytes)
  BY <1>1, MemoryIs
<1> HIDE DEF l, all
<1>4. IsList(l)
  BY <1>2, <1>3, MIs DEF IsList
<1> QED
  BY <1>4 DEF l

\* die_pc_range gives a list, wherever its addresses come from.
LEMMA DiePcRangeIs ==
  ASSUME file \in Files, NEW d, IsDie(d)
  PROVE  Safe(DiePcRange(d)) /\ (DiePcRange(d).status = "ok" => IsList(DiePcRange(d).value))
<1> DEFINE of == [NoSource EXCEPT !.unit = d.unit, !.offset = d.offset]
           a == Attribute(d, "ranges")
           low == LowPc(d)
           high == IF Has(d, "high_pc") THEN HighPc(d) ELSE Got(<<(low.value[1] + 1) % M>>, 0)
           pairs == <<<<low.value[1], high.value[1]>>>>
<1>1. CASE Has(d, "ranges")
  <2>1. Safe(a) /\ (a.status = "ok" => IsValue(a.value) /\ a.value # NoValue)
    BY AttributeIs
  <2>2. DiePcRange(d) = IF a.status = "ok" THEN AsRangelist(a.value, of) ELSE Failed(a.status)
    BY <1>1 DEF DiePcRange, Then
  <2> HIDE DEF a, of
  <2>3. CASE a.status = "ok"
    BY <2>1, <2>2, <2>3, AsRangelistIs
  <2>4. CASE a.status # "ok"
    BY <2>1, <2>2, <2>4, FailedIs DEF Safe
  <2> QED
    BY <2>3, <2>4
<1>2. CASE ~Has(d, "ranges")
  <2>1. IsAddress(low) /\ IsAddress(HighPc(d))
    BY LowPcIs, HighPcIs
  <2>2. low.status = "ok" => IsAddress(high)
    <3>1. low.status = "ok" => (low.value[1] + 1) % M \in 0..(M - 1)
      <4>1. low.status = "ok" => low.value[1] \in Nat
        BY <2>1, MIs DEF IsAddress
      <4> QED
        BY <4>1, Wrapped
    <3> HIDE DEF low
    <3>2. low.status = "ok" => IsAddress(Got(<<(low.value[1] + 1) % M>>, 0))
      BY <3>1, GotIs DEF IsAddress
    <3> QED
      BY <2>1, <3>2
  <2>3. DiePcRange(d) = IF low.status # "ok" THEN Failed(low.status)
                        ELSE IF high.status # "ok" THEN Failed(high.status)
                        ELSE Got(Synthetic(pairs, of), 0)
    BY <1>2 DEF DiePcRange, Then
  <2> HIDE DEF low, high, of
  <2>4. CASE low.status # "ok"
    BY <2>1, <2>3, <2>4, FailedIs DEF Safe, IsAddress
  <2>5. CASE low.status = "ok" /\ high.status # "ok"
    BY <2>2, <2>3, <2>5, FailedIs DEF Safe, IsAddress
  <2>6. CASE low.status = "ok" /\ high.status = "ok"
    <3>1. pairs \in Seq(Nat \X Nat)
      <4>1. low.value[1] \in Nat /\ high.value[1] \in Nat
        BY <2>1, <2>2, <2>6, MIs DEF IsAddress
      <4> QED
        BY <4>1
    <3> HIDE DEF pairs
    <3>2. IsList(Synthetic(pairs, of))
      BY <3>1, SyntheticIs
    <3> QED
      BY <2>3, <2>6, <3>2, GotIs
  <2> QED
    BY <2>4, <2>5, <2>6
<1> QED
  BY <1>1, <1>2

\* What a list reads, wherever it is.
LEMMA ListSecIs ==
  ASSUME file \in Files, IsList(list), list # Empty
  PROVE  IsSection(ListSec)
<1>1. /\ list.addr_size \in Nat /\ list.start \in Nat /\ list.memory \in Seq(0..(Base - 1))
  BY DEF IsList, Bytes
<1>2. IsSection(file.ranges)
  BY FileIs
<1>3. CASE list.memory = << >>
  <2>1. ListSec = [file.ranges EXCEPT !.end = list.start + Len(file.ranges.data),
                                      !.addr_size = list.addr_size]
    BY <1>3 DEF ListSec, Slice
  <2>2. file.ranges.data \in Seq(0..(Base - 1))
    BY <1>2 DEF IsSection
  <2>3. list.start + Len(file.ranges.data) \in Nat
    BY <1>1, <2>2
  <2> QED
    BY <1>1, <1>2, <2>1, <2>3 DEF IsSection
<1>4. CASE list.memory # << >>
  BY <1>1, <1>4 DEF ListSec, IsSection
<1> QED
  BY <1>3, <1>4

-----------------------------------------------------------------------------
(* The invariant.                                                          *)

\* What the client holds of the file is in the file.
ValueInv ==
  /\ file \in Files /\ IsDie(die) /\ IsValue(val) /\ answer.status \in Statuses

\* A chase of dynamic values is the only thing that goes on while it does.
WalkInv ==
  /\ walk = [name |-> walk.name, die |-> walk.die, depth |-> walk.depth]
  /\ IsDie(walk.die) /\ walk.depth \in 0..17
  /\ walk # NoWalk => list = NoList

Iterator ==
  [status : {"none", "at", "end", "threw", "wild"}, base : 0..(M - 1), pos : Nat,
   low : 0..(M - 1), high : 0..(M - 1)]
Run ==
  [op : {"none", "begin", "incr", "contains"}, it : Iterator, arg : Addresses \cup {0},
   cur : Nat]

\* A loop is in a list, never in front of the entry its iterator is at; and no
\* iterator of the list that has no section is one to go on from.
ListInv ==
  /\ IsList(list) /\ it \in Iterator /\ run \in Run
  /\ list = NoList => run = NoRun
  /\ list = Empty => run = NoRun /\ it.status \notin {"at", "threw"}
  /\ run # NoRun => run.cur >= list.start + run.it.pos

Inv == ValueInv /\ WalkInv /\ ListInv /\ AnswersInside

-----------------------------------------------------------------------------
(* What is left alone stays as it is.                                      *)

\* Whether a string can be read depends on the value and the file alone.
LEMMA CStrStays ==
  ASSUME file' = file, val' = val
  PROVE  AsCStr(val)' = AsCStr(val)
  BY DEF AsCStr, Sec, Then

LEMMA ValuesStay ==
  ASSUME ValueInv, AnswersInside, file' = file, die' = die, val' = val, answer' = answer
  PROVE  ValueInv' /\ AnswersInside'
<1>1. ValueInv'
  BY DEF ValueInv, IsDie, IsValue, Specs
<1>2. AnswersInside'
  BY CStrStays DEF AnswersInside, Sec
<1> QED
  BY <1>1, <1>2

LEMMA WalkStays ==
  ASSUME WalkInv, file' = file, walk' = walk, list' = list
  PROVE  WalkInv'
  BY DEF WalkInv, IsDie, Specs

LEMMA ListStays ==
  ASSUME ListInv, UNCHANGED listVars
  PROVE  ListInv'
  BY DEF ListInv, listVars

LEMMA NotHonest ==
  ASSUME file \in Files, ~Honest
  PROVE  \E u \in DOMAIN file.units : Sec(u).end > Len(Sec(u).data)
<1>1. \A s : IsSection(s) => s.end \in Nat /\ Len(s.data) \in Nat
  BY DEF IsSection
<1>2. PICK u \in DOMAIN file.units : ~(Sec(u).end <= Len(Sec(u).data))
  BY DEF Honest
<1>3. Sec(u).end \in Nat /\ Len(Sec(u).data) \in Nat
  BY <1>1, <1>2, FileIs
<1> QED
  BY <1>2, <1>3

\* An answer that is no block, and wild only where units are.
LEMMA InsideIf ==
  ASSUME file \in Files, file' = file, NEW how, NEW status, NEW result,
         answer' = Answer(how, status, result), how # "block", status = "wild" => ~Honest
  PROVE  AnswersInside'
<1>1. answer'.how = how /\ answer'.status = status
  BY DEF Answer
<1>2. ~Honest => \E u \in DOMAIN file.units : Sec(u).end > Len(Sec(u).data)
  BY NotHonest
<1> QED
  BY <1>1, <1>2 DEF AnswersInside, Sec

-----------------------------------------------------------------------------
(* The client reads DIEs and values.                                       *)

LEMMA LocateKeeps ==
  ASSUME ValueInv, NEW u \in DOMAIN file.units, NEW off \in Dies(u), Locate(u, off)
  PROVE  ValueInv' /\ AnswersInside'
<1>1. PICK r \in {ReadDie(u, off)} :
        /\ die' = IF r.status = "ok" THEN r.value ELSE NoDie
        /\ answer' = Answer("read", r.status, << >>)
  BY DEF Locate
<1>2. file \in Files /\ file' = file /\ val' = NoValue
  BY DEF ValueInv, Locate
<1>3. Safe(r) /\ (r.status = "ok" => IsDie(r.value))
  <2>1. off \in Nat
    BY <1>2, FileIs DEF Dies
  <2> QED
    BY <1>1, <1>2, <2>1, ReadDieIs
<1>4. IsDie(die)'
  <2>1. IsDie(IF r.status = "ok" THEN r.value ELSE NoDie)
    BY <1>3 DEF IsDie
  <2> QED
    BY <1>1, <1>2, <2>1 DEF IsDie, Specs
<1>5. ValueInv'
  BY <1>1, <1>2, <1>3, <1>4 DEF ValueInv, IsValue, Safe, Answer
<1>6. AnswersInside'
  BY <1>1, <1>2, <1>3, InsideIf DEF Safe
<1> QED
  BY <1>5, <1>6

LEMMA FetchKeeps ==
  ASSUME ValueInv, NEW name, Fetch(name)
  PROVE  ValueInv' /\ AnswersInside'
<1>1. PICK a \in {Attribute(die, name)} :
        /\ val' = IF a.status = "ok" THEN a.value ELSE NoValue
        /\ answer' = Answer("fetch", a.status, << >>)
  BY DEF Fetch
<1>2. file \in Files /\ file' = file /\ die' = die /\ IsDie(die)
  BY DEF ValueInv, Fetch
<1>3. Safe(a) /\ (a.status = "ok" => IsValue(a.value))
  BY <1>1, <1>2, AttributeIs
<1>4. IsValue(val)'
  <2>1. IsValue(IF a.status = "ok" THEN a.value ELSE NoValue)
    BY <1>3 DEF IsValue
  <2> QED
    BY <1>1, <1>2, <2>1 DEF IsValue
<1>5. ValueInv'
  BY <1>1, <1>2, <1>3, <1>4 DEF ValueInv, IsDie, Specs, Safe, Answer
<1>6. AnswersInside'
  BY <1>1, <1>2, <1>3, InsideIf DEF Safe
<1> QED
  BY <1>5, <1>6

LEMMA AskResolveKeeps ==
  ASSUME ValueInv, NEW name, AskResolve(name)
  PROVE  ValueInv' /\ AnswersInside'
<1> DEFINE result(a) == IF a.status = "ok" THEN <<a.value.unit, a.value.offset>> ELSE << >>
<1>1. PICK a \in {Resolve(die, name)} : answer' = Answer("resolve", a.status, result(a))
  BY DEF AskResolve
<1>2. file \in Files /\ file' = file /\ die' = die /\ IsDie(die) /\ val' = NoValue
  BY DEF ValueInv, AskResolve
<1>3. Safe(a)
  BY <1>1, <1>2, ResolveIs
<1> HIDE DEF result
<1>5. ValueInv'
  BY <1>1, <1>2, <1>3 DEF ValueInv, IsDie, IsValue, Specs, Safe, Answer
<1>6. AnswersInside'
  BY <1>1, <1>2, <1>3, InsideIf DEF Safe
<1> QED
  BY <1>5, <1>6

LEMMA ConvertKeeps ==
  ASSUME ValueInv, NEW how \in Readings, Convert(how)
  PROVE  ValueInv' /\ AnswersInside'
<1>1. PICK r \in {Reading(val, how)} :
        answer' = Answer(how, r.status, IF r.status = "ok" THEN r.value ELSE << >>)
  BY DEF Convert
<1>2. /\ file \in Files /\ file' = file /\ die' = die /\ val' = val
      /\ IsDie(die) /\ IsValue(val) /\ val # NoValue
  BY DEF ValueInv, Convert
<1>3. /\ r.status \in Statuses
      /\ r.status = "wild" =>
           \/ ~Honest
           \/ val.form = "string" /\ val.offset > Sec(val.unit).end
           \/ val.form = "strp" /\ AsCStr(val).status = "wild"
      /\ how = "block" /\ r.status = "ok" => r.value[1] + r.value[2] <= Sec(val.unit).end
  BY <1>1, <1>2, ReadingIs
<1>4. /\ answer'.how = how /\ answer'.status = r.status
      /\ r.status = "ok" => answer'.result = r.value
  BY <1>1 DEF Answer
<1>5. ValueInv'
  BY <1>2, <1>3, <1>4 DEF ValueInv, IsDie, IsValue, Specs
<1>6. CASE r.status = "wild" /\ ~Honest
  <2>1. \E u \in DOMAIN file.units : Sec(u).end > Len(Sec(u).data)
    BY <1>2, <1>6, NotHonest
  <2> QED
    BY <1>2, <1>4, <1>5, <1>6, <2>1 DEF AnswersInside, Sec
<1>7. CASE r.status = "wild" /\ Honest
  <2>1. AsCStr(val)' = AsCStr(val)
    BY <1>2, CStrStays
  <2> QED
    BY <1>2, <1>3, <1>4, <1>5, <1>7, <2>1 DEF AnswersInside, Sec
<1>8. CASE r.status # "wild"
  BY <1>2, <1>3, <1>4, <1>5, <1>8 DEF AnswersInside, Sec
<1> QED
  BY <1>6, <1>7, <1>8

LEMMA FollowKeeps ==
  ASSUME ValueInv, Follow
  PROVE  ValueInv' /\ AnswersInside'
<1>1. PICK r \in {AsReference(val)} :
        IF r.status = "ok"
        THEN /\ answer' = Answer("reference", "ok", <<r.value.unit, r.value.offset>>)
             /\ die' = r.value /\ val' = NoValue
        ELSE answer' = Answer("reference", r.status, << >>) /\ UNCHANGED <<die, val>>
  BY DEF Follow
<1>2. file \in Files /\ file' = file /\ IsDie(die) /\ IsValue(val) /\ val # NoValue
  BY DEF ValueInv, Follow
<1>3. Safe(r) /\ (r.status = "ok" => IsDie(r.value))
  BY <1>1, <1>2, AsReferenceIs
<1>4. PICK result : answer' = Answer("reference", r.status, result)
  BY <1>1
<1>5. IsDie(die)' /\ IsValue(val)'
  <2>1. CASE r.status = "ok"
    BY <1>1, <1>2, <1>3, <2>1 DEF IsDie, IsValue, Specs
  <2>2. CASE r.status # "ok"
    BY <1>1, <1>2, <2>2 DEF IsDie, IsValue, Specs
  <2> QED
    BY <2>1, <2>2
<1>6. ValueInv'
  BY <1>2, <1>3, <1>4, <1>5 DEF ValueInv, Safe, Answer
<1>7. AnswersInside'
  BY <1>2, <1>3, <1>4, InsideIf DEF Safe
<1> QED
  BY <1>6, <1>7

LEMMA DynamicKeeps ==
  ASSUME ValueInv, WalkInv, list = NoList, UNCHANGED listVars, NEW name, Dynamic(name)
  PROVE  ValueInv' /\ AnswersInside' /\ WalkInv'
<1>1. /\ file \in Files /\ file' = file /\ die' = die /\ val' = NoValue /\ list' = NoList
      /\ walk' = [name |-> name, die |-> die, depth |-> 0]
      /\ answer' = NoAnswer /\ IsDie(die)
  BY DEF ValueInv, Dynamic, listVars
<1>2. answer' = Answer("none", "none", << >>)
  BY <1>1 DEF NoAnswer
<1>3. ValueInv'
  BY <1>1, <1>2 DEF ValueInv, IsDie, IsValue, Specs, Answer, Statuses
<1>4. AnswersInside'
  BY <1>1, <1>2, InsideIf
<1>5. WalkInv'
  BY <1>1 DEF WalkInv, IsDie, Specs
<1> QED
  BY <1>3, <1>4, <1>5

LEMMA DieClientKeeps ==
  ASSUME ValueInv, WalkInv, list = NoList, UNCHANGED listVars, DieClient
  PROVE  ValueInv' /\ AnswersInside' /\ WalkInv'
<1>1. list' = list
  BY DEF listVars
<1>2. ASSUME NEW u \in DOMAIN file.units, NEW off \in Dies(u), Locate(u, off)
      PROVE  ValueInv' /\ AnswersInside' /\ WalkInv'
  BY <1>1, <1>2, LocateKeeps, WalkStays DEF Locate
<1>3. ASSUME NEW name, Fetch(name)
      PROVE  ValueInv' /\ AnswersInside' /\ WalkInv'
  BY <1>1, <1>3, FetchKeeps, WalkStays DEF Fetch
<1>4. ASSUME NEW name, Dynamic(name)
      PROVE  ValueInv' /\ AnswersInside' /\ WalkInv'
  BY <1>4, DynamicKeeps
<1>5. ASSUME NEW how \in Readings, Convert(how)
      PROVE  ValueInv' /\ AnswersInside' /\ WalkInv'
  BY <1>1, <1>5, ConvertKeeps, WalkStays DEF Convert
<1>6. ASSUME Follow
      PROVE  ValueInv' /\ AnswersInside' /\ WalkInv'
  BY <1>1, <1>6, FollowKeeps, WalkStays DEF Follow
<1>7. ASSUME NEW name \in Names, AskResolve(name)
      PROVE  ValueInv' /\ AnswersInside' /\ WalkInv'
  BY <1>1, <1>7, AskResolveKeeps, WalkStays DEF AskResolve
<1> QED
  BY <1>2, <1>3, <1>4, <1>5, <1>6, <1>7 DEF DieClient

\* A chase goes one reference on, or ends.
LEMMA DynamicStepKeeps ==
  ASSUME ValueInv, WalkInv, AnswersInside, UNCHANGED listVars, DynamicStep
  PROVE  /\ ValueInv' /\ AnswersInside' /\ WalkInv'
         /\ walk' # NoWalk => walk.depth < walk'.depth /\ walk'.depth <= 17
<1> DEFINE a == Attribute(walk.die, walk.name)
           next == AsReference(a.value)
<1>1. /\ file \in Files /\ file' = file /\ die' = die /\ val' = val
      /\ IsDie(die) /\ IsValue(val) /\ answer.status \in Statuses
      /\ walk # NoWalk /\ IsDie(walk.die) /\ walk.depth \in 0..17 /\ list = NoList /\ list' = NoList
      /\ walk = [name |-> walk.name, die |-> walk.die, depth |-> walk.depth]
  BY DEF ValueInv, WalkInv, DynamicStep, Idle, listVars
<1>2. Safe(a) /\ (a.status = "ok" => IsValue(a.value) /\ a.value # NoValue)
  BY <1>1, AttributeIs
<1>3. ASSUME NEW status \in Statuses, Honest => status # "wild",
             NEW result, DynamicReturns(status, result)
      PROVE  ValueInv' /\ AnswersInside' /\ WalkInv' /\ walk' = NoWalk
  <2>1. walk' = NoWalk /\ answer' = Answer("dynamic", status, result)
    BY <1>3 DEF DynamicReturns
  <2>2. ValueInv'
    BY <1>1, <2>1 DEF ValueInv, IsDie, IsValue, Specs, Answer
  <2>3. AnswersInside'
    BY <1>1, <1>3, <2>1, InsideIf
  <2>4. WalkInv'
    BY <2>1 DEF WalkInv, NoWalk, IsDie
  <2> QED
    BY <2>1, <2>2, <2>3, <2>4
<1>4. CASE TooDeep
  <2>1. DynamicReturns("format_error", << >>)
    BY <1>4 DEF DynamicStep
  <2> QED
    BY <1>3, <2>1 DEF Statuses
<1>5. CASE ~TooDeep /\ a.status # "ok"
  <2>1. DynamicReturns(a.status, << >>)
    BY <1>5 DEF DynamicStep
  <2> HIDE DEF a
  <2> QED
    BY <1>2, <1>3, <2>1 DEF Safe
<1>6. CASE ~TooDeep /\ a.status = "ok"
  <2> DEFINE how == HowDynamic(a.value.type)
             read == IF how = "number" THEN AsUconstant(a.value) ELSE AsExprloc(a.value)
             result == IF read.status = "ok" THEN read.value ELSE << >>
  <2>1. CASE how = "none"
    <3>1. DynamicReturns("format_error", << >>)
      BY <1>6, <2>1 DEF DynamicStep
    <3> QED
      BY <1>3, <3>1 DEF Statuses
  <2>2. CASE how = "reference"
    <3>1. IF next.status # "ok" THEN DynamicReturns(next.status, << >>)
          ELSE walk' = [walk EXCEPT !.die = next.value, !.depth = @ + 1] /\ UNCHANGED answer
      BY <1>6, <2>2 DEF DynamicStep
    <3>2. Safe(next) /\ (next.status = "ok" => IsDie(next.value))
      BY <1>1, <1>2, <1>6, AsReferenceIs
    <3> HIDE DEF next
    <3>3. CASE next.status # "ok"
      BY <1>3, <3>1, <3>2, <3>3 DEF Safe
    <3>4. CASE next.status = "ok"
      <4>1. walk' = [name |-> walk.name, die |-> next.value, depth |-> walk.depth + 1]
        BY <1>1, <3>1, <3>4
      <4>2. walk.depth + 1 \in 0..17 /\ walk.depth < walk.depth + 1
        BY <1>1, <1>6 DEF TooDeep
      <4>3. IsDie(next.value)
        BY <3>2, <3>4
      <4>4. WalkInv'
        BY <1>1, <4>1, <4>2, <4>3 DEF WalkInv, IsDie, Specs
      <4>5. ValueInv' /\ AnswersInside'
        BY <1>1, <3>1, <3>4, ValuesStay
      <4> QED
        BY <4>1, <4>2, <4>4, <4>5
    <3> QED
      BY <3>3, <3>4
  <2>3. CASE how \notin {"none", "reference"}
    <3>1. DynamicReturns(read.status, result)
      BY <1>6, <2>3 DEF DynamicStep
    <3>2. Safe(read)
      BY <1>1, <1>2, <1>6, AsUconstantIs, AsExprlocIs
    <3> HIDE DEF read, result
    <3> QED
      BY <1>3, <3>1, <3>2 DEF Safe
  <2> QED
    BY <2>1, <2>2, <2>3
<1> QED
  BY <1>3, <1>4, <1>5, <1>6

-----------------------------------------------------------------------------
(* The client gets, makes and drops lists.                                 *)

LEMMA NothingIs == NoIterator \in Iterator /\ NoIterator.status = "none" /\ NoRun \in Run
<1>1. 0 \in 0..(M - 1) /\ 0 \in Nat
  BY MIs
<1>2. NoIterator \in Iterator /\ NoIterator.status = "none"
  BY <1>1 DEF NoIterator, Iterator
<1>3. NoRun \in Run
  BY <1>1, <1>2 DEF NoRun, Run
<1> QED
  BY <1>2, <1>3

LEMMA TakenIs ==
  ASSUME ListInv, run = NoRun, NEW l, IsList(l), TakeList(l)
  PROVE  ListInv'
<1>1. list' = l /\ it' = NoIterator /\ run' = NoRun
  BY DEF TakeList
<1>2. NoIterator \in Iterator /\ NoIterator.status = "none" /\ NoRun \in Run
  BY NothingIs
<1> QED
  BY <1>1, <1>2 DEF ListInv, IsList

LEMMA GetRangesKeeps ==
  ASSUME Inv, GetRanges
  PROVE  Inv' /\ walk = NoWalk /\ run = NoRun
<1>1. PICK r \in {DiePcRange(die)} :
        /\ answer' = Answer("ranges", r.status, << >>)
        /\ IF r.status = "ok" THEN TakeList(r.value) /\ die' = NoDie /\ val' = NoValue
           ELSE UNCHANGED <<listVars, die, val>>
  BY DEF GetRanges
<1>2. /\ file \in Files /\ file' = file /\ walk' = walk /\ walk = NoWalk /\ list = NoList
      /\ run = NoRun /\ IsDie(die) /\ IsValue(val) /\ ListInv
  BY DEF Inv, ValueInv, ListInv, GetRanges, Idle
<1>3. Safe(r) /\ (r.status = "ok" => IsList(r.value))
  BY <1>1, <1>2, DiePcRangeIs
<1>4. IsDie(die)' /\ IsValue(val)'
  BY <1>1, <1>2 DEF IsDie, IsValue, Specs
<1>5. ValueInv'
  BY <1>1, <1>2, <1>3, <1>4 DEF ValueInv, Safe, Answer
<1>6. AnswersInside'
  BY <1>1, <1>2, <1>3, InsideIf DEF Safe
<1>7. WalkInv'
  BY <1>2 DEF WalkInv, NoWalk, IsDie
<1>8. ListInv'
  <2>1. CASE r.status = "ok"
    BY <1>1, <1>2, <1>3, <2>1, TakenIs
  <2>2. CASE r.status # "ok"
    BY <1>1, <1>2, <2>2, ListStays
  <2> QED
    BY <2>1, <2>2
<1> QED
  BY <1>2, <1>5, <1>6, <1>7, <1>8 DEF Inv

LEMMA MakeListKeeps ==
  ASSUME Inv, MakeList
  PROVE  Inv' /\ walk = NoWalk /\ run = NoRun
<1>1. /\ file \in Files /\ file' = file /\ walk' = walk /\ walk = NoWalk /\ list = NoList
      /\ run = NoRun /\ ListInv /\ die' = NoDie /\ val' = NoValue /\ answer' = NoAnswer
  BY DEF Inv, ValueInv, ListInv, MakeList, Idle
<1>2. PICK l \in {Synthetic(p, [NoSource EXCEPT !.pairs = p]) : p \in Pairs} \cup {Empty} :
        TakeList(l)
  BY DEF MakeList
<1>3. IsList(l)
  <2>1. CASE l = Empty
    BY <2>1 DEF IsList
  <2>2. CASE l # Empty
    <3>1. PICK p \in Pairs : l = Synthetic(p, [NoSource EXCEPT !.pairs = p])
      BY <1>2, <2>2
    <3>2. p \in Seq(Nat \X Nat)
      BY PairsAssumption
    <3> QED
      BY <3>1, <3>2, SyntheticIs
  <2> QED
    BY <2>1, <2>2
<1>4. answer' = Answer("none", "none", << >>)
  BY <1>1 DEF NoAnswer
<1>5. ValueInv'
  BY <1>1, <1>4 DEF ValueInv, IsDie, IsValue, Answer, Statuses
<1>6. AnswersInside'
  BY <1>1, <1>4, InsideIf
<1>7. WalkInv'
  BY <1>1 DEF WalkInv, NoWalk, IsDie
<1>8. ListInv'
  BY <1>1, <1>2, <1>3, TakenIs
<1> QED
  BY <1>1, <1>5, <1>6, <1>7, <1>8 DEF Inv

LEMMA DropListKeeps ==
  ASSUME Inv, DropList
  PROVE  Inv' /\ walk = NoWalk /\ run = NoRun
<1>1. /\ file \in Files /\ file' = file /\ walk' = walk /\ walk = NoWalk /\ run = NoRun
      /\ die' = die /\ val' = val /\ IsDie(die) /\ IsValue(val) /\ ListInv
      /\ TakeList(NoList) /\ answer' = Answer("none", "none", << >>)
  BY DEF Inv, ValueInv, WalkInv, DropList, Resting, NoAnswer
<1>2. IsList(NoList)
  <2>1. << >> \in Seq(Bytes)
    OBVIOUS
  <2> QED
    BY <2>1, MIs DEF IsList, NoList
<1>3. ValueInv'
  BY <1>1 DEF ValueInv, IsDie, IsValue, Specs, Answer, Statuses
<1>4. AnswersInside'
  BY <1>1, InsideIf
<1>5. WalkInv'
  BY <1>1 DEF WalkInv, NoWalk, IsDie
<1>6. ListInv'
  BY <1>1, <1>2, TakenIs
<1> QED
  BY <1>1, <1>3, <1>4, <1>5, <1>6 DEF Inv

-----------------------------------------------------------------------------
(* Loops over entries.                                                     *)

\* A loop begins where its iterator is.
LEMMA EnterKeeps ==
  ASSUME ListInv, list # NoList, list # Empty, list' = list,
         NEW op \in {"begin", "incr", "contains"}, NEW i \in Iterator,
         NEW arg \in Addresses \cup {0}, Enter(op, i, arg)
  PROVE  ListInv'
<1>1. /\ run' = [op |-> op, it |-> i, arg |-> arg, cur |-> list.start + i.pos]
      /\ it' = it /\ it \in Iterator /\ IsList(list) /\ list.start \in Nat
  BY DEF Enter, ListInv, IsList
<1>2. i.pos \in Nat
  BY DEF Iterator
<1>3. run' \in Run /\ run'.cur = list.start + run'.it.pos
  BY <1>1, <1>2 DEF Run
<1>4. IsList(list)'
  BY <1>1 DEF IsList
<1>5. run'.cur >= list.start + run'.it.pos
  BY <1>1, <1>2, <1>3
<1> QED
  BY <1>1, <1>3, <1>4, <1>5 DEF ListInv

LEMMA FreshIs == ASSUME IsList(list), list # Empty PROVE Fresh \in Iterator
<1>1. list.base \in 0..(M - 1) /\ 0 \in 0..(M - 1)
  BY MIs DEF IsList
<1> QED
  BY <1>1 DEF Fresh, NoIterator, Iterator

LEMMA ListClientKeeps ==
  ASSUME ListInv, ListClient
  PROVE  ListInv' /\ list # NoList /\ run = NoRun
<1>1. ASSUME Resting, list' = list, list = Empty, run' = run, it' \in {it, End}
      PROVE  ListInv'
  <2>1. End \in Iterator /\ End.status = "end"
    BY NothingIs DEF End, Iterator
  <2>2. it' \in Iterator /\ it'.status \notin {"at", "threw"}
    BY <1>1, <2>1 DEF ListInv
  <2>3. run = NoRun
    BY <1>1 DEF Resting
  <2> QED
    BY <1>1, <2>2, <2>3 DEF ListInv, IsList
<1>2. CASE Begin
  <2>1. Resting /\ list' = list
    BY <1>2 DEF Begin
  <2>2. CASE list = Empty
    BY <1>1, <1>2, <2>1, <2>2 DEF Begin, Resting
  <2>3. CASE list # Empty
    <3>1. Enter("begin", Fresh, 0)
      BY <1>2, <2>3 DEF Begin
    <3>2. Fresh \in Iterator
      BY <2>3, FreshIs DEF ListInv
    <3> QED
      BY <2>1, <2>3, <3>1, <3>2, EnterKeeps DEF Resting
  <2> QED
    BY <2>1, <2>2, <2>3 DEF Resting
<1>3. CASE Increment
  <2>1. Resting /\ list' = list /\ list # Empty /\ Enter("incr", it, 0) /\ it \in Iterator
    BY <1>3 DEF Increment, ListInv
  <2> QED
    BY <2>1, EnterKeeps DEF Resting
<1>4. ASSUME NEW a \in Addresses, ListContains(a)
      PROVE  ListInv' /\ list # NoList /\ run = NoRun
  <2>1. Resting /\ list' = list
    BY <1>4 DEF ListContains
  <2>2. CASE list = Empty
    BY <1>1, <1>4, <2>1, <2>2 DEF ListContains, Resting
  <2>3. CASE list # Empty
    <3>1. Enter("contains", Fresh, a)
      BY <1>4, <2>3 DEF ListContains
    <3>2. Fresh \in Iterator
      BY <2>3, FreshIs DEF ListInv
    <3> QED
      BY <2>1, <2>3, <3>1, <3>2, EnterKeeps DEF Resting
  <2> QED
    BY <2>1, <2>2, <2>3 DEF Resting
<1> QED
  BY <1>2, <1>3, <1>4 DEF ListClient

LEMMA ReturnKeeps ==
  ASSUME ListInv, list # Empty, list' = list, NEW i \in Iterator, NEW status, Return(i, status)
  PROVE  ListInv' /\ run' = NoRun
<1>1. it' = i /\ run' = NoRun
  BY DEF Return
<1>2. NoRun \in Run
  BY NothingIs
<1> QED
  BY <1>1, <1>2 DEF ListInv, IsList

LEMMA LeaveKeeps ==
  ASSUME ListInv, list # Empty, list' = list, NEW i \in Iterator, NEW status, Leave(i, status)
  PROVE  ListInv' /\ run' = NoRun
<1>1. CASE run.op = "contains"
  <2>1. Return(it, status) /\ it \in Iterator
    BY <1>1 DEF Leave, ListInv
  <2> QED
    BY <2>1, ReturnKeeps
<1>2. CASE run.op # "contains"
  <2>1. Return(i, status)
    BY <1>2 DEF Leave
  <2> QED
    BY <2>1, ReturnKeeps
<1> QED
  BY <1>1, <1>2

\* The loop goes on behind an entry.
LEMMA AgainKeeps ==
  ASSUME ListInv, list # NoList, list # Empty, list' = list, it' = it,
         NEW i \in Iterator, NEW pos \in Nat, pos >= list.start + i.pos,
         run' = [run EXCEPT !.it = i, !.cur = pos]
  PROVE  ListInv' /\ run'.cur = pos
<1>1. run \in Run /\ it \in Iterator /\ IsList(list)
  BY DEF ListInv
<1>2. run' \in Run /\ run'.cur = pos /\ run'.it = i
  BY <1>1 DEF Run
<1> QED
  BY <1>1, <1>2 DEF ListInv, IsList

\* One entry is read: the call returns, or goes on behind it.
LEMMA ReadEntryKeeps ==
  ASSUME file \in Files, ListInv, ReadEntry
  PROVE  /\ ListInv' /\ list # NoList
         /\ run' # NoRun => run.cur < run'.cur /\ run'.cur <= Len(ListSec.data)
<1> DEFINE low == Address(ListSec, run.cur)
           high == Address(ListSec, low.pos)
           Goal == ListInv' /\ (run' # NoRun => run.cur < run'.cur /\ run'.cur <= Len(ListSec.data))
<1>1. /\ run # NoRun /\ list # NoList /\ list # Empty
      /\ IsList(list) /\ it \in Iterator /\ run \in Run /\ run.it \in Iterator /\ run.cur \in Nat
      /\ run.cur >= list.start + run.it.pos /\ list.start \in Nat
  BY DEF ReadEntry, Running, ListInv, Run, IsList
<1>2. CannotRead(low, high) \/ EndOfList(low, high) \/ BaseAddress(low, high) \/ RegularEntry(low, high)
  BY DEF ReadEntry
<1>3. /\ low.status = "ok" =>
           low.value \in 0..(M - 1) /\ low.pos \in Nat /\ run.cur < low.pos
      /\ EntryOK(low, high) =>
           /\ high.value \in 0..(M - 1) /\ high.pos \in Nat /\ run.cur < high.pos
           /\ high.pos <= Len(ListSec.data)
  <2>1. IsSection(ListSec)
    BY <1>1, ListSecIs
  <2>2. low.status = "ok" =>
          low.value \in 0..(M - 1) /\ low.pos \in Nat /\ run.cur < low.pos
    BY <1>1, <2>1, AddressIs
  <2>3. low.status = "ok" /\ high.status = "ok" =>
          /\ high.value \in 0..(M - 1) /\ high.pos \in Nat
          /\ low.pos < high.pos /\ high.pos <= Len(ListSec.data)
    BY <2>1, <2>2, AddressIs
  <2> HIDE DEF low, high
  <2> QED
    BY <1>1, <2>2, <2>3 DEF EntryOK
<1> HIDE DEF low, high
<1>4. CASE CannotRead(low, high)
  <2> DEFINE failed == IF low.status = "ok" THEN high ELSE low
             status == IF failed.status = "wild" THEN "wild" ELSE "threw"
             i == IF run.op = "begin" THEN it
                  ELSE [run.it EXCEPT !.status = status,
                                      !.low = IF low.status = "ok" THEN low.value ELSE @]
  <2>1. Leave(i, status) /\ list' = list
    BY <1>4 DEF CannotRead, Throw
  <2>2. i \in Iterator
    <3>1. status \in {"wild", "threw"}
      OBVIOUS
    <3>2. (IF low.status = "ok" THEN low.value ELSE run.it.low) \in 0..(M - 1)
      BY <1>1, <1>3 DEF Iterator
    <3> HIDE DEF status
    <3> QED
      BY <1>1, <3>1, <3>2 DEF Iterator
  <2> HIDE DEF i, status, failed
  <2> QED
    BY <1>1, <2>1, <2>2, LeaveKeeps
<1>5. CASE EndOfList(low, high)
  <2>1. PICK status : Leave(End, status)
    BY <1>5 DEF EndOfList
  <2>2. End \in Iterator /\ list' = list
    BY <1>5, NothingIs DEF End, Iterator, EndOfList
  <2> QED
    BY <1>1, <2>1, <2>2, LeaveKeeps
<1>6. CASE BaseAddress(low, high)
  <2> DEFINE i == [run.it EXCEPT !.base = high.value, !.low = low.value, !.high = high.value]
  <2>1. EntryOK(low, high) /\ list' = list /\ it' = it
    BY <1>6 DEF BaseAddress
  <2>2. run' = [run EXCEPT !.it = i, !.cur = high.pos]
    BY <1>1, <1>6 DEF BaseAddress, Run, Iterator
  <2>3. i \in Iterator /\ i.pos = run.it.pos
    BY <1>1, <1>3, <2>1 DEF Iterator, EntryOK
  <2> HIDE DEF i
  <2>4. i.pos \in Nat /\ high.pos >= list.start + i.pos
    <3>1. i.pos \in Nat
      BY <2>3 DEF Iterator
    <3>2. high.pos \in Nat /\ run.cur < high.pos
      BY <1>3, <2>1
    <3> QED
      BY <1>1, <2>3, <3>1, <3>2
  <2> QED
    BY <1>1, <1>3, <2>1, <2>2, <2>3, <2>4, AgainKeeps
<1>7. CASE RegularEntry(low, high)
  <2> DEFINE i == [run.it EXCEPT !.status = "at", !.pos = high.pos - list.start,
                                 !.low = (low.value + run.it.base) % M,
                                 !.high = (high.value + run.it.base) % M]
  <2>1. /\ EntryOK(low, high) /\ list' = list
        /\ \/ Leave(i, "ok") \/ Leave(i, "yes")
           \/ run' = [run EXCEPT !.it = i, !.cur = high.pos] /\ it' = it
    BY <1>7 DEF RegularEntry
  <2>2. /\ (low.value + run.it.base) % M \in 0..(M - 1)
        /\ (high.value + run.it.base) % M \in 0..(M - 1)
    <3>1. low.value \in Nat /\ high.value \in Nat /\ run.it.base \in Nat
      BY <1>1, <1>3, <2>1, MIs DEF EntryOK, Iterator
    <3> QED
      BY <3>1, Wrapped
  <2>3. high.pos - list.start \in Nat
    <3>1. run.it.pos \in Nat
      BY <1>1 DEF Iterator
    <3> QED
      BY <1>1, <1>3, <2>1, <3>1
  <2>4. i \in Iterator /\ i.pos = high.pos - list.start
    BY <1>1, <2>2, <2>3 DEF Iterator
  <2> HIDE DEF i
  <2>5. high.pos >= list.start + i.pos
    BY <1>1, <1>3, <2>1, <2>4
  <2>6. CASE run' = [run EXCEPT !.it = i, !.cur = high.pos] /\ it' = it
    BY <1>1, <1>3, <2>1, <2>4, <2>5, <2>6, AgainKeeps
  <2>7. CASE Leave(i, "ok") \/ Leave(i, "yes")
    BY <1>1, <2>1, <2>4, <2>7, LeaveKeeps
  <2> QED
    BY <2>1, <2>6, <2>7
<1> QED
  BY <1>1, <1>2, <1>4, <1>5, <1>6, <1>7

-----------------------------------------------------------------------------
(* The theorems.                                                           *)

LEMMA InitKeeps == ASSUME PcInit PROVE Inv
<1>1. /\ file \in Files /\ die = NoDie /\ val = NoValue /\ walk = NoWalk
      /\ answer = Answer("none", "none", << >>)
      /\ list = NoList /\ it = NoIterator /\ run = NoRun
  BY DEF PcInit, Init, ListInit, NoAnswer
<1>2. ValueInv
  BY <1>1 DEF ValueInv, IsDie, IsValue, Answer, Statuses
<1>3. WalkInv
  BY <1>1 DEF WalkInv, NoWalk, IsDie
<1>4. ListInv
  <2>1. IsList(NoList)
    <3>1. << >> \in Seq(Bytes)
      OBVIOUS
    <3> QED
      BY <3>1, MIs DEF IsList, NoList
  <2> QED
    BY <1>1, <2>1, NothingIs DEF ListInv
<1>5. AnswersInside
  BY <1>1 DEF AnswersInside, Answer
<1> QED
  BY <1>2, <1>3, <1>4, <1>5 DEF Inv

\* Every action keeps the invariant, and every loop moves on in it.
LEMMA NextKeeps == ASSUME Inv, PcNext PROVE Inv' /\ MovesOn
<1>1. CASE list = NoList /\ DieClient /\ UNCHANGED listVars
  <2>1. ValueInv' /\ AnswersInside' /\ WalkInv' /\ ListInv'
    BY <1>1, DieClientKeeps, ListStays DEF Inv
  <2>2. Idle
    BY <1>1 DEF DieClient, Locate, Fetch, Dynamic, Convert, Follow, AskResolve
  <2>3. run = NoRun
    BY <1>1 DEF Inv, ListInv
  <2> QED
    BY <2>1, <2>2, <2>3 DEF Inv, MovesOn, Running
<1>2. CASE GetRanges \/ MakeList \/ DropList
  <2>1. Inv' /\ walk = NoWalk /\ run = NoRun
    BY <1>2, GetRangesKeeps, MakeListKeeps, DropListKeeps
  <2> QED
    BY <2>1 DEF MovesOn, Running, Idle
<1>3. CASE (ListClient \/ ReadEntry) /\ UNCHANGED valueVars
  <2>1. /\ file' = file /\ die' = die /\ val' = val /\ answer' = answer /\ walk' = walk
        /\ ValueInv /\ AnswersInside /\ WalkInv /\ ListInv /\ file \in Files
    BY <1>3 DEF Inv, ValueInv, valueVars
  <2>2. ValueInv' /\ AnswersInside'
    BY <2>1, ValuesStay
  <2>3. /\ ListInv' /\ list # NoList
        /\ Running /\ run' # NoRun => run.cur < run'.cur /\ run'.cur <= Len(ListSec.data)
    BY <1>3, <2>1, ListClientKeeps, ReadEntryKeeps DEF Running
  <2>4. walk = NoWalk /\ walk' = NoWalk
    BY <2>1, <2>3 DEF WalkInv
  <2>5. WalkInv'
    BY <2>1, <2>4 DEF WalkInv, NoWalk, IsDie
  <2> QED
    BY <2>2, <2>3, <2>4, <2>5 DEF Inv, MovesOn, Idle
<1>4. CASE DynamicStep /\ UNCHANGED listVars
  <2>1. /\ ValueInv' /\ AnswersInside' /\ WalkInv' /\ ListInv'
        /\ walk' # NoWalk => walk.depth < walk'.depth /\ walk'.depth <= 17
    BY <1>4, DynamicStepKeeps, ListStays DEF Inv
  <2>2. run = NoRun
    BY <1>4 DEF Inv, ListInv, WalkInv, DynamicStep, Idle
  <2> QED
    BY <2>1, <2>2 DEF Inv, MovesOn, Running
<1> QED
  BY <1>1, <1>2, <1>3, <1>4 DEF PcNext

LEMMA StutterKeeps == ASSUME Inv, UNCHANGED vars PROVE Inv'
<1>1. /\ file' = file /\ die' = die /\ val' = val /\ answer' = answer /\ walk' = walk
      /\ list' = list /\ UNCHANGED listVars
  BY DEF vars, valueVars, listVars
<1> QED
  BY <1>1, ValuesStay, WalkStays, ListStays DEF Inv

LEMMA AlwaysInv == Spec => []Inv
<1>1. PcInit => Inv
  BY InitKeeps
<1>2. Inv /\ [PcNext]_vars => Inv'
  BY NextKeeps, StutterKeeps
<1> QED
  BY <1>1, <1>2, PTL DEF Spec

\* In any files, whatever the client does, the parts of what it holds are there:
\* a DIE has as many positions as its abbreviation has attributes, addresses are
\* words, an iterator is not behind the cursor that moves it.
THEOREM TypeCorrect == Spec => []TypeOK
<1>1. Inv => TypeOK
  <2> SUFFICES ASSUME Inv PROVE TypeOK
    OBVIOUS
  <2>1. /\ file \in Files /\ IsDie(die) /\ IsValue(val) /\ answer.status \in Statuses
        /\ walk.depth \in 0..17 /\ it \in Iterator /\ run \in Run
    BY DEF Inv, ValueInv, WalkInv, ListInv
  <2>2. /\ die.unit \in {0} \cup DOMAIN file.units /\ die.offset \in Nat
        /\ Len(die.attrs) = Len(Specs(die))
    BY <2>1, SpecsAre DEF IsDie, NoDie
  <2>3. val.form \in DOMAIN FormCode \cup {"none"} /\ val.offset \in Nat
    BY <2>1 DEF IsValue, NoValue
  <2>4. it.low \in 0..(M - 1) /\ it.high \in 0..(M - 1) /\ it.base \in 0..(M - 1)
    BY <2>1 DEF Iterator
  <2>5. run.cur >= run.it.pos
    <3>1. CASE run = NoRun
      BY <3>1 DEF NoRun, NoIterator
    <3>2. CASE run # NoRun
      <4>1. list.start \in Nat /\ run.cur >= list.start + run.it.pos
        BY <3>2 DEF Inv, ListInv, IsList
      <4>2. run.cur \in Nat /\ run.it.pos \in Nat
        BY <2>1 DEF Run, Iterator
      <4> QED
        BY <4>1, <4>2
    <3> QED
      BY <3>1, <3>2
  <2> QED
    BY <2>1, <2>2, <2>3, <2>4, <2>5 DEF TypeOK
<1> QED
  BY <1>1, AlwaysInv, PTL

\* In any files every call on a list and every chase of dynamic values moves on
\* with each of its steps, and not further than to the end.
THEOREM LoopsAlwaysEnd == Spec => LoopsEnd
<1>1. Inv /\ [PcNext]_vars => [MovesOn]_vars
  BY NextKeeps
<1> QED
  BY <1>1, AlwaysInv, PTL DEF Spec, LoopsEnd

-----------------------------------------------------------------------------
(* A list that can be read to its end.                                     *)

ComesToEnd == file \in Files /\ IsList(list) /\ Terminated

\* The position behind entry k.
Behind(k) == list.start + 2 * Width * k

\* Which addresses are base addresses is defined but where addresses have 4 bytes.
LEMMA LargestIs ==
  ASSUME NEW n \in Nat, n \notin 4..7 PROVE \E x : LargestOffset(n) = {x}
<1>1. CASE n < 4
  BY <1>1 DEF LargestOffset
<1>2. CASE ~(n < 4)
  <2>1. LargestOffset(n) = {M - 1}
    BY <1>2, Zenon DEF LargestOffset
  <2> QED
    BY <2>1
<1> QED
  BY <1>1, <1>2

\* There is an end, and its entries are of some bytes.
LEMMA EndIs ==
  ASSUME ComesToEnd
  PROVE  /\ IsSection(ListSec) /\ list.start \in Nat /\ list.base \in 0..(M - 1)
         /\ Width \in {1, 2, 4, 8}
         /\ LastEntry \in Nat /\ IsEnd(LastEntry + 1)
         /\ \A j \in 1..LastEntry : IsEntry(j)
<1>1. IsSection(ListSec)
  BY ListSecIs DEF ComesToEnd, Terminated
<1>2. list.addr_size \in Nat /\ list.start \in Nat /\ list.base \in 0..(M - 1)
  BY DEF ComesToEnd, Terminated, IsList
<1>3. \E k \in 1..Len(ListSec.data) : EndsAt(k)
  BY DEF ComesToEnd, Terminated
<1>4. LastEntry = (CHOOSE k \in 1..Len(ListSec.data) : EndsAt(k)) - 1
  BY DEF ComesToEnd, Terminated, LastEntry
<1> DEFINE e == CHOOSE k \in 1..Len(ListSec.data) : EndsAt(k)
<1>5. e \in 1..Len(ListSec.data) /\ EndsAt(e)
  BY <1>3, Zenon
<1> HIDE DEF e
<1>6. Len(ListSec.data) \in Nat
  BY <1>1 DEF IsSection
<1>7. LastEntry \in Nat /\ LastEntry + 1 = e /\ e - 1 = LastEntry
  BY <1>4, <1>5, <1>6 DEF e
<1>8. IsEnd(LastEntry + 1) /\ \A j \in 1..LastEntry : IsEntry(j)
  BY <1>5, <1>7 DEF EndsAt
<1>9. Width \in {1, 2, 4, 8}
  <2>1. Low(LastEntry + 1).status = "ok"
    BY <1>8 DEF IsEnd, EntryOK
  <2> QED
    BY <2>1 DEF Low, Address, Failed, Width
<1> QED
  BY <1>1, <1>2, <1>3, <1>7, <1>8, <1>9

\* Entries follow each other.
LEMMA BehindIs ==
  ASSUME ComesToEnd, NEW k \in Nat
  PROVE  /\ Behind(k) \in Nat /\ Behind(k + 1) = (Behind(k) + Width) + Width
         /\ Behind(k) = list.start + 2 * Width * k /\ 2 * Width * k \in Nat
         /\ Behind(k + 1) - list.start = 2 * Width * (k + 1)
<1>1. list.start \in Nat /\ Width \in {1, 2, 4, 8}
  BY EndIs
<1> QED
  BY <1>1 DEF Behind

LEMMA BehindStart == ASSUME ComesToEnd PROVE Behind(0) = list.start
<1>1. list.start \in Nat /\ Width \in {1, 2, 4, 8}
  BY EndIs
<1> QED
  BY <1>1 DEF Behind

\* The entry behind entry k is where it should be.
LEMMA EntryIs ==
  ASSUME ComesToEnd, NEW k \in 0..LastEntry
  PROVE  /\ Low(k + 1) = Address(ListSec, Behind(k))
         /\ High(k + 1) = Address(ListSec, Low(k + 1).pos)
         /\ EntryOK(Low(k + 1), High(k + 1))
         /\ High(k + 1).pos = Behind(k + 1)
         /\ Low(k + 1).value \in 0..(M - 1) /\ High(k + 1).value \in 0..(M - 1)
         /\ k < LastEntry => ~Ends(Low(k + 1), High(k + 1))
         /\ k = LastEntry => Ends(Low(k + 1), High(k + 1))
<1>1. /\ IsSection(ListSec) /\ list.start \in Nat /\ Width \in {1, 2, 4, 8}
      /\ LastEntry \in Nat /\ IsEnd(LastEntry + 1) /\ \A j \in 1..LastEntry : IsEntry(j)
  BY EndIs
<1>2. k \in Nat
  BY <1>1
<1>3. /\ Behind(k) \in Nat /\ Behind(k + 1) = (Behind(k) + Width) + Width
      /\ Behind(k) = list.start + 2 * Width * k
  BY <1>2, BehindIs
<1>4. (k + 1) - 1 = k
  BY <1>2
<1>5. /\ Low(k + 1) = Address(ListSec, Behind(k))
      /\ High(k + 1) = Address(ListSec, Behind(k) + Width)
  BY <1>3, <1>4 DEF Low, High
<1>6. \/ k < LastEntry /\ IsEntry(k + 1)
      \/ k = LastEntry /\ IsEnd(k + 1)
  <2>1. k < LastEntry => k + 1 \in 1..LastEntry
    BY <1>1, <1>2
  <2> QED
    BY <1>1, <1>2, <2>1
<1>7. EntryOK(Low(k + 1), High(k + 1))
  BY <1>6 DEF IsEntry, IsEnd
<1>8. /\ Low(k + 1).value \in 0..(M - 1) /\ High(k + 1).value \in 0..(M - 1)
  <2>1. Low(k + 1).status = "ok" /\ High(k + 1).status = "ok"
    BY <1>7 DEF EntryOK
  <2>2. Behind(k) + Width \in Nat
    BY <1>1, <1>3
  <2> QED
    BY <1>1, <1>3, <1>5, <2>1, <2>2, AddressIs
<1>9. ASSUME NEW p \in Nat, Address(ListSec, p).status = "ok"
      PROVE  Address(ListSec, p).pos = p + Width
  <2>1. Address(ListSec, p) = Fixed(ListSec, p, Width)
    BY <1>1 DEF Address, Width
  <2>2. Width \in Nat
    BY <1>1
  <2> QED
    BY <1>1, <1>9, <2>1, <2>2, FixedIs
<1>10. Low(k + 1).pos = Behind(k) + Width /\ High(k + 1).pos = Behind(k + 1)
  <2>1. Low(k + 1).status = "ok" /\ High(k + 1).status = "ok"
    BY <1>7 DEF EntryOK
  <2>2. Behind(k) + Width \in Nat
    BY <1>1, <1>3
  <2> QED
    BY <1>3, <1>5, <1>9, <2>1, <2>2
<1>11. /\ k < LastEntry => ~Ends(Low(k + 1), High(k + 1))
       /\ k = LastEntry => Ends(Low(k + 1), High(k + 1))
  <2>1. k < LastEntry => k # LastEntry
    BY <1>1, <1>2
  <2> QED
    BY <1>6, <2>1 DEF IsEntry, IsEnd
<1> QED
  BY <1>5, <1>7, <1>8, <1>10, <1>11

-----------------------------------------------------------------------------
(* Base addresses and numbers of ranges.                                   *)

\* The last of some numbers.
LEMMA LastIs ==
  ASSUME NEW k \in Nat, NEW S \in SUBSET (1..k), S # {}
  PROVE  \E j \in S : \A i \in S : i <= j
<1> DEFINE T == {k - x : x \in S}
<1>1. T \in SUBSET Nat /\ T # {}
  <2>1. \A x \in S : k - x \in Nat
    OBVIOUS
  <2>2. PICK x \in S : TRUE
    OBVIOUS
  <2>3. k - x \in T
    OBVIOUS
  <2> QED
    BY <2>1, <2>3
<1>2. PICK t \in T : \A y \in T : t <= y
  BY <1>1, Least
<1>3. PICK j \in S : t = k - j
  OBVIOUS
<1>4. \A i \in S : k - j <= k - i
  BY <1>2, <1>3
<1> QED
  BY <1>3, <1>4

\* The base address is the one of the last entry that sets it.
LEMMA BaseIs ==
  ASSUME NEW k \in Nat
  PROVE  /\ (\A j \in 1..k : ~SetsBase(j)) => BaseBehind[k] = list.base
         /\ \A j \in 1..k :
              SetsBase(j) /\ (\A i \in (j + 1)..k : ~SetsBase(i)) => BaseBehind[k] = High(j).value
<1> DEFINE P(j) == SetsBase(j) /\ \A i \in (j + 1)..k : ~SetsBase(i)
           c == CHOOSE j \in 1..k : P(j)
<1>1. BaseBehind[k] = IF \A j \in 1..k : ~SetsBase(j) THEN list.base ELSE High(c).value
  BY DEF BaseBehind
<1>2. ASSUME NEW j \in 1..k, P(j) PROVE c = j
  <2>1. c \in 1..k /\ P(c)
    BY <1>2, Zenon
  <2> HIDE DEF c
  <2>2. ~(c < j) /\ ~(j < c)
    BY <1>2, <2>1
  <2> QED
    BY <2>1, <2>2
<1>3. ASSUME NEW j \in 1..k, P(j) PROVE BaseBehind[k] = High(j).value
  <2>1. ~(\A i \in 1..k : ~SetsBase(i))
    BY <1>3
  <2> HIDE DEF c
  <2> QED
    BY <1>1, <1>2, <1>3, <2>1
<1> HIDE DEF c
<1> QED
  BY <1>1, <1>3

\* Only an entry that sets the base address changes it.
LEMMA BaseNext ==
  ASSUME NEW k \in Nat
  PROVE  BaseBehind[k + 1] = IF SetsBase(k + 1) THEN High(k + 1).value ELSE BaseBehind[k]
<1>1. CASE SetsBase(k + 1)
  <2>1. k + 1 \in 1..(k + 1) /\ \A i \in ((k + 1) + 1)..(k + 1) : ~SetsBase(i)
    OBVIOUS
  <2>2. BaseBehind[k + 1] = High(k + 1).value
    BY <1>1, <2>1, BaseIs
  <2> QED
    BY <1>1, <2>2
<1>2. CASE ~SetsBase(k + 1)
  <2>1. CASE \A j \in 1..k : ~SetsBase(j)
    <3>1. \A j \in 1..(k + 1) : ~SetsBase(j)
      <4>1. \A j \in 1..(k + 1) : j \in 1..k \/ j = k + 1
        OBVIOUS
      <4> QED
        BY <1>2, <2>1, <4>1
    <3> QED
      BY <1>2, <2>1, <3>1, BaseIs
  <2>2. CASE \E j \in 1..k : SetsBase(j)
    <3> DEFINE S == {j \in 1..k : SetsBase(j)}
    <3>1. S \in SUBSET (1..k) /\ S # {}
      BY <2>2
    <3>2. PICK j \in S : \A i \in S : i <= j
      BY <3>1, LastIs
    <3>3. j \in 1..k /\ SetsBase(j) /\ \A i \in (j + 1)..k : ~SetsBase(i)
      <4>1. \A i \in (j + 1)..k : i \in 1..k /\ ~(i <= j)
        OBVIOUS
      <4> QED
        BY <3>2, <4>1
    <3>4. j \in 1..(k + 1) /\ \A i \in (j + 1)..(k + 1) : ~SetsBase(i)
      <4>1. \A i \in (j + 1)..(k + 1) : i \in (j + 1)..k \/ i = k + 1
        OBVIOUS
      <4> QED
        BY <1>2, <3>3, <4>1
    <3>5. BaseBehind[k + 1] = High(j).value /\ BaseBehind[k] = High(j).value
      BY <3>3, <3>4, BaseIs
    <3> QED
      BY <1>2, <3>5
  <2> QED
    BY <2>1, <2>2
<1> QED
  BY <1>1, <1>2

LEMMA BaseStart == BaseBehind[0] = list.base
<1>1. \A j \in 1..0 : ~SetsBase(j)
  OBVIOUS
<1> QED
  BY <1>1, BaseIs

LEMMA UpToIs ==
  ASSUME NEW k \in Nat
  PROVE  /\ RangesUpTo[k] \in Nat /\ RangesUpTo[k] = Cardinality({j \in 1..k : ~SetsBase(j)})
         /\ IsFiniteSet({j \in 1..k : ~SetsBase(j)})
<1>1. {j \in 1..k : ~SetsBase(j)} \in SUBSET (1..k)
  OBVIOUS
<1>2. IsFiniteSet(1..k)
  BY FS_Interval
<1>3. IsFiniteSet({j \in 1..k : ~SetsBase(j)})
  BY <1>1, <1>2, FS_Subset
<1>4. RangesUpTo[k] = Cardinality({j \in 1..k : ~SetsBase(j)})
  BY DEF RangesUpTo
<1> QED
  BY <1>3, <1>4, FS_CardinalityType

LEMMA UpToStart == RangesUpTo[0] = 0
<1>1. {j \in 1..0 : ~SetsBase(j)} = {}
  OBVIOUS
<1> QED
  BY <1>1, FS_EmptySet, UpToIs

\* Every entry that does not set the base address is one more range.
LEMMA UpToNext ==
  ASSUME NEW k \in Nat
  PROVE  RangesUpTo[k + 1] = IF SetsBase(k + 1) THEN RangesUpTo[k] ELSE RangesUpTo[k] + 1
<1> DEFINE A == {j \in 1..k : ~SetsBase(j)}
           B == {j \in 1..(k + 1) : ~SetsBase(j)}
<1>1. /\ SetsBase(k + 1) => B = A
      /\ ~SetsBase(k + 1) => B = A \cup {k + 1}
      /\ k + 1 \notin A
  <2>1. /\ \A j \in 1..(k + 1) : j \in 1..k \/ j = k + 1
        /\ \A j \in 1..k : j \in 1..(k + 1) /\ j # k + 1
        /\ k + 1 \in 1..(k + 1)
    OBVIOUS
  <2> QED
    BY <2>1
<1>2. RangesUpTo[k] = Cardinality(A) /\ IsFiniteSet(A) /\ RangesUpTo[k + 1] = Cardinality(B)
  BY UpToIs
<1> HIDE DEF A, B
<1>3. Cardinality(A \cup {k + 1}) = Cardinality(A) + 1
  BY <1>1, <1>2, FS_AddElement
<1> QED
  BY <1>1, <1>2, <1>3

LEMMA UpToGrows ==
  ASSUME NEW a \in Nat, NEW b \in Nat, a <= b
  PROVE  /\ RangesUpTo[a] <= RangesUpTo[b]
         /\ a < b /\ ~SetsBase(b) => RangesUpTo[a] < RangesUpTo[b]
<1> DEFINE A == {j \in 1..a : ~SetsBase(j)}
           B == {j \in 1..b : ~SetsBase(j)}
<1>1. /\ A \subseteq B
      /\ a < b /\ ~SetsBase(b) => b \notin A /\ A \cup {b} \subseteq B
  OBVIOUS
<1>2. /\ IsFiniteSet(A) /\ RangesUpTo[a] = Cardinality(A) /\ RangesUpTo[a] \in Nat
      /\ IsFiniteSet(B) /\ RangesUpTo[b] = Cardinality(B) /\ RangesUpTo[b] \in Nat
  BY UpToIs
<1> HIDE DEF A, B
<1>3. Cardinality(A) <= Cardinality(B)
  BY <1>1, <1>2, FS_Subset
<1>4. ASSUME a < b, ~SetsBase(b) PROVE Cardinality(A) < Cardinality(B)
  <2>1. Cardinality(A \cup {b}) = Cardinality(A) + 1 /\ IsFiniteSet(A \cup {b})
    BY <1>1, <1>2, <1>4, FS_AddElement
  <2>2. Cardinality(A \cup {b}) <= Cardinality(B)
    BY <1>1, <1>2, <1>4, FS_Subset
  <2> QED
    BY <1>2, <2>1, <2>2
<1> QED
  BY <1>2, <1>3, <1>4

\* The ranges are a sequence, each at its number, and nothing else is in it.
LEMMA NumberOfRange ==
  ASSUME NEW k \in 1..LastEntry, LastEntry \in Nat, ~SetsBase(k)
  PROVE  /\ RangesUpTo[k] \in 1..RangesUpTo[LastEntry]
         /\ RangesOf[RangesUpTo[k]] = RangeOf[k]
<1> DEFINE n == RangesUpTo[k]
           N == RangesUpTo[LastEntry]
           c == CHOOSE j \in 1..LastEntry : ~SetsBase(j) /\ RangesUpTo[j] = n
<1>1. k \in Nat /\ 0 < k /\ k <= LastEntry /\ 0 \in Nat
  OBVIOUS
<1>2. n \in Nat /\ N \in Nat
  BY <1>1, UpToIs
<1>3. 0 < n /\ n <= N
  <2>1. RangesUpTo[0] < RangesUpTo[k]
    BY <1>1, UpToGrows
  <2> QED
    BY <1>1, <2>1, UpToStart, UpToGrows
<1>4. n \in 1..N
  BY <1>2, <1>3
<1>5. RangesOf[n] = RangeOf[c]
  BY <1>4 DEF RangesOf
<1>6. c \in 1..LastEntry /\ ~SetsBase(c) /\ RangesUpTo[c] = n
  BY Zenon
<1> HIDE DEF c
<1>7. c = k
  <2>1. c \in Nat
    BY <1>6
  <2>2. ~(c < k) /\ ~(k < c)
    BY <1>1, <1>2, <1>6, <2>1, UpToGrows
  <2> QED
    BY <1>1, <2>1, <2>2
<1> QED
  BY <1>4, <1>5, <1>7

LEMMA RangesAre ==
  ASSUME LastEntry \in Nat
  PROVE  /\ DOMAIN RangesOf = 1..RangesUpTo[LastEntry] /\ RangesUpTo[LastEntry] \in Nat
         /\ \A n \in DOMAIN RangesOf :
              \E k \in 1..LastEntry : ~SetsBase(k) /\ RangesUpTo[k] = n /\ RangesOf[n] = RangeOf[k]
<1>1. DOMAIN RangesOf = 1..RangesUpTo[LastEntry]
  BY DEF RangesOf
<1>2. RangesUpTo[LastEntry] \in Nat
  BY UpToIs
<1>3. ASSUME NEW n \in 1..RangesUpTo[LastEntry]
      PROVE  \E k \in 1..LastEntry : ~SetsBase(k) /\ RangesUpTo[k] = n /\ RangesOf[n] = RangeOf[k]
  <2> DEFINE S == {k \in 0..LastEntry : RangesUpTo[k] >= n}
  <2>1. S \in SUBSET Nat /\ LastEntry \in S
    BY <1>2
  <2>2. PICK k \in S : \A j \in S : k <= j
    BY <2>1, Least
  <2>3. k \in 0..LastEntry /\ k \in Nat /\ RangesUpTo[k] >= n /\ n \in Nat /\ n > 0
    BY <1>2, <2>2
  <2>4. k # 0
    BY <2>3, UpToStart
  <2>5. k - 1 \in Nat /\ k - 1 \in 0..LastEntry /\ (k - 1) + 1 = k /\ ~(k <= k - 1)
    BY <2>3, <2>4
  <2>6. ~(RangesUpTo[k - 1] >= n)
    BY <2>2, <2>5
  <2>7. RangesUpTo[k - 1] \in Nat /\ RangesUpTo[k] \in Nat
    BY <2>3, <2>5, UpToIs
  <2>8. RangesUpTo[k] = IF SetsBase(k) THEN RangesUpTo[k - 1] ELSE RangesUpTo[k - 1] + 1
    BY <2>5, UpToNext
  <2>9. ~SetsBase(k) /\ RangesUpTo[k] = n
    BY <2>3, <2>6, <2>7, <2>8
  <2>10. k \in 1..LastEntry
    BY <2>3, <2>4
  <2> QED
    BY <2>9, <2>10, NumberOfRange
<1> QED
  BY <1>1, <1>2, <1>3

\* Positions count entries.
LEMMA BeforeIs ==
  ASSUME ComesToEnd, NEW k \in 1..LastEntry
  PROVE  RangesBefore(2 * Width * k) = RangesUpTo[k]
<1>1. Width \in {1, 2, 4, 8} /\ LastEntry \in Nat
  BY EndIs
<1>2. \A j \in 1..LastEntry : 2 * Width * j <= 2 * Width * k <=> j <= k
  BY <1>1
<1>3. {j \in 1..LastEntry : ~SetsBase(j) /\ 2 * Width * j <= 2 * Width * k}
        = {j \in 1..k : ~SetsBase(j)}
  <2>1. \A j \in 1..LastEntry : j <= k <=> j \in 1..k
    OBVIOUS
  <2>2. \A j \in 1..k : j \in 1..LastEntry /\ j <= k
    BY <1>1
  <2> QED
    BY <1>2, <2>1, <2>2
<1>4. k \in Nat
  OBVIOUS
<1> QED
  BY <1>3, <1>4, UpToIs DEF RangesBefore

-----------------------------------------------------------------------------
(* The list as a promise.                                                  *)

\* An iterator is at the range of entry k.
Stands(i, k) ==
  /\ ~SetsBase(k) /\ i.pos = 2 * Width * k
  /\ <<i.low, i.high>> = RangeOf[k] /\ i.base = BaseBehind[k]

\* None of the ranges of the first k entries has address a.
Missed(k, a) ==
  \A j \in 1..k : ~SetsBase(j) => ~(RangeOf[j][1] <= a /\ a < RangeOf[j][2])

\* A call has gone over the first k entries.
Reached(r, i, k) ==
  /\ r.cur = Behind(k) /\ r.it.base = BaseBehind[k]
  /\ r.op \in {"begin", "incr", "contains"}
  /\ r.op = "begin" => r.arg = 0 /\ RangesUpTo[k] = 0
  /\ r.op = "incr" => r.arg = 0 /\ i.status = "at" /\ RangesUpTo[k] = RangesBefore(i.pos)
  /\ r.op = "contains" => r.arg \in Addresses /\ Missed(k, r.arg)

\* Iterators of a list that comes to its end are at one of its ranges, in front
\* of them or behind them; a call that goes on has passed some of its entries.
RangeInv ==
  Exact =>
    /\ it.status \in {"none", "at", "end"}
    /\ it.status = "at" => \E k \in 1..LastEntry : Stands(it, k)
    /\ run # NoRun => \E k \in 0..LastEntry : Reached(run, it, k)

\* The ranges are what the list and the file make them.
LEMMA ListSame ==
  ASSUME list' = list, file' = file
  PROVE  /\ ListSec' = ListSec /\ Width' = Width /\ Terminated' = Terminated
         /\ Exact' = Exact /\ LastEntry' = LastEntry
         /\ RangesOf' = RangesOf /\ RangesUpTo' = RangesUpTo
         /\ BaseBehind' = BaseBehind /\ RangeOf' = RangeOf
<1>1. ListSec' = ListSec
  BY DEF ListSec, Slice
<1>2. Width' = Width
  BY <1>1 DEF Width
<1>3. Terminated' = Terminated /\ Exact' = Exact
  <2>1. Terminated' = Terminated
    BY DEF Terminated, EndsAt, IsEnd, IsEntry, Low, High, Width, ListSec, Slice
  <2> QED
    BY <2>1 DEF Exact
<1>4. LastEntry' = LastEntry
  BY DEF LastEntry, EndsAt, IsEnd, IsEntry, Low, High, Width, ListSec, Slice
<1>5. RangesUpTo' = RangesUpTo
  BY DEF RangesUpTo, SetsBase, Low, Width, ListSec, Slice
<1>6. BaseBehind' = BaseBehind
  BY DEF BaseBehind, SetsBase, Low, High, Width, ListSec, Slice
<1>7. RangeOf' = RangeOf
  BY DEF RangeOf, BaseBehind, SetsBase, Low, High, Width, ListSec, Slice
<1>8. RangesOf' = RangesOf
  BY DEF RangesOf, RangesUpTo, LastEntry, EndsAt, IsEnd, IsEntry, Low, High, RangeOf,
         BaseBehind, SetsBase, Width, ListSec, Slice
<1> QED
  BY <1>1, <1>2, <1>3, <1>4, <1>5, <1>6, <1>7, <1>8

LEMMA EntriesSame ==
  ASSUME list' = list, file' = file, NEW k, NEW i, NEW r, NEW a
  PROVE  /\ SetsBase(k)' = SetsBase(k) /\ RangesBefore(a)' = RangesBefore(a)
         /\ RangeIndex(i)' = RangeIndex(i) /\ Behind(k)' = Behind(k)
         /\ Stands(i, k)' = Stands(i, k) /\ Missed(k, a)' = Missed(k, a)
         /\ Reached(r, i, k)' = Reached(r, i, k)
<1>1. \A j : SetsBase(j)' = SetsBase(j)
  BY DEF SetsBase, Low, Width, ListSec, Slice
<1>2. \A b : RangesBefore(b)' = RangesBefore(b)
  BY DEF RangesBefore, LastEntry, EndsAt, IsEnd, IsEntry, SetsBase, Low, High, Width, ListSec, Slice
<1>3. /\ Width' = Width /\ Exact' = Exact /\ LastEntry' = LastEntry /\ RangesUpTo' = RangesUpTo
      /\ BaseBehind' = BaseBehind /\ RangeOf' = RangeOf
  BY ListSame
<1>4. RangeIndex(i)' = RangeIndex(i)
  BY <1>2, <1>3, Zenon DEF RangeIndex
<1>5. Behind(k)' = Behind(k)
  BY <1>3 DEF Behind
<1>6. Stands(i, k)' = Stands(i, k)
  BY <1>1, <1>3 DEF Stands
<1>7. \A b : Missed(k, b)' = Missed(k, b)
  BY <1>1, <1>3 DEF Missed
<1>8. Reached(r, i, k)' = Reached(r, i, k)
  BY <1>2, <1>3, <1>5, <1>7 DEF Reached
<1> QED
  BY <1>1, <1>2, <1>4, <1>5, <1>6, <1>7, <1>8

-----------------------------------------------------------------------------
(* Steps of the promise.                                                   *)

Mapped == [Promise!Next]_(Promise!promised)

\* What the promise says of an iterator, and of the nth range.
Shown(i) == IF i.status = "at" THEN <<i.low, i.high>> ELSE <<0, 0>>
Nth(n) == IF n \in DOMAIN RangesOf THEN RangesOf[n] ELSE <<0, 0>>

\* The client takes another list, or a call begins or goes on.
LEMMA MapsToAnother ==
  ASSUME it' = NoIterator, outcome' = NoOutcome PROVE Mapped
<1>1. it'.status = "none"
  BY DEF NoIterator
<1>2. RangeIndex(it)' = 0
  BY <1>1, Zenon DEF RangeIndex
<1>3. (IF it.status = "at" THEN <<it.low, it.high>> ELSE <<0, 0>>)' = <<0, 0>>
  BY <1>1
<1>4. Promise!Nothing'
  BY <1>2, <1>3 DEF Promise!Nothing, Promise!NoOutcome, Promise!Returned, NoOutcome, Returned
<1> QED
  BY <1>4 DEF Mapped, Promise!Next

LEMMA MapsToCall ==
  ASSUME file' = file, list' = list, it' = it, outcome' = NoOutcome PROVE Mapped
<1>1. Exact' = Exact /\ RangesOf' = RangesOf
  BY ListSame
<1>2. RangeIndex(it)' = RangeIndex(it)
  BY EntriesSame
<1> QED
  BY <1>1, <1>2 DEF Mapped, Promise!Next, Promise!NoOutcome, Promise!Returned, NoOutcome, Returned

LEMMA MapsToStutter ==
  ASSUME file' = file, list' = list, it' = it, outcome' = outcome PROVE Mapped
<1>1. Exact' = Exact /\ RangesOf' = RangesOf
  BY ListSame
<1>2. RangeIndex(it)' = RangeIndex(it)
  BY EntriesSame
<1> QED
  BY <1>1, <1>2 DEF Mapped, Promise!promised

\* Nothing is promised of a list that cannot be read.
LEMMA MapsToAnything ==
  ASSUME file' = file, list' = list, ~Exact PROVE Mapped
<1>1. Exact' = Exact
  BY ListSame
<1> QED
  BY <1>1 DEF Mapped, Promise!Next

\* A call returns: begin or ++ with an iterator, contains with its answer.
LEMMA MapsToMove ==
  ASSUME file' = file, list' = list, Exact,
         NEW op, outcome' = Returned(op, 0, "ok"),
         \/ op = "begin" /\ RangeIndex(it') = 1
         \/ /\ op = "incr" /\ RangeIndex(it) \in DOMAIN RangesOf
            /\ RangeIndex(it') = RangeIndex(it) + 1,
         Shown(it') = Nth(RangeIndex(it'))
  PROVE  Mapped
<1>1. Exact' = Exact /\ RangesOf' = RangesOf
  BY ListSame
<1>2. RangeIndex(it)' = RangeIndex(it')
  BY EntriesSame
<1>3. (IF it.status = "at" THEN <<it.low, it.high>> ELSE <<0, 0>>)' = Promise!Entry'
  BY <1>1, <1>2 DEF Shown, Nth, Promise!Entry
<1>4. outcome' = Promise!Returned(op, 0, "ok")
  BY DEF Returned, Promise!Returned
<1>5. Promise!Begin \/ Promise!Increment
  BY <1>2, <1>3, <1>4 DEF Promise!Begin, Promise!Increment, Promise!MoveTo
<1> QED
  BY <1>1, <1>5 DEF Mapped, Promise!Next

LEMMA MapsToContains ==
  ASSUME file' = file, list' = list, it' = it, NEW a \in Addresses, NEW status,
         outcome' = Returned("contains", a, status), Exact,
         status = IF \E n \in DOMAIN RangesOf : RangesOf[n][1] <= a /\ a < RangesOf[n][2]
                  THEN "yes" ELSE "no"
  PROVE  Mapped
<1>1. Exact' = Exact /\ RangesOf' = RangesOf
  BY ListSame
<1>2. RangeIndex(it)' = RangeIndex(it)
  BY EntriesSame
<1>3. outcome'.arg = a
  BY DEF Returned
<1>4. outcome' = Promise!Found(outcome.arg)'
  BY <1>1, <1>3 DEF Returned, Promise!Found, Promise!Covers, Promise!Returned
<1>5. Promise!Contains
  BY <1>2, <1>3, <1>4 DEF Promise!Contains
<1> QED
  BY <1>1, <1>5 DEF Mapped, Promise!Next

\* Where an iterator is among the ranges, and what it shows.
LEMMA AtIs ==
  ASSUME ComesToEnd, Exact, NEW i, i.status = "at", NEW k \in 1..LastEntry, Stands(i, k)
  PROVE  /\ RangeIndex(i) = RangesUpTo[k] /\ RangeIndex(i) \in DOMAIN RangesOf
         /\ Shown(i) = Nth(RangeIndex(i))
<1>1. LastEntry \in Nat
  BY EndIs
<1>2. RangeIndex(i) = RangesBefore(i.pos)
  BY Zenon DEF RangeIndex
<1>3. RangesBefore(i.pos) = RangesUpTo[k]
  BY BeforeIs DEF Stands
<1>4. RangesUpTo[k] \in DOMAIN RangesOf /\ RangesOf[RangesUpTo[k]] = RangeOf[k]
  BY <1>1, NumberOfRange, RangesAre DEF Stands
<1> QED
  BY <1>2, <1>3, <1>4 DEF Shown, Nth, Stands

LEMMA AtEndIs ==
  ASSUME Exact, LastEntry \in Nat
  PROVE  /\ RangeIndex(End) = RangesUpTo[LastEntry] + 1
         /\ Shown(End) = Nth(RangeIndex(End)) /\ RangesUpTo[LastEntry] \in Nat
<1>1. End.status = "end"
  BY DEF End, NoIterator
<1>2. RangeIndex(End) = RangesUpTo[LastEntry] + 1
  BY <1>1, Zenon DEF RangeIndex
<1>3. RangesUpTo[LastEntry] \in Nat /\ DOMAIN RangesOf = 1..RangesUpTo[LastEntry]
  BY RangesAre
<1> QED
  BY <1>1, <1>2, <1>3 DEF Shown, Nth

-----------------------------------------------------------------------------
(* Every step is one of the promise.                                       *)

LEMMA TakingMaps ==
  ASSUME run = NoRun, NEW l, TakeList(l) PROVE RangeInv' /\ Mapped
<1>1. it' = NoIterator /\ outcome' = NoOutcome /\ run' = NoRun
  BY DEF TakeList
<1>2. it'.status = "none"
  BY <1>1 DEF NoIterator
<1> QED
  BY <1>1, <1>2, MapsToAnother DEF RangeInv

LEMMA StayingMaps ==
  ASSUME RangeInv, file' = file, UNCHANGED listVars PROVE RangeInv' /\ Mapped
<1>1. list' = list /\ it' = it /\ run' = run /\ outcome' = outcome
  BY DEF listVars
<1>2. Exact' = Exact /\ LastEntry' = LastEntry
  BY <1>1, ListSame
<1>3. \A k : Stands(it, k)' = Stands(it, k) /\ Reached(run, it, k)' = Reached(run, it, k)
  <2>1. \A k, i, r : Stands(i, k)' = Stands(i, k) /\ Reached(r, i, k)' = Reached(r, i, k)
    BY <1>1, EntriesSame
  <2> QED
    BY <1>1, <2>1
<1>4. RangeInv'
  BY <1>1, <1>2, <1>3 DEF RangeInv
<1> QED
  BY <1>1, <1>4, MapsToStutter

\* What has to be shown of a loop in a list that comes to its end.
LEMMA RangeInvIf ==
  ASSUME list' = list, file' = file,
         it'.status \in {"none", "at", "end"},
         it'.status = "at" => \E k \in 1..LastEntry : Stands(it', k),
         run' # NoRun => \E k \in 0..LastEntry : Reached(run', it', k)
  PROVE  RangeInv'
<1>1. LastEntry' = LastEntry
  BY ListSame
<1>2. \A k, i, r : Stands(i, k)' = Stands(i, k) /\ Reached(r, i, k)' = Reached(r, i, k)
  BY EntriesSame
<1> QED
  BY <1>1, <1>2 DEF RangeInv

\* A loop begins in front of the list, or behind the range of its iterator.
LEMMA EnteringMaps ==
  ASSUME file \in Files, ListInv, RangeInv, file' = file, list' = list, list # Empty, run = NoRun,
         NEW op, NEW i, NEW arg, Enter(op, i, arg),
         \/ op = "begin" /\ i = Fresh /\ arg = 0
         \/ op = "incr" /\ i = it /\ arg = 0 /\ it.status \in {"at", "threw"}
         \/ op = "contains" /\ i = Fresh /\ arg \in Addresses
  PROVE  RangeInv' /\ Mapped
<1>1. /\ run' = [op |-> op, it |-> i, arg |-> arg, cur |-> list.start + i.pos]
      /\ outcome' = NoOutcome /\ it' = it
  BY DEF Enter
<1>2. Mapped
  BY <1>1, MapsToCall
<1>3. CASE Exact
  <2>1. ComesToEnd
    BY <1>3 DEF ComesToEnd, Exact, ListInv
  <2>2. /\ list.start \in Nat /\ LastEntry \in Nat
        /\ Behind(0) = list.start
    BY <2>1, EndIs, BehindStart
  <2>3. /\ it.status \in {"none", "at", "end"}
        /\ it.status = "at" => \E k \in 1..LastEntry : Stands(it, k)
    BY <1>3 DEF RangeInv
  <2>4. CASE op \in {"begin", "contains"}
    <3>1. i.pos = 0 /\ i.base = list.base
      BY <2>4 DEF Fresh, NoIterator
    <3>2. run'.cur = Behind(0) /\ run'.it.base = BaseBehind[0] /\ run'.op = op /\ run'.arg = arg
      BY <1>1, <2>2, <3>1, BaseStart
    <3>3. Missed(0, arg)
      BY DEF Missed
    <3>4. Reached(run', it, 0)
      BY <2>4, <3>2, <3>3, UpToStart DEF Reached
    <3>5. 0 \in 0..LastEntry
      BY <2>2
    <3> QED
      BY <1>1, <1>2, <2>3, <3>4, <3>5, RangeInvIf
  <2>5. CASE op = "incr"
    <3>1. it.status = "at" /\ i = it /\ arg = 0
      BY <2>3, <2>5
    <3>2. PICK k \in 1..LastEntry : Stands(it, k)
      BY <2>3, <3>1
    <3>3. run'.cur = Behind(k) /\ run'.it.base = BaseBehind[k] /\ run'.op = op /\ run'.arg = 0
      BY <1>1, <3>1, <3>2 DEF Stands, Behind
    <3>4. RangesUpTo[k] = RangesBefore(it.pos)
      BY <2>1, <3>2, BeforeIs DEF Stands
    <3>5. Reached(run', it, k)
      BY <2>5, <3>1, <3>3, <3>4 DEF Reached
    <3>6. k \in 0..LastEntry
      OBVIOUS
    <3> QED
      BY <1>1, <1>2, <2>3, <3>5, <3>6, RangeInvIf
  <2> QED
    BY <2>4, <2>5
<1>4. CASE ~Exact
  BY <1>2, <1>4, ListSame DEF RangeInv
<1> QED
  BY <1>3, <1>4

LEMMA ClientMaps ==
  ASSUME file \in Files, ListInv, RangeInv, file' = file, ListClient PROVE RangeInv' /\ Mapped
<1>1. list' = list /\ run = NoRun
  BY DEF ListClient, Begin, Increment, ListContains, Resting
<1>2. CASE list = Empty
  <2>1. Exact /\ LastEntry = 0 /\ DOMAIN RangesOf = {}
    <3>1. Exact /\ LastEntry = 0
      BY <1>2 DEF Exact, LastEntry
    <3>2. DOMAIN RangesOf = 1..0
      BY <3>1, RangesAre, UpToStart
    <3> QED
      BY <3>1, <3>2
  <2>2. /\ it.status \in {"none", "end"}
    BY <1>2, <2>1 DEF RangeInv, ListInv
  <2>3. CASE Begin
    <3>1. it' = End /\ run' = NoRun /\ outcome' = Returned("begin", 0, "ok")
      BY <1>1, <1>2, <2>3 DEF Begin
    <3>2. End.status = "end"
      BY DEF End, NoIterator
    <3>3. RangeIndex(End) = 1 /\ Shown(End) = Nth(RangeIndex(End))
      BY <2>1, AtEndIs, UpToStart
    <3> QED
      BY <1>1, <2>1, <3>1, <3>2, <3>3, RangeInvIf, MapsToMove
  <2>4. ASSUME NEW a \in Addresses, ListContains(a) PROVE RangeInv' /\ Mapped
    <3>1. it' = it /\ run' = NoRun /\ outcome' = Returned("contains", a, "no")
      BY <1>1, <1>2, <2>4 DEF ListContains
    <3>2. RangeInv'
      BY <1>1, <2>2, <3>1, RangeInvIf
    <3> QED
      BY <1>1, <2>1, <3>1, <3>2, MapsToContains
  <2>5. ~Increment
    BY <2>2 DEF Increment
  <2> QED
    BY <2>3, <2>4, <2>5 DEF ListClient
<1>3. CASE list # Empty
  <2>1. CASE Begin
    <3>1. Enter("begin", Fresh, 0)
      BY <1>3, <2>1 DEF Begin
    <3> QED
      BY <1>1, <1>3, <3>1, EnteringMaps
  <2>2. CASE Increment
    <3>1. Enter("incr", it, 0) /\ it.status \in {"at", "threw"}
      BY <2>2 DEF Increment
    <3> QED
      BY <1>1, <1>3, <3>1, EnteringMaps
  <2>3. ASSUME NEW a \in Addresses, ListContains(a) PROVE RangeInv' /\ Mapped
    <3>1. Enter("contains", Fresh, a)
      BY <1>3, <2>3 DEF ListContains
    <3> QED
      BY <1>1, <1>3, <3>1, EnteringMaps
  <2> QED
    BY <2>1, <2>2, <2>3 DEF ListClient
<1> QED
  BY <1>2, <1>3

\* What a call returns with that has passed k entries and found an iterator.
LEMMA ReturningMaps ==
  ASSUME file' = file, list' = list, ComesToEnd, Exact,
         NEW k \in 0..LastEntry, Reached(run, it, k),
         it.status \in {"none", "at", "end"},
         it.status = "at" => \E j \in 1..LastEntry : Stands(it, j),
         run.op # "contains", NEW i, Return(i, "ok"), i.status \in {"at", "end"},
         i.status = "at" => \E j \in 1..LastEntry : Stands(i, j),
         Shown(i) = Nth(RangeIndex(i)), RangeIndex(i) = RangesUpTo[k] + 1
  PROVE  RangeInv' /\ Mapped
<1>1. run' = NoRun /\ it' = i /\ outcome' = Returned(run.op, run.arg, "ok")
  BY DEF Return
<1>2. RangeInv'
  BY <1>1, RangeInvIf
<1>4. CASE run.op = "begin"
  <2>1. run.arg = 0 /\ RangesUpTo[k] = 0
    BY <1>4 DEF Reached
  <2> QED
    BY <1>1, <1>2, <1>4, <2>1, MapsToMove
<1>5. CASE run.op = "incr"
  <2>1. run.arg = 0 /\ it.status = "at" /\ RangesUpTo[k] = RangesBefore(it.pos)
    BY <1>5 DEF Reached
  <2>2. RangeIndex(it) = RangesUpTo[k]
    BY <2>1, Zenon DEF RangeIndex
  <2>3. RangeIndex(it) \in DOMAIN RangesOf
    BY <2>1, AtIs
  <2> QED
    BY <1>1, <1>2, <1>5, <2>1, <2>2, <2>3, MapsToMove
<1> QED
  BY <1>4, <1>5 DEF Reached

\* contains that has passed all entries is right to say no.
LEMMA NotCovered ==
  ASSUME LastEntry \in Nat, NEW a, Missed(LastEntry, a)
  PROVE  ~\E n \in DOMAIN RangesOf : RangesOf[n][1] <= a /\ a < RangesOf[n][2]
<1> SUFFICES ASSUME NEW n \in DOMAIN RangesOf PROVE ~(RangesOf[n][1] <= a /\ a < RangesOf[n][2])
  OBVIOUS
<1>1. PICK k \in 1..LastEntry : ~SetsBase(k) /\ RangesOf[n] = RangeOf[k]
  BY RangesAre
<1> QED
  BY <1>1 DEF Missed

\* One entry is read: the end, a base address, or a range.
LEMMA ReadingMaps ==
  ASSUME file \in Files, ListInv, RangeInv, file' = file, ReadEntry PROVE RangeInv' /\ Mapped
<1> DEFINE low == Address(ListSec, run.cur)
           high == Address(ListSec, low.pos)
<1>1. run # NoRun /\ run \in Run /\ run.it \in Iterator /\ list # Empty /\ IsList(list)
  BY DEF ReadEntry, Running, ListInv, Run
<1>2. CannotRead(low, high) \/ EndOfList(low, high) \/ BaseAddress(low, high) \/ RegularEntry(low, high)
  BY DEF ReadEntry
<1>3. list' = list
  <2> HIDE DEF low, high
  <2> QED
    BY <1>2 DEF CannotRead, EndOfList, BaseAddress, RegularEntry
<1>4. CASE ~Exact
  BY <1>3, <1>4, ListSame, MapsToAnything DEF RangeInv
<1>5. CASE Exact
  <2>1. ComesToEnd
    BY <1>1, <1>5 DEF ComesToEnd, Exact
  <2>2. PICK k \in 0..LastEntry : Reached(run, it, k)
    BY <1>1, <1>5 DEF RangeInv
  <2>3. /\ it.status \in {"none", "at", "end"}
        /\ it.status = "at" => \E j \in 1..LastEntry : Stands(it, j)
    BY <1>5 DEF RangeInv
  <2>4. run.cur = Behind(k) /\ run.it.base = BaseBehind[k]
    BY <2>2 DEF Reached
  <2>5. low = Low(k + 1) /\ high = High(k + 1)
    BY <2>1, <2>4, EntryIs
  <2> HIDE DEF low, high
  <2>6. /\ EntryOK(low, high) /\ high.pos = Behind(k + 1)
        /\ low.value \in 0..(M - 1) /\ high.value \in 0..(M - 1)
        /\ k < LastEntry => ~Ends(low, high)
        /\ k = LastEntry => Ends(low, high)
    BY <2>1, <2>5, EntryIs
  <2>7. LastEntry \in Nat /\ k \in Nat
    BY <2>1, EndIs
  <2>8. RangesUpTo[k] \in Nat /\ RangesUpTo[k + 1] = IF SetsBase(k + 1) THEN RangesUpTo[k] ELSE RangesUpTo[k] + 1
    BY <2>7, UpToIs, UpToNext
  <2>9. BaseBehind[k + 1] = IF SetsBase(k + 1) THEN High(k + 1).value ELSE BaseBehind[k]
    BY <2>7, BaseNext
  <2>10. ~CannotRead(low, high)
    BY <2>6 DEF CannotRead
  <2>11. CASE EndOfList(low, high)
    <3>1. k = LastEntry
      BY <2>6, <2>7, <2>11 DEF EndOfList
    <3>2. CASE run.op = "contains"
      <4>1. it' = it /\ run' = NoRun /\ outcome' = Returned("contains", run.arg, "no")
        BY <2>11, <3>2 DEF EndOfList, Leave, Return
      <4>2. run.arg \in Addresses /\ Missed(LastEntry, run.arg)
        BY <2>2, <3>1, <3>2 DEF Reached
      <4>3. RangeInv'
        BY <1>3, <2>3, <4>1, RangeInvIf
      <4>4. ~\E n \in DOMAIN RangesOf : RangesOf[n][1] <= run.arg /\ run.arg < RangesOf[n][2]
        BY <2>7, <4>2, NotCovered
      <4> QED
        BY <1>3, <1>5, <4>1, <4>2, <4>3, <4>4, MapsToContains
    <3>3. CASE run.op # "contains"
      <4>1. Return(End, "ok")
        BY <2>11, <3>3 DEF EndOfList, Leave
      <4>2. /\ End.status = "end" /\ Shown(End) = Nth(RangeIndex(End))
            /\ RangeIndex(End) = RangesUpTo[k] + 1
        BY <1>5, <2>7, <3>1, AtEndIs DEF End, NoIterator
      <4> QED
        BY <1>3, <1>5, <2>1, <2>2, <2>3, <3>3, <4>1, <4>2, ReturningMaps
    <3> QED
      BY <3>2, <3>3
  <2>12. ASSUME ~Ends(low, high) PROVE k + 1 \in 1..LastEntry /\ k + 1 \in 0..LastEntry
    BY <2>6, <2>7, <2>12
  <2>13. CASE BaseAddress(low, high)
    <3>1. k + 1 \in 0..LastEntry /\ SetsBase(k + 1)
      BY <2>5, <2>12, <2>13 DEF BaseAddress, SetsBase
    <3>2. /\ run'.cur = high.pos /\ run'.it.base = high.value
          /\ run'.op = run.op /\ run'.arg = run.arg /\ it' = it /\ outcome' = outcome
      BY <1>1, <2>13 DEF BaseAddress, Run, Iterator
    <3>3. Missed(k, run.arg) => Missed(k + 1, run.arg)
      <4>1. \A j \in 1..(k + 1) : j \in 1..k \/ j = k + 1
        BY <2>7
      <4> QED
        BY <3>1, <4>1 DEF Missed
    <3>4. Reached(run', it, k + 1)
      BY <2>2, <2>5, <2>6, <2>8, <2>9, <3>1, <3>2, <3>3 DEF Reached
    <3>5. RangeInv'
      BY <1>3, <2>3, <3>1, <3>2, <3>4, RangeInvIf
    <3> QED
      BY <1>3, <3>2, <3>5, MapsToStutter
  <2>14. CASE RegularEntry(low, high)
    <3> DEFINE i == [run.it EXCEPT !.status = "at", !.pos = high.pos - list.start,
                                   !.low = (low.value + run.it.base) % M,
                                   !.high = (high.value + run.it.base) % M]
    <3>1. k + 1 \in 1..LastEntry /\ k + 1 \in 0..LastEntry /\ ~SetsBase(k + 1)
      <4>1. ~Ends(low, high) /\ LargestOffset(list.addr_size) # {low.value}
        BY <2>14 DEF RegularEntry
      <4>2. PICK x : LargestOffset(list.addr_size) = {x}
        BY <1>1, <1>5, LargestIs DEF Exact, IsList
      <4> QED
        BY <2>5, <2>12, <4>1, <4>2 DEF SetsBase
    <3>2. /\ run.op # "contains" => Return(i, "ok")
          /\ run.op = "contains" /\ i.low <= run.arg /\ run.arg < i.high => Return(it, "yes")
          /\ run.op = "contains" /\ ~(i.low <= run.arg /\ run.arg < i.high) =>
               run' = [run EXCEPT !.it = i, !.cur = high.pos] /\ UNCHANGED <<it, outcome>>
      BY <2>14 DEF RegularEntry, Leave
    <3>3. /\ i.status = "at" /\ i.pos = high.pos - list.start /\ i.base = run.it.base
          /\ i.low = (low.value + run.it.base) % M /\ i.high = (high.value + run.it.base) % M
      BY <1>1 DEF Iterator
    <3> HIDE DEF i
    <3>4. BaseBehind[k + 1] = run.it.base
      BY <2>4, <2>9, <3>1
    <3>5. RangeOf[k + 1] = <<i.low, i.high>>
      <4>1. k + 1 \in Nat
        BY <2>7
      <4> QED
        BY <2>5, <3>3, <3>4, <4>1 DEF RangeOf
    <3>6. i.pos = 2 * Width * (k + 1)
      BY <2>1, <2>6, <2>7, <3>3, BehindIs
    <3>7. Stands(i, k + 1)
      BY <3>1, <3>3, <3>4, <3>5, <3>6 DEF Stands
    <3>8. /\ RangeIndex(i) = RangesUpTo[k + 1] /\ RangeIndex(i) \in DOMAIN RangesOf
          /\ Shown(i) = Nth(RangeIndex(i))
      BY <1>5, <2>1, <3>1, <3>3, <3>7, AtIs
    <3>9. CASE run.op # "contains"
      <4>1. RangeIndex(i) = RangesUpTo[k] + 1
        BY <2>8, <3>1, <3>8
      <4> QED
        BY <1>3, <1>5, <2>1, <2>2, <2>3, <3>1, <3>2, <3>3, <3>7, <3>8, <3>9, <4>1, ReturningMaps
    <3>10. CASE run.op = "contains" /\ i.low <= run.arg /\ run.arg < i.high
      <4>1. it' = it /\ run' = NoRun /\ outcome' = Returned("contains", run.arg, "yes")
        BY <3>2, <3>10 DEF Return
      <4>2. run.arg \in Addresses
        BY <2>2, <3>10 DEF Reached
      <4>3. RangeInv'
        BY <1>3, <2>3, <4>1, RangeInvIf
      <4>4. \E n \in DOMAIN RangesOf : RangesOf[n][1] <= run.arg /\ run.arg < RangesOf[n][2]
        <5>1. RangesOf[RangesUpTo[k + 1]] = RangeOf[k + 1]
          BY <2>7, <3>1, NumberOfRange
        <5> QED
          BY <3>5, <3>8, <3>10, <5>1
      <4> QED
        BY <1>3, <1>5, <4>1, <4>2, <4>3, <4>4, MapsToContains
    <3>11. CASE run.op = "contains" /\ ~(i.low <= run.arg /\ run.arg < i.high)
      <4>1. /\ run'.cur = high.pos /\ run'.it.base = run.it.base
            /\ run'.op = run.op /\ run'.arg = run.arg /\ it' = it /\ outcome' = outcome
        BY <1>1, <3>2, <3>3, <3>11 DEF Run
      <4>2. Missed(k + 1, run.arg)
        <5>1. \A j \in 1..(k + 1) : j \in 1..k \/ j = k + 1
          BY <2>7
        <5>2. Missed(k, run.arg)
          BY <2>2, <3>11 DEF Reached
        <5>3. RangeOf[k + 1][1] = i.low /\ RangeOf[k + 1][2] = i.high
          BY <3>5
        <5> QED
          BY <3>11, <5>1, <5>2, <5>3 DEF Missed
      <4>3. Reached(run', it, k + 1)
        BY <2>2, <2>6, <3>4, <3>11, <4>1, <4>2 DEF Reached
      <4>4. RangeInv'
        BY <1>3, <2>3, <3>1, <4>1, <4>3, RangeInvIf
      <4> QED
        BY <1>3, <4>1, <4>4, MapsToStutter
    <3> QED
      BY <3>9, <3>10, <3>11
  <2> QED
    BY <1>2, <2>10, <2>11, <2>13, <2>14
<1> QED
  BY <1>4, <1>5

LEMMA NextMaps == ASSUME Inv, RangeInv, PcNext PROVE RangeInv' /\ Mapped
<1>1. file \in Files /\ ListInv
  BY DEF Inv, ValueInv
<1>2. CASE UNCHANGED listVars /\ (DieClient \/ DynamicStep)
  <2>1. file' = file
    BY <1>2 DEF DieClient, Locate, Fetch, Dynamic, Convert, Follow, AskResolve, DynamicStep
  <2> QED
    BY <1>2, <2>1, StayingMaps
<1>3. CASE GetRanges
  <2>1. PICK r \in {DiePcRange(die)} :
          IF r.status = "ok" THEN TakeList(r.value) ELSE UNCHANGED listVars
    BY <1>3 DEF GetRanges
  <2>2. run = NoRun /\ file' = file
    BY <1>1, <1>3 DEF GetRanges, ListInv
  <2> QED
    BY <2>1, <2>2, TakingMaps, StayingMaps
<1>4. CASE MakeList \/ DropList
  <2>1. run = NoRun /\ \E l : TakeList(l)
    BY <1>1, <1>4 DEF MakeList, DropList, Resting, ListInv
  <2> QED
    BY <2>1, TakingMaps
<1>5. CASE (ListClient \/ ReadEntry) /\ UNCHANGED valueVars
  <2>1. file' = file
    BY <1>5 DEF valueVars
  <2> QED
    BY <1>1, <1>5, <2>1, ClientMaps, ReadingMaps
<1> QED
  BY <1>2, <1>3, <1>4, <1>5 DEF PcNext

\* In any files, well-formed or not, a list that comes to its end is the sequence
\* of its ranges for whatever the client does: begin is at the first of them, ++
\* goes to the next one, and contains is about all of them.
THEOREM ListRefinement == Spec => RefinesRanges
<1>1. PcInit => RangeInv /\ Promise!Init
  <2> SUFFICES ASSUME PcInit PROVE RangeInv /\ Promise!Init
    OBVIOUS
  <2>1. list = NoList /\ it = NoIterator /\ run = NoRun /\ outcome = NoOutcome
    BY DEF PcInit, ListInit
  <2>2. it.status = "none"
    BY <2>1 DEF NoIterator
  <2>3. RangeIndex(it) = 0
    BY <2>2, Zenon DEF RangeIndex
  <2>4. ~Exact
    <3>1. file \in Files /\ IsList(list)
      BY InitKeeps DEF Inv, ValueInv, ListInv
    <3>2. list # Empty /\ Width = 0
      BY <2>1 DEF NoList, Empty, Width, ListSec, Slice
    <3>3. Exact => Width \in {1, 2, 4, 8}
      BY <3>1, <3>2, EndIs DEF ComesToEnd, Exact
    <3> QED
      BY <3>2, <3>3
  <2> QED
    BY <2>1, <2>2, <2>3, <2>4 DEF RangeInv, Promise!Init, Promise!Nothing, Promise!NoOutcome,
       Promise!Returned, NoOutcome, Returned
<1>2. Inv /\ RangeInv /\ [PcNext]_vars => RangeInv' /\ Mapped
  <2>1. ASSUME Inv, RangeInv, UNCHANGED vars PROVE RangeInv' /\ Mapped
    BY <2>1, StayingMaps DEF vars, valueVars
  <2> QED
    BY <2>1, NextMaps
<1> QED
  BY <1>1, <1>2, AlwaysInv, PTL DEF Spec, RefinesRanges, Promise!Spec, Mapped

-----------------------------------------------------------------------------
(* Loops read inside of a list that comes to its end.                      *)

\* In such a list, iterators and the cursor are at the borders of its entries,
\* which is so for addresses of any size.
PlaceInv ==
  /\ LoopsInside
  /\ Terminated =>
       /\ it.status \in {"none", "at", "end"}
       /\ it.status = "at" => \E k \in 0..LastEntry : it.pos = 2 * Width * k
       /\ run # NoRun => \E k \in 0..LastEntry : run.cur = Behind(k)

\* What has to be shown of a step in a list.
LEMMA PlaceIf ==
  ASSUME file' = file, list' = list,
         outcome'.status = "wild" => list.memory = << >> /\ ~Terminated,
         Terminated =>
           /\ it'.status \in {"none", "at", "end"}
           /\ it'.status = "at" => \E k \in 0..LastEntry : it'.pos = 2 * Width * k
           /\ run' # NoRun => \E k \in 0..LastEntry : run'.cur = Behind(k)
  PROVE  PlaceInv'
<1>1. Terminated' = Terminated /\ LastEntry' = LastEntry /\ Width' = Width
  BY ListSame
<1>2. \A k : Behind(k)' = Behind(k)
  BY EntriesSame
<1>3. LoopsInside'
  BY <1>1 DEF LoopsInside
<1> QED
  BY <1>1, <1>2, <1>3 DEF PlaceInv

LEMMA TakingStays == ASSUME run = NoRun, NEW l, TakeList(l) PROVE PlaceInv'
<1>1. it' = NoIterator /\ outcome' = NoOutcome /\ run' = NoRun
  BY DEF TakeList
<1>2. it'.status = "none" /\ outcome'.status = "none"
  BY <1>1 DEF NoIterator, NoOutcome, Returned
<1>3. LoopsInside'
  BY <1>2 DEF LoopsInside
<1> QED
  BY <1>1, <1>2, <1>3 DEF PlaceInv

LEMMA PlaceStays == ASSUME PlaceInv, file' = file, UNCHANGED listVars PROVE PlaceInv'
<1>1. list' = list /\ it' = it /\ run' = run /\ outcome' = outcome
  BY DEF listVars
<1>2. outcome'.status = "wild" => list.memory = << >> /\ ~Terminated
  BY <1>1 DEF PlaceInv, LoopsInside
<1>3. Terminated =>
        /\ it'.status \in {"none", "at", "end"}
        /\ it'.status = "at" => \E k \in 0..LastEntry : it'.pos = 2 * Width * k
        /\ run' # NoRun => \E k \in 0..LastEntry : run'.cur = Behind(k)
  BY <1>1 DEF PlaceInv
<1> QED
  BY <1>1, <1>2, <1>3, PlaceIf

\* A loop begins where its iterator is.
LEMMA EnteringStays ==
  ASSUME file \in Files, ListInv, PlaceInv, file' = file, list' = list,
         NEW op, NEW i, NEW arg, Enter(op, i, arg),
         \/ i = Fresh
         \/ i = it /\ it.status \in {"at", "threw"}
  PROVE  PlaceInv'
<1>1. run'.cur = list.start + i.pos /\ outcome' = NoOutcome /\ it' = it
  BY DEF Enter
<1>2. outcome'.status = "none"
  BY <1>1 DEF NoOutcome, Returned
<1>3. ASSUME Terminated PROVE \E k \in 0..LastEntry : run'.cur = Behind(k)
  <2>1. ComesToEnd
    BY <1>3 DEF ComesToEnd, ListInv
  <2>2. list.start \in Nat /\ LastEntry \in Nat /\ Behind(0) = list.start
    BY <2>1, EndIs, BehindStart
  <2>3. CASE i = Fresh
    <3>1. run'.cur = Behind(0) /\ 0 \in 0..LastEntry
      BY <1>1, <2>2, <2>3 DEF Fresh, NoIterator
    <3> QED
      BY <3>1
  <2>4. CASE i = it /\ it.status \in {"at", "threw"}
    <3>1. it.status = "at"
      BY <1>3, <2>4 DEF PlaceInv
    <3>2. PICK k \in 0..LastEntry : it.pos = 2 * Width * k
      BY <1>3, <3>1 DEF PlaceInv
    <3>3. run'.cur = Behind(k)
      BY <1>1, <2>4, <3>2 DEF Behind
    <3> QED
      BY <3>3
  <2> QED
    BY <2>3, <2>4
<1>4. Terminated =>
        /\ it'.status \in {"none", "at", "end"}
        /\ it'.status = "at" => \E k \in 0..LastEntry : it'.pos = 2 * Width * k
  BY <1>1 DEF PlaceInv
<1> QED
  BY <1>2, <1>3, <1>4, PlaceIf

LEMMA ClientStays ==
  ASSUME file \in Files, ListInv, PlaceInv, file' = file, ListClient PROVE PlaceInv'
<1>1. list' = list
  BY DEF ListClient, Begin, Increment, ListContains
<1>2. CASE list = Empty
  <2>1. ~Terminated
    BY <1>2 DEF Terminated
  <2>2. ~Increment
    BY <1>2 DEF Increment, ListInv
  <2>3. outcome'.status # "wild"
    BY <1>2, <2>2 DEF ListClient, Begin, ListContains, Returned
  <2> QED
    BY <1>1, <2>1, <2>3, PlaceIf
<1>3. CASE list # Empty
  <2>1. CASE Begin
    <3>1. Enter("begin", Fresh, 0)
      BY <1>3, <2>1 DEF Begin
    <3> QED
      BY <1>1, <3>1, EnteringStays
  <2>2. CASE Increment
    <3>1. Enter("incr", it, 0) /\ it.status \in {"at", "threw"}
      BY <2>2 DEF Increment
    <3> QED
      BY <1>1, <3>1, EnteringStays
  <2>3. ASSUME NEW a \in Addresses, ListContains(a) PROVE PlaceInv'
    <3>1. Enter("contains", Fresh, a)
      BY <1>3, <2>3 DEF ListContains
    <3> QED
      BY <1>1, <3>1, EnteringStays
  <2> QED
    BY <2>1, <2>2, <2>3 DEF ListClient
<1> QED
  BY <1>2, <1>3

\* A list in memory claims no more than there is.
LEMMA MemoryIsWhole ==
  ASSUME ListInv, list.memory # << >> PROVE ListSec.end = Len(ListSec.data)
  BY DEF ListSec

\* One entry is read: when that cannot be done, the list has no end.
LEMMA ReadingStays ==
  ASSUME file \in Files, ListInv, PlaceInv, file' = file, ReadEntry PROVE PlaceInv'
<1> DEFINE low == Address(ListSec, run.cur)
           high == Address(ListSec, low.pos)
<1>1. /\ run # NoRun /\ run \in Run /\ run.it \in Iterator /\ list # Empty /\ IsList(list)
      /\ run.cur \in Nat
  BY DEF ReadEntry, Running, ListInv, Run
<1>2. CannotRead(low, high) \/ EndOfList(low, high) \/ BaseAddress(low, high) \/ RegularEntry(low, high)
  BY DEF ReadEntry
<1>3. list' = list
  <2> HIDE DEF low, high
  <2> QED
    BY <1>2 DEF CannotRead, EndOfList, BaseAddress, RegularEntry
<1>4. IsSection(ListSec)
  BY <1>1, ListSecIs
<1>5. /\ SafeIn(ListSec, low)
      /\ low.status = "ok" => low.pos \in Nat
  BY <1>1, <1>4, AddressIs
<1>6. low.status = "ok" => SafeIn(ListSec, high)
  BY <1>4, <1>5, AddressIs
<1>7. ASSUME Terminated
      PROVE  \E k \in 0..LastEntry :
               /\ EntryOK(low, high) /\ high.pos = Behind(k + 1)
               /\ high.pos - list.start = 2 * Width * (k + 1)
               /\ ~Ends(low, high) => k + 1 \in 0..LastEntry
  <2>1. ComesToEnd
    BY <1>1, <1>7 DEF ComesToEnd
  <2>2. PICK k \in 0..LastEntry : run.cur = Behind(k)
    BY <1>1, <1>7 DEF PlaceInv
  <2>3. low = Low(k + 1) /\ high = High(k + 1)
    BY <2>1, <2>2, EntryIs
  <2> HIDE DEF low, high
  <2>4. /\ EntryOK(low, high) /\ high.pos = Behind(k + 1)
        /\ k = LastEntry => Ends(low, high)
    BY <2>1, <2>3, EntryIs
  <2>5. LastEntry \in Nat /\ k \in Nat
    BY <2>1, EndIs
  <2>6. Behind(k + 1) - list.start = 2 * Width * (k + 1)
    BY <2>1, <2>5, BehindIs
  <2>7. ~Ends(low, high) => k + 1 \in 0..LastEntry
    BY <2>4, <2>5
  <2> QED
    BY <2>4, <2>6, <2>7
<1> HIDE DEF low, high
<1>8. Terminated =>
        /\ it.status \in {"none", "at", "end"}
        /\ it.status = "at" => \E k \in 0..LastEntry : it.pos = 2 * Width * k
  BY DEF PlaceInv
<1>9. CASE CannotRead(low, high)
  <2> DEFINE failed == IF low.status = "ok" THEN high ELSE low
  <2>1. ~Terminated
    BY <1>7, <1>9 DEF CannotRead
  <2>2. outcome'.status = "wild" => failed.status = "wild"
    BY <1>9 DEF CannotRead, Throw, Leave, Return, Returned
  <2>3. failed.status = "wild" => ~(ListSec.end <= Len(ListSec.data))
    BY <1>5, <1>6 DEF SafeIn
  <2> HIDE DEF failed
  <2>4. list.memory # << >> => ListSec.end <= Len(ListSec.data)
    <3>1. ListSec.end \in Nat
      BY <1>4 DEF IsSection
    <3> QED
      BY <3>1, MemoryIsWhole
  <2>5. outcome'.status = "wild" => list.memory = << >> /\ ~Terminated
    BY <2>1, <2>2, <2>3, <2>4
  <2> QED
    BY <1>3, <2>1, <2>5, PlaceIf
<1>10. CASE EndOfList(low, high)
  <2>1. /\ run' = NoRun /\ it' \in {it, End} /\ outcome'.status \in {"no", "ok"}
    BY <1>10 DEF EndOfList, Leave, Return, Returned
  <2>2. End.status = "end"
    BY DEF End, NoIterator
  <2>3. Terminated =>
          /\ it'.status \in {"none", "at", "end"}
          /\ it'.status = "at" => \E k \in 0..LastEntry : it'.pos = 2 * Width * k
    BY <1>8, <2>1, <2>2
  <2> QED
    BY <1>3, <2>1, <2>3, PlaceIf
<1>11. CASE BaseAddress(low, high)
  <2>1. /\ ~Ends(low, high) /\ run'.cur = high.pos /\ it' = it /\ outcome' = outcome
    BY <1>1, <1>11 DEF BaseAddress, Run
  <2>2. Terminated => \E k \in 0..LastEntry : run'.cur = Behind(k)
    BY <1>7, <2>1
  <2>3. outcome'.status = "wild" => list.memory = << >> /\ ~Terminated
    BY <2>1 DEF PlaceInv, LoopsInside
  <2>4. Terminated =>
          /\ it'.status \in {"none", "at", "end"}
          /\ it'.status = "at" => \E k \in 0..LastEntry : it'.pos = 2 * Width * k
    BY <1>8, <2>1
  <2> QED
    BY <1>3, <2>2, <2>3, <2>4, PlaceIf
<1>12. CASE RegularEntry(low, high)
  <2> DEFINE i == [run.it EXCEPT !.status = "at", !.pos = high.pos - list.start,
                                 !.low = (low.value + run.it.base) % M,
                                 !.high = (high.value + run.it.base) % M]
  <2>1. ~Ends(low, high)
    BY <1>12 DEF RegularEntry
  <2>2. i.status = "at" /\ i.pos = high.pos - list.start
    BY <1>1 DEF Iterator
  <2>3. \/ /\ run' = NoRun /\ it' \in {it, i} /\ outcome'.status \in {"ok", "yes"}
        \/ /\ run'.cur = high.pos /\ it' = it /\ outcome' = outcome
    <3>1. \/ Leave(i, "ok") \/ Leave(i, "yes")
          \/ run' = [run EXCEPT !.it = i, !.cur = high.pos] /\ UNCHANGED <<it, outcome>>
      BY <1>12 DEF RegularEntry
    <3> HIDE DEF i
    <3>2. ASSUME NEW status \in {"ok", "yes"}, Leave(i, status)
          PROVE  run' = NoRun /\ it' \in {it, i} /\ outcome'.status \in {"ok", "yes"}
      BY <3>2 DEF Leave, Return, Returned
    <3>3. ASSUME run' = [run EXCEPT !.it = i, !.cur = high.pos] PROVE run'.cur = high.pos
      BY <1>1, <3>3 DEF Run
    <3> QED
      BY <3>1, <3>2, <3>3
  <2> HIDE DEF i
  <2>4. outcome'.status = "wild" => list.memory = << >> /\ ~Terminated
    BY <2>3 DEF PlaceInv, LoopsInside
  <2>5. Terminated /\ run' # NoRun => \E k \in 0..LastEntry : run'.cur = Behind(k)
    BY <1>7, <2>1, <2>3
  <2>6. Terminated => \E k \in 0..LastEntry : i.pos = 2 * Width * k
    BY <1>7, <2>1, <2>2
  <2>7. Terminated =>
          /\ it'.status \in {"none", "at", "end"}
          /\ it'.status = "at" => \E k \in 0..LastEntry : it'.pos = 2 * Width * k
    BY <1>8, <2>2, <2>3, <2>6
  <2> QED
    BY <1>3, <2>4, <2>5, <2>7, PlaceIf
<1> QED
  BY <1>2, <1>9, <1>10, <1>11, <1>12

LEMMA NextStays == ASSUME Inv, PlaceInv, PcNext PROVE PlaceInv'
<1>1. file \in Files /\ ListInv
  BY DEF Inv, ValueInv
<1>2. CASE UNCHANGED listVars /\ (DieClient \/ DynamicStep)
  <2>1. file' = file
    BY <1>2 DEF DieClient, Locate, Fetch, Dynamic, Convert, Follow, AskResolve, DynamicStep
  <2> QED
    BY <1>2, <2>1, PlaceStays
<1>3. CASE GetRanges
  <2>1. PICK r \in {DiePcRange(die)} :
          IF r.status = "ok" THEN TakeList(r.value) ELSE UNCHANGED listVars
    BY <1>3 DEF GetRanges
  <2>2. run = NoRun /\ file' = file
    BY <1>1, <1>3 DEF GetRanges, ListInv
  <2> QED
    BY <2>1, <2>2, TakingStays, PlaceStays
<1>4. CASE MakeList \/ DropList
  <2>1. run = NoRun /\ \E l : TakeList(l)
    BY <1>1, <1>4 DEF MakeList, DropList, Resting, ListInv
  <2> QED
    BY <2>1, TakingStays
<1>5. CASE (ListClient \/ ReadEntry) /\ UNCHANGED valueVars
  <2>1. file' = file
    BY <1>5 DEF valueVars
  <2> QED
    BY <1>1, <1>5, <2>1, ClientStays, ReadingStays
<1> QED
  BY <1>2, <1>3, <1>4, <1>5 DEF PcNext

\* In any files, well-formed or not: no method of DIEs and values reads memory
\* outside of a section but where AnswersInside says, and a block that as_block
\* returns is in its unit; and a loop over a list does so only in a list of
\* .debug_ranges that has no end inside of the section.
THEOREM InsideAlways == Spec => []InsideTheSections
<1>1. PcInit => PlaceInv
  <2> SUFFICES ASSUME PcInit PROVE PlaceInv
    OBVIOUS
  <2>1. it = NoIterator /\ run = NoRun /\ outcome = NoOutcome
    BY DEF PcInit, ListInit
  <2> QED
    BY <2>1 DEF PlaceInv, LoopsInside, NoIterator, NoOutcome, Returned
<1>2. Inv /\ PlaceInv /\ [PcNext]_vars => PlaceInv'
  <2>1. ASSUME Inv, PlaceInv, UNCHANGED vars PROVE PlaceInv'
    BY <2>1, PlaceStays DEF vars, valueVars
  <2> QED
    BY <2>1, NextStays
<1>3. Inv /\ PlaceInv => InsideTheSections
  BY DEF Inv, PlaceInv, InsideTheSections
<1> QED
  BY <1>1, <1>2, <1>3, AlwaysInv, PTL DEF Spec
=============================================================================
