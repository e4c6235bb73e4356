--------------------------- MODULE DieTreeProofs ---------------------------
(***************************************************************************)
(* Proofs about Unit, DieTree and DieStrMap, for all units and whatever a  *)
(* client, two iterators and a name index do to them.                      *)
(*                                                                         *)
(* get_abbrev is exact.  The table of abbreviations is either as the       *)
(* constructor left it or as the first call of force_abbrevs left it; what *)
(* remains is that the vector has room for every code, which needs the     *)
(* maximum of the codes, and that gaps are told from entries.              *)
(*                                                                         *)
(* Iterators visit siblings.  What an iterator holds is Formed: it was     *)
(* read where it says it was, except for what a read that threw left.      *)
(* Where an iterator is, relative to the one it was made from, is told by  *)
(* bracket depth: entries with children open a list, null entries close    *)
(* one, and the entries a walk passes over never lead out of the list it   *)
(* is in (ChainInv).  From this follow the refinement of Siblings and that *)
(* a step throws only where a bad entry blocks the way.                    *)
(*                                                                         *)
(* The name index is exact.  What it holds after it has come to some DIE   *)
(* is what the DIEs it has passed call themselves (IndexInv), and a lookup *)
(* stops at the first name it wants (LookupInv).                           *)
(***************************************************************************)
EXTENDS DieSiblings, Brackets, NumberLemmas, FiniteSetTheorems, TLAPS

-----------------------------------------------------------------------------
(* Least and greatest elements.                                            *)

\* A bounded set of natural numbers has a greatest element, which Max returns.
LEMMA Greatest ==
  ASSUME NEW T \in SUBSET Nat, T # {}, NEW b \in Nat, \A x \in T : x <= b
  PROVE  Max(T) \in T /\ \A x \in T : Max(T) >= x
<1> DEFINE U == {n \in Nat : \A x \in T : x <= n}
<1>1. PICK u \in U : \A n \in U : u <= n
  <2>1. U \in SUBSET Nat /\ U # {}
    BY Zenon
  <2> HIDE DEF U
  <2> QED
    BY <2>1, Least, Zenon
<1>2. u \in T
  <2>1. CASE u = 0
    <3>1. PICK x \in T : TRUE
      OBVIOUS
    <3> QED
      BY <2>1, <3>1, <1>1
  <2>2. CASE u # 0
    <3>1. u - 1 \in Nat /\ u - 1 \notin U
      BY <2>2, <1>1
    <3>2. PICK x \in T : ~(x <= u - 1)
      BY <3>1
    <3> QED
      BY <3>2, <1>1
  <2> QED
    BY <2>1, <2>2
<1>3. \E x \in T : \A y \in T : x >= y
  BY <1>1, <1>2
<1> QED
  BY <1>3, Zenon DEF Max

\* The values of a function on 1..n are bounded.
LEMMA Bounded ==
  ASSUME NEW n \in Nat, NEW f, \A k \in 1..n : f[k] \in Nat
  PROVE  \E b \in Nat : \A k \in 1..n : f[k] <= b
<1> DEFINE U == {m \in 0..n : ~\E b \in Nat : \A k \in 1..m : f[k] <= b}
<1> SUFFICES ASSUME U # {} PROVE FALSE
  <2>1. n \notin U => \E b \in Nat : \A k \in 1..n : f[k] <= b
    OBVIOUS
  <2> HIDE DEF U
  <2> QED
    BY <2>1
<1>1. PICK m \in U : \A k \in U : m <= k
  <2>1. U \in SUBSET Nat
    OBVIOUS
  <2> HIDE DEF U
  <2> QED
    BY <2>1, Least, Zenon
<1>2. m # 0
  <2>1. \A k \in 1..0 : f[k] <= 0
    OBVIOUS
  <2> QED
    BY <2>1, <1>1
<1>3. m - 1 \in 0..n /\ m - 1 \notin U
  <2>1. m \in 0..n
    OBVIOUS
  <2> HIDE DEF U
  <2> QED
    BY <1>1, <1>2, <2>1
<1>4. PICK b \in Nat : \A k \in 1..(m - 1) : f[k] <= b
  BY <1>3
<1>5. m \in 1..n /\ f[m] \in Nat
  BY <1>2
<1>6. PICK c \in Nat : b <= c /\ f[m] <= c
  <2>1. CASE b <= f[m]
    BY <1>5, <2>1
  <2>2. CASE f[m] <= b
    BY <2>2
  <2> QED
    BY <1>5, <2>1, <2>2
<1>7. ASSUME NEW k \in 1..m PROVE f[k] <= c
  <2>1. CASE k = m
    BY <1>6, <2>1
  <2>2. CASE k # m
    <3>1. k \in 1..(m - 1) /\ f[k] \in Nat
      BY <1>5, <2>2
    <3> QED
      BY <1>4, <1>5, <1>6, <3>1
  <2> QED
    BY <2>1, <2>2
<1> QED
  BY <1>7, <1>1

-----------------------------------------------------------------------------
(* The table of abbreviations.                                             *)

IInv == sec \in Sections /\ abbrevs \in {NoAbbrevs, Forced(NoAbbrevs)}

\* Codes are positive, and each code has a last entry.
LEMMA Codes ==
  ASSUME sec \in Sections
  PROVE  /\ \A k \in DOMAIN sec.abbrevs : sec.abbrevs[k].code \in Nat \ {0}
         /\ DOMAIN sec.abbrevs = 1..Len(sec.abbrevs) /\ Len(sec.abbrevs) \in Nat
         /\ \A c \in DOMAIN ByCode :
              /\ ByCode[c] \in DOMAIN sec.abbrevs
              /\ c \in Nat \ {0}
<1>1. /\ \A k \in DOMAIN sec.abbrevs : sec.abbrevs[k].code \in Nat \ {0}
      /\ DOMAIN sec.abbrevs = 1..Len(sec.abbrevs) /\ Len(sec.abbrevs) \in Nat
  <2> DEFINE R == [code : Nat \ {0}, tag : STRING, children : BOOLEAN,
                   attributes : Seq(Kinds)]
  <2>1. \A r \in R : r.code \in Nat \ {0}
    OBVIOUS
  <2>2. sec.abbrevs \in Seq(R)
    BY SectionsAssumption
  <2> HIDE DEF R
  <2> QED
    BY <2>1, <2>2
<1>2. ASSUME NEW c \in DOMAIN ByCode
      PROVE  ByCode[c] \in DOMAIN sec.abbrevs /\ c \in Nat \ {0}
  <2> DEFINE same == {k \in DOMAIN sec.abbrevs : sec.abbrevs[k].code = c}
  <2>1. same # {} /\ c \in Nat \ {0}
    BY <1>1, <1>2 DEF ByCode
  <2>2. same \in SUBSET Nat /\ \A k \in same : k <= Len(sec.abbrevs)
    BY <1>1
  <2>3. ByCode[c] = Max(same)
    BY <1>2 DEF ByCode
  <2>4. Max(same) \in same
    <3> HIDE DEF same
    <3> QED
      BY <1>1, <2>1, <2>2, Greatest
  <2> QED
    BY <2>1, <2>3, <2>4
<1> QED
  BY <1>1, <1>2

\* The vector has room for every code.
LEMMA HighestCode ==
  ASSUME sec \in Sections
  PROVE  /\ Max(DOMAIN ByCode \cup {0}) \in Nat
         /\ \A c \in DOMAIN ByCode : c <= Max(DOMAIN ByCode \cup {0})
<1> DEFINE T == DOMAIN ByCode \cup {0}
           f == [k \in DOMAIN sec.abbrevs |-> sec.abbrevs[k].code]
<1>1. PICK b \in Nat : \A k \in 1..Len(sec.abbrevs) : f[k] <= b
  <2>1. Len(sec.abbrevs) \in Nat /\ \A k \in 1..Len(sec.abbrevs) : f[k] \in Nat
    BY Codes
  <2> HIDE DEF f
  <2> QED
    BY <2>1, Bounded
<1>2. T \in SUBSET Nat /\ T # {} /\ \A x \in T : x <= b
  <2>1. T \in SUBSET Nat /\ T # {}
    BY Codes
  <2>2. ASSUME NEW x \in DOMAIN ByCode PROVE x <= b
    <3>1. PICK k \in DOMAIN sec.abbrevs : sec.abbrevs[k].code = x
      BY <2>2 DEF ByCode
    <3> QED
      BY <3>1, <1>1, Codes
  <2> QED
    BY <2>1, <2>2
<1>3. Max(T) \in T /\ \A x \in T : Max(T) >= x
  <2> HIDE DEF T
  <2> QED
    BY <1>2, Greatest
<1> QED
  BY <1>2, <1>3

\* force_abbrevs does nothing the second time.
LEMMA ForcedOnce ==
  ASSUME NEW a \in {NoAbbrevs, Forced(NoAbbrevs)}
  PROVE  Forced(a) = Forced(NoAbbrevs)
  BY DEF Forced, NoAbbrevs

\* No step does anything else to the table.
LEMMA StepForces ==
  ASSUME [MapNext]_vars
  PROVE  sec' = sec /\ abbrevs' \in {abbrevs, Forced(abbrevs)}
<1>1. ASSUME NEW i \in Iterators, Client(i)
      PROVE  sec' = sec /\ abbrevs' \in {abbrevs, Forced(abbrevs)}
  BY <1>1, Zenon DEF Client, Root, Type, Get, Reference, Begin, Deref, Increment, Assign,
       unitVars, walkVars, AbbrevsAfter
<1>2. ASSUME Walk PROVE sec' = sec /\ abbrevs' = abbrevs
  BY <1>2 DEF Walk, StayAtEnd, NoChildren, FollowSibling, Descend, Ascend, Walking, unitVars
<1>3. CASE MapClient
  BY <1>1, <1>3 DEF MapClient
<1>4. CASE MapWalk
  BY <1>2, <1>4 DEF MapWalk
<1>5. CASE Create
  BY <1>5 DEF Create, Begin, unitVars
<1>6. CASE Scan \/ Examine \/ \E n \in Names : Lookup(n)
  BY <1>6 DEF Scan, Examine, Lookup, unitVars, treeVars
<1>7. CASE UNCHANGED vars
  BY <1>7 DEF vars, treeVars
<1> QED
  BY <1>3, <1>4, <1>5, <1>6, <1>7 DEF MapNext

LEMMA StepInvariance == IInv /\ [MapNext]_vars => IInv'
<1> SUFFICES ASSUME IInv, [MapNext]_vars PROVE IInv'
  OBVIOUS
<1>1. sec' = sec /\ abbrevs' \in {abbrevs, Forced(abbrevs)}
  BY StepForces
<1>2. abbrevs' \in {NoAbbrevs, Forced(NoAbbrevs)}
  BY <1>1, ForcedOnce DEF IInv
<1>3. Forced(NoAbbrevs)' = Forced(NoAbbrevs)
  BY <1>1 DEF Forced, NoAbbrevs, ByCode, Vector
<1> QED
  BY <1>1, <1>2, <1>3 DEF IInv, NoAbbrevs

\* Look-ups in a table that has been read.
LEMMA ReadTableIsExact ==
  ASSUME sec \in Sections, NEW a, a = Forced(NoAbbrevs), ~sec.cut, NEW c \in Nat \ {0}
  PROVE  /\ Known(a, c) <=> c \in DOMAIN ByCode
         /\ Known(a, c) => Entry(a, c) = sec.abbrevs[ByCode[c]]
<1> DEFINE highest == Max(DOMAIN ByCode \cup {0})
<1>1. highest \in Nat /\ \A d \in DOMAIN ByCode : d <= highest
  BY HighestCode
<1>2. CASE a = [have |-> TRUE, vec |-> Vector(highest), map |-> << >>]
  <2> HIDE DEF highest
  <2>1. DOMAIN a.vec = 0..highest /\ a.vec # << >>
    BY <1>1, <1>2 DEF Vector
  <2>2. \A d \in 0..highest : a.vec[d] = IF d \in DOMAIN ByCode THEN ByCode[d] ELSE Gap
    BY <1>2 DEF Vector
  <2>3. \A d \in DOMAIN ByCode : ByCode[d] # Gap
    BY Codes DEF Gap
  <2>4. Known(a, c) <=> c \in 0..highest /\ a.vec[c] # Gap
    BY <1>2, <2>1 DEF Known
  <2> QED
    BY <1>1, <2>1, <2>2, <2>3, <2>4 DEF Entry
<1>3. CASE a = [have |-> TRUE, vec |-> << >>, map |-> ByCode]
  BY <1>3 DEF Known, Entry
<1> QED
  BY <1>2, <1>3 DEF Forced, NoAbbrevs

LEMMA InvariantIsExact == IInv => LookupExact
<1> SUFFICES ASSUME IInv PROVE LookupExact
  OBVIOUS
<1> DEFINE same(c) == {k \in DOMAIN sec.abbrevs : sec.abbrevs[k].code = c}
<1>1. \A c : c \in DOMAIN ByCode <=> same(c) # {}
  BY DEF ByCode
<1>2. \A c \in DOMAIN ByCode : ByCode[c] = Max(same(c))
  BY DEF ByCode
<1>3. CASE abbrevs.have
  <2>1. abbrevs = Forced(NoAbbrevs) /\ ~sec.cut
    BY <1>3 DEF IInv, Forced, NoAbbrevs
  <2>2. {sec.abbrevs[k].code : k \in DOMAIN sec.abbrevs} = DOMAIN ByCode
    BY DEF ByCode
  <2>3. 1..(Max(DOMAIN ByCode \cup {0}) + 1) \subseteq Nat \ {0}
    BY HighestCode DEF IInv
  <2> SUFFICES ASSUME NEW c \in Nat \ {0}
               PROVE  /\ Known(abbrevs, c) => ~sec.cut /\ same(c) # {}
                                       /\ Entry(abbrevs, c) = sec.abbrevs[Max(same(c))]
                      /\ abbrevs.have => (Known(abbrevs, c) <=> same(c) # {})
    BY <2>2, <2>3, Zenon DEF LookupExact
  <2> HIDE DEF same
  <2> QED
    BY <1>1, <1>2, <2>1, ReadTableIsExact DEF IInv
<1>4. CASE ~abbrevs.have
  BY <1>4 DEF LookupExact, Known
<1> QED
  BY <1>3, <1>4

\* For every unit, and whatever a client and a name index do: get_abbrev finds
\* exactly the codes of the table, each with its last entry, however the table
\* is stored and however often reading it has failed (dwarf.cc:206-262).
THEOREM LookupCorrect == MapSpec => []LookupExact
<1>1. MapInit => IInv
  BY DEF MapInit, Init, IInv
<1> QED
  BY <1>1, StepInvariance, InvariantIsExact, PTL DEF MapSpec

-----------------------------------------------------------------------------
(* How deep a run of entries is nested.                                    *)

Count(S, p, o) == Cardinality({q \in p..o : q \in S})

LEMMA Counts ==
  ASSUME NEW S, NEW p \in Int, NEW o \in Int
  PROVE  IsFiniteSet({q \in p..o : q \in S}) /\ Count(S, p, o) \in Nat
<1>1. IsFiniteSet(p..o)
  BY FS_Interval
<1>2. {q \in p..o : q \in S} \in SUBSET (p..o)
  OBVIOUS
<1>3. IsFiniteSet({q \in p..o : q \in S})
  BY <1>1, <1>2, FS_Subset
<1> QED
  BY <1>3, FS_CardinalityType DEF Count

LEMMA CountSplit ==
  ASSUME NEW S, NEW p \in Int, NEW o \in Int, NEW q \in Int, p <= o, o <= q + 1
  PROVE  Count(S, p, q) = Count(S, p, o - 1) + Count(S, o, q)
<1> DEFINE L == {x \in p..(o - 1) : x \in S}
           R == {x \in o..q : x \in S}
<1>1. {x \in p..q : x \in S} = L \cup R /\ L \cap R = {}
  OBVIOUS
<1>2. IsFiniteSet(L) /\ IsFiniteSet(R) /\ Cardinality(L) \in Nat /\ Cardinality(R) \in Nat
  <2>1. o - 1 \in Int
    OBVIOUS
  <2>2. IsFiniteSet(L) /\ Count(S, p, o - 1) \in Nat
    BY <2>1, Counts, Zenon
  <2>3. IsFiniteSet(R) /\ Count(S, o, q) \in Nat
    BY Counts, Zenon
  <2> QED
    BY <2>2, <2>3 DEF Count
<1>3. Count(S, p, q) = Cardinality(L \cup R) /\ Count(S, p, o - 1) = Cardinality(L)
      /\ Count(S, o, q) = Cardinality(R)
  BY <1>1 DEF Count
<1> HIDE DEF L, R
<1>4. Cardinality(L \cup R) = Cardinality(L) + Cardinality(R) - Cardinality({})
  BY <1>1, <1>2, FS_Union
<1> QED
  BY <1>2, <1>3, <1>4, FS_EmptySet

LEMMA CountOne ==
  ASSUME NEW S, NEW o \in Int
  PROVE  /\ Count(S, o, o) = IF o \in S THEN 1 ELSE 0
         /\ Count(S, o, o - 1) = 0
<1>1. {q \in o..o : q \in S} = IF o \in S THEN {o} ELSE {}
  OBVIOUS
<1>2. {q \in o..(o - 1) : q \in S} = {}
  OBVIOUS
<1> QED
  BY <1>1, <1>2, FS_Singleton, FS_EmptySet DEF Count

\* Depths add up.
LEMMA DepthSplit ==
  ASSUME NEW opens, NEW closes, NEW p \in Int, NEW o \in Int, NEW q \in Int,
         p <= o, o <= q + 1
  PROVE  /\ Depth(opens, closes, p, q)
              = Depth(opens, closes, p, o - 1) + Depth(opens, closes, o, q)
         /\ Depth(opens, closes, p, q) \in Int /\ Depth(opens, closes, p, o - 1) \in Int
         /\ Depth(opens, closes, o, q) \in Int
<1>1. o - 1 \in Int
  OBVIOUS
<1>2. \A S : Count(S, p, q) = Count(S, p, o - 1) + Count(S, o, q)
  BY CountSplit
<1>3. \A S : Count(S, p, q) \in Nat /\ Count(S, p, o - 1) \in Nat /\ Count(S, o, q) \in Nat
  BY <1>1, Counts, Zenon
<1>4. /\ Count(opens, p, q) = Count(opens, p, o - 1) + Count(opens, o, q)
      /\ Count(closes, p, q) = Count(closes, p, o - 1) + Count(closes, o, q)
  BY <1>2, Zenon
<1>5. /\ Count(opens, p, q) \in Nat /\ Count(closes, p, q) \in Nat
      /\ Count(opens, p, o - 1) \in Nat /\ Count(opens, o, q) \in Nat
      /\ Count(closes, p, o - 1) \in Nat /\ Count(closes, o, q) \in Nat
  BY <1>3, Zenon
<1>6. /\ Depth(opens, closes, p, q) = Count(opens, p, q) - Count(closes, p, q)
      /\ Depth(opens, closes, p, o - 1) = Count(opens, p, o - 1) - Count(closes, p, o - 1)
      /\ Depth(opens, closes, o, q) = Count(opens, o, q) - Count(closes, o, q)
  BY DEF Depth, Count
<1> QED
  BY <1>4, <1>5, <1>6

\* The depth behind an entry differs by at most one from that before it.
LEMMA DepthStep ==
  ASSUME NEW opens, NEW closes, NEW p \in Int, NEW o \in Int, p <= o
  PROVE  /\ Depth(opens, closes, p, o) \in Int /\ Depth(opens, closes, p, o - 1) \in Int
         /\ Depth(opens, closes, p, o) = Depth(opens, closes, p, o - 1)
                + (IF o \in opens THEN 1 ELSE 0) - (IF o \in closes THEN 1 ELSE 0)
         /\ Depth(opens, closes, p, p - 1) = 0
<1>1. /\ Depth(opens, closes, p, o)
           = Depth(opens, closes, p, o - 1) + Depth(opens, closes, o, o)
      /\ Depth(opens, closes, p, o) \in Int /\ Depth(opens, closes, p, o - 1) \in Int
  BY DepthSplit
<1>2. /\ Depth(opens, closes, o, o) = Count(opens, o, o) - Count(closes, o, o)
      /\ Depth(opens, closes, p, p - 1) = Count(opens, p, p - 1) - Count(closes, p, p - 1)
  BY DEF Depth, Count
<1>3. /\ Count(opens, o, o) = IF o \in opens THEN 1 ELSE 0
      /\ Count(closes, o, o) = IF o \in closes THEN 1 ELSE 0
      /\ Count(opens, p, p - 1) = 0 /\ Count(closes, p, p - 1) = 0
  BY CountOne
<1> QED
  BY <1>1, <1>2, <1>3

\* A list stays open until the depth has been 0.
LEMMA StaysOpen ==
  ASSUME NEW opens, NEW closes, NEW p \in Nat, NEW m \in Nat, p \in opens, p \notin closes,
         \A q \in p..m : Depth(opens, closes, p, q) # 0
  PROVE  \A q \in p..m : Depth(opens, closes, p, q) >= 1
<1> DEFINE D(q) == Depth(opens, closes, p, q)
           U == {q \in p..m : ~(D(q) >= 1)}
<1> SUFFICES ASSUME U # {} PROVE FALSE
  OBVIOUS
<1>1. U \in SUBSET Nat
  OBVIOUS
<1>2. PICK q \in U : \A r \in U : q <= r
  <2> HIDE DEF U
  <2> QED
    BY <1>1, Least
<1>3. q \in p..m /\ q \in Int /\ ~(D(q) >= 1) /\ D(q) # 0
  BY <1>2
<1>4. /\ D(q) = D(q - 1) + (IF q \in opens THEN 1 ELSE 0) - (IF q \in closes THEN 1 ELSE 0)
      /\ D(p - 1) = 0 /\ D(q) \in Int /\ D(q - 1) \in Int
  <2>1. p \in Int /\ q - 1 \in Int /\ q \in Int /\ p <= q
    BY <1>3
  <2> QED
    BY <2>1, DepthStep
<1> HIDE DEF D
<1>5. CASE q = p
  BY <1>3, <1>4, <1>5
<1>6. CASE q # p
  <2>1. q - 1 \in p..m /\ q - 1 \notin U
    BY <1>2, <1>3, <1>6
  <2>2. D(q - 1) >= 1
    BY <2>1
  <2> QED
    BY <1>3, <1>4, <2>2
<1> QED
  BY <1>5, <1>6

\* Where a list is closed.
LEMMA ClosingIs ==
  ASSUME NEW size \in Nat, NEW opens, NEW closes, NEW p \in 1..size,
         p \in opens, p \notin closes
  PROVE  LET last == Closing(size, opens, closes, p)
         IN  /\ last \in (p + 1)..(size + 1)
             /\ last <= size => Depth(opens, closes, p, last) = 0
             /\ \A q \in p..(last - 1) : Depth(opens, closes, p, q) >= 1
<1> DEFINE T == {q \in p..size : Depth(opens, closes, p, q) = 0} \cup {size + 1}
           last == Closing(size, opens, closes, p)
<1>1. T \in SUBSET Nat /\ T # {}
  OBVIOUS
<1>2. last \in T /\ \A q \in T : last <= q
  <2>1. last = Min(T)
    BY DEF Closing
  <2>2. \E x \in T : \A y \in T : x <= y
    <3> HIDE DEF T
    <3> QED
      BY <1>1, Least
  <2> HIDE DEF T, last
  <2> QED
    BY <2>1, <2>2 DEF Min
<1>3. last \in p..(size + 1) /\ (last <= size => Depth(opens, closes, p, last) = 0)
  BY <1>2
<1>4. \A q \in p..(last - 1) : Depth(opens, closes, p, q) # 0
  <2> SUFFICES ASSUME NEW q \in p..(last - 1), Depth(opens, closes, p, q) = 0 PROVE FALSE
    OBVIOUS
  <2> HIDE DEF last
  <2>1. q \in T /\ q < last
    BY <1>3
  <2> QED
    BY <1>2, <2>1
<1> HIDE DEF last
<1>5. \A q \in p..(last - 1) : Depth(opens, closes, p, q) >= 1
  BY <1>3, <1>4, StaysOpen
<1>6. Depth(opens, closes, p, p) = 1
  <2>1. p \in Int
    OBVIOUS
  <2>2. Depth(opens, closes, p, p) = Depth(opens, closes, p, p - 1) + 1 - 0 
    BY <2>1, DepthStep
  <2> QED
    BY <2>1, <2>2, DepthStep
<1> QED
  BY <1>3, <1>5, <1>6 DEF last

\* A list that is open up to m closes there if the depth is 0, and else later.
LEMMA ClosesAt ==
  ASSUME NEW size \in Nat, NEW opens, NEW closes, NEW p \in 1..size,
         p \in opens, p \notin closes, NEW m \in p..size,
         \A q \in p..(m - 1) : Depth(opens, closes, p, q) >= 1
  PROVE  /\ Closing(size, opens, closes, p) >= m
         /\ Depth(opens, closes, p, m) = 0 => Closing(size, opens, closes, p) = m
         /\ Depth(opens, closes, p, m) >= 1 => Closing(size, opens, closes, p) > m
<1> DEFINE last == Closing(size, opens, closes, p)
<1>1. /\ last \in (p + 1)..(size + 1)
      /\ last <= size => Depth(opens, closes, p, last) = 0
      /\ \A q \in p..(last - 1) : Depth(opens, closes, p, q) >= 1
  BY ClosingIs
<1> HIDE DEF last
<1>2. last >= m
  <2> SUFFICES ASSUME last < m PROVE FALSE
    BY <1>1
  <2>1. last \in p..(m - 1) /\ last <= size
    BY <1>1
  <2> QED
    BY <1>1, <2>1
<1>3. last # m /\ last >= m => m \in p..(last - 1)
  BY <1>1
<1> QED
  BY <1>1, <1>2, <1>3 DEF last

-----------------------------------------------------------------------------
(* What reading an entry does.                                             *)

\* Entries that can be read, and the DIE that reading one gives.
Good == {o \in 1..Size : o \notin Closes[sec] /\ o \notin Bad[sec]}
DieAt(o) ==
  [abbrev |-> Code(o), offset |-> o, next |-> o + 1, tag |-> AbbrevOf(sec, o).tag,
   attrs |-> [of |-> o, n |-> Len(AbbrevOf(sec, o).attributes)]]

LEMMA EntriesAre ==
  ASSUME sec \in Sections
  PROVE  /\ Size \in Nat
         /\ Closes[sec] = {o \in 1..Size : Code(o) = 0}
         /\ Bad[sec] \in SUBSET (1..Size)
         /\ \A o \in 1..Size : Code(o) \in Nat /\ sec.entries[o].sibling \in Nat
<1> DEFINE R == [code : Nat, name : STRING, sibling : Nat]
<1>1. sec.entries \in Seq(R)
  BY SectionsAssumption
<1>2. \A r \in R : r.code \in Nat /\ r.sibling \in Nat
  OBVIOUS
<1> HIDE DEF R
<1>3. DOMAIN sec.entries = 1..Size /\ Size \in Nat
  BY <1>1 DEF Size
<1>4. \A o \in 1..Size : Code(o) \in Nat /\ sec.entries[o].sibling \in Nat
  BY <1>1, <1>2, <1>3 DEF Code
<1>5. Closes[sec] = {o \in 1..Size : Code(o) = 0}
  BY <1>3 DEF Closes, Code
<1>6. Bad[sec] \in SUBSET (1..Size)
  BY <1>3 DEF Bad
<1> QED
  BY <1>3, <1>4, <1>5, <1>6

\* The abbreviation of an entry.
LEMMA AbbrevIs ==
  ASSUME sec \in Sections, NEW o \in 1..Size
  PROVE  /\ InTable(sec, o) # {} <=> Code(o) \in DOMAIN ByCode
         /\ InTable(sec, o) # {} =>
              /\ Code(o) # 0
              /\ AbbrevOf(sec, o) = sec.abbrevs[ByCode[Code(o)]]
              /\ AbbrevOf(sec, o).code = Code(o)
              /\ AbbrevOf(sec, o).tag \in Tags
              /\ AbbrevOf(sec, o).children \in BOOLEAN
              /\ AbbrevOf(sec, o).attributes \in Seq(Kinds)
<1> DEFINE R == [code : Nat \ {0}, tag : STRING, children : BOOLEAN,
                 attributes : Seq(Kinds)]
<1>1. InTable(sec, o) # {} <=> Code(o) \in DOMAIN ByCode
  BY DEF InTable, ByCode, Code
<1>2. ASSUME InTable(sec, o) # {}
      PROVE  /\ ByCode[Code(o)] = Max(InTable(sec, o))
             /\ Max(InTable(sec, o)) \in InTable(sec, o)
  <2>1. ByCode[Code(o)] = Max(InTable(sec, o))
    BY <1>1, <1>2 DEF ByCode, InTable, Code
  <2>2. InTable(sec, o) \in SUBSET Nat /\ \A k \in InTable(sec, o) : k <= Len(sec.abbrevs)
    BY Codes DEF InTable
  <2>3. Max(InTable(sec, o)) \in InTable(sec, o)
    BY <1>2, <2>2, Codes, Greatest
  <2> QED
    BY <2>1, <2>3
<1>3. sec.abbrevs \in Seq(R)
  BY SectionsAssumption
<1>4. \A r \in R : /\ r.code # 0 /\ r.children \in BOOLEAN
                   /\ r.attributes \in Seq(Kinds)
  OBVIOUS
<1> HIDE DEF R
<1>5. ASSUME InTable(sec, o) # {}
      PROVE  AbbrevOf(sec, o) \in R /\ AbbrevOf(sec, o).code = Code(o)
             /\ AbbrevOf(sec, o) = sec.abbrevs[ByCode[Code(o)]]
  <2>1. Max(InTable(sec, o)) \in DOMAIN sec.abbrevs
    BY <1>2, <1>5 DEF InTable
  <2>2. AbbrevOf(sec, o).code = Code(o)
    BY <1>2, <1>5 DEF InTable, AbbrevOf, Code
  <2> QED
    BY <1>2, <1>3, <1>5, <2>1, <2>2 DEF AbbrevOf
<1>6. ASSUME InTable(sec, o) # {} PROVE AbbrevOf(sec, o).tag \in Tags
  <2>1. ByCode[Code(o)] \in DOMAIN sec.abbrevs
    BY <1>2, <1>6 DEF InTable
  <2>2. sec.abbrevs[ByCode[Code(o)]].tag \in Tags
    <3>1. \A s \in Sections : \A k \in DOMAIN s.abbrevs : s.abbrevs[k].tag \in Tags
      BY DEF Tags
    <3> QED
      BY <2>1, <3>1
  <2> QED
    BY <1>5, <1>6, <2>2
<1> QED
  BY <1>1, <1>4, <1>5, <1>6

\* What get_abbrev finds once it has read the table.
LEMMA TableIs ==
  ASSUME IInv, NEW o \in 1..Size, Code(o) # 0
  PROVE  /\ Known(Forced(abbrevs), Code(o)) <=> ~sec.cut /\ InTable(sec, o) # {}
         /\ Known(Forced(abbrevs), Code(o)) =>
              Forced(abbrevs).have /\ Entry(Forced(abbrevs), Code(o)) = AbbrevOf(sec, o)
<1>1. Forced(abbrevs) = Forced(NoAbbrevs) /\ sec \in Sections
  BY ForcedOnce DEF IInv
<1>2. Code(o) \in Nat \ {0}
  BY <1>1, EntriesAre
<1>3. CASE sec.cut
  BY <1>1, <1>3 DEF Known, Forced, NoAbbrevs
<1>4. CASE ~sec.cut
  <2>1. Known(Forced(NoAbbrevs), Code(o)) <=> Code(o) \in DOMAIN ByCode
    BY <1>1, <1>2, <1>4, ReadTableIsExact
  <2>2. Known(Forced(NoAbbrevs), Code(o)) =>
          Entry(Forced(NoAbbrevs), Code(o)) = sec.abbrevs[ByCode[Code(o)]]
    BY <1>1, <1>2, <1>4, ReadTableIsExact
  <2>3. Known(Forced(NoAbbrevs), Code(o)) => Forced(NoAbbrevs).have
    BY DEF Known
  <2> QED
    BY <1>1, <1>4, <2>1, <2>2, <2>3, AbbrevIs
<1> QED
  BY <1>3, <1>4

\* What assigning to the members of a DIE gives.
LEMMA EndedIs ==
  ASSUME NEW d \in Die, NEW o \in Nat
  PROVE  LET x == [d EXCEPT !.abbrev = 0, !.next = o]
         IN  /\ x = [abbrev |-> 0, offset |-> d.offset, next |-> o, tag |-> d.tag,
                     attrs |-> d.attrs]
             /\ x \in Die
<1> DEFINE g == [d EXCEPT !.abbrev = 0]
           x == [d EXCEPT !.abbrev = 0, !.next = o]
<1>1. x = [g EXCEPT !.next = o]
  OBVIOUS
<1>2. /\ g = [abbrev |-> 0, offset |-> d.offset, next |-> d.next, tag |-> d.tag,
              attrs |-> d.attrs]
      /\ g \in Die
  BY DEF Die
<1> HIDE DEF g
<1>3. /\ [g EXCEPT !.next = o] = [abbrev |-> g.abbrev, offset |-> g.offset, next |-> o,
                                  tag |-> g.tag, attrs |-> g.attrs]
      /\ [g EXCEPT !.next = o] \in Die
  BY <1>2 DEF Die
<1> HIDE DEF x
<1> QED
  BY <1>1, <1>2, <1>3 DEF x

LEMMA DecodedIs ==
  ASSUME NEW d \in Die, NEW c \in Nat, NEW t \in Tags, NEW s \in [of : Nat, n : Nat]
  PROVE  LET x == [d EXCEPT !.abbrev = c, !.tag = t, !.attrs = s]
         IN  /\ x = [abbrev |-> c, offset |-> d.offset, next |-> d.next, tag |-> t, attrs |-> s]
             /\ x \in Die
<1> DEFINE f == [d EXCEPT !.abbrev = c]
           g == [f EXCEPT !.tag = t]
           x == [d EXCEPT !.abbrev = c, !.tag = t, !.attrs = s]
<1>1. x = [g EXCEPT !.attrs = s]
  OBVIOUS
<1>2. /\ f = [abbrev |-> c, offset |-> d.offset, next |-> d.next, tag |-> d.tag,
              attrs |-> d.attrs]
      /\ f \in Die
  BY DEF Die
<1> HIDE DEF f
<1>3. /\ g = [abbrev |-> f.abbrev, offset |-> f.offset, next |-> f.next, tag |-> t,
              attrs |-> f.attrs]
      /\ g \in Die
  BY <1>2 DEF Die
<1> HIDE DEF g
<1>4. /\ [g EXCEPT !.attrs = s] = [abbrev |-> g.abbrev, offset |-> g.offset, next |-> g.next,
                                   tag |-> g.tag, attrs |-> s]
      /\ [g EXCEPT !.attrs = s] \in Die
  BY <1>3 DEF Die
<1> HIDE DEF x
<1> QED
  BY <1>1, <1>2, <1>3, <1>4 DEF x

\* What read() does to a DIE at the end of the unit, at a terminator, at an
\* entry that cannot be read, and at one that can.
LEMMA ReadIs ==
  ASSUME IInv, NEW d \in Die, NEW off \in Nat \ {0}
  PROVE  LET x == Read(d, off).die
             ok == Read(d, off).ok
         IN  /\ x \in Die /\ x.offset = off
             /\ off > Size => ~ok /\ x.next = d.next /\ x.abbrev = d.abbrev /\ x.attrs = d.attrs
             /\ off \in Closes[sec] => ok /\ x.abbrev = 0 /\ x.next = off + 1
             /\ off \in Bad[sec] =>
                  /\ ~ok /\ x.next = d.next
                  /\ \/ x.abbrev = d.abbrev /\ x.attrs = d.attrs
                     \/ /\ Forced(abbrevs).have /\ InTable(sec, off) # {}
                        /\ x.abbrev = Code(off) /\ x.attrs.of = off
                        /\ x.attrs.n <= Len(AbbrevOf(sec, off).attributes)
             /\ off \in Good => ok /\ x = DieAt(off) /\ Forced(abbrevs).have
<1> DEFINE a == Forced(abbrevs)
           e == Entry(a, Code(off))
           bad == Unskippable(e.attributes)
           n == IF bad = {} THEN Len(e.attributes) ELSE Min(bad)
           here == [d EXCEPT !.offset = off]
           read == [here EXCEPT !.abbrev = e.code, !.tag = e.tag,
                                !.attrs = [of |-> off, n |-> n]]
           x == Read(d, off).die
           ok == Read(d, off).ok
<1>1. /\ sec \in Sections /\ Size \in Nat
      /\ Closes[sec] = {o \in 1..Size : Code(o) = 0}
      /\ Bad[sec] \in SUBSET (1..Size)
      /\ \A o \in 1..Size : Code(o) \in Nat
  BY EntriesAre DEF IInv
<1>2. /\ here \in Die /\ here.offset = off /\ here.next = d.next
      /\ here.abbrev = d.abbrev /\ here.attrs = d.attrs
      /\ d.tag \in Tags /\ d.attrs \in [of : Nat, n : Nat] /\ d.next \in Nat
      /\ here = [abbrev |-> d.abbrev, offset |-> off, next |-> d.next, tag |-> d.tag,
                 attrs |-> d.attrs]
  BY DEF Die
<1>3. Read(d, off) =
        IF off > Size THEN [die |-> here, ok |-> FALSE]
        ELSE IF Code(off) = 0
        THEN [die |-> [here EXCEPT !.abbrev = 0, !.next = off + 1], ok |-> TRUE]
        ELSE IF ~Known(a, Code(off)) THEN [die |-> here, ok |-> FALSE]
        ELSE IF bad # {} THEN [die |-> read, ok |-> FALSE]
        ELSE [die |-> [read EXCEPT !.next = off + 1], ok |-> TRUE]
  BY Zenon DEF Read
<1> HIDE DEF a, here
<1>4. CASE off > Size
  BY <1>1, <1>2, <1>3, <1>4 DEF Good
<1>5. CASE off \in Closes[sec]
  <2>1. Read(d, off) = [die |-> [here EXCEPT !.abbrev = 0, !.next = off + 1], ok |-> TRUE]
    BY <1>1, <1>3, <1>5
  <2>2. off \in 1..Size /\ off \notin Bad[sec] /\ off \notin Good
    BY <1>1, <1>5 DEF Bad, Good
  <2> DEFINE null == [here EXCEPT !.abbrev = 0, !.next = off + 1]
  <2>3. null = [abbrev |-> 0, offset |-> off, next |-> off + 1, tag |-> here.tag,
                attrs |-> here.attrs] /\ null \in Die
    <3>1. off + 1 \in Nat
      OBVIOUS
    <3>2. null = [abbrev |-> 0, offset |-> here.offset, next |-> off + 1, tag |-> here.tag,
                  attrs |-> here.attrs] /\ null \in Die
      BY <1>2, <3>1, EndedIs, Zenon
    <3> QED
      BY <1>2, <3>2, Zenon
  <2>4. null.offset = off /\ null.abbrev = 0 /\ null.next = off + 1
    BY <2>3
  <2> HIDE DEF null
  <2>5. x = null /\ ok = TRUE /\ off <= Size
    BY <1>1, <2>1, <2>2 DEF null
  <2> HIDE DEF x, ok
  <2> QED
    BY <1>1, <1>5, <2>2, <2>3, <2>4, <2>5 DEF x, ok
<1>6. CASE off \in Bad[sec] /\ ~Known(a, Code(off))
  <2>1. off \in 1..Size /\ off \notin Closes[sec] /\ Code(off) # 0
    BY <1>1, <1>6 DEF Bad
  <2>2. Read(d, off) = [die |-> here, ok |-> FALSE]
    BY <1>1, <1>3, <1>6, <2>1
  <2> QED
    BY <1>1, <1>2, <1>6, <2>1, <2>2 DEF Good
<1>7. ASSUME off \in 1..Size, Code(off) # 0, Known(a, Code(off))
      PROVE  /\ a.have /\ InTable(sec, off) # {} /\ e = AbbrevOf(sec, off) /\ ~sec.cut
             /\ e.code = Code(off) /\ e.code \in Nat /\ e.tag \in Tags
             /\ e.attributes \in Seq(Kinds)
             /\ bad # {} <=> off \in Bad[sec]
             /\ n \in Nat /\ n <= Len(e.attributes)
             /\ bad = {} => n = Len(e.attributes)
             /\ read = [abbrev |-> Code(off), offset |-> off, next |-> d.next, tag |-> e.tag,
                        attrs |-> [of |-> off, n |-> n]]
             /\ read \in Die
  <2>1. a.have /\ InTable(sec, off) # {} /\ e = AbbrevOf(sec, off) /\ ~sec.cut
    BY <1>7, TableIs DEF a
  <2>2. /\ e.code = Code(off) /\ e.code \in Nat /\ e.tag \in Tags
        /\ e.attributes \in Seq(Kinds)
    BY <1>1, <1>7, <2>1, AbbrevIs
  <2> HIDE DEF e
  <2>3. bad # {} <=> off \in Bad[sec]
    <3>1. bad # {} <=> "ref8" \in Range(e.attributes)
      BY DEF Unskippable, Range
    <3>2. off \in Bad[sec] <=> "ref8" \in Range(AbbrevOf(sec, off).attributes)
      <4>1. off \in DOMAIN sec.entries /\ off \notin Closes[sec]
        BY <1>1, <1>7, SectionsAssumption DEF Size
      <4> QED
        BY <1>1, <2>1, <4>1 DEF Bad
    <3> QED
      BY <2>1, <3>1, <3>2
  <2>4. n \in Nat /\ n <= Len(e.attributes) /\ (bad = {} => n = Len(e.attributes))
    <3>1. CASE bad = {}
      BY <2>2, <3>1
    <3>2. CASE bad # {}
      <4>1. DOMAIN e.attributes = 1..Len(e.attributes) /\ Len(e.attributes) \in Nat
        BY <2>2
      <4>2. bad \in SUBSET Nat /\ \A k \in bad : k <= Len(e.attributes)
        BY <4>1 DEF Unskippable
      <4> HIDE DEF bad
      <4>3. \E k \in bad : \A j \in bad : k <= j
        BY <3>2, <4>2, Least
      <4>4. Min(bad) \in bad
        BY <4>3 DEF Min
      <4> QED
        BY <3>2, <4>2, <4>4
    <3> QED
      BY <3>1, <3>2
  <2> HIDE DEF n
  <2>5. read = [abbrev |-> Code(off), offset |-> off, next |-> d.next, tag |-> e.tag,
                attrs |-> [of |-> off, n |-> n]] /\ read \in Die
    <3>1. [of |-> off, n |-> n] \in [of : Nat, n : Nat]
      BY <2>4
    <3> QED
      <4>1. read = [abbrev |-> e.code, offset |-> here.offset, next |-> here.next, tag |-> e.tag,
                    attrs |-> [of |-> off, n |-> n]] /\ read \in Die
        BY <1>2, <2>2, <3>1, DecodedIs, Zenon
      <4> QED
        BY <1>2, <2>2, <4>1, Zenon
  <2> QED
    BY <2>1, <2>2, <2>3, <2>4, <2>5
<1> HIDE DEF e, bad, n, read
<1>8. CASE off \in Bad[sec] /\ Known(a, Code(off))
  <2>1. off \in 1..Size /\ off \notin Closes[sec] /\ Code(off) # 0
    BY <1>1, <1>8 DEF Bad
  <2>2. Read(d, off) = [die |-> read, ok |-> FALSE]
    BY <1>1, <1>3, <1>7, <1>8, <2>1
  <2>3. /\ a.have /\ InTable(sec, off) # {} /\ e = AbbrevOf(sec, off)
        /\ n <= Len(e.attributes) /\ read \in Die
        /\ read = [abbrev |-> Code(off), offset |-> off, next |-> d.next, tag |-> e.tag,
                   attrs |-> [of |-> off, n |-> n]]
    BY <1>7, <1>8, <2>1
  <2> QED
    BY <1>1, <1>8, <2>1, <2>2, <2>3 DEF Good, a
<1>9. CASE off \in Good
  <2>1. off \in 1..Size /\ off \notin Closes[sec] /\ off \notin Bad[sec] /\ Code(off) # 0
    BY <1>1, <1>9 DEF Good
  <2>2. Known(a, Code(off))
    <3>1. off \in DOMAIN sec.entries
      BY <1>1, <2>1, SectionsAssumption DEF Size
    <3>2. ~sec.cut /\ InTable(sec, off) # {}
      BY <1>1, <2>1, <3>1 DEF Bad
    <3> QED
      BY <2>1, <3>2, TableIs DEF a
  <2>3. /\ a.have /\ e = AbbrevOf(sec, off) /\ n = Len(e.attributes) /\ bad = {}
        /\ read \in Die
        /\ read = [abbrev |-> Code(off), offset |-> off, next |-> d.next, tag |-> e.tag,
                   attrs |-> [of |-> off, n |-> n]]
    BY <1>7, <2>1, <2>2
  <2>4. Read(d, off) = [die |-> [read EXCEPT !.next = off + 1], ok |-> TRUE]
    BY <1>1, <1>3, <2>1, <2>2, <2>3
  <2>5. [read EXCEPT !.next = off + 1] = DieAt(off) /\ [read EXCEPT !.next = off + 1] \in Die
    BY <2>3 DEF DieAt, Die
  <2>6. DieAt(off).offset = off
    BY DEF DieAt
  <2> QED
    BY <1>1, <2>1, <2>3, <2>4, <2>5, <2>6 DEF a
<1> QED
  BY <1>1, <1>4, <1>5, <1>6, <1>8, <1>9 DEF Good

-----------------------------------------------------------------------------
(* What DIEs are made of.                                                  *)

\* The members of a DIE that has an abbreviation are those of an entry, unless
\* the last read of it threw.
Formed ==
  {d \in Die :
     d.abbrev # 0 =>
       /\ d.attrs.of \in 1..Size /\ Code(d.attrs.of) = d.abbrev
       /\ InTable(sec, d.attrs.of) # {}
       /\ d.attrs.n <= Len(AbbrevOf(sec, d.attrs.of).attributes)
       /\ d.next \in 1..(Size + 1)
       /\ \/ d.offset \in Good /\ d = DieAt(d.offset)
          \/ d.offset \in Bad[sec]
          \/ d.offset = Size + 1}
Held == {d \in Formed : d.abbrev # 0 => abbrevs.have}

LEMMA DieAtIs ==
  ASSUME IInv, NEW o \in Good
  PROVE  /\ DieAt(o) \in Die /\ DieAt(o) \in Formed /\ DieAt(o).abbrev # 0
         /\ DieAt(o).offset = o /\ DieAt(o).next = o + 1 /\ DieAt(o).attrs.of = o
<1>1. /\ sec \in Sections /\ Size \in Nat
      /\ Closes[sec] = {q \in 1..Size : Code(q) = 0}
      /\ Bad[sec] \in SUBSET (1..Size)
      /\ \A q \in 1..Size : Code(q) \in Nat
  BY EntriesAre DEF IInv
<1>2. o \in 1..Size /\ o \notin Closes[sec] /\ o \notin Bad[sec] /\ Code(o) # 0
  BY <1>1 DEF Good
<1>3. InTable(sec, o) # {}
  <2>1. o \in DOMAIN sec.entries
    BY <1>1, <1>2, SectionsAssumption DEF Size
  <2> QED
    BY <1>1, <1>2, <2>1 DEF Bad
<1>4. AbbrevOf(sec, o).tag \in Tags /\ AbbrevOf(sec, o).attributes \in Seq(Kinds)
  BY <1>1, <1>2, <1>3, AbbrevIs
<1>5. Len(AbbrevOf(sec, o).attributes) \in Nat
  BY <1>4
<1>6. /\ DieAt(o) \in Die /\ DieAt(o).abbrev = Code(o) /\ DieAt(o).offset = o
      /\ DieAt(o).next = o + 1 /\ DieAt(o).attrs.of = o
      /\ DieAt(o).attrs.n = Len(AbbrevOf(sec, o).attributes)
  BY <1>1, <1>2, <1>4, <1>5 DEF DieAt, Die
<1> QED
  BY <1>1, <1>2, <1>3, <1>5, <1>6 DEF Formed

\* What the client's questions about a DIE are answered from.
LEMMA EntryIs ==
  ASSUME IInv, NEW d \in Held, d.abbrev # 0
  PROVE  /\ Known(abbrevs, d.abbrev) /\ Entry(abbrevs, d.abbrev) = AbbrevOf(sec, d.attrs.of)
         /\ Children(d) <=> d.attrs.of \in Opens[sec]
         /\ Attributes(d) = AbbrevOf(sec, d.attrs.of).attributes
         /\ ~sec.cut /\ Forced(abbrevs) = abbrevs
<1>1. abbrevs.have /\ d.attrs.of \in 1..Size /\ Code(d.attrs.of) = d.abbrev
      /\ InTable(sec, d.attrs.of) # {}
  BY DEF Held, Formed
<1>2. Forced(abbrevs) = abbrevs
  BY <1>1 DEF Forced
<1>3. ~sec.cut
  BY <1>1 DEF IInv, Forced, NoAbbrevs
<1>4. Known(abbrevs, d.abbrev) /\ Entry(abbrevs, d.abbrev) = AbbrevOf(sec, d.attrs.of)
  BY <1>1, <1>2, <1>3, TableIs
<1>5. d.attrs.of \in DOMAIN sec.entries /\ sec \in Sections
  BY <1>1, SectionsAssumption DEF Size, IInv
<1>6. Children(d) <=> d.attrs.of \in Opens[sec]
  BY <1>1, <1>4, <1>5 DEF Children, Opens
<1>7. Attributes(d) = AbbrevOf(sec, d.attrs.of).attributes
  BY <1>4 DEF Attributes
<1> QED
  BY <1>2, <1>3, <1>4, <1>6, <1>7

\* A DIE is whole when its members are those of the entry at its offset.
LEMMA WholeIs ==
  ASSUME IInv, NEW d \in Formed, d.abbrev # 0
  PROVE  /\ Whole(d) <=> d.offset \in Good /\ d = DieAt(d.offset)
         /\ Position(d) = IF d.offset \in Good /\ d = DieAt(d.offset) THEN d.offset ELSE -1
         /\ Position(d) = -1 => d.offset \in Bad[sec] \/ d.offset = Size + 1
<1>1. Size \in Nat /\ d \in Die /\ d.offset \in Nat
  BY EntriesAre DEF IInv, Formed, Die
<1>2. ASSUME d.offset \in Good, d = DieAt(d.offset) PROVE Whole(d)
  <2>1. d.offset \in 1..Size /\ d.offset \in Nat \ {0}
    BY <1>1, <1>2 DEF Good
  <2>2. Read(d, d.offset).ok /\ Read(d, d.offset).die = d
    BY <1>1, <1>2, <2>1, ReadIs
  <2>3. Read(d, d.offset) = [die |-> Read(d, d.offset).die, ok |-> Read(d, d.offset).ok]
    BY DEF Read
  <2>4. Read(d, d.offset).ok = TRUE
    BY <2>2 DEF Read
  <2> QED
    BY <2>1, <2>2, <2>3, <2>4 DEF Whole
<1>3. ASSUME Whole(d) PROVE d.offset \in Good /\ d = DieAt(d.offset)
  <2>1. d.offset \in 1..Size /\ Read(d, d.offset).ok /\ Read(d, d.offset).die = d
    BY <1>3 DEF Whole
  <2>2. d.offset \in Nat \ {0}
    BY <1>1, <2>1
  <2>3. d.offset \notin Closes[sec]
    BY <1>1, <2>1, <2>2, ReadIs
  <2>4. d.offset \notin Bad[sec]
    BY <1>1, <2>1, <2>2, ReadIs
  <2>5. d.offset \in Good
    BY <2>1, <2>3, <2>4 DEF Good
  <2> QED
    BY <1>1, <2>1, <2>2, <2>5, ReadIs
<1>4. d.offset \in Good => d.offset # -1
  BY <1>1
<1>5. Whole(d) <=> d.offset \in Good /\ d = DieAt(d.offset)
  BY <1>2, <1>3
<1>6. Position(d) = IF Whole(d) THEN d.offset ELSE -1
  BY DEF Position
<1>7. \/ d.offset \in Good /\ d = DieAt(d.offset)
      \/ d.offset \in Bad[sec]
      \/ d.offset = Size + 1
  BY DEF Formed
<1> QED
  BY <1>4, <1>5, <1>6, <1>7

LEMMA NoDieIs == NoDie \in Die /\ NoDie.abbrev = 0 /\ NoDie \in Formed /\ NoDie \in Held
                 /\ Position(NoDie) = 0
<1>1. NoDie \in Die /\ NoDie.abbrev = 0
  <2>1. "none" \in Tags
    BY Zenon DEF Tags
  <2>2. [of |-> 0, n |-> 0] \in [of : Nat, n : Nat]
    OBVIOUS
  <2> QED
    BY <2>1, <2>2 DEF NoDie, Die
<1> QED
  BY <1>1 DEF Formed, Held, Position

\* A DIE that was read: where it stands, and that it is well formed.
LEMMA ReadOK ==
  ASSUME IInv, NEW d \in Die, NEW off \in Nat \ {0}, Read(d, off).ok
  PROVE  LET x == Read(d, off).die
         IN  /\ off \in 1..Size /\ off \notin Bad[sec]
             /\ x \in Formed /\ x.next = off + 1 /\ x.next \in 1..(Size + 1)
             /\ off \in Closes[sec] => x.abbrev = 0 /\ Position(x) = 0
             /\ off \notin Closes[sec] =>
                  /\ off \in Good /\ x = DieAt(off) /\ x.abbrev # 0 /\ Position(x) = off
                  /\ Forced(abbrevs).have
<1> DEFINE x == Read(d, off).die
<1>1. Size \in Nat
  BY EntriesAre DEF IInv
<1>2. off <= Size
  BY <1>1, ReadIs
<1>3. off \notin Bad[sec]
  BY ReadIs
<1>4. off \in 1..Size
  BY <1>1, <1>2
<1>5. CASE off \in Closes[sec]
  <2>1. x \in Die /\ x.abbrev = 0 /\ x.next = off + 1
    BY <1>5, ReadIs
  <2> HIDE DEF x
  <2>2. x \in Formed /\ Position(x) = 0
    BY <2>1 DEF Formed, Position
  <2> QED
    BY <1>1, <1>3, <1>4, <1>5, <2>1, <2>2 DEF x
<1>6. CASE off \notin Closes[sec]
  <2>1. off \in Good
    BY <1>3, <1>4, <1>6 DEF Good
  <2>2. x = DieAt(off) /\ Forced(abbrevs).have
    BY <2>1, ReadIs
  <2> HIDE DEF x
  <2>3. x \in Formed /\ x.abbrev # 0 /\ x.offset = off /\ x.next = off + 1
    BY <2>1, <2>2, DieAtIs
  <2>4. Position(x) = off
    BY <2>1, <2>2, <2>3, WholeIs
  <2> QED
    BY <1>1, <1>3, <1>4, <1>6, <2>1, <2>2, <2>3, <2>4 DEF x
<1> QED
  BY <1>5, <1>6

\* A DIE whose read threw: it is still well formed, but stands nowhere.
LEMMA ReadThrew ==
  ASSUME IInv, NEW d \in Formed, d.next \in 1..(Size + 1), NEW off \in Nat \ {0},
         off <= Size + 1 \/ d.abbrev = 0, ~Read(d, off).ok
  PROVE  LET x == Read(d, off).die
         IN  /\ off \in Bad[sec] \/ off > Size
             /\ x \in Formed /\ x.next \in 1..(Size + 1)
             /\ x.abbrev # 0 => /\ d.abbrev # 0 \/ Forced(abbrevs).have
                                /\ Position(x) = -1
                                /\ d.abbrev # 0 \/ off \in Bad[sec]
<1> DEFINE x == Read(d, off).die
<1>1. Size \in Nat /\ d \in Die /\ Bad[sec] \in SUBSET (1..Size)
  BY EntriesAre DEF IInv, Formed
<1>2. off \in Bad[sec] \/ off > Size
  <2>1. off \notin Good /\ off \notin Closes[sec]
    BY <1>1, ReadIs
  <2> QED
    BY <1>1, <2>1 DEF Good
<1>3. x \in Die /\ x.offset = off /\ x.next = d.next
  BY <1>1, <1>2, ReadIs
<1>4. \/ x.abbrev = d.abbrev /\ x.attrs = d.attrs
      \/ /\ Forced(abbrevs).have /\ InTable(sec, off) # {} /\ off \in Bad[sec]
         /\ x.abbrev = Code(off) /\ x.attrs.of = off
         /\ x.attrs.n <= Len(AbbrevOf(sec, off).attributes)
  BY <1>1, <1>2, ReadIs
<1>5. off \notin Good
  BY <1>1, <1>2 DEF Good
<1> HIDE DEF x
<1>6. x.abbrev # 0 => off \in Bad[sec] \/ off = Size + 1
  BY <1>1, <1>2, <1>4
<1>7. x.abbrev # 0 =>
        /\ x.attrs.of \in 1..Size /\ Code(x.attrs.of) = x.abbrev
        /\ InTable(sec, x.attrs.of) # {}
        /\ x.attrs.n <= Len(AbbrevOf(sec, x.attrs.of).attributes)
  BY <1>1, <1>4 DEF Formed
<1>8. x \in Formed
  BY <1>3, <1>6, <1>7 DEF Formed
<1>9. x.abbrev # 0 => Position(x) = -1
  BY <1>3, <1>5, <1>8, WholeIs
<1>10. x.abbrev # 0 => /\ d.abbrev # 0 \/ Forced(abbrevs).have
                       /\ d.abbrev # 0 \/ off \in Bad[sec]
  BY <1>4
<1> QED
  BY <1>2, <1>3, <1>8, <1>9, <1>10 DEF x

-----------------------------------------------------------------------------
(* Every DIE that anyone holds was made by reading an entry.               *)

LEMMA FrontIs ==
  ASSUME NEW S, NEW s \in Seq(S), s # << >>
  PROVE  /\ Front(s) \in Seq(S) /\ Len(Front(s)) = Len(s) - 1
         /\ \A k \in 1..(Len(s) - 1) : Front(s)[k] = s[k]
         /\ Last(s) \in S /\ Last(s) = s[Len(s)] /\ Len(s) \in Nat \ {0}
<1>1. Front(s) = SubSeq(s, 1, Len(s) - 1) /\ Last(s) = s[Len(s)]
  BY DEF Front, Last
<1>2. Len(s) \in Nat \ {0}
  OBVIOUS
<1>3. Front(s) = [k \in 1..(Len(s) - 1) |-> s[k]]
  BY <1>1, <1>2
<1>4. Front(s) \in Seq(S) /\ Len(Front(s)) = Len(s) - 1
  <2>1. Len(s) - 1 \in Nat /\ \A k \in 1..(Len(s) - 1) : s[k] \in S
    BY <1>2
  <2>2. [k \in 1..(Len(s) - 1) |-> s[k]] \in Seq(S)
    BY <2>1
  <2>3. Len([k \in 1..(Len(s) - 1) |-> s[k]]) = Len(s) - 1
    BY <2>1
  <2> QED
    BY <1>3, <2>2, <2>3
<1>5. Last(s) \in S
  BY <1>1, <1>2
<1> QED
  BY <1>1, <1>2, <1>3, <1>4, <1>5

\* The nested iterators of a ++; all but the innermost are at DIEs that have
\* children, and so is the iterator itself.
Nested == {d \in Held : d.next \in 1..(Size + 1)}
HeldInv ==
  /\ die \in Held
  /\ cached \in [{"root", "type"} -> Held]
  /\ it \in [Iterators -> Held]
  /\ subs \in Seq(Nested)
  /\ \A k \in 1..(Len(subs) - 1) : subs[k].abbrev # 0
  /\ subs # << >> => self \in Iterators /\ it[self].abbrev # 0
  /\ self \in Iterators \cup {"none"} /\ result \in {"ok", "threw"}

\* The step leaves the unit as it is; it may read the table of abbreviations.
Keeps == sec' = sec /\ abbrevs' \in {abbrevs, Forced(abbrevs)}

LEMMA Kept ==
  ASSUME IInv, Keeps
  PROVE  /\ IInv' /\ Formed' = Formed /\ Held \subseteq Held' /\ Nested \subseteq Nested'
         /\ \A d \in Formed : (d.abbrev # 0 => abbrevs'.have) => d \in Held'
         /\ \A d \in Formed : Forced(abbrevs).have /\ abbrevs' = Forced(abbrevs) => d \in Held'
<1>1. IInv'
  <2>1. abbrevs' \in {NoAbbrevs, Forced(NoAbbrevs)}
    BY ForcedOnce DEF IInv, Keeps
  <2>2. Forced(NoAbbrevs)' = Forced(NoAbbrevs)
    BY DEF Keeps, Forced, NoAbbrevs, ByCode, Vector
  <2> QED
    BY <2>1, <2>2 DEF IInv, Keeps, NoAbbrevs
<1>2. Size' = Size /\ Good' = Good
  BY DEF Keeps, Good, Size
<1>3. Formed' = Formed
  BY <1>2 DEF Keeps, Formed, Code, DieAt
<1>4. abbrevs.have => abbrevs'.have
  BY DEF Keeps, Forced
<1>5. Held \subseteq Held'
  BY <1>3, <1>4 DEF Held
<1>6. Nested \subseteq Nested'
  BY <1>2, <1>5 DEF Nested
<1>7. \A d \in Formed : (d.abbrev # 0 => abbrevs'.have) => d \in Held'
  BY <1>3 DEF Held
<1> QED
  BY <1>1, <1>3, <1>5, <1>6, <1>7

LEMMA AdvancedHeld ==
  ASSUME IInv, HeldInv, Keeps, UNCHANGED <<cached, die>>, self \in Iterators,
         NEW rest \in Seq(Nested), \A k \in 1..(Len(rest) - 1) : rest[k].abbrev # 0,
         rest # << >> => subs # << >>,
         NEW r, r.die \in Held, r.ok => r.die.next \in 1..(Size + 1), Advanced(rest, r)
  PROVE  HeldInv'
<1>1. /\ die' \in Held' /\ cached' \in [{"root", "type"} -> Held']
      /\ Held \subseteq Held' /\ Nested \subseteq Nested'
  BY Kept DEF HeldInv
<1>2. << >> \in Seq(Nested') /\ Len(<< >>) = 0
  OBVIOUS
<1>3. CASE rest = << >>
  <2>1. it' = [it EXCEPT ![self] = r.die]
    BY <1>3, Zenon DEF Advanced
  <2>2. it' \in [Iterators -> Held']
    BY <1>1, <2>1 DEF HeldInv
  <2>3. self' = "none" /\ subs' = << >> /\ result' \in {"ok", "threw"}
    BY <1>3 DEF Advanced, Return, Throw
  <2> QED
    BY <1>1, <1>2, <2>2, <2>3 DEF HeldInv
<1>4. CASE rest # << >> /\ ~r.ok
  <2>1. it' = it /\ self' = "none" /\ subs' = << >> /\ result' \in {"ok", "threw"}
    BY <1>4 DEF Advanced, Throw
  <2>2. it' \in [Iterators -> Held']
    BY <1>1, <2>1 DEF HeldInv
  <2> QED
    BY <1>1, <1>2, <2>1, <2>2 DEF HeldInv
<1>5. CASE rest # << >> /\ r.ok
  <2>1. it' = it /\ self' = self /\ subs' = Append(Front(rest), r.die) /\ result' = result
    BY <1>5 DEF Advanced
  <2>2. it' \in [Iterators -> Held']
    BY <1>1, <2>1 DEF HeldInv
  <2>3. /\ Front(rest) \in Seq(Nested) /\ Len(Front(rest)) = Len(rest) - 1
        /\ \A k \in 1..(Len(rest) - 1) : Front(rest)[k] = rest[k]
        /\ Len(rest) \in Nat \ {0}
    BY <1>5, FrontIs
  <2>4. r.die \in Nested
    BY <1>5 DEF Nested
  <2> DEFINE f == Front(rest)
  <2> HIDE DEF f
  <2>5. /\ Append(f, r.die) \in Seq(Nested)
        /\ Len(Append(f, r.die)) = Len(rest)
        /\ \A k \in 1..(Len(rest) - 1) : Append(f, r.die)[k] = rest[k]
    BY <2>3, <2>4 DEF f
  <2>6. subs' \in Seq(Nested')
    BY <1>1, <2>1, <2>5 DEF f
  <2>7. \A k \in 1..(Len(subs') - 1) : subs'[k].abbrev # 0
    BY <2>1, <2>5 DEF f
  <2>8. subs # << >>
    BY <1>5
  <2> QED
    BY <1>1, <2>1, <2>2, <2>6, <2>7, <2>8 DEF HeldInv
<1> QED
  BY <1>3, <1>4, <1>5

\* What is read into a DIE that has an abbreviation, and into a new one.
LEMMA HeldRead ==
  ASSUME IInv, NEW d \in Held, d.abbrev # 0, NEW off \in 1..(Size + 1)
  PROVE  LET r == Read(d, off)
         IN  /\ r.die \in Held /\ r.die.next \in 1..(Size + 1)
             /\ r.ok => r.die.next = off + 1
<1>1. d \in Formed /\ abbrevs.have /\ d.next \in 1..(Size + 1) /\ d \in Die
  BY DEF Held, Formed
<1>2. Size \in Nat /\ off \in Nat \ {0} /\ off <= Size + 1
  BY EntriesAre DEF IInv
<1> DEFINE r == Read(d, off)
<1>3. r.ok => r.die \in Formed /\ r.die.next \in 1..(Size + 1) /\ r.die.next = off + 1
  BY <1>1, <1>2, ReadOK
<1>4. ~r.ok => r.die \in Formed /\ r.die.next \in 1..(Size + 1)
  BY <1>1, <1>2, ReadThrew
<1> HIDE DEF r
<1> QED
  BY <1>1, <1>3, <1>4 DEF Held, r

LEMMA NewRead ==
  ASSUME IInv, NEW off \in Nat \ {0}, Read(NoDie, off).ok
  PROVE  LET x == Read(NoDie, off).die
         IN  /\ x \in Formed /\ x.next \in 1..(Size + 1) /\ x.next = off + 1
             /\ x.abbrev # 0 => Forced(abbrevs).have
             /\ abbrevs.have => x \in Held
<1> DEFINE x == Read(NoDie, off).die
<1>1. /\ x \in Formed /\ x.next \in 1..(Size + 1) /\ x.next = off + 1
      /\ x.abbrev # 0 => Forced(abbrevs).have
  BY NoDieIs, ReadOK
<1> HIDE DEF x
<1> QED
  BY <1>1 DEF x, Held

\* Where a sibling attribute leads.
LEMMA SiblingIs ==
  ASSUME IInv, NEW d \in Held, d.abbrev # 0, Children(d), Has(d, "sibling")
  PROVE  LET o == d.attrs.of
             last == Closing(Size, Opens[sec], Closes[sec], o)
         IN  /\ o \in Opens[sec] /\ o \notin Closes[sec] /\ o \in 1..Size
             /\ last <= Size => sec.entries[o].sibling = last + 1
             /\ last > Size => sec.entries[o].sibling > Size
             /\ sec.entries[o].sibling \in Nat \ {0}
<1> DEFINE o == d.attrs.of
           last == Closing(Size, Opens[sec], Closes[sec], o)
<1>1. o \in Opens[sec] /\ Attributes(d) = AbbrevOf(sec, o).attributes
  BY EntryIs
<1>2. /\ sec \in Sections /\ Size \in Nat /\ o \in 1..Size
      /\ Closes[sec] = {q \in 1..Size : Code(q) = 0}
      /\ sec.entries[o].sibling \in Nat
      /\ Code(o) # 0
  BY EntriesAre DEF IInv, Held, Formed
<1>3. "sibling" \in Range(AbbrevOf(sec, o).attributes)
  BY <1>1 DEF Has, Range
<1>4. IF last <= Size THEN sec.entries[o].sibling = last + 1 ELSE sec.entries[o].sibling > Size
  BY <1>1, <1>2, <1>3, SiblingsAssumption, Zenon DEF Size
<1>5. o \notin Closes[sec]
  BY <1>2
<1>6. last \in (o + 1)..(Size + 1)
  BY <1>1, <1>2, <1>5, ClosingIs
<1> HIDE DEF last, o
<1>7. sec.entries[o].sibling \in Nat \ {0}
  BY <1>2, <1>4, <1>6
<1> QED
  BY <1>1, <1>2, <1>4, <1>5, <1>6, <1>7 DEF last, o

LEMMA CurrentHeld ==
  ASSUME IInv, HeldInv, self # "none"
  PROVE  /\ self \in Iterators /\ it[self] \in Held /\ Current \in Held
         /\ subs # << >> =>
              /\ Last(subs) \in Nested /\ Len(subs) \in Nat \ {0}
              /\ LET above == IF Len(subs) = 1 THEN it[self] ELSE subs[Len(subs) - 1]
                 IN  above \in Held /\ above.abbrev # 0
<1>1. self \in Iterators /\ it[self] \in Held
  BY DEF HeldInv
<1>2. subs # << >> => Last(subs) \in Nested /\ Len(subs) \in Nat \ {0}
  BY FrontIs DEF HeldInv
<1>3. Current \in Held
  BY <1>1, <1>2 DEF Current, Nested
<1>4. subs # << >> =>
        LET above == IF Len(subs) = 1 THEN it[self] ELSE subs[Len(subs) - 1]
        IN  above \in Held /\ above.abbrev # 0
  <2>1. subs # << >> => it[self].abbrev # 0
    BY DEF HeldInv
  <2>2. ASSUME subs # << >>, Len(subs) # 1
        PROVE  subs[Len(subs) - 1] \in Held /\ subs[Len(subs) - 1].abbrev # 0
    <3> DEFINE n == Len(subs)
    <3>1. n \in Nat \ {0} /\ n # 1
      BY <1>2, <2>2
    <3>2. n - 1 \in 1..(n - 1) /\ n - 1 \in 1..n
      <4> HIDE DEF n
      <4> QED
        BY <3>1
    <3>3. subs[Len(subs) - 1] \in Nested
      BY <3>2 DEF HeldInv
    <3> QED
      BY <3>2, <3>3 DEF HeldInv, Nested
  <2> QED
    BY <1>1, <2>1, <2>2
<1> QED
  BY <1>1, <1>2, <1>3, <1>4

LEMMA WalkHeld ==
  ASSUME IInv, HeldInv, Walk
  PROVE  HeldInv' /\ Keeps /\ UNCHANGED <<cached, die>>
<1>1. self # "none" /\ Keeps /\ abbrevs' = abbrevs /\ UNCHANGED <<cached, die>>
  BY DEF Walk, StayAtEnd, NoChildren, FollowSibling, Descend, Ascend, Walking, unitVars, Keeps
<1>2. self \in Iterators /\ it[self] \in Held /\ Current \in Held
  BY <1>1, CurrentHeld
<1>3. Size \in Nat
  BY EntriesAre DEF IInv
<1>4. /\ subs \in Seq(Nested) /\ \A k \in 1..(Len(subs) - 1) : subs[k].abbrev # 0
  BY DEF HeldInv
<1>5. /\ die' \in Held' /\ cached' \in [{"root", "type"} -> Held']
      /\ Held \subseteq Held' /\ Nested \subseteq Nested'
  BY <1>1, Kept DEF HeldInv
<1>6. << >> \in Seq(Nested') /\ Len(<< >>) = 0
  OBVIOUS
<1>7. ASSUME Current.abbrev # 0
      PROVE  /\ Current.next \in 1..(Size + 1) /\ abbrevs.have
             /\ Current.attrs.of \in 1..Size
  BY <1>2, <1>7 DEF Held, Formed
<1>8. ASSUME Throw, UNCHANGED it PROVE HeldInv'
  <2>1. self' = "none" /\ subs' = << >> /\ result' \in {"ok", "threw"} /\ it' = it
    BY <1>8 DEF Throw
  <2>2. it' \in [Iterators -> Held']
    BY <1>5, <2>1 DEF HeldInv
  <2> QED
    BY <1>5, <1>6, <2>1, <2>2 DEF HeldInv
<1>9. CASE StayAtEnd
  <2>1. self' = "none" /\ subs' = << >> /\ result' \in {"ok", "threw"} /\ it' = it
    BY <1>9 DEF StayAtEnd, Return
  <2>2. it' \in [Iterators -> Held']
    BY <1>5, <2>1 DEF HeldInv
  <2> QED
    BY <1>1, <1>5, <1>6, <2>1, <2>2 DEF HeldInv
<1>10. CASE NoChildren
  <2>1. Current.abbrev # 0 /\ Advanced(subs, Read(Current, Current.next))
    BY <1>10 DEF NoChildren
  <2>2. /\ Read(Current, Current.next).die \in Held
        /\ Read(Current, Current.next).die.next \in 1..(Size + 1)
    BY <1>2, <1>7, <2>1, HeldRead
  <2> QED
    BY <1>1, <1>2, <1>4, <2>1, <2>2, AdvancedHeld
<1>11. CASE FollowSibling
  <2>1. /\ Children(Current) /\ Has(Current, "sibling") /\ Current.abbrev # 0
    BY <1>11 DEF FollowSibling, Children
  <2>2. PICK off \in IF Where(Current, "sibling") <= Current.attrs.n
                     THEN {sec.entries[Current.attrs.of].sibling} ELSE Garbage :
          LET r == Read(NoDie, off)
          IN  IF r.ok THEN Advanced(subs, r) ELSE Throw /\ UNCHANGED it
    BY <1>11 DEF FollowSibling
  <2>3. off \in Nat \ {0}
    <3>1. sec.entries[Current.attrs.of].sibling \in Nat \ {0}
      BY <1>2, <2>1, SiblingIs
    <3>2. Garbage \subseteq Nat \ {0}
      BY <1>3 DEF Garbage
    <3> QED
      BY <2>2, <3>1, <3>2
  <2>4. CASE Read(NoDie, off).ok
    <3>1. Advanced(subs, Read(NoDie, off))
      BY <2>2, <2>4
    <3>2. /\ Read(NoDie, off).die \in Held
          /\ Read(NoDie, off).die.next \in 1..(Size + 1)
      BY <1>7, <2>1, <2>3, <2>4, NewRead
    <3> QED
      BY <1>1, <1>2, <1>4, <3>1, <3>2, AdvancedHeld
  <2>5. CASE ~Read(NoDie, off).ok
    BY <1>1, <1>8, <2>2, <2>5
  <2> QED
    BY <2>4, <2>5
<1>12. CASE Descend
  <2>1. /\ Children(Current) /\ Current.abbrev # 0 /\ ~SubAtEnd /\ UNCHANGED it
    BY <1>12 DEF Descend, Children, Walking
  <2>2. Current.next \in Nat \ {0}
    BY <1>3, <1>7, <2>1
  <2> DEFINE r == Read(NoDie, Current.next)
  <2>3. IF r.ok THEN subs' = Append(subs, r.die) /\ UNCHANGED <<self, result>> ELSE Throw
    BY <1>12 DEF Descend
  <2>4. CASE r.ok
    <3>1. r.die \in Held /\ r.die.next \in 1..(Size + 1)
      BY <1>7, <2>1, <2>2, <2>4, NewRead
    <3> DEFINE x == r.die
    <3>2. x \in Nested
      BY <3>1 DEF Nested
    <3>3. subs' = Append(subs, x) /\ self' = self /\ result' = result
      BY <2>3, <2>4
    <3> HIDE DEF x, r
    <3>4. Len(subs) \in Nat
      BY <1>4
    <3>5. subs' \in Seq(Nested) /\ Len(subs') = Len(subs) + 1
          /\ \A k \in 1..Len(subs) : subs'[k] = subs[k]
      BY <1>4, <3>2, <3>3
    <3>6. \A k \in 1..Len(subs) : subs[k].abbrev # 0
      <4>1. subs # << >> => Current = subs[Len(subs)]
        BY DEF Current, Last
      <4> QED
        BY <1>4, <2>1, <3>4, <4>1
    <3>7. subs' \in Seq(Nested')
      BY <1>5, <3>5
    <3>8. it'[self'].abbrev # 0
      BY <2>1, <3>3 DEF HeldInv, Current
    <3>9. it' \in [Iterators -> Held']
      BY <1>5, <2>1 DEF HeldInv
    <3>10. \A k \in 1..(Len(subs') - 1) : subs'[k].abbrev # 0
      BY <3>4, <3>5, <3>6
    <3> QED
      BY <1>1, <1>2, <1>5, <3>3, <3>7, <3>8, <3>9, <3>10 DEF HeldInv
  <2>5. CASE ~r.ok
    BY <1>1, <1>8, <2>1, <2>3, <2>5
  <2> QED
    BY <2>4, <2>5
<1>13. CASE Ascend
  <2> DEFINE above == IF Len(subs) = 1 THEN it[self] ELSE subs[Len(subs) - 1]
  <2>1. subs # << >> /\ Advanced(Front(subs), Read(above, Last(subs).next))
    BY <1>13 DEF Ascend, SubAtEnd
  <2>2. above \in Held /\ above.abbrev # 0 /\ Last(subs) \in Nested
    BY <1>1, <2>1, CurrentHeld
  <2>3. Last(subs).next \in 1..(Size + 1)
    BY <2>2 DEF Nested
  <2> HIDE DEF above
  <2>4. /\ Read(above, Last(subs).next).die \in Held
        /\ Read(above, Last(subs).next).die.next \in 1..(Size + 1)
    BY <2>2, <2>3, HeldRead
  <2>5. /\ Front(subs) \in Seq(Nested) /\ Len(Front(subs)) = Len(subs) - 1
        /\ \A k \in 1..(Len(subs) - 1) : Front(subs)[k] = subs[k]
        /\ Len(subs) \in Nat
    BY <1>4, <2>1, FrontIs
  <2> DEFINE f == Front(subs)
  <2> HIDE DEF f
  <2>6. \A k \in 1..(Len(f) - 1) : f[k].abbrev # 0
    BY <1>4, <2>5 DEF f
  <2> QED
    BY <1>1, <1>2, <2>1, <2>4, <2>5, <2>6, AdvancedHeld DEF f
<1> QED
  BY <1>1, <1>9, <1>10, <1>11, <1>12, <1>13 DEF Walk

\* Between calls there are no nested iterators, and who changes neither them nor
\* the rest has only to say what a call did to what it changed.
LEMMA CallHeld ==
  ASSUME IInv, HeldInv, Keeps, self = "none", subs' = subs, self' \in Iterators \cup {"none"},
         die' \in Held', cached' \in [{"root", "type"} -> Held'], it' \in [Iterators -> Held'],
         result' \in {"ok", "threw"}
  PROVE  HeldInv'
<1>1. subs = << >>
  BY IteratorsAssumption DEF HeldInv
<1>2. << >> \in Seq(Nested') /\ Len(<< >>) = 0
  OBVIOUS
<1> QED
  BY <1>1, <1>2 DEF HeldInv

LEMMA GetHeld ==
  ASSUME IInv, HeldInv, NEW c \in {"root", "type"}, NEW off \in Nat, Get(c, off)
  PROVE  HeldInv' /\ Keeps
<1>1. self = "none" /\ off \in Nat \ {0} /\ UNCHANGED <<sec, it, self, subs>>
  BY DEF Get, walkVars
<1>2. self' \in Iterators \cup {"none"}
  BY <1>1
<1>3. CASE cached[c].abbrev # 0
  <2>1. die' = cached[c] /\ result' = "ok" /\ UNCHANGED <<cached, abbrevs>>
    BY <1>3 DEF Get
  <2>2. Keeps
    BY <1>1, <2>1 DEF Keeps
  <2>3. /\ die' \in Held' /\ cached' \in [{"root", "type"} -> Held']
        /\ it' \in [Iterators -> Held']
    BY <1>1, <2>1, <2>2, Kept DEF HeldInv
  <2> QED
    BY <1>1, <1>2, <2>1, <2>2, <2>3, CallHeld
<1>4. CASE cached[c].abbrev = 0 /\ ~Forced(abbrevs).have
  <2>1. abbrevs' = Forced(abbrevs) /\ result' = "threw" /\ UNCHANGED <<cached, die>>
    BY <1>4 DEF Get
  <2>2. Keeps
    BY <1>1, <2>1 DEF Keeps
  <2>3. /\ die' \in Held' /\ cached' \in [{"root", "type"} -> Held']
        /\ it' \in [Iterators -> Held']
    BY <1>1, <2>1, <2>2, Kept DEF HeldInv
  <2> QED
    BY <1>1, <1>2, <2>1, <2>2, <2>3, CallHeld
<1>5. CASE cached[c].abbrev = 0 /\ Forced(abbrevs).have
  <2>1. abbrevs' = Forced(abbrevs)
    BY <1>5 DEF Get
  <2>2. PICK g \in Garbage :
          LET r == Read([NoDie EXCEPT !.next = g], off)
          IN  /\ cached' = [cached EXCEPT ![c] = r.die]
              /\ IF r.ok THEN die' = r.die /\ result' = "ok"
                         ELSE die' = die /\ result' = "threw"
    BY <1>5, <2>1 DEF Get
  <2> DEFINE d == [NoDie EXCEPT !.next = g]
             r == Read(d, off)
  <2>3. /\ cached' = [cached EXCEPT ![c] = r.die]
        /\ IF r.ok THEN die' = r.die /\ result' = "ok" ELSE die' = die /\ result' = "threw"
    BY <2>2
  <2>4. Keeps
    BY <1>1, <2>1 DEF Keeps
  <2>5. d \in Die /\ d.abbrev = 0 /\ d.next \in 1..(Size + 1)
    <3>1. g \in 1..(Size + 1) /\ g \in Nat
      BY EntriesAre DEF IInv, Garbage
    <3>2. NoDie \in Die /\ NoDie.abbrev = 0
      BY NoDieIs
    <3> QED
      BY <3>1, <3>2 DEF Die
  <2>6. d \in Formed
    BY <2>5 DEF Formed
  <2> HIDE DEF d
  <2>7. r.die \in Formed
    <3>1. CASE r.ok
      BY <1>1, <2>5, <3>1, ReadOK
    <3>2. CASE ~r.ok
      BY <1>1, <2>5, <2>6, <3>2, ReadThrew
    <3> QED
      BY <3>1, <3>2
  <2> HIDE DEF r
  <2>8. r.die \in Held'
    BY <1>5, <2>1, <2>4, <2>7, Kept
  <2>9. /\ die' \in Held' /\ cached' \in [{"root", "type"} -> Held']
        /\ it' \in [Iterators -> Held'] /\ result' \in {"ok", "threw"}
    BY <1>1, <2>3, <2>4, <2>8, Kept DEF HeldInv
  <2> QED
    BY <1>1, <1>2, <2>4, <2>9, CallHeld
<1> QED
  BY <1>3, <1>4, <1>5

LEMMA BeginHeld ==
  ASSUME IInv, HeldInv, NEW i \in Iterators, Begin(i)
  PROVE  HeldInv' /\ Keeps /\ UNCHANGED <<cached, die>>
<1>1. /\ self = "none" /\ UNCHANGED <<sec, abbrevs, cached, die, self, subs>> /\ Keeps
      /\ self' \in Iterators \cup {"none"}
  BY DEF Begin, unitVars, Keeps
<1>2. /\ it \in [Iterators -> Held'] /\ die' \in Held' /\ die \in Held
      /\ cached' \in [{"root", "type"} -> Held'] /\ Held \subseteq Held'
  BY <1>1, Kept DEF HeldInv
<1>3. CASE ~Children(die)
  <2>1. it' = [it EXCEPT ![i] = NoDie] /\ result' = "ok"
    BY <1>3 DEF Begin
  <2>2. it' \in [Iterators -> Held']
    BY <1>2, <2>1, NoDieIs
  <2> QED
    BY <1>1, <1>2, <2>1, <2>2, CallHeld
<1>4. CASE Children(die)
  <2> DEFINE r == Read(NoDie, die.next)
  <2>1. /\ it' = IF r.ok THEN [it EXCEPT ![i] = r.die] ELSE it
        /\ result' = IF r.ok THEN "ok" ELSE "threw"
    BY <1>4 DEF Begin
  <2>2. abbrevs.have /\ die.next \in Nat \ {0}
    BY <1>2, <1>4, EntriesAre DEF Children, Held, Formed, IInv
  <2>3. r.ok => r.die \in Held
    BY <2>2, NewRead
  <2> HIDE DEF r
  <2>4. it' \in [Iterators -> Held'] /\ result' \in {"ok", "threw"}
    BY <1>2, <2>1, <2>3
  <2> QED
    BY <1>1, <1>2, <2>4, CallHeld
<1> QED
  BY <1>3, <1>4

LEMMA ReferenceHeld ==
  ASSUME IInv, HeldInv, NEW off \in Entries, Reference(off)
  PROVE  HeldInv' /\ Keeps
<1>1. /\ self = "none" /\ UNCHANGED <<sec, cached, it, self, subs>>
      /\ self' \in Iterators \cup {"none"}
  BY DEF Reference, walkVars
<1>2. Size \in Nat /\ off \in 1..Size /\ Code(off) # 0 /\ off \in Nat \ {0}
  BY EntriesAre DEF IInv, Entries
<1>3. abbrevs' = Forced(abbrevs)
  BY <1>2 DEF Reference, AbbrevsAfter
<1>4. Keeps
  BY <1>1, <1>3 DEF Keeps
<1>5. /\ it' \in [Iterators -> Held'] /\ die \in Held'
      /\ cached' \in [{"root", "type"} -> Held']
  BY <1>1, <1>4, Kept DEF HeldInv
<1> DEFINE r == Read(NoDie, off)
<1>6. IF r.ok THEN die' = r.die /\ result' = "ok" ELSE die' = die /\ result' = "threw"
  BY DEF Reference
<1>7. r.ok => r.die \in Formed /\ (r.die.abbrev # 0 => Forced(abbrevs).have)
  BY <1>2, NewRead
<1> HIDE DEF r
<1>8. r.ok => r.die \in Held'
  BY <1>3, <1>4, <1>7, Kept
<1>9. die' \in Held' /\ result' \in {"ok", "threw"}
  BY <1>5, <1>6, <1>8
<1> QED
  BY <1>1, <1>4, <1>5, <1>9, CallHeld

LEMMA ClientHeld ==
  ASSUME IInv, HeldInv, NEW i \in Iterators, Client(i)
  PROVE  HeldInv' /\ Keeps
<1>1. ASSUME UNCHANGED unitVars
      PROVE  /\ Keeps /\ Held \subseteq Held'
             /\ it \in [Iterators -> Held'] /\ die \in Held'
             /\ cached' \in [{"root", "type"} -> Held']
  <2>1. Keeps
    BY <1>1 DEF Keeps, unitVars
  <2> QED
    BY <1>1, <2>1, Kept DEF HeldInv, unitVars
<1>2. CASE Root
  BY <1>2, GetHeld DEF Root
<1>3. CASE Type
  <2>1. sec.type \in Nat
    BY SectionsAssumption DEF IInv
  <2> QED
    BY <1>3, <2>1, GetHeld DEF Type
<1>4. ASSUME NEW off \in Entries, Reference(off) PROVE HeldInv' /\ Keeps
  BY <1>4, ReferenceHeld
<1>5. CASE Begin(i)
  BY <1>5, BeginHeld
<1>6. CASE Deref(i)
  <2>1. /\ self = "none" /\ die' = it[i] /\ result' = "ok" /\ UNCHANGED <<it, self, subs>>
        /\ UNCHANGED unitVars
    BY <1>6 DEF Deref, walkVars
  <2>2. die' \in Held' /\ it' \in [Iterators -> Held'] /\ self' \in Iterators \cup {"none"}
        /\ result' \in {"ok", "threw"}
    BY <1>1, <2>1
  <2> QED
    BY <1>1, <2>1, <2>2, CallHeld
<1>7. CASE Increment(i)
  <2>1. /\ self = "none" /\ self' = i /\ UNCHANGED <<die, it, subs, result>>
        /\ UNCHANGED unitVars
    BY <1>7 DEF Increment
  <2>2. die' \in Held' /\ it' \in [Iterators -> Held'] /\ self' \in Iterators \cup {"none"}
        /\ result' \in {"ok", "threw"}
    BY <1>1, <2>1 DEF HeldInv
  <2> QED
    BY <1>1, <2>1, <2>2, CallHeld
<1>8. ASSUME NEW j \in Iterators, Assign(i, j) PROVE HeldInv' /\ Keeps
  <2>1. /\ self = "none" /\ it' = [it EXCEPT ![i] = it[j]] /\ result' = "ok"
        /\ UNCHANGED <<die, self, subs>> /\ UNCHANGED unitVars
    BY <1>8 DEF Assign
  <2>2. die' \in Held' /\ it' \in [Iterators -> Held'] /\ self' \in Iterators \cup {"none"}
        /\ result' \in {"ok", "threw"}
    BY <1>1, <2>1
  <2> QED
    BY <1>1, <2>1, <2>2, CallHeld
<1> QED
  BY <1>2, <1>3, <1>4, <1>5, <1>6, <1>7, <1>8 DEF Client

\* The same for the name index.
MapHeld ==
  /\ parent \in 0..(Size + 1) /\ answer.die \in Held
  /\ \A n \in DOMAIN str_map : str_map[n] \in Held
  /\ phase \in {"idle", "check", "examine"}
TreeInv == IInv /\ HeldInv /\ MapHeld

LEMMA MapKept ==
  ASSUME TreeInv, Keeps
  PROVE  /\ UNCHANGED parent => parent' \in 0..(Size' + 1)
         /\ UNCHANGED answer => answer'.die \in Held'
         /\ UNCHANGED str_map => \A n \in DOMAIN str_map' : str_map'[n] \in Held'
         /\ UNCHANGED <<die, cached, it, self, subs, result>> => HeldInv'
<1>1. Held \subseteq Held' /\ Nested \subseteq Nested' /\ Size' = Size
  BY Kept DEF TreeInv, Keeps, Size
<1>2. ASSUME UNCHANGED <<die, cached, it, self, subs, result>> PROVE HeldInv'
  <2>1. subs' \in Seq(Nested')
    BY <1>1, <1>2 DEF TreeInv, HeldInv
  <2>2. /\ die' \in Held' /\ cached' \in [{"root", "type"} -> Held']
        /\ it' \in [Iterators -> Held']
    BY <1>1, <1>2 DEF TreeInv, HeldInv
  <2> QED
    BY <1>2, <2>1, <2>2 DEF TreeInv, HeldInv
<1>3. /\ UNCHANGED parent => parent' \in 0..(Size' + 1)
      /\ UNCHANGED answer => answer'.die \in Held'
      /\ UNCHANGED str_map => \A n \in DOMAIN str_map' : str_map'[n] \in Held'
  BY <1>1 DEF TreeInv, MapHeld
<1> QED
  BY <1>2, <1>3

LEMMA ExamineHeld == ASSUME TreeInv, Examine PROVE TreeInv'
<1>1. /\ UNCHANGED <<sec, abbrevs, cached, die, it, self, subs, result, parent, asked>>
      /\ Keeps
  BY DEF Examine, treeVars, Keeps
<1>2. /\ it[pos] \in Held /\ Held \subseteq Held' /\ IInv'
  BY <1>1, MapAssumption, Kept DEF TreeInv, HeldInv
<1>3. phase' \in {"idle", "check", "examine"}
  BY DEF Examine, Answer
<1>4. answer'.die \in Held'
  <2>1. answer' = answer \/ answer' = [name |-> asked, die |-> it[pos]]
    BY DEF Examine, Answer
  <2> QED
    BY <1>2, <2>1 DEF TreeInv, MapHeld
<1>5. \A n \in DOMAIN str_map' : str_map'[n] \in Held'
  <2>1. str_map' = str_map \/ str_map' = Indexed(it[pos])
    BY DEF Examine
  <2>2. \A n \in DOMAIN str_map : str_map[n] \in Held'
    BY <1>2 DEF TreeInv, MapHeld
  <2>3. \A n \in DOMAIN Indexed(it[pos]) : Indexed(it[pos])[n] \in Held'
    BY <1>2, <2>2 DEF Indexed
  <2> QED
    BY <2>1, <2>2, <2>3
<1> QED
  BY <1>1, <1>2, <1>3, <1>4, <1>5, MapKept DEF TreeInv, MapHeld

LEMMA NextHeld == TreeInv /\ [MapNext]_vars => TreeInv'
<1> SUFFICES ASSUME TreeInv, [MapNext]_vars PROVE TreeInv'
  OBVIOUS
<1> USE DEF TreeInv
<1>1. CASE MapClient
  <2>1. PICK i \in Iterators : Client(i)
    BY <1>1 DEF MapClient
  <2>2. HeldInv' /\ Keeps
    BY <2>1, ClientHeld
  <2>3. UNCHANGED mapVars
    BY <1>1 DEF MapClient
  <2> QED
    BY <2>2, <2>3, Kept, MapKept DEF mapVars, MapHeld
<1>2. CASE MapWalk
  <2>1. HeldInv' /\ Keeps
    BY <1>2, WalkHeld DEF MapWalk
  <2>2. UNCHANGED <<parent, str_map, answer>> /\ phase' \in {"idle", "check", "examine"}
    BY <1>2 DEF MapWalk, MapHeld
  <2> QED
    BY <2>1, <2>2, Kept, MapKept DEF MapHeld
<1>3. CASE Create
  <2>1. HeldInv' /\ Keeps
    BY <1>3, MapAssumption, BeginHeld DEF Create
  <2>2. /\ UNCHANGED <<str_map, answer, phase>> /\ die.abbrev # 0
        /\ parent' = IF result' = "ok" THEN die.offset ELSE 0
    BY <1>3 DEF Create
  <2>3. die.offset \in 0..(Size + 1) /\ Size' = Size /\ Size \in Nat
    BY <2>1, <2>2, EntriesAre DEF IInv, HeldInv, Held, Formed, Keeps, Size, Good
  <2>4. parent' \in 0..(Size' + 1)
    BY <2>2, <2>3
  <2> QED
    BY <2>1, <2>2, <2>4, Kept, MapKept DEF MapHeld
<1>4. CASE Scan
  <2>1. /\ UNCHANGED <<sec, abbrevs, cached, die, it, subs, result, parent, str_map, asked>>
        /\ phase' \in {"idle", "check", "examine"}
        /\ self' = self \/ self' = pos
        /\ self = "none"
    BY <1>4 DEF Scan, treeVars, unitVars, Answer
  <2>2. Keeps
    BY <2>1 DEF Keeps
  <2>3. answer' = answer \/ answer' = [name |-> asked, die |-> NoDie]
    BY <1>4 DEF Scan, Answer
  <2>4. answer'.die \in Held'
    BY <2>2, <2>3, NoDieIs, Kept DEF MapHeld
  <2>5. /\ die' \in Held' /\ cached' \in [{"root", "type"} -> Held']
        /\ it' \in [Iterators -> Held'] /\ self' \in Iterators \cup {"none"}
        /\ result' \in {"ok", "threw"}
    BY <2>1, <2>2, MapAssumption, Kept DEF HeldInv
  <2>6. HeldInv'
    BY <2>1, <2>2, <2>5, CallHeld
  <2> QED
    BY <2>1, <2>2, <2>4, <2>6, Kept, MapKept DEF MapHeld
<1>5. CASE Examine
  BY <1>5, ExamineHeld
<1>6. ASSUME NEW n \in Names, Lookup(n) PROVE TreeInv'
  <2>1. /\ UNCHANGED <<sec, abbrevs, cached, die, it, self, subs, result, parent, str_map>>
        /\ phase' \in {"idle", "check", "examine"}
        /\ answer' = answer \/ (n \in DOMAIN str_map /\ answer' = [name |-> n, die |-> str_map[n]])
    BY <1>6 DEF Lookup, treeVars, Answer
  <2>2. Keeps
    BY <2>1 DEF Keeps
  <2>3. answer'.die \in Held'
    BY <2>1, <2>2, Kept DEF MapHeld
  <2> QED
    BY <2>1, <2>2, <2>3, Kept, MapKept DEF MapHeld
<1>7. CASE UNCHANGED vars
  <2>1. /\ UNCHANGED <<sec, abbrevs, cached, die, it, self, subs, result>>
        /\ UNCHANGED <<parent, str_map, answer, phase>>
    BY <1>7 DEF vars, treeVars, mapVars
  <2>2. Keeps
    BY <2>1 DEF Keeps
  <2> QED
    BY <2>1, <2>2, Kept, MapKept DEF MapHeld
<1> QED
  BY <1>1, <1>2, <1>3, <1>4, <1>5, <1>6, <1>7 DEF MapNext

LEMMA InitHeld == MapInit => TreeInv
<1> SUFFICES ASSUME MapInit PROVE TreeInv
  OBVIOUS
<1>1. IInv
  BY DEF MapInit, Init, IInv
<1>2. Size \in Nat
  BY <1>1, EntriesAre DEF IInv
<1>3. HeldInv
  <2>1. << >> \in Seq(Nested) /\ Len(<< >>) = 0
    OBVIOUS
  <2>2. cached \in [{"root", "type"} -> Held]
    BY NoDieIs DEF MapInit, Init
  <2> QED
    BY <2>1, <2>2, NoDieIs DEF MapInit, Init, HeldInv
<1>4. MapHeld
  <2>1. DOMAIN str_map = {}
    BY DEF MapInit
  <2> QED
    BY <1>2, <2>1, NoDieIs DEF MapInit, MapHeld
<1> QED
  BY <1>1, <1>3, <1>4 DEF TreeInv

LEMMA TreeInvariant == MapSpec => []TreeInv
  BY InitHeld, NextHeld, PTL DEF MapSpec

LEMMA HeldTyped == ASSUME IInv, NEW d \in Held PROVE DieOK(d)
<1>1. d \in Die
  BY DEF Held, Formed
<1>2. ASSUME d.abbrev # 0 PROVE Known(abbrevs, d.abbrev) /\ d.attrs.n <= Len(Attributes(d))
  BY <1>2, EntryIs DEF Held, Formed
<1> QED
  BY <1>1, <1>2 DEF DieOK

\* Every DIE that the client, the unit, an iterator or the index holds has the
\* members of one entry and no more attributes than its abbreviation, which is
\* in the table, also after reads that threw (die.cc:31-54).
THEOREM TypeCorrect == MapSpec => []TypeOK
<1>1. TreeInv => TypeOK
  <2> SUFFICES ASSUME TreeInv PROVE TypeOK
    OBVIOUS
  <2> USE DEF TreeInv
  <2>1. /\ DieOK(die) /\ DieOK(answer.die) /\ DieOK(cached["root"]) /\ DieOK(cached["type"])
        /\ \A i \in Iterators : DieOK(it[i])
        /\ \A n \in DOMAIN str_map : DieOK(str_map[n])
    BY HeldTyped DEF HeldInv, MapHeld
  <2>2. \A k \in DOMAIN subs : DieOK(subs[k])
    BY HeldTyped DEF HeldInv, Nested
  <2>3. TreeTypeOK
    BY <2>1, <2>2 DEF TreeTypeOK, HeldInv, IInv
  <2> QED
    BY <2>1, <2>3 DEF TypeOK, MapHeld
<1> QED
  BY <1>1, TreeInvariant, PTL

-----------------------------------------------------------------------------
(* Walks that stay inside a list.                                          *)

\* A walk that started at p has come to o, n lists down, without having left
\* the list that p opens.
Reached(opens, closes, p, n, o) ==
  /\ Depth(opens, closes, p, o - 1) = n
  /\ \A q \in p..(o - 1) : Depth(opens, closes, p, q) >= 1

\* One entry further.
LEMMA ReachedStep ==
  ASSUME NEW opens, NEW closes, NEW p \in Nat, NEW n \in Nat, NEW o \in Nat, p <= o,
         Reached(opens, closes, p, n, o),
         NEW m \in Nat \ {0},
         m = n + (IF o \in opens THEN 1 ELSE 0) - (IF o \in closes THEN 1 ELSE 0)
  PROVE  Reached(opens, closes, p, m, o + 1)
<1>1. p \in Int /\ o \in Int /\ o + 1 - 1 = o
  OBVIOUS
<1>2. Depth(opens, closes, p, o) = m
  BY <1>1, DepthStep DEF Reached
<1>3. \A q \in p..o : q \in p..(o - 1) \/ q = o
  OBVIOUS
<1> QED
  BY <1>1, <1>2, <1>3 DEF Reached

\* Over a subtree.
LEMMA ReachedBehind ==
  ASSUME NEW size \in Nat, NEW opens, NEW closes, NEW p \in Nat, NEW n \in Nat \ {0},
         NEW o \in 1..size, p <= o, o \in opens, o \notin closes,
         Reached(opens, closes, p, n, o)
  PROVE  LET last == Closing(size, opens, closes, o)
         IN  /\ last <= size => Reached(opens, closes, p, n, last + 1)
             /\ \A q \in p..(last - 1) : Depth(opens, closes, p, q) >= 1
             /\ last \in (o + 1)..(size + 1)
<1> DEFINE last == Closing(size, opens, closes, o)
<1>1. /\ last \in (o + 1)..(size + 1)
      /\ last <= size => Depth(opens, closes, o, last) = 0
      /\ \A q \in o..(last - 1) : Depth(opens, closes, o, q) >= 1
  BY ClosingIs
<1> HIDE DEF last
<1>2. ASSUME NEW q \in o..size
      PROVE  Depth(opens, closes, p, q) = n + Depth(opens, closes, o, q)
             /\ Depth(opens, closes, o, q) \in Int
  <2>1. p \in Int /\ o \in Int /\ q \in Int /\ o <= q + 1
    OBVIOUS
  <2> QED
    BY <2>1, DepthSplit DEF Reached
<1>3. \A q \in p..(last - 1) : Depth(opens, closes, p, q) >= 1
  <2> TAKE q \in p..(last - 1)
  <2>1. CASE q < o
    BY <2>1 DEF Reached
  <2>2. CASE q >= o
    <3>1. q \in o..(last - 1) /\ q \in o..size
      BY <1>1, <2>2
    <3>2. Depth(opens, closes, o, q) >= 1
      BY <1>1, <3>1
    <3> HIDE DEF Depth
    <3> QED
      BY <1>2, <3>1, <3>2
  <2> QED
    BY <2>1, <2>2
<1>4. ASSUME last <= size PROVE Reached(opens, closes, p, n, last + 1)
  <2>1. last \in o..size /\ last + 1 - 1 = last
    BY <1>1, <1>4
  <2>2. Depth(opens, closes, p, last) = n
    BY <1>1, <1>2, <1>4, <2>1
  <2>3. \A q \in p..last : q \in p..(last - 1) \/ q = last
    BY <2>1
  <2> QED
    BY <1>3, <2>1, <2>2, <2>3 DEF Reached
<1> QED
  BY <1>1, <1>3, <1>4 DEF last

\* The list that p opens closes no earlier than a walk that is inside it, and
\* where the walk leaves it.
LEMMA ReachedInside ==
  ASSUME NEW size \in Nat, NEW opens, NEW closes, NEW p \in 1..size,
         p \in opens, p \notin closes, NEW o \in (p + 1)..(size + 1), NEW n \in Nat \ {0},
         Reached(opens, closes, p, n, o)
  PROVE  /\ Closing(size, opens, closes, p) \in o..(size + 1)
         /\ o <= size /\ n = 1 /\ o \in closes /\ o \notin opens
              => Closing(size, opens, closes, p) = o
<1>1. Closing(size, opens, closes, p) \in (p + 1)..(size + 1)
  BY ClosingIs
<1>2. Closing(size, opens, closes, p) > o - 1
  <2>1. o - 1 \in p..size /\ \A q \in p..(o - 1 - 1) : q \in p..(o - 1)
    OBVIOUS
  <2>2. Depth(opens, closes, p, o - 1) >= 1
    BY DEF Reached
  <2> QED
    BY <2>1, <2>2, ClosesAt DEF Reached
<1>3. ASSUME o <= size, n = 1, o \in closes, o \notin opens
      PROVE  Closing(size, opens, closes, p) = o
  <2>1. p \in Int /\ o \in Int /\ p <= o /\ o \in p..size
    BY <1>3
  <2>2. Depth(opens, closes, p, o) = 0
    BY <1>3, <2>1, DepthStep DEF Reached
  <2> QED
    BY <2>1, <2>2, ClosesAt DEF Reached
<1> QED
  BY <1>1, <1>2, <1>3

-----------------------------------------------------------------------------
(* DieTree implements Siblings.                                            *)

LEMMA UnitIs ==
  ASSUME IInv
  PROVE  /\ Size \in Nat /\ Opens[sec] \in SUBSET (1..Size)
         /\ Closes[sec] \in SUBSET (1..Size) /\ Bad[sec] \in SUBSET (1..Size)
         /\ \A o \in Opens[sec] : o \notin Closes[sec]
         /\ Good \in SUBSET (1..Size) /\ \A o \in Good : o \notin Closes[sec]
<1>1. /\ sec \in Sections /\ Size \in Nat
      /\ Closes[sec] = {o \in 1..Size : Code(o) = 0}
      /\ Bad[sec] \in SUBSET (1..Size)
  BY EntriesAre DEF IInv
<1>2. Opens[sec] \in SUBSET (1..Size)
  BY <1>1, SectionsAssumption DEF Opens, Size
<1>3. ASSUME NEW o \in Opens[sec] PROVE o \notin Closes[sec]
  <2>1. InTable(sec, o) # {}
    BY <1>1 DEF Opens
  <2> QED
    BY <1>1, <1>2, <2>1, AbbrevIs
<1> QED
  BY <1>1, <1>2, <1>3 DEF Good

LEMMA TreeIs ==
  ASSUME NEW p, NEW q
  PROVE  /\ Promise!LastOf(p) =
              IF p \in Opens[sec] THEN Closing(Size, Opens[sec], Closes[sec], p) ELSE p
         /\ Promise!Balance(p, q) = Depth(Opens[sec], Closes[sec], p, q)
<1>1. \A S : Promise!Cardinality(S) = Cardinality(S)
  BY DEF Promise!Cardinality, Cardinality
<1>2. \A x, y : Promise!Depth(Opens[sec], Closes[sec], x, y)
                  = Depth(Opens[sec], Closes[sec], x, y)
  BY <1>1 DEF Promise!Depth, Depth
<1>3. \A S : Promise!Min(S) = Min(S)
  BY DEF Promise!Min, Min
<1>4. Promise!Closing(Size, Opens[sec], Closes[sec], p)
        = Closing(Size, Opens[sec], Closes[sec], p)
  BY <1>2, <1>3 DEF Promise!Closing, Closing
<1> QED
  BY <1>2, <1>4 DEF Promise!LastOf, Promise!Balance

\* DIEs that stand for an entry, and the position of any DIE.
WholeDies == {DieAt(o) : o \in Good}
PosAt ==
  [d \in Formed |-> IF d.abbrev = 0 THEN 0 ELSE IF d \in WholeDies THEN d.offset ELSE -1]

LEMMA WholeDieIs ==
  ASSUME IInv, NEW d \in WholeDies
  PROVE  /\ d \in Formed /\ d.offset \in Good /\ d = DieAt(d.offset) /\ d.abbrev # 0
         /\ d.next = d.offset + 1 /\ d.attrs.of = d.offset
         /\ PosAt[d] = d.offset
<1>1. PICK o \in Good : d = DieAt(o)
  BY DEF WholeDies
<1>2. /\ d \in Formed /\ d.abbrev # 0 /\ d.offset = o /\ d.next = o + 1 /\ d.attrs.of = o
  BY <1>1, DieAtIs
<1> QED
  BY <1>1, <1>2 DEF PosAt

LEMMA PositionIs ==
  ASSUME IInv, NEW d \in Formed
  PROVE  /\ Position(d) = PosAt[d]
         /\ PosAt[d] \in Good \cup {0, -1}
         /\ PosAt[d] = 0 <=> d.abbrev = 0
         /\ PosAt[d] = -1 <=> d.abbrev # 0 /\ d \notin WholeDies
         /\ PosAt[d] \in Good <=> d \in WholeDies
<1>1. \A o \in Good : o # 0 /\ o # -1
  BY UnitIs
<1>2. d \in WholeDies <=> d.abbrev # 0 /\ d.offset \in Good /\ d = DieAt(d.offset)
  BY WholeDieIs DEF WholeDies
<1>3. CASE d.abbrev = 0
  BY <1>1, <1>2, <1>3 DEF PosAt, Position
<1>4. CASE d.abbrev # 0
  <2>1. Position(d) = IF d.offset \in Good /\ d = DieAt(d.offset) THEN d.offset ELSE -1
    BY <1>4, WholeIs
  <2>2. PosAt[d] = IF d \in WholeDies THEN d.offset ELSE -1
    BY <1>4 DEF PosAt
  <2> QED
    BY <1>1, <1>2, <1>4, <2>1, <2>2
<1> QED
  BY <1>3, <1>4

LEMMA PosAtKept == ASSUME Keeps PROVE PosAt' = PosAt /\ WholeDies' = WholeDies /\ Good' = Good
<1>1. Size' = Size /\ Good' = Good
  BY DEF Keeps, Good, Size
<1>2. Formed' = Formed
  BY <1>1 DEF Keeps, Formed, Code, DieAt
<1>3. WholeDies' = WholeDies
  BY <1>1 DEF Keeps, WholeDies, DieAt, Code
<1> QED
  BY <1>1, <1>2, <1>3 DEF PosAt

\* What a read makes of a position.
LEMMA ReadMoves ==
  ASSUME IInv, NEW d \in Held, NEW off \in 1..(Size + 1)
  PROVE  LET r == Read(d, off)
         IN  /\ r.ok => /\ off \in 1..Size /\ off \notin Bad[sec]
                        /\ r.die \in Formed /\ r.die.next = off + 1
                        /\ PosAt[r.die] = Promise!Settled(off)
                        /\ off \in Closes[sec] => r.die.abbrev = 0
                        /\ off \notin Closes[sec] => off \in Good /\ r.die = DieAt(off)
             /\ ~r.ok => /\ off \in Bad[sec] \/ off > Size
                         /\ d.abbrev # 0 => r.die \in Formed /\ PosAt[r.die] = -1
<1>1. Size \in Nat /\ d \in Die /\ d \in Formed /\ off \in Nat \ {0} /\ off <= Size + 1
  BY UnitIs DEF Held, Formed
<1> DEFINE r == Read(d, off)
<1>2. ASSUME r.ok
      PROVE  /\ off \in 1..Size /\ off \notin Bad[sec]
             /\ r.die \in Formed /\ r.die.next = off + 1
             /\ PosAt[r.die] = Promise!Settled(off)
             /\ off \in Closes[sec] => r.die.abbrev = 0
             /\ off \notin Closes[sec] => off \in Good /\ r.die = DieAt(off)
  <2>1. /\ off \in 1..Size /\ off \notin Bad[sec]
        /\ r.die \in Formed /\ r.die.next = off + 1
        /\ off \in Closes[sec] => r.die.abbrev = 0
        /\ off \notin Closes[sec] => off \in Good /\ r.die = DieAt(off)
    BY <1>1, <1>2, ReadOK
  <2> HIDE DEF r
  <2>2. CASE off \in Closes[sec]
    <3>1. PosAt[r.die] = 0
      BY <2>1, <2>2, PositionIs
    <3> QED
      BY <2>1, <2>2, <3>1 DEF Promise!Settled, Promise!End
  <2>3. CASE off \notin Closes[sec]
    <3>1. r.die \in WholeDies
      BY <2>1, <2>3 DEF WholeDies
    <3>2. PosAt[r.die] = off
      BY <2>1, <2>3, <3>1, WholeDieIs, DieAtIs
    <3> QED
      BY <2>1, <2>3, <3>2 DEF Promise!Settled
  <2> QED
    BY <2>2, <2>3
<1>3. ASSUME ~r.ok PROVE off \in Bad[sec] \/ off > Size
  <2>1. off \notin Good /\ off \notin Closes[sec]
    BY <1>1, <1>3, ReadIs
  <2> QED
    BY <1>1, <2>1 DEF Good
<1>4. ASSUME ~r.ok, d.abbrev # 0 PROVE r.die \in Formed /\ PosAt[r.die] = -1
  <2>1. d.next \in 1..(Size + 1)
    BY <1>1, <1>4 DEF Formed
  <2>2. r.die \in Formed /\ (r.die.abbrev # 0 => Position(r.die) = -1)
    BY <1>1, <1>4, <2>1, ReadThrew
  <2>3. r.die.abbrev # 0
    <3>1. off > Size => r.die.abbrev = d.abbrev
      BY <1>1, ReadIs
    <3>2. off \in Bad[sec] =>
            r.die.abbrev = d.abbrev \/ (InTable(sec, off) # {} /\ r.die.abbrev = Code(off))
      BY <1>1, ReadIs
    <3>3. off \in Bad[sec] /\ InTable(sec, off) # {} => Code(off) # 0
      BY UnitIs, AbbrevIs DEF IInv
    <3> QED
      BY <1>3, <1>4, <3>1, <3>2, <3>3
  <2> HIDE DEF r
  <2> QED
    BY <2>2, <2>3, PositionIs
<1> QED
  BY <1>2, <1>3, <1>4

\* DIE d, n lists below p, is inside the list that p opens.
Inside(p, n, d) ==
  LET o == d.next - 1
  IN  /\ p \in Opens[sec] /\ n \in Nat \ {0} /\ o \in (p + 1)..Size
      /\ IF d.abbrev = 0 THEN o \in Closes[sec] ELSE o \in Good /\ d = DieAt(o)
      /\ Reached(Opens[sec], Closes[sec], p, n, o)

\* The nested iterators of a ++ that started at an entry are inside its list.
ChainInv ==
  self # "none" /\ subs # << >> /\ it[self] \in WholeDies =>
    Inside(it[self].offset, Len(subs), Last(subs))

LEMMA InsideKept ==
  ASSUME Keeps, NEW p, NEW n, NEW d, Inside(p, n, d), self' # "none" => 
           it'[self'].offset = p /\ Len(subs') = n /\ Last(subs') = d
  PROVE  ChainInv'
<1>1. Size' = Size /\ Good' = Good /\ sec' = sec
  BY DEF Keeps, Good, Size
<1>2. ASSUME self' # "none" PROVE Inside(it[self].offset, Len(subs), Last(subs))'
  BY <1>1, <1>2 DEF Inside, DieAt, Code
<1> QED
  BY <1>2 DEF ChainInv

\* Where a walk that started at an entry is now.
LEMMA CurrentIs ==
  ASSUME IInv, HeldInv, ChainInv, self # "none", it[self] \in WholeDies, ~SubAtEnd
  PROVE  LET p == it[self].offset
             o == Current.offset
             n == Len(subs)
         IN  /\ p \in Good /\ o \in Good /\ Current = DieAt(o) /\ Current.next = o + 1
             /\ Current.attrs.of = o /\ Current.abbrev # 0 /\ Current \in Held
             /\ n \in Nat /\ p <= o /\ Reached(Opens[sec], Closes[sec], p, n, o)
             /\ subs = << >> => n = 0 /\ o = p
             /\ subs # << >> => n # 0 /\ p \in Opens[sec] /\ o >= p + 1
             /\ Children(Current) <=> o \in Opens[sec]
<1> DEFINE p == it[self].offset
           o == Current.offset
           n == Len(subs)
<1>1. p \in Good /\ p \in 1..Size
  BY WholeDieIs, UnitIs
<1>2. Current \in Held /\ n \in Nat
  BY CurrentHeld DEF HeldInv
<1>3. CASE subs = << >>
  <2>1. Current = it[self] /\ n = 0 /\ o = p
    BY <1>3 DEF Current
  <2>2. Reached(Opens[sec], Closes[sec], p, 0, p)
    <3>1. p \in Int
      BY <1>1
    <3>2. Depth(Opens[sec], Closes[sec], p, p - 1) = 0
      BY <3>1, DepthStep
    <3>3. p..(p - 1) = {}
      BY <3>1
    <3> HIDE DEF p
    <3> QED
      BY <3>2, <3>3 DEF Reached
  <2>3. Current \in WholeDies
    BY <2>1
  <2>4. /\ Current = DieAt(o) /\ Current.next = o + 1 /\ Current.attrs.of = o
        /\ Current.abbrev # 0
    BY <2>3, WholeDieIs
  <2>5. Children(Current) <=> o \in Opens[sec]
    BY <1>2, <2>4, EntryIs
  <2> QED
    BY <1>1, <1>2, <1>3, <2>1, <2>2, <2>4, <2>5
<1>4. CASE subs # << >>
  <2>1. Current = Last(subs) /\ Current.abbrev # 0
    BY <1>4 DEF Current, SubAtEnd
  <2>2. Inside(p, n, Current)
    BY <1>4, <2>1 DEF ChainInv
  <2> DEFINE e == Current.next - 1
  <2>3. /\ p \in Opens[sec] /\ n \in Nat \ {0} /\ e \in (p + 1)..Size
        /\ e \in Good /\ Current = DieAt(e)
        /\ Reached(Opens[sec], Closes[sec], p, n, e)
    BY <2>1, <2>2 DEF Inside
  <2>4. Current \in WholeDies
    BY <2>3 DEF WholeDies
  <2>5. /\ o \in Good /\ Current = DieAt(o) /\ Current.next = o + 1 /\ Current.attrs.of = o
        /\ Current.abbrev # 0
    BY <2>4, WholeDieIs
  <2>6. e = o
    <3>1. o \in Int
      BY <2>5, UnitIs
    <3> QED
      BY <2>5, <3>1
  <2>7. Children(Current) <=> o \in Opens[sec]
    BY <1>2, <2>5, EntryIs
  <2>8. p <= o /\ o >= p + 1
    BY <1>1, <2>3, <2>6
  <2> QED
    BY <1>1, <1>2, <1>4, <2>1, <2>3, <2>5, <2>6, <2>7, <2>8
<1> QED
  BY <1>3, <1>4

\* The innermost of the iterators in rest has read the DIE at off.
LEMMA AdvancedTo ==
  ASSUME IInv, HeldInv, Keeps, self \in Iterators, it[self] \in WholeDies,
         NEW rest \in Seq(Nested), NEW d \in Held,
         NEW off \in 1..(Size + 1), Advanced(rest, Read(d, off)),
         d.abbrev # 0 \/ Read(d, off).ok,
         off \in (it[self].offset + 1)..(Promise!LastOf(it[self].offset) + 1),
         rest = << >> => off = Promise!LastOf(it[self].offset) + 1,
         rest # << >> => /\ it[self].offset \in Opens[sec]
                         /\ Reached(Opens[sec], Closes[sec], it[self].offset, Len(rest), off)
  PROVE  /\ ChainInv'
         /\ self' = "none" /\ result' = "threw" => Promise!Blocked(it[self].offset)
         /\ self' = "none" /\ result' = "ok" =>
              PosAt[it'[self]] = Promise!NextSibling(it[self].offset)
         /\ \/ it' = it
            \/ PosAt[it'[self]] = Promise!NextSibling(it[self].offset)
            \/ Promise!Blocked(it[self].offset) /\ PosAt[it'[self]] = -1
<1> DEFINE p == it[self].offset
           r == Read(d, off)
<1>1. p \in 1..Size /\ Size \in Nat /\ off \in Int
  BY WholeDieIs, UnitIs
<1>2. r.ok => /\ off \in 1..Size /\ r.die \in Formed /\ r.die.next = off + 1
              /\ PosAt[r.die] = Promise!Settled(off)
              /\ off \in Closes[sec] => r.die.abbrev = 0
              /\ off \notin Closes[sec] => off \in Good /\ r.die = DieAt(off)
  BY ReadMoves
<1>3. ~r.ok => /\ off \in Bad[sec] \/ off > Size
               /\ d.abbrev # 0 => PosAt[r.die] = -1
  BY ReadMoves
<1> HIDE DEF r
<1>4. ~r.ok => Promise!Blocked(p)
  BY <1>3 DEF Promise!Blocked
<1>5. CASE rest = << >>
  <2>1. it' = [it EXCEPT ![self] = r.die]
    BY <1>5, Zenon DEF Advanced, r
  <2>2. IF r.ok THEN Return ELSE Throw
    BY <1>5, Zenon DEF Advanced, r
  <2>3. it'[self] = r.die
    BY <2>1 DEF HeldInv
  <2>4. self' = "none" /\ result' = IF r.ok THEN "ok" ELSE "threw"
    BY <2>2 DEF Return, Throw
  <2>5. r.ok => PosAt[it'[self]] = Promise!NextSibling(p)
    BY <1>2, <1>5, <2>3 DEF Promise!NextSibling
  <2>6. ~r.ok => PosAt[it'[self]] = -1
    BY <1>3, <2>3 DEF r
  <2> QED
    BY <1>4, <2>4, <2>5, <2>6 DEF ChainInv
<1>6. CASE rest # << >>
  <2>1. it' = it
    BY <1>6 DEF Advanced
  <2>2. CASE ~r.ok
    <3>1. self' = "none" /\ result' = "threw"
      BY <1>6, <2>2 DEF Advanced, Throw, r
    <3> QED
      BY <1>4, <2>1, <2>2, <3>1 DEF ChainInv
  <2>3. CASE r.ok
    <3>1. subs' = Append(Front(rest), r.die) /\ self' = self
      BY <1>6, <2>3 DEF Advanced, r
    <3>2. Front(rest) \in Seq(Nested) /\ Len(Front(rest)) = Len(rest) - 1 /\ Len(rest) \in Nat \ {0}
      BY <1>6, FrontIs
    <3> DEFINE f == Front(rest)
    <3> HIDE DEF f
    <3>3. Len(subs') = Len(rest) /\ Last(subs') = r.die
      BY <3>1, <3>2 DEF Last, f
    <3>4. Inside(p, Len(rest), r.die)
      <4>1. r.die.next - 1 = off
        BY <1>1, <1>2, <2>3
      <4>2. IF r.die.abbrev = 0 THEN off \in Closes[sec] ELSE off \in Good /\ r.die = DieAt(off)
        <5>1. off \in Good => DieAt(off).abbrev # 0
          BY DieAtIs
        <5> QED
          BY <1>2, <2>3, <5>1
      <4>3. off \in (p + 1)..Size
        BY <1>1, <1>2, <2>3
      <4> QED
        BY <1>6, <3>2, <4>1, <4>2, <4>3 DEF Inside
    <3>5. ChainInv'
      BY <2>1, <3>1, <3>3, <3>4, InsideKept
    <3>6. self' # "none"
      BY <3>1, IteratorsAssumption
    <3> QED
      BY <2>1, <3>5, <3>6
  <2> QED
    BY <2>2, <2>3
<1> QED
  BY <1>5, <1>6

\* The first attribute of a kind.
LEMMA WhereIs ==
  ASSUME IInv, NEW d \in Held, NEW kind, Has(d, kind)
  PROVE  LET k == Where(d, kind)
         IN  /\ k \in DOMAIN Attributes(d) /\ Attributes(d)[k] = kind
             /\ \A j \in 1..(k - 1) : Attributes(d)[j] # kind
             /\ k \in Nat /\ k <= Len(Attributes(d))
<1> DEFINE T == {k \in DOMAIN Attributes(d) : Attributes(d)[k] = kind}
<1>1. Attributes(d) \in Seq(Kinds)
  <2>1. CASE d.abbrev = 0
    BY <2>1 DEF Attributes
  <2>2. CASE d.abbrev # 0
    <3>1. /\ sec \in Sections /\ d.attrs.of \in 1..Size /\ InTable(sec, d.attrs.of) # {}
          /\ Attributes(d) = AbbrevOf(sec, d.attrs.of).attributes
      BY <2>2, EntryIs DEF IInv, Held, Formed
    <3> QED
      BY <3>1, AbbrevIs
  <2> QED
    BY <2>1, <2>2
<1> DEFINE s == Attributes(d)
<1> HIDE DEF s
<1>2. DOMAIN s = 1..Len(s) /\ Len(s) \in Nat
  BY <1>1 DEF s
<1>3. {k \in DOMAIN s : s[k] = kind} \in SUBSET Nat /\ {k \in DOMAIN s : s[k] = kind} # {}
  BY <1>2 DEF Has, s
<1>4. \E k \in DOMAIN s : s[k] = kind /\ \A j \in 1..(k - 1) : s[j] # kind
  <2>1. PICK k \in {k \in DOMAIN s : s[k] = kind} : \A j \in {i \in DOMAIN s : s[i] = kind} : k <= j
    BY <1>3, Least
  <2>2. \A j \in 1..(k - 1) : j \in DOMAIN s /\ ~(k <= j)
    BY <1>2, <2>1
  <2> QED
    BY <2>1, <2>2
<1>5. Where(d, kind) = CHOOSE k \in DOMAIN s : s[k] = kind /\ \A j \in 1..(k - 1) : s[j] # kind
  BY DEF Where, s
<1>6. /\ Where(d, kind) \in DOMAIN s /\ s[Where(d, kind)] = kind
      /\ \A j \in 1..(Where(d, kind) - 1) : s[j] # kind
  BY <1>4, <1>5
<1> QED
  BY <1>2, <1>6 DEF s

LEMMA BlockedBehind ==
  ASSUME IInv, NEW p \in 1..Size, NEW last \in p..(Size + 1),
         last \in p..Promise!LastOf(p), Promise!LastOf(p) \in Int,
         last + 1 \in Bad[sec] \/ last >= Size
  PROVE  Promise!Blocked(p)
<1>1. Size \in Nat /\ Size + 1 \in Int /\ last \in Int
  BY UnitIs
<1> DEFINE l == Promise!LastOf(p)
<1> HIDE DEF l
<1>2. l \in Int /\ last <= l
  BY DEF l
<1>3. CASE last <= Size
  <2>1. last + 1 \in (p + 1)..(l + 1) /\ (last + 1 \in Bad[sec] \/ last + 1 > Size)
    BY <1>1, <1>2, <1>3
  <2> QED
    BY <2>1 DEF Promise!Blocked, l
<1>4. CASE last > Size
  <2>1. last \in (p + 1)..(l + 1) /\ last > Size
    BY <1>1, <1>2, <1>4
  <2> QED
    BY <2>1 DEF Promise!Blocked, l
<1> QED
  BY <1>1, <1>3, <1>4

\* What any step of a ++ does that started at an entry.
Outcome ==
  /\ ChainInv'
  /\ self' = "none" /\ result' = "threw" => Promise!Blocked(it[self].offset)
  /\ self' = "none" /\ result' = "ok" =>
       PosAt[it'[self]] = Promise!NextSibling(it[self].offset)
  /\ \/ it' = it
     \/ PosAt[it'[self]] = Promise!NextSibling(it[self].offset)
     \/ Promise!Blocked(it[self].offset) /\ PosAt[it'[self]] = -1

LEMMA ThrowIs ==
  ASSUME IInv, HeldInv, Keeps, Throw, UNCHANGED it, Promise!Blocked(it[self].offset)
  PROVE  Outcome
BY DEF Outcome, Throw, ChainInv

LEMMA NoChildrenMoves ==
  ASSUME IInv, HeldInv, ChainInv, it[self] \in WholeDies, NoChildren
  PROVE  Outcome
<1> DEFINE p == it[self].offset
           o == Current.offset
           n == Len(subs)
<1>1. /\ self # "none" /\ ~SubAtEnd /\ Keeps /\ ~Children(Current)
      /\ Advanced(subs, Read(Current, Current.next))
  BY DEF NoChildren, Walking, unitVars, Keeps
<1>2. /\ p \in Good /\ o \in Good /\ Current.next = o + 1
      /\ Current.abbrev # 0 /\ Current \in Held
      /\ n \in Nat /\ p <= o /\ Reached(Opens[sec], Closes[sec], p, n, o)
      /\ subs = << >> => n = 0 /\ o = p
      /\ subs # << >> => n # 0 /\ p \in Opens[sec] /\ o >= p + 1
      /\ o \notin Opens[sec]
  BY <1>1, CurrentIs
<1>3. /\ Size \in Nat /\ p \in 1..Size /\ o \in 1..Size /\ o + 1 \in 1..(Size + 1)
      /\ p \notin Closes[sec] /\ o \notin Closes[sec]
  BY <1>2, UnitIs
<1> HIDE DEF p, o, n
<1>4. subs = << >> => Promise!LastOf(p) = p
  BY <1>2, TreeIs
<1>5. subs # << >> =>
        /\ Promise!LastOf(p) \in o..(Size + 1)
        /\ Reached(Opens[sec], Closes[sec], p, n, o + 1)
  <2> SUFFICES ASSUME subs # << >>
               PROVE  /\ Promise!LastOf(p) \in o..(Size + 1)
                      /\ Reached(Opens[sec], Closes[sec], p, n, o + 1)
    OBVIOUS
  <2>1. n \in Nat \ {0} /\ p \in Nat /\ o \in Nat /\ n = n + 0 - 0 /\ o \in (p + 1)..(Size + 1)
    BY <1>2, <1>3
  <2>2. Reached(Opens[sec], Closes[sec], p, n, o + 1)
    BY <1>2, <1>3, <2>1, ReachedStep
  <2>3. Closing(Size, Opens[sec], Closes[sec], p) \in o..(Size + 1)
    BY <1>2, <1>3, <2>1, ReachedInside
  <2> QED
    BY <1>2, <2>2, <2>3, TreeIs
<1>6. o + 1 \in (p + 1)..(Promise!LastOf(p) + 1)
  BY <1>2, <1>3, <1>4, <1>5
<1>7. self \in Iterators /\ subs \in Seq(Nested)
  BY <1>1, CurrentHeld DEF HeldInv
<1> QED
  BY <1>1, <1>2, <1>3, <1>4, <1>5, <1>6, <1>7, AdvancedTo DEF Outcome, p, o, n

LEMMA FollowSiblingMoves ==
  ASSUME IInv, HeldInv, ChainInv, it[self] \in WholeDies, FollowSibling
  PROVE  Outcome
<1> DEFINE p == it[self].offset
           o == Current.offset
           n == Len(subs)
           last == Closing(Size, Opens[sec], Closes[sec], o)
           l == Promise!LastOf(p)
<1>1. /\ self # "none" /\ ~SubAtEnd /\ Keeps /\ Children(Current) /\ Has(Current, "sibling")
  BY DEF FollowSibling, Walking, unitVars, Keeps
<1>2. /\ p \in Good /\ o \in Good /\ Current = DieAt(o) /\ Current.attrs.of = o
      /\ Current.abbrev # 0 /\ Current \in Held
      /\ n \in Nat /\ p <= o /\ Reached(Opens[sec], Closes[sec], p, n, o)
      /\ subs = << >> => n = 0 /\ o = p
      /\ subs # << >> => n # 0 /\ p \in Opens[sec] /\ o >= p + 1
      /\ o \in Opens[sec]
  BY <1>1, CurrentIs
<1>3. /\ Size \in Nat /\ p \in 1..Size /\ o \in 1..Size
      /\ p \notin Closes[sec] /\ o \notin Closes[sec]
  BY <1>2, UnitIs
<1>4. /\ last <= Size => sec.entries[o].sibling = last + 1
      /\ last > Size => sec.entries[o].sibling > Size
      /\ sec.entries[o].sibling \in Nat \ {0}
  BY <1>1, <1>2, SiblingIs
<1>5. Where(Current, "sibling") <= Current.attrs.n
  <2>1. Where(Current, "sibling") <= Len(Attributes(Current))
    BY <1>1, <1>2, WhereIs
  <2>2. Attributes(Current) = AbbrevOf(sec, o).attributes
    BY <1>2, EntryIs
  <2>3. Current.attrs.n = Len(AbbrevOf(sec, o).attributes)
    BY <1>2 DEF DieAt
  <2> QED
    BY <2>1, <2>2, <2>3
<1> DEFINE off == sec.entries[o].sibling
           r == Read(NoDie, off)
<1>6. IF r.ok THEN Advanced(subs, r) ELSE Throw /\ UNCHANGED it
  BY <1>2, <1>5 DEF FollowSibling
<1>7. last \in (o + 1)..(Size + 1)
  BY <1>2, <1>3, ClosingIs
<1>8. subs = << >> => l = last
  BY <1>2, TreeIs
<1>9. subs # << >> =>
        /\ l \in last..(Size + 1)
        /\ last <= Size => Reached(Opens[sec], Closes[sec], p, n, last + 1)
  <2> SUFFICES ASSUME subs # << >>
               PROVE  /\ l \in last..(Size + 1)
                      /\ last <= Size => Reached(Opens[sec], Closes[sec], p, n, last + 1)
    OBVIOUS
  <2> HIDE DEF p, o, n
  <2>1. n \in Nat \ {0} /\ p \in Nat
    BY <1>2, <1>3
  <2>2. /\ last <= Size => Reached(Opens[sec], Closes[sec], p, n, last + 1)
        /\ \A q \in p..(last - 1) : Depth(Opens[sec], Closes[sec], p, q) >= 1
    BY <1>2, <1>3, <2>1, ReachedBehind
  <2>3. last - 1 \in p..Size /\ last - 1 >= p + 1
    BY <1>2, <1>3, <1>7
  <2>4. Closing(Size, Opens[sec], Closes[sec], p) \in (p + 1)..(Size + 1)
    BY <1>2, <1>3, ClosingIs
  <2>5. Closing(Size, Opens[sec], Closes[sec], p) > last - 1
    <3> HIDE DEF last
    <3> DEFINE m == last - 1
    <3>1. /\ m \in p..Size /\ \A q \in p..(m - 1) : q \in p..m
          /\ \A q \in p..m : Depth(Opens[sec], Closes[sec], p, q) >= 1
          /\ m \in p..m
      BY <1>3, <2>2, <2>3
    <3> HIDE DEF m
    <3>2. /\ \A q \in p..(m - 1) : Depth(Opens[sec], Closes[sec], p, q) >= 1
          /\ Depth(Opens[sec], Closes[sec], p, m) >= 1
      BY <3>1
    <3>3. Closing(Size, Opens[sec], Closes[sec], p) > m
      BY <1>2, <1>3, <3>1, <3>2, ClosesAt
    <3> QED
      BY <3>3 DEF m
  <2>6. l = Closing(Size, Opens[sec], Closes[sec], p)
    BY <1>2, TreeIs
  <2> HIDE DEF last, l
  <2> QED
    BY <1>7, <2>2, <2>4, <2>5, <2>6
<1>10. self \in Iterators /\ subs \in Seq(Nested)
  BY <1>1, CurrentHeld DEF HeldInv
<1> HIDE DEF p, o, n, last, l
<1>11. l \in last..(Size + 1) /\ last \in p..(Size + 1) /\ last \in p..l /\ l \in Int
  BY <1>2, <1>3, <1>7, <1>8, <1>9
<1>12. CASE ~r.ok
  <2>1. last + 1 \in Bad[sec] \/ last >= Size
    <3>1. CASE last <= Size
      <4>1. off \in 1..(Size + 1) /\ off = last + 1
        BY <1>3, <1>4, <1>7, <3>1
      <4>2. off \in Bad[sec] \/ off > Size
        BY <1>12, <4>1, NoDieIs, ReadMoves
      <4> QED
        BY <1>3, <1>7, <4>1, <4>2
    <3>2. CASE last > Size
      BY <1>3, <1>7, <3>2
    <3> QED
      BY <1>3, <1>7, <3>1, <3>2
  <2>2. Promise!Blocked(p)
    BY <1>3, <1>11, <2>1, BlockedBehind DEF l
  <2> QED
    BY <1>1, <1>6, <1>12, <2>2, ThrowIs DEF p
<1>13. CASE r.ok
  <2>1. off \in 1..Size
    <3>1. off \in Nat \ {0}
      BY <1>4
    <3> QED
      BY <1>13, <3>1, NoDieIs, ReadOK
  <2>2. last <= Size /\ off = last + 1 /\ off \in 1..(Size + 1)
    BY <1>3, <1>4, <1>7, <2>1
  <2>3. off \in (p + 1)..(l + 1)
    BY <1>3, <1>11, <2>2
  <2> HIDE DEF off
  <2>4. Advanced(subs, Read(NoDie, off)) /\ Read(NoDie, off).ok /\ NoDie \in Held
    BY <1>6, <1>13, NoDieIs
  <2>5. /\ subs = << >> => off = l + 1
        /\ subs # << >> => Reached(Opens[sec], Closes[sec], p, n, off)
    BY <1>8, <1>9, <2>2
  <2> QED
    BY <1>1, <1>2, <1>10, <2>2, <2>3, <2>4, <2>5, AdvancedTo DEF Outcome, p, o, n, l
<1> QED
  BY <1>12, <1>13

LEMMA DescendMoves ==
  ASSUME IInv, HeldInv, ChainInv, it[self] \in WholeDies, Descend
  PROVE  Outcome
<1> DEFINE p == it[self].offset
           o == Current.offset
           n == Len(subs)
           l == Promise!LastOf(p)
           r == Read(NoDie, o + 1)
<1>1. /\ self # "none" /\ ~SubAtEnd /\ Keeps /\ Children(Current) /\ UNCHANGED it
  BY DEF Descend, Walking, unitVars, Keeps
<1>2. /\ p \in Good /\ o \in Good /\ Current.next = o + 1
      /\ n \in Nat /\ p <= o /\ Reached(Opens[sec], Closes[sec], p, n, o)
      /\ subs = << >> => n = 0 /\ o = p
      /\ subs # << >> => n # 0 /\ p \in Opens[sec] /\ o >= p + 1
      /\ o \in Opens[sec]
  BY <1>1, CurrentIs
<1>3. /\ Size \in Nat /\ p \in 1..Size /\ o \in 1..Size /\ o + 1 \in 1..(Size + 1)
      /\ p \notin Closes[sec] /\ o \notin Closes[sec]
  BY <1>2, UnitIs
<1>4. IF r.ok THEN subs' = Append(subs, r.die) /\ UNCHANGED <<self, result>> ELSE Throw
  BY <1>2 DEF Descend
<1>5. r.ok => /\ r.die.next = o + 1 + 1 /\ o + 1 \in 1..Size
              /\ o + 1 \in Closes[sec] => r.die.abbrev = 0
              /\ o + 1 \notin Closes[sec] => o + 1 \in Good /\ r.die = DieAt(o + 1)
  BY <1>3, NoDieIs, ReadMoves
<1>6. ~r.ok => o + 1 \in Bad[sec] \/ o + 1 > Size
  BY <1>3, NoDieIs, ReadMoves
<1> HIDE DEF p, o, n, r
<1>7. p \in Opens[sec] /\ Reached(Opens[sec], Closes[sec], p, n + 1, o + 1)
  <2>1. /\ p \in Nat /\ o \in Nat /\ n + 1 \in Nat \ {0} /\ n + 1 = n + 1 - 0
    BY <1>2, <1>3
  <2>2. Reached(Opens[sec], Closes[sec], p, n + 1, o + 1)
    BY <1>2, <1>3, <2>1, ReachedStep
  <2> QED
    BY <1>2, <2>2
<1>8. l \in (o + 1)..(Size + 1)
  <2>1. o + 1 \in (p + 1)..(Size + 1) /\ n + 1 \in Nat \ {0}
    BY <1>2, <1>3
  <2> DEFINE m == n + 1
             e == o + 1
  <2>2. e \in (p + 1)..(Size + 1) /\ m \in Nat \ {0} /\ Reached(Opens[sec], Closes[sec], p, m, e)
    BY <1>7, <2>1
  <2> HIDE DEF m, e
  <2>3. Closing(Size, Opens[sec], Closes[sec], p) \in e..(Size + 1)
    BY <1>3, <1>7, <2>2, ReachedInside
  <2> QED
    BY <1>7, <2>3, TreeIs DEF e
<1> HIDE DEF l
<1>9. CASE ~r.ok
  <2>1. o + 1 \in (p + 1)..(l + 1)
    BY <1>2, <1>3, <1>8
  <2>2. Promise!Blocked(p)
    BY <1>6, <1>9, <2>1 DEF Promise!Blocked, l
  <2> QED
    BY <1>1, <1>4, <1>9, <2>2, ThrowIs DEF p
<1>10. CASE r.ok
  <2> DEFINE x == r.die
  <2>1. subs' = Append(subs, x) /\ self' = self
    BY <1>4, <1>10
  <2> HIDE DEF x
  <2>2. Len(subs') = n + 1 /\ Last(subs') = x
    <3>1. subs \in Seq(Nested)
      BY DEF HeldInv
    <3> QED
      BY <2>1, <3>1 DEF Last, n
  <2>3. Inside(p, n + 1, x)
    <3>1. x.next - 1 = o + 1 /\ o + 1 \in (p + 1)..Size /\ n + 1 \in Nat \ {0}
      BY <1>2, <1>3, <1>5, <1>10 DEF x
    <3>2. IF x.abbrev = 0 THEN o + 1 \in Closes[sec] ELSE o + 1 \in Good /\ x = DieAt(o + 1)
      <4>1. o + 1 \in Good => DieAt(o + 1).abbrev # 0
        BY DieAtIs
      <4> QED
        BY <1>5, <1>10, <4>1 DEF x
    <3> QED
      BY <1>7, <3>1, <3>2 DEF Inside
  <2>4. ChainInv'
    BY <1>1, <2>1, <2>2, <2>3, InsideKept DEF p
  <2>5. self' # "none"
    BY <1>1, <2>1
  <2> QED
    BY <1>1, <2>4, <2>5 DEF Outcome
<1> QED
  BY <1>9, <1>10

LEMMA AscendMoves ==
  ASSUME IInv, HeldInv, ChainInv, it[self] \in WholeDies, Ascend
  PROVE  Outcome
<1> DEFINE p == it[self].offset
           n == Len(subs)
           o == Last(subs).next - 1
           d == IF Len(subs) = 1 THEN it[self] ELSE subs[Len(subs) - 1]
           rest == Front(subs)
<1>1. /\ self # "none" /\ subs # << >> /\ Last(subs).abbrev = 0 /\ Keeps
      /\ Advanced(rest, Read(d, Last(subs).next))
  BY DEF Ascend, SubAtEnd, unitVars, Keeps
<1>2. d \in Held /\ d.abbrev # 0 /\ self \in Iterators /\ Last(subs) \in Nested
  BY <1>1, CurrentHeld
<1>3. /\ rest \in Seq(Nested) /\ Len(rest) = n - 1 /\ n \in Nat \ {0}
  BY <1>1, FrontIs DEF HeldInv
<1>4. /\ p \in Opens[sec] /\ o \in (p + 1)..Size /\ o \in Closes[sec]
      /\ Reached(Opens[sec], Closes[sec], p, n, o)
  BY <1>1 DEF ChainInv, Inside
<1>5. /\ Size \in Nat /\ p \in 1..Size /\ p \notin Closes[sec] /\ o \notin Opens[sec]
  BY <1>4, UnitIs
<1>6. Last(subs).next = o + 1
  <2>1. Last(subs).next \in Int
    BY <1>2, <1>5 DEF Nested
  <2> QED
    BY <2>1
<1> HIDE DEF p, n, o, d, rest
<1>7. rest = << >> <=> n = 1
  <2>1. rest = << >> <=> Len(rest) = 0
    BY <1>3
  <2> QED
    BY <1>3, <2>1
<1>8. /\ Promise!LastOf(p) \in o..(Size + 1)
      /\ n = 1 => Promise!LastOf(p) = o
  <2>1. o \in (p + 1)..(Size + 1) /\ o <= Size
    BY <1>4, <1>5
  <2>2. /\ Closing(Size, Opens[sec], Closes[sec], p) \in o..(Size + 1)
        /\ n = 1 => Closing(Size, Opens[sec], Closes[sec], p) = o
    BY <1>3, <1>4, <1>5, <2>1, ReachedInside
  <2> QED
    BY <1>4, <2>2, TreeIs
<1>9. n # 1 => Reached(Opens[sec], Closes[sec], p, Len(rest), o + 1)
  <2> SUFFICES ASSUME n # 1 PROVE Reached(Opens[sec], Closes[sec], p, Len(rest), o + 1)
    OBVIOUS
  <2>1. /\ p \in Nat /\ o \in Nat /\ p <= o /\ n - 1 \in Nat \ {0} /\ n - 1 = n + 0 - 1
        /\ n \in Nat
    BY <1>3, <1>4, <1>5
  <2>2. Reached(Opens[sec], Closes[sec], p, n - 1, o + 1)
    BY <1>4, <1>5, <2>1, ReachedStep
  <2> QED
    BY <1>3, <2>2
<1>10. o + 1 \in 1..(Size + 1) /\ o + 1 \in (p + 1)..(Promise!LastOf(p) + 1)
  BY <1>4, <1>5, <1>8
<1> DEFINE off == o + 1
<1>11. /\ off \in 1..(Size + 1) /\ off \in (p + 1)..(Promise!LastOf(p) + 1)
       /\ rest = << >> => off = Promise!LastOf(p) + 1
       /\ rest # << >> => p \in Opens[sec] /\ Reached(Opens[sec], Closes[sec], p, Len(rest), off)
       /\ Advanced(rest, Read(d, off))
  BY <1>1, <1>4, <1>6, <1>7, <1>8, <1>9, <1>10
<1> HIDE DEF off
<1> QED
  BY <1>1, <1>2, <1>3, <1>11, AdvancedTo DEF Outcome, p

LEMMA WalkMoves ==
  ASSUME IInv, HeldInv, ChainInv, Walk
  PROVE  /\ ChainInv' /\ self \in Iterators
         /\ it[self] \in WholeDies => Outcome
         /\ it[self].abbrev = 0 => it' = it /\ (self' = "none" => result' = "ok")
         /\ it' = [it EXCEPT ![self] = it'[self]]
         /\ (self' = self /\ it' = it) \/ self' = "none"
<1>1. self # "none" /\ self \in Iterators /\ Keeps /\ it \in [Iterators -> Held]
  <2>1. self # "none"
    BY DEF Walk, StayAtEnd, NoChildren, FollowSibling, Descend, Ascend, Walking
  <2> QED
    BY <2>1, WalkHeld, CurrentHeld DEF HeldInv
<1>2. it' = [it EXCEPT ![self] = it'[self]]
  <2>1. it' = it \/ \E x : it' = [it EXCEPT ![self] = x]
    BY Zenon DEF Walk, StayAtEnd, NoChildren, FollowSibling, Descend, Ascend, Advanced
  <2>2. ASSUME NEW x, it' = [it EXCEPT ![self] = x] PROVE it'[self] = x
    BY <1>1, <2>2
  <2>3. it = [it EXCEPT ![self] = it[self]]
    BY <1>1
  <2> QED
    BY <2>1, <2>2, <2>3
<1>3. ASSUME it[self].abbrev = 0 PROVE it' = it /\ (self' = "none" => result' = "ok")
  <2>1. subs = << >>
    BY <1>3 DEF HeldInv
  <2>2. Current.abbrev = 0 /\ ~SubAtEnd /\ ~Children(Current)
    BY <1>3, <2>1 DEF Current, SubAtEnd, Children
  <2>3. StayAtEnd
    BY <2>2 DEF Walk, NoChildren, FollowSibling, Descend, Ascend
  <2> QED
    BY <2>3 DEF StayAtEnd, Return
<1>4. ASSUME it[self] \in WholeDies PROVE Outcome
  <2>1. ~StayAtEnd
    <3>1. ASSUME StayAtEnd PROVE ~SubAtEnd /\ Current.abbrev = 0
      BY <3>1 DEF StayAtEnd, Walking
    <3> QED
      BY <1>1, <1>4, <3>1, CurrentIs
  <2> QED
    BY <1>4, <2>1, NoChildrenMoves, FollowSiblingMoves, DescendMoves, AscendMoves DEF Walk
<1>5. (self' = self /\ it' = it) \/ self' = "none"
  BY Zenon DEF Walk, StayAtEnd, NoChildren, FollowSibling, Descend, Ascend, Advanced, Return, Throw
<1>6. ChainInv'
  <2>1. CASE it[self] \in WholeDies
    BY <1>4, <2>1 DEF Outcome
  <2>2. CASE it[self] \notin WholeDies
    <3>1. WholeDies' = WholeDies
      BY <1>1, PosAtKept
    <3> QED
      BY <1>5, <2>2, <3>1 DEF ChainInv
  <2> QED
    BY <2>1, <2>2
<1> QED
  BY <1>1, <1>2, <1>3, <1>4, <1>6, <1>5

\* A root or type DIE that stands nowhere was read from an entry that is bad.
CacheInv == \A c \in {"root", "type"} : PosAt[cached[c]] = -1 => Bad[sec] # {}
SiblingInv == TreeInv /\ ChainInv /\ CacheInv

Seen == [i \in Iterators |-> PosAt[it[i]]]

LEMMA SeenIs ==
  TreeInv => [i \in Iterators |-> Position(it[i])] = Seen /\ Position(die) = PosAt[die]
<1> SUFFICES ASSUME TreeInv
             PROVE  [i \in Iterators |-> Position(it[i])] = Seen /\ Position(die) = PosAt[die]
  OBVIOUS
<1>1. \A i \in Iterators : it[i] \in Formed
  BY DEF TreeInv, HeldInv, Held
<1>2. die \in Formed
  BY DEF TreeInv, HeldInv, Held
<1> QED
  BY <1>1, <1>2, PositionIs DEF Seen, TreeInv

\* What is seen of a step that keeps the unit.
LEMMA SeenOfStep ==
  TreeInv /\ TreeInv' /\ Keeps =>
    /\ Promise!unit' = Promise!unit
    /\ [i \in Iterators |-> Position(it[i])] = Seen /\ Position(die) = PosAt[die]
    /\ [i \in Iterators |-> Position(it[i])]' = [i \in Iterators |-> PosAt[it'[i]]]
    /\ Position(die)' = PosAt[die']
<1> SUFFICES ASSUME TreeInv, TreeInv', Keeps
             PROVE  /\ Promise!unit' = Promise!unit
                    /\ [i \in Iterators |-> Position(it[i])] = Seen
                    /\ Position(die) = PosAt[die]
                    /\ [i \in Iterators |-> Position(it[i])]' = [i \in Iterators |-> PosAt[it'[i]]]
                    /\ Position(die)' = PosAt[die']
  OBVIOUS
<1>1. [i \in Iterators |-> Position(it[i])] = Seen /\ Position(die) = PosAt[die]
  BY SeenIs
<1>2. ([i \in Iterators |-> Position(it[i])] = Seen /\ Position(die) = PosAt[die])'
  BY SeenIs, PTL
<1>3. PosAt' = PosAt
  BY PosAtKept
<1>4. Promise!unit' = Promise!unit
  BY DEF Promise!unit, Keeps, Size
<1> QED
  BY <1>1, <1>2, <1>3, <1>4 DEF Seen

\* An iterator has got the DIE d.
LEMMA MoveIs ==
  ASSUME TreeInv, TreeInv', Keeps, NEW i \in Iterators, NEW d,
         it' = [it EXCEPT ![i] = d], UNCHANGED die, NEW places, PosAt[d] \in places
  PROVE  Promise!Moves(i, places)
<1>1. it \in [Iterators -> Held]
  BY DEF TreeInv, HeldInv
<1>2. [j \in Iterators |-> PosAt[it'[j]]] = [Seen EXCEPT ![i] = PosAt[d]]
  BY <1>1 DEF Seen
<1>3. [j \in Iterators |-> Position(it[j])]'
        = [[j \in Iterators |-> Position(it[j])] EXCEPT ![i] = PosAt[d]]
  BY <1>2, SeenOfStep
<1>4. Position(die)' = Position(die)
  BY SeenOfStep
<1> QED
  BY <1>3, <1>4 DEF Promise!Moves

LEMMA StillIs ==
  ASSUME TreeInv, TreeInv', Keeps, UNCHANGED <<it, die>>
  PROVE  /\ Promise!unit' = Promise!unit
         /\ [i \in Iterators |-> Position(it[i])]' = [i \in Iterators |-> Position(it[i])]
         /\ Position(die)' = Position(die)
BY SeenOfStep DEF Seen

PromiseStep ==
  \/ Promise!Next
  \/ /\ Promise!unit' = Promise!unit
     /\ [i \in Iterators |-> Position(it[i])]' = [i \in Iterators |-> Position(it[i])]
     /\ Position(die)' = Position(die)

LEMMA WalkRefines ==
  ASSUME SiblingInv, TreeInv', Walk PROVE PromiseStep
<1> USE DEF SiblingInv, TreeInv
<1>1. Keeps /\ UNCHANGED die
  BY WalkHeld
<1>2. /\ self \in Iterators /\ it' = [it EXCEPT ![self] = it'[self]]
      /\ it[self] \in WholeDies => Outcome
      /\ it[self].abbrev = 0 => it' = it
  BY WalkMoves
<1>3. it[self] \in Held /\ it[self] \in Formed /\ it'[self] \in Formed
  BY <1>1, <1>2, Kept DEF HeldInv, Held
<1>4. CASE it' = it
  BY <1>1, <1>4, StillIs DEF PromiseStep
<1>5. CASE it' # it /\ it[self] \in WholeDies
  <2>1. /\ Position(it[self]) = it[self].offset /\ it[self].offset \in Good
    BY <1>3, <1>5, PositionIs, WholeDieIs
  <2>2. \/ PosAt[it'[self]] = Promise!NextSibling(Position(it[self]))
        \/ Promise!Blocked(Position(it[self])) /\ PosAt[it'[self]] = -1
    BY <1>2, <1>5, <2>1 DEF Outcome
  <2>3. Position(it[self]) \in Promise!Entries
    BY <2>1, UnitIs DEF Promise!Entries
  <2>4. Promise!Increment(self)
    <3>1. PosAt[it'[self]] = Promise!NextSibling(Position(it[self]))
            => Promise!Moves(self, {Promise!NextSibling(Position(it[self]))})
      BY <1>1, <1>2, MoveIs
    <3>2. PosAt[it'[self]] = -1 => Promise!Moves(self, {Promise!Lost})
      BY <1>1, <1>2, MoveIs DEF Promise!Lost
    <3> QED
      BY <1>2, <2>2, <2>3, <3>1, <3>2 DEF Promise!Increment
  <2> QED
    BY <1>1, <1>2, <2>4, SeenOfStep DEF Promise!Next, PromiseStep
<1>6. CASE it[self].abbrev # 0 /\ it[self] \notin WholeDies
  <2>1. Position(it[self]) = -1 /\ PosAt[it[self]] = -1
    BY <1>3, <1>6, PositionIs
  <2>2. PosAt[it'[self]] \in Good \cup {0, -1}
    BY <1>3, PositionIs
  <2>3. CASE PosAt[it'[self]] = -1
    <3>1. \A i \in Iterators : PosAt[it'[i]] = PosAt[it[i]]
      BY <1>2, <2>1, <2>3 DEF HeldInv
    <3> QED
      BY <1>1, <3>1, SeenOfStep DEF PromiseStep, Seen
  <2>4. CASE PosAt[it'[self]] # -1
    <3>1. PosAt[it'[self]] \in Promise!Entries \cup {Promise!End}
      BY <2>2, <2>4, UnitIs DEF Promise!Entries, Promise!End
    <3>2. Promise!Moves(self, Promise!Entries \cup {Promise!End})
      BY <1>1, <1>2, <3>1, MoveIs
    <3>3. Promise!Increment(self)
      BY <1>2, <2>1, <3>2 DEF Promise!Increment, Promise!Lost
    <3> QED
      BY <1>1, <1>2, <3>3, SeenOfStep DEF Promise!Next, PromiseStep
  <2> QED
    BY <2>3, <2>4
<1>7. CASE it[self].abbrev = 0
  BY <1>2, <1>4, <1>7
<1> QED
  BY <1>4, <1>5, <1>6, <1>7

\* The client has got the DIE that it holds now.
LEMMA HoldIs ==
  ASSUME TreeInv, TreeInv', Keeps, UNCHANGED it,
         \/ PosAt[die'] \in Good
         \/ PosAt[die'] = 0 /\ Closes[sec] # {}
         \/ PosAt[die'] = -1 /\ Bad[sec] # {}
         \/ \E i \in Iterators : die' = it[i]
         \/ die' = die
  PROVE  PromiseStep
<1>1. /\ Promise!unit' = Promise!unit
      /\ [i \in Iterators |-> Position(it[i])] = Seen /\ Position(die) = PosAt[die]
      /\ [i \in Iterators |-> Position(it[i])]' = [i \in Iterators |-> PosAt[it'[i]]]
      /\ Position(die)' = PosAt[die']
  BY SeenOfStep
<1>2. [i \in Iterators |-> Position(it[i])]' = [i \in Iterators |-> Position(it[i])]
  BY <1>1 DEF Seen
<1>3. CASE PosAt[die'] \in Good
  <2>1. Position(die)' \in Promise!Entries \ (Closes[sec] \cup Bad[sec])
    BY <1>1, <1>3, UnitIs DEF Promise!Entries, Good, TreeInv
  <2> QED
    BY <1>1, <1>2, <2>1 DEF Promise!Get, Promise!Next, PromiseStep
<1>4. CASE PosAt[die'] = 0 /\ Closes[sec] # {}
  BY <1>1, <1>2, <1>4 DEF Promise!Get, Promise!Next, PromiseStep, Promise!End
<1>5. CASE PosAt[die'] = -1 /\ Bad[sec] # {}
  BY <1>1, <1>2, <1>5 DEF Promise!Get, Promise!Next, PromiseStep, Promise!Lost
<1>6. ASSUME NEW i \in Iterators, die' = it[i] PROVE PromiseStep
  <2>1. Position(die)' = [j \in Iterators |-> Position(it[j])][i]
    BY <1>1, <1>6 DEF Seen
  <2> QED
    BY <1>1, <1>2, <2>1 DEF Promise!Get, Promise!Next, PromiseStep
<1>7. CASE die' = die
  BY <1>1, <1>2, <1>7 DEF PromiseStep
<1> QED
  BY <1>3, <1>4, <1>5, <1>6, <1>7

LEMMA CacheKept == CacheInv /\ Keeps /\ UNCHANGED cached => CacheInv'
<1> SUFFICES ASSUME CacheInv, Keeps, UNCHANGED cached PROVE CacheInv'
  OBVIOUS
<1>1. PosAt' = PosAt
  BY PosAtKept
<1> QED
  BY <1>1 DEF CacheInv, Keeps

LEMMA GetRefines ==
  ASSUME SiblingInv, TreeInv', NEW c \in {"root", "type"}, NEW off \in Nat, Get(c, off)
  PROVE  PromiseStep /\ CacheInv'
<1> USE DEF SiblingInv, TreeInv
<1>1. self = "none" /\ off \in Nat \ {0} /\ UNCHANGED <<sec, it>> /\ Keeps
  BY GetHeld DEF Get, walkVars
<1>2. CASE cached[c].abbrev # 0
  <2>1. die' = cached[c] /\ cached[c] \in Formed /\ UNCHANGED cached
    BY <1>2 DEF Get, HeldInv, Held
  <2>2. PosAt[die'] \in Good \/ (PosAt[die'] = -1 /\ Bad[sec] # {})
    BY <1>2, <2>1, PositionIs DEF CacheInv
  <2> QED
    BY <1>1, <2>1, <2>2, HoldIs, CacheKept
<1>3. CASE cached[c].abbrev = 0 /\ ~Forced(abbrevs).have
  <2>1. die' = die /\ cached' = cached
    BY <1>3 DEF Get
  <2> QED
    BY <1>1, <2>1, HoldIs, CacheKept
<1>4. CASE cached[c].abbrev = 0 /\ Forced(abbrevs).have
  <2>1. PICK g \in Garbage :
          LET r == Read([NoDie EXCEPT !.next = g], off)
          IN  /\ cached' = [cached EXCEPT ![c] = r.die]
              /\ IF r.ok THEN die' = r.die /\ result' = "ok"
                         ELSE die' = die /\ result' = "threw"
    BY <1>4 DEF Get
  <2> DEFINE d == [NoDie EXCEPT !.next = g]
             r == Read(d, off)
  <2>2. cached' = [cached EXCEPT ![c] = r.die] /\ (IF r.ok THEN die' = r.die ELSE die' = die)
    BY <2>1
  <2>3. d \in Die /\ d.abbrev = 0 /\ d.next \in 1..(Size + 1)
    <3>1. g \in 1..(Size + 1) /\ g \in Nat
      BY UnitIs DEF Garbage
    <3>2. NoDie \in Die /\ NoDie.abbrev = 0
      BY NoDieIs
    <3> QED
      BY <3>1, <3>2 DEF Die
  <2>4. d \in Formed
    BY <2>3 DEF Formed
  <2> HIDE DEF d
  <2>5. CASE r.ok
    <3>1. /\ off \in 1..Size /\ r.die \in Formed
          /\ off \in Closes[sec] => Position(r.die) = 0
          /\ off \notin Closes[sec] => off \in Good /\ Position(r.die) = off
      BY <1>1, <2>3, <2>5, ReadOK
    <3> HIDE DEF r
    <3>2. (PosAt[r.die] = 0 /\ Closes[sec] # {}) \/ PosAt[r.die] \in Good
      BY <3>1, PositionIs
    <3>3. PosAt[r.die] # -1
      BY <3>2, UnitIs
    <3>4. \A e \in {"root", "type"} : PosAt[cached'[e]] = -1 => Bad[sec] # {}
      BY <2>2, <3>3 DEF CacheInv, HeldInv
    <3>5. CacheInv'
      BY <1>1, <3>4, PosAtKept DEF CacheInv
    <3>6. PromiseStep
      BY <1>1, <2>2, <2>5, <3>2, HoldIs
    <3> QED
      BY <3>5, <3>6
  <2>6. CASE ~r.ok
    <3>1. r.die \in Formed /\ (r.die.abbrev # 0 => off \in Bad[sec])
      BY <1>1, <2>3, <2>4, <2>6, ReadThrew
    <3> HIDE DEF r
    <3>2. PosAt[r.die] = -1 => Bad[sec] # {}
      BY <3>1, PositionIs
    <3>3. \A e \in {"root", "type"} : PosAt[cached'[e]] = -1 => Bad[sec] # {}
      BY <2>2, <3>2 DEF CacheInv, HeldInv
    <3>4. CacheInv'
      BY <1>1, <3>3, PosAtKept DEF CacheInv
    <3>5. PromiseStep
      BY <1>1, <2>2, <2>6, HoldIs
    <3> QED
      BY <3>4, <3>5
  <2> QED
    BY <2>5, <2>6
<1> QED
  BY <1>2, <1>3, <1>4

LEMMA BeginRefines ==
  ASSUME SiblingInv, TreeInv', NEW i \in Iterators, Begin(i) PROVE PromiseStep
<1> USE DEF SiblingInv, TreeInv
<1>1. self = "none" /\ UNCHANGED die /\ Keeps
  BY BeginHeld DEF Begin
<1>2. die \in Held /\ die \in Formed
  BY DEF HeldInv, Held
<1> DEFINE held == Position(die)
<1>3. held = PosAt[die]
  BY <1>2, PositionIs
<1>4. ASSUME Promise!Begin(i) PROVE PromiseStep
  BY <1>1, <1>4, SeenOfStep DEF Promise!Next, PromiseStep
<1>5. CASE ~Children(die)
  <2>1. it' = [it EXCEPT ![i] = NoDie] /\ PosAt[NoDie] = Promise!End
    BY <1>5, NoDieIs, PositionIs DEF Begin, Promise!End
  <2>2. Promise!Moves(i, {Promise!End}) /\ Promise!Moves(i, Promise!Entries \cup {Promise!End})
    BY <1>1, <2>1, MoveIs
  <2>3. CASE held = 0
    BY <1>4, <2>2, <2>3 DEF Promise!Begin, Promise!End
  <2>4. CASE held = -1
    BY <1>4, <2>2, <2>4 DEF Promise!Begin, Promise!Lost
  <2>5. CASE held \in Good
    <3>1. die.attrs.of = held /\ die.abbrev # 0
      BY <1>2, <1>3, <2>5, PositionIs, WholeDieIs
    <3>2. held \notin Opens[sec]
      BY <1>2, <1>5, <3>1, EntryIs
    <3>3. Promise!First(held) = Promise!End /\ held \in Promise!Entries
      BY <2>5, <3>2, UnitIs DEF Promise!First, Promise!Entries
    <3> QED
      BY <1>4, <2>2, <3>3 DEF Promise!Begin
  <2> QED
    BY <1>2, <1>3, <2>3, <2>4, <2>5, PositionIs
<1>6. CASE Children(die)
  <2> DEFINE r == Read(NoDie, die.next)
  <2>1. it' = IF r.ok THEN [it EXCEPT ![i] = r.die] ELSE it
    BY <1>6 DEF Begin
  <2>2. die.abbrev # 0 /\ die.next \in 1..(Size + 1)
    BY <1>2, <1>6 DEF Children, Formed
  <2>3. r.ok => r.die \in Formed /\ PosAt[r.die] = Promise!Settled(die.next)
    BY <2>2, NoDieIs, ReadMoves
  <2> HIDE DEF r
  <2>4. CASE ~r.ok
    BY <1>1, <2>1, <2>4, StillIs DEF PromiseStep
  <2>5. CASE r.ok /\ held = -1
    <3>1. PosAt[r.die] \in Promise!Entries \cup {Promise!End}
      <4>1. PosAt[r.die] \in {0, die.next}
        BY <2>3, <2>5 DEF Promise!Settled, Promise!End
      <4>2. PosAt[r.die] \in Good \cup {0, -1}
        BY <2>3, <2>5, PositionIs
      <4>3. die.next # -1
        BY <2>2, UnitIs
      <4> QED
        BY <4>1, <4>2, <4>3, UnitIs DEF Promise!Entries, Promise!End
    <3>2. Promise!Moves(i, Promise!Entries \cup {Promise!End})
      BY <1>1, <2>1, <2>5, <3>1, MoveIs
    <3> QED
      BY <1>4, <2>5, <3>2 DEF Promise!Begin, Promise!Lost
  <2>6. CASE r.ok /\ held \in Good
    <3>1. die.attrs.of = held /\ die.next = held + 1
      BY <1>2, <1>3, <2>6, PositionIs, WholeDieIs
    <3>2. held \in Opens[sec]
      BY <1>2, <1>6, <2>2, <3>1, EntryIs
    <3>3. Promise!First(held) = Promise!Settled(die.next) /\ held \in Promise!Entries
      BY <2>6, <3>1, <3>2, UnitIs DEF Promise!First, Promise!Entries
    <3>4. Promise!Moves(i, {Promise!First(held)})
      BY <1>1, <2>1, <2>3, <2>6, <3>3, MoveIs
    <3> QED
      BY <1>4, <3>3, <3>4 DEF Promise!Begin
  <2> QED
    BY <1>2, <1>3, <2>2, <2>4, <2>5, <2>6, PositionIs
<1> QED
  BY <1>5, <1>6

LEMMA ClientRefines ==
  ASSUME SiblingInv, TreeInv', NEW i \in Iterators, Client(i)
  PROVE  PromiseStep /\ CacheInv'
<1> USE DEF SiblingInv, TreeInv
<1>1. Keeps
  BY ClientHeld
<1>2. CASE Root
  BY <1>2, GetRefines DEF Root
<1>3. CASE Type
  <2>1. sec.type \in Nat
    BY SectionsAssumption DEF IInv
  <2> QED
    BY <1>3, <2>1, GetRefines DEF Type
<1>4. ASSUME NEW off \in Entries, Reference(off) PROVE PromiseStep /\ CacheInv'
  <2>1. UNCHANGED <<cached, it>>
    BY <1>4 DEF Reference, walkVars
  <2>2. off \in 1..(Size + 1) /\ off \notin Closes[sec]
    BY EntriesAre DEF Entries, IInv
  <2> DEFINE r == Read(NoDie, off)
  <2>3. IF r.ok THEN die' = r.die ELSE die' = die
    BY <1>4 DEF Reference
  <2>4. r.ok => r.die \in WholeDies
    BY <2>2, NoDieIs, ReadMoves DEF WholeDies
  <2> HIDE DEF r
  <2>5. r.ok => PosAt[r.die] \in Good
    BY <2>4, WholeDieIs
  <2> QED
    BY <1>1, <2>1, <2>3, <2>5, HoldIs, CacheKept
<1>5. CASE Begin(i)
  BY <1>1, <1>5, BeginHeld, BeginRefines, CacheKept
<1>6. CASE Deref(i)
  <2>1. UNCHANGED <<cached, it>> /\ die' = it[i]
    BY <1>6 DEF Deref, walkVars, unitVars
  <2> QED
    BY <1>1, <2>1, HoldIs, CacheKept
<1>7. CASE Increment(i)
  <2>1. UNCHANGED <<cached, it, die>>
    BY <1>7 DEF Increment, unitVars
  <2> QED
    BY <1>1, <2>1, HoldIs, CacheKept
<1>8. ASSUME NEW j \in Iterators, Assign(i, j) PROVE PromiseStep /\ CacheInv'
  <2>1. UNCHANGED <<cached, die>> /\ it' = [it EXCEPT ![i] = it[j]]
    BY <1>8 DEF Assign, unitVars
  <2>2. [k \in Iterators |-> Position(it[k])][j] = PosAt[it[j]]
    BY SeenIs DEF Seen
  <2>3. Promise!Assign(i, j)
    BY <1>1, <2>1, <2>2, MoveIs DEF Promise!Assign
  <2>4. PromiseStep
    BY <1>1, <2>1, <2>3, SeenOfStep DEF Promise!Next, PromiseStep
  <2> QED
    BY <1>1, <2>1, <2>4, CacheKept
<1> QED
  BY <1>2, <1>3, <1>4, <1>5, <1>6, <1>7, <1>8 DEF Client

\* Between calls, and while the index is at work, no ++ is under way.
LEMMA ChainIdle == self = "none" /\ subs' = subs /\ HeldInv => ChainInv'
<1> SUFFICES ASSUME self = "none", subs' = subs, HeldInv PROVE ChainInv'
  OBVIOUS
<1>1. subs = << >>
  BY IteratorsAssumption DEF HeldInv
<1> QED
  BY <1>1 DEF ChainInv

LEMMA NextRefines ==
  SiblingInv /\ TreeInv' /\ [MapNext]_vars => SiblingInv' /\ PromiseStep
<1> SUFFICES ASSUME SiblingInv, TreeInv', [MapNext]_vars
             PROVE  ChainInv' /\ CacheInv' /\ PromiseStep
  BY DEF SiblingInv
<1> USE DEF SiblingInv
<1>1. IInv /\ HeldInv
  BY DEF TreeInv
<1>2. CASE MapClient
  <2>1. PICK i \in Iterators : Client(i)
    BY <1>2 DEF MapClient
  <2>2. self = "none" /\ subs' = subs
    BY <2>1 DEF Client, Root, Type, Get, Reference, Begin, Deref, Increment, Assign, walkVars
  <2> QED
    BY <1>1, <2>1, <2>2, ClientRefines, ChainIdle
<1>3. CASE MapWalk
  <2>1. Walk /\ Keeps /\ UNCHANGED cached
    BY <1>1, <1>3, WalkHeld DEF MapWalk
  <2> QED
    BY <1>1, <2>1, WalkRefines, WalkMoves, CacheKept
<1>4. CASE Create
  <2>1. Begin(pos) /\ pos \in Iterators
    BY <1>4, MapAssumption DEF Create
  <2>2. self = "none" /\ subs' = subs /\ Keeps /\ UNCHANGED cached
    BY <1>1, <2>1, BeginHeld DEF Begin
  <2> QED
    BY <1>1, <2>1, <2>2, BeginRefines, ChainIdle, CacheKept
<1>5. ASSUME UNCHANGED <<sec, abbrevs, cached, die, it, subs>>, self = "none"
      PROVE  ChainInv' /\ CacheInv' /\ PromiseStep
  <2>1. Keeps
    BY <1>5 DEF Keeps
  <2> QED
    BY <1>1, <1>5, <2>1, HoldIs, ChainIdle, CacheKept
<1>6. CASE Scan
  BY <1>5, <1>6 DEF Scan, treeVars, unitVars
<1>7. CASE Examine
  BY <1>5, <1>7 DEF Examine, treeVars
<1>8. ASSUME NEW n \in Names, Lookup(n) PROVE ChainInv' /\ CacheInv' /\ PromiseStep
  BY <1>5, <1>8 DEF Lookup, treeVars, Idle
<1>9. CASE UNCHANGED vars
  <2>1. UNCHANGED <<sec, abbrevs, cached, die, it, self, subs>> /\ Keeps
    BY <1>9 DEF vars, treeVars, Keeps
  <2>2. ChainInv'
    BY <2>1, PosAtKept DEF ChainInv, Inside, DieAt, Size, Code
  <2> QED
    BY <2>1, <2>2, HoldIs, CacheKept
<1> QED
  BY <1>2, <1>3, <1>4, <1>6, <1>7, <1>8, <1>9 DEF MapNext

LEMMA InitRefines == MapInit => SiblingInv /\ Promise!Init
<1> SUFFICES ASSUME MapInit PROVE SiblingInv /\ Promise!Init
  OBVIOUS
<1>1. TreeInv /\ IInv
  BY InitHeld DEF TreeInv
<1>2. self = "none" /\ die = NoDie /\ it = [i \in Iterators |-> NoDie]
      /\ \A c \in {"root", "type"} : cached[c] = NoDie
  BY DEF MapInit, Init
<1>3. PosAt[NoDie] = 0 /\ Position(NoDie) = 0
  BY <1>1, NoDieIs, PositionIs
<1>4. ChainInv /\ CacheInv
  BY <1>2, <1>3 DEF ChainInv, CacheInv
<1>5. [i \in Iterators |-> Position(it[i])] = [i \in Iterators |-> 0] /\ Position(die) = 0
  BY <1>2, <1>3
<1> QED
  BY <1>1, <1>4, <1>5, UnitIs DEF SiblingInv, Promise!Init, Promise!End

LEMMA SiblingInvariant == MapSpec => []SiblingInv
<1>1. MapInit => SiblingInv
  BY InitRefines
<1> QED
  BY <1>1, NextHeld, NextRefines, PTL DEF MapSpec, SiblingInv

\* Every iterator stands for a position among the children of one DIE, whatever
\* the client does and however ++ finds its way: DieTree implements Siblings
\* (dwarf++.hh:452-514, die.cc:122-161).
THEOREM Refinement == MapSpec => RefinesSiblings
<1>1. MapInit => Promise!Init
  BY InitRefines
<1>2. SiblingInv /\ TreeInv' /\ [MapNext]_vars =>
        [Promise!Next]_<<Promise!unit, [i \in Iterators |-> Position(it[i])], Position(die)>>
  BY NextRefines DEF PromiseStep
<1> QED
  BY <1>1, <1>2, SiblingInvariant, TreeInvariant, PTL DEF MapSpec, RefinesSiblings, Promise!Spec

\* ++ throws only if it has come to an entry that cannot be read, or to the end
\* of the unit, before the next sibling (die.cc:31-54, 134-161).
THEOREM ThrowsOnlyWhereBlocked == MapSpec => ThrowsJustified
<1>1. SiblingInv /\ [MapNext]_vars =>
        [self # "none" /\ self' = "none" /\ result' = "threw" =>
           Position(it[self]) = -1 \/ Promise!Blocked(Position(it[self]))]_vars
  <2> SUFFICES ASSUME SiblingInv, MapNext, self # "none", self' = "none", result' = "threw"
               PROVE  Position(it[self]) = -1 \/ Promise!Blocked(Position(it[self]))
    OBVIOUS
  <2> USE DEF SiblingInv, TreeInv
  <2>1. Walk
    BY DEF MapNext, MapClient, MapWalk, Create, Scan, Examine, Lookup, Idle
  <2>2. /\ self \in Iterators /\ it[self] \in Formed
        /\ it[self] \in WholeDies => Outcome
        /\ it[self].abbrev # 0
    BY <2>1, WalkMoves DEF HeldInv, Held
  <2>3. CASE it[self] \in WholeDies
    <3>1. Position(it[self]) = it[self].offset
      BY <2>2, <2>3, PositionIs, WholeDieIs
    <3> QED
      BY <2>2, <2>3, <3>1 DEF Outcome
  <2>4. CASE it[self] \notin WholeDies
    BY <2>2, <2>4, PositionIs
  <2> QED
    BY <2>3, <2>4
<1> QED
  BY <1>1, SiblingInvariant, PTL DEF MapSpec, ThrowsJustified

-----------------------------------------------------------------------------
(* The children of a DIE.                                                  *)

\* From a child to the next one.
LEMMA ChildStep ==
  ASSUME NEW size \in Nat, NEW opens, NEW closes, NEW p \in 1..size,
         p \in opens, p \notin closes, Closing(size, opens, closes, p) <= size,
         \A q \in opens : q \notin closes,
         NEW o \in (p + 1)..Closing(size, opens, closes, p),
         o \notin closes, Depth(opens, closes, p, o - 1) = 1
  PROVE  LET end == Closing(size, opens, closes, p)
             last == IF o \in opens THEN Closing(size, opens, closes, o) ELSE o
         IN  /\ last + 1 \in (o + 1)..end /\ Depth(opens, closes, p, last) = 1
             /\ \A q \in (o + 1)..last : Depth(opens, closes, p, q - 1) # 1
             /\ last + 1 \in closes => last + 1 = end
<1> DEFINE end == Closing(size, opens, closes, p)
           last == IF o \in opens THEN Closing(size, opens, closes, o) ELSE o
<1>1. end \in (p + 1)..size /\ \A q \in p..(end - 1) : Depth(opens, closes, p, q) >= 1
  BY ClosingIs
<1> HIDE DEF end
<1>2. o \in (p + 1)..end /\ o \in 1..size /\ o \in Nat /\ p <= o /\ p \in Nat /\ 1 \in Nat \ {0}
  BY <1>1 DEF end
<1>3. Reached(opens, closes, p, 1, o)
  <2>1. \A q \in p..(o - 1) : q \in p..(end - 1)
    BY <1>1, <1>2
  <2> QED
    BY <1>1, <2>1 DEF Reached
<1>4. /\ last \in o..size /\ Reached(opens, closes, p, 1, last + 1)
      /\ \A q \in (o + 1)..last : Depth(opens, closes, p, q - 1) # 1
  <2>1. CASE o \notin opens
    <3>1. last = o /\ 1 = 1 + 0 - 0
      BY <2>1
    <3>2. Reached(opens, closes, p, 1, o + 1)
      BY <1>2, <1>3, <2>1, ReachedStep
    <3>3. (o + 1)..o = {}
      BY <1>2
    <3> QED
      BY <1>2, <3>1, <3>2, <3>3
  <2>2. CASE o \in opens
    <3>1. last = Closing(size, opens, closes, o)
      BY <2>2
    <3>2. /\ last <= size => Reached(opens, closes, p, 1, last + 1)
          /\ \A q \in p..(last - 1) : Depth(opens, closes, p, q) >= 1
          /\ last \in (o + 1)..(size + 1)
      BY <1>2, <1>3, <2>2, <3>1, ReachedBehind
    <3>3. \A q \in o..(last - 1) : Depth(opens, closes, o, q) >= 1
      BY <1>2, <2>2, <3>1, ClosingIs
    <3> HIDE DEF last
    <3>4. last <= size
      <4> SUFFICES ASSUME last > size PROVE FALSE
        BY <3>2
      <4>1. end \in p..(last - 1)
        BY <1>1, <3>2
      <4>2. Depth(opens, closes, p, end) = 0
        BY <1>1, ClosingIs DEF end
      <4> QED
        BY <3>2, <4>1, <4>2
    <3>5. ASSUME NEW q \in (o + 1)..last PROVE Depth(opens, closes, p, q - 1) # 1
      <4>1. p \in Int /\ o \in Int /\ q - 1 \in Int /\ p <= o /\ o <= (q - 1) + 1
            /\ q - 1 \in o..(last - 1)
        BY <1>2, <3>2
      <4>2. /\ Depth(opens, closes, p, q - 1)
                 = Depth(opens, closes, p, o - 1) + Depth(opens, closes, o, q - 1)
            /\ Depth(opens, closes, o, q - 1) \in Int
        BY <4>1, DepthSplit
      <4>3. Depth(opens, closes, o, q - 1) >= 1
        BY <3>3, <4>1
      <4> HIDE DEF Depth
      <4> QED
        BY <4>2, <4>3
    <3> QED
      BY <1>2, <3>2, <3>4, <3>5
  <2> QED
    BY <2>1, <2>2
<1> HIDE DEF last
<1>5. last + 1 \in (p + 1)..(size + 1) /\ last \in Int /\ last + 1 - 1 = last
  BY <1>2, <1>4
<1>6. /\ end \in (last + 1)..(size + 1)
      /\ last + 1 <= size /\ last + 1 \in closes /\ last + 1 \notin opens => end = last + 1
  <2> DEFINE e == last + 1
  <2>1. e \in (p + 1)..(size + 1) /\ Reached(opens, closes, p, 1, e)
    BY <1>4, <1>5
  <2> HIDE DEF e
  <2>2. /\ Closing(size, opens, closes, p) \in e..(size + 1)
        /\ e <= size /\ 1 = 1 /\ e \in closes /\ e \notin opens
              => Closing(size, opens, closes, p) = e
    BY <1>2, <2>1, ReachedInside
  <2> QED
    BY <2>2 DEF e, end
<1>7. last + 1 <= size /\ last + 1 \in (o + 1)..end
  BY <1>1, <1>2, <1>4, <1>6
<1>8. Depth(opens, closes, p, last) = 1
  BY <1>4, <1>5 DEF Reached
<1> QED
  BY <1>4, <1>6, <1>7, <1>8 DEF last, end

-----------------------------------------------------------------------------
(* The index holds children, and misses none but the first.                *)

Kids == Promise!ChildrenOf(parent)

LEMMA KidsAre ==
  ASSUME IInv, Readable
  PROVE  /\ parent \in 1..Size /\ parent \in Good \cup Closes[sec]
         /\ \A q \in parent..Size : q \notin Bad[sec]
         /\ Kids \in SUBSET Good
         /\ parent \notin Opens[sec] => Kids = {}
         /\ parent \in Opens[sec] =>
              LET end == Closing(Size, Opens[sec], Closes[sec], parent)
              IN  /\ end \in (parent + 1)..Size /\ parent \notin Closes[sec]
                  /\ \A o : o \in Kids <=>
                       /\ o \in (parent + 1)..end /\ o \notin Closes[sec]
                       /\ Depth(Opens[sec], Closes[sec], parent, o - 1) = 1
<1>1. /\ parent \in 1..Size /\ parent..Size \cap Bad[sec] = {} /\ Size \in Nat
      /\ Promise!LastOf(parent) <= Size
  BY UnitIs DEF Readable
<1>2. parent \in Good \cup Closes[sec] /\ \A q \in parent..Size : q \notin Bad[sec]
  BY <1>1 DEF Good
<1>3. parent \notin Opens[sec] => Kids = {}
  BY DEF Kids, Promise!ChildrenOf
<1>4. ASSUME parent \in Opens[sec]
      PROVE  LET end == Closing(Size, Opens[sec], Closes[sec], parent)
             IN  /\ end \in (parent + 1)..Size /\ parent \notin Closes[sec]
                 /\ \A o : o \in Kids <=>
                      /\ o \in (parent + 1)..end /\ o \notin Closes[sec]
                      /\ Depth(Opens[sec], Closes[sec], parent, o - 1) = 1
  <2> DEFINE end == Closing(Size, Opens[sec], Closes[sec], parent)
  <2>1. parent \notin Closes[sec]
    BY <1>4, UnitIs
  <2>2. Promise!LastOf(parent) = end
    BY <1>4, TreeIs
  <2>3. end \in (parent + 1)..Size
    <3>1. end \in (parent + 1)..(Size + 1)
      BY <1>1, <1>4, <2>1, ClosingIs
    <3> HIDE DEF end
    <3> QED
      BY <1>1, <2>2, <3>1
  <2>4. Kids = {q \in (parent + 1)..end :
                  q \in (1..Size) \ Closes[sec] /\ Promise!Balance(parent, q - 1) = 1}
    BY <1>4, <2>2 DEF Kids, Promise!ChildrenOf, Promise!Entries
  <2> HIDE DEF end
  <2>5. \A q \in (parent + 1)..end : q \in 1..Size
    BY <1>1, <2>3
  <2>6. \A o : o \in Kids <=>
          /\ o \in (parent + 1)..end /\ o \notin Closes[sec]
          /\ Depth(Opens[sec], Closes[sec], parent, o - 1) = 1
    BY <2>4, <2>5, TreeIs
  <2> QED
    BY <2>1, <2>3, <2>6 DEF end
<1>5. Kids \in SUBSET Good
  <2>1. CASE parent \notin Opens[sec]
    BY <1>3, <2>1
  <2>2. CASE parent \in Opens[sec]
    <3>1. \A o \in Kids : o \in (parent + 1)..Size /\ o \notin Closes[sec]
      BY <1>1, <1>4, <2>2
    <3> QED
      BY <1>1, <1>2, <3>1 DEF Good
  <2> QED
    BY <2>1, <2>2
<1> QED
  BY <1>1, <1>2, <1>3, <1>4, <1>5

\* The step of the map's iterator.
LEMMA KidStep ==
  ASSUME IInv, Readable, NEW o \in Kids
  PROVE  LET e == Promise!NextSibling(o)
         IN  /\ ~Promise!Blocked(o)
             /\ e \in Kids \cup {0}
             /\ \A q \in Kids : q <= o \/ (e # 0 /\ q >= e)
             /\ e # 0 => e > o
<1> DEFINE end == Closing(Size, Opens[sec], Closes[sec], parent)
           last == Promise!LastOf(o)
<1>1. /\ Size \in Nat /\ parent \in Opens[sec] /\ parent \in 1..Size
      /\ end \in (parent + 1)..Size /\ parent \notin Closes[sec]
      /\ \A q : q \in Kids <=>
           /\ q \in (parent + 1)..end /\ q \notin Closes[sec]
           /\ Depth(Opens[sec], Closes[sec], parent, q - 1) = 1
      /\ \A q \in parent..Size : q \notin Bad[sec]
      /\ \A q \in Opens[sec] : q \notin Closes[sec]
  BY KidsAre, UnitIs
<1>2. /\ last + 1 \in (o + 1)..end
      /\ Depth(Opens[sec], Closes[sec], parent, last) = 1
      /\ \A q \in (o + 1)..last : Depth(Opens[sec], Closes[sec], parent, q - 1) # 1
      /\ last + 1 \in Closes[sec] => last + 1 = end
  <2>1. last = IF o \in Opens[sec] THEN Closing(Size, Opens[sec], Closes[sec], o) ELSE o
    BY TreeIs
  <2>2. end <= Size /\ o \in (parent + 1)..end /\ o \notin Closes[sec]
        /\ Depth(Opens[sec], Closes[sec], parent, o - 1) = 1
    BY <1>1
  <2> HIDE DEF last
  <2> QED
    BY <1>1, <2>1, <2>2, ChildStep
<1>3. o \in (parent + 1)..end /\ o \in Int
  BY <1>1
<1>4. last \in Int /\ last + 1 - 1 = last
  <2>1. last = IF o \in Opens[sec] THEN Closing(Size, Opens[sec], Closes[sec], o) ELSE o
    BY TreeIs
  <2>2. o \in Opens[sec] => Closing(Size, Opens[sec], Closes[sec], o) \in (o + 1)..(Size + 1)
    <3>1. o \in 1..Size /\ o \notin Closes[sec]
      BY <1>1
    <3> QED
      BY <1>1, <3>1, ClosingIs
  <2> QED
    BY <1>3, <2>1, <2>2
<1> HIDE DEF end
<1>5. ~Promise!Blocked(o)
  <2>1. \A q \in (o + 1)..(last + 1) : q \in parent..Size
    BY <1>1, <1>2, <1>3
  <2>2. \A q \in (o + 1)..(last + 1) : q \notin Bad[sec] /\ ~(q > Size)
    BY <1>1, <2>1
  <2> QED
    BY <2>2 DEF Promise!Blocked
<1>6. Promise!NextSibling(o) = IF last + 1 \in Closes[sec] THEN 0 ELSE last + 1
  BY DEF Promise!NextSibling, Promise!Settled, Promise!End
<1> HIDE DEF last
<1>7. ASSUME NEW q \in Kids, q > o PROVE q > last
  <2>1. q \in (parent + 1)..end /\ Depth(Opens[sec], Closes[sec], parent, q - 1) = 1
    BY <1>1
  <2> SUFFICES ASSUME q <= last PROVE FALSE
    BY <1>4, <2>1
  <2>2. q \in (o + 1)..last
    BY <1>1, <1>3, <1>4, <1>7, <2>1
  <2> QED
    BY <1>2, <2>1, <2>2
<1>8. CASE last + 1 \in Closes[sec]
  <2>1. \A q \in Kids : q \in (parent + 1)..end /\ q \notin Closes[sec]
    BY <1>1
  <2>2. \A q \in Kids : q <= o
    BY <1>1, <1>2, <1>3, <1>4, <1>7, <1>8, <2>1
  <2> QED
    BY <1>5, <1>6, <1>8, <2>2
<1>9. CASE last + 1 \notin Closes[sec]
  <2>1. last + 1 \in (parent + 1)..end
    BY <1>1, <1>2, <1>3
  <2>2. last + 1 \in Kids
    BY <1>1, <1>2, <1>4, <1>9, <2>1
  <2>3. \A q \in Kids : q \in Int /\ (q <= o \/ q >= last + 1)
    BY <1>1, <1>3, <1>4, <1>7
  <2> DEFINE e == last + 1
  <2>4. e # 0 /\ e > o /\ Promise!NextSibling(o) = e
    BY <1>1, <1>2, <1>3, <1>6, <1>9
  <2>5. e \in Kids /\ \A q \in Kids : q <= o \/ q >= e
    BY <2>2, <2>3
  <2> HIDE DEF e
  <2> QED
    BY <1>5, <2>4, <2>5
<1> QED
  BY <1>8, <1>9

\* The child has been indexed, or is not to be.  The loop has not come to the
\* one that pos is at between ++ and the rest of the loop's body.
Passed(o) ==
  LET p == PosAt[it[pos]]
  IN  p = 0 \/ o < p \/ (o = p /\ ~(phase = "examine" /\ self = "none"))

\* pos is at a child, the index holds children, and it has the names of those
\* that pos has passed, but for the first.
IndexInv ==
  Readable =>
    /\ PosAt[it[pos]] \in Kids \cup {0}
    /\ \A n \in DOMAIN str_map : /\ str_map[n] \in WholeDies
                                 /\ str_map[n].offset \in Kids
                                 /\ Matches(str_map[n].offset, n)
    /\ \A o \in Kids \ {parent + 1} :
         Passed(o) => \A n : Matches(o, n) => n \in DOMAIN str_map

\* What a look-up that is under way, or has found nothing, has seen.
LookupInv ==
  Readable =>
    /\ phase # "idle" => asked \notin DOMAIN str_map
    /\ answer.name # "none" /\ answer.die.abbrev = 0 =>
         \A o \in Kids : Matches(o, answer.name) => o = parent + 1

\* Who is at work, and what there is before the map.
CallInv ==
  /\ self = pos => phase = "examine"
  /\ self \in Iterators \ {pos} => phase = "idle"
  /\ parent = 0 => phase = "idle" /\ DOMAIN str_map = {} /\ answer.name = "none"

StrMapInv == SiblingInv /\ IndexInv /\ LookupInv /\ CallInv

LEMMA SameTree ==
  ASSUME Keeps, UNCHANGED parent
  PROVE  /\ Kids' = Kids /\ (Readable' <=> Readable) /\ \A o, n : Matches(o, n)' <=> Matches(o, n)
         /\ PosAt' = PosAt /\ WholeDies' = WholeDies
<1>1. sec' = sec /\ Size' = Size
  BY DEF Keeps, Size
<1>2. Kids' = Kids
  <2>1. Promise!LastOf(parent)' = Promise!LastOf(parent)
    BY <1>1 DEF Promise!LastOf
  <2> QED
    BY <1>1, <2>1 DEF Kids, Promise!ChildrenOf, Promise!Entries, Promise!Balance
<1>3. Readable' <=> Readable
  <2>1. Promise!LastOf(parent)' = Promise!LastOf(parent)
    BY <1>1 DEF Promise!LastOf
  <2> QED
    BY <1>1, <2>1 DEF Readable
<1>4. \A o, n : Matches(o, n)' <=> Matches(o, n)
  BY <1>1 DEF Matches
<1> QED
  BY <1>2, <1>3, <1>4, PosAtKept

\* A step that leaves the index and the map's iterator alone.
LEMMA IndexKept ==
  ASSUME StrMapInv, Keeps, UNCHANGED <<parent, str_map>>, it'[pos] = it[pos],
         \/ Readable /\ PosAt[it[pos]] = 0
         \/ phase = "examine" /\ self = "none" => phase' = "examine" /\ self' = "none"
  PROVE  IndexInv'
<1> SUFFICES ASSUME Readable' PROVE IndexInv'
  BY DEF IndexInv
<1>1. /\ Kids' = Kids /\ Readable /\ \A o, n : Matches(o, n)' <=> Matches(o, n)
      /\ PosAt' = PosAt /\ WholeDies' = WholeDies
  BY SameTree
<1>2. PosAt'[it'[pos]] \in Kids' \cup {0}
  BY <1>1 DEF StrMapInv, IndexInv
<1>3. \A n \in DOMAIN str_map' : /\ str_map'[n] \in WholeDies'
                                 /\ str_map'[n].offset \in Kids'
                                 /\ Matches(str_map[n].offset, n)'
  BY <1>1 DEF StrMapInv, IndexInv
<1>4. ASSUME NEW o \in Kids \ {parent + 1}, Passed(o)', NEW n, Matches(o, n)'
      PROVE  n \in DOMAIN str_map'
  <2>1. Passed(o)
    BY <1>1, <1>4 DEF Passed
  <2> QED
    BY <1>1, <1>4, <2>1 DEF StrMapInv, IndexInv
<1> QED
  BY <1>1, <1>2, <1>3, <1>4 DEF IndexInv

LEMMA LookupKept ==
  ASSUME StrMapInv, Keeps, UNCHANGED <<parent, str_map>>,
         Readable /\ phase' # "idle" => asked' \notin DOMAIN str_map,
         \/ answer' = answer
         \/ Readable => answer'.die.abbrev # 0
         \/ Readable => \A o \in Kids : Matches(o, answer'.name) => o = parent + 1
  PROVE  LookupInv'
<1> SUFFICES ASSUME Readable' PROVE LookupInv'
  BY DEF LookupInv
<1>1. /\ Kids' = Kids /\ Readable /\ \A o, n : Matches(o, n)' <=> Matches(o, n)
  BY SameTree
<1>2. \A o \in Kids : Matches(o, answer'.name) <=> Matches(o, answer.name)'
  BY <1>1 DEF Matches, Keeps
<1>3. answer'.name # "none" /\ answer'.die.abbrev = 0 =>
        \A o \in Kids : Matches(o, answer.name)' => o = parent' + 1
  BY <1>1, <1>2 DEF StrMapInv, LookupInv
<1> QED
  BY <1>1, <1>3 DEF LookupInv

LEMMA ClientIndex ==
  ASSUME StrMapInv, NEW i \in Iterators \ {pos}, Client(i), self = "none"
  PROVE  Keeps /\ it'[pos] = it[pos] /\ self' \in {"none", i}
<1>1. Keeps
  BY ClientHeld DEF StrMapInv, SiblingInv, TreeInv
<1>2. it'[pos] = it[pos]
  <2>1. it \in [Iterators -> Held] /\ pos \in Iterators /\ i # pos
    BY MapAssumption DEF StrMapInv, SiblingInv, TreeInv, HeldInv
  <2>2. it' = it \/ \E d : it' = [it EXCEPT ![i] = d]
    BY Zenon DEF Client, Root, Type, Get, Reference, Begin, Deref, Increment, Assign, walkVars
  <2> QED
    BY <2>1, <2>2
<1>3. self' \in {"none", i}
  BY DEF Client, Root, Type, Get, Reference, Begin, Deref, Increment, Assign, walkVars
<1> QED
  BY <1>1, <1>2, <1>3

LEMMA WalkIndex ==
  ASSUME StrMapInv, TreeInv', MapWalk PROVE StrMapInv'
<1> USE DEF StrMapInv, SiblingInv, TreeInv
<1>1. /\ Walk /\ Keeps /\ UNCHANGED <<parent, str_map, asked, answer>>
      /\ phase' = IF self' = "none" /\ result' = "threw" THEN "idle" ELSE phase
      /\ pos \in Iterators
  BY WalkHeld, MapAssumption DEF MapWalk
<1>2. /\ self \in Iterators /\ it[self] \in Formed
      /\ it[self] \in WholeDies => Outcome
      /\ it[self].abbrev = 0 => it' = it /\ (self' = "none" => result' = "ok")
      /\ it' = [it EXCEPT ![self] = it'[self]]
      /\ (self' = self /\ it' = it) \/ self' = "none"
      /\ result' \in {"ok", "threw"}
  BY <1>1, WalkMoves DEF HeldInv, Held
<1>3. SiblingInv'
  <2>1. [MapNext]_vars
    BY DEF MapNext
  <2> QED
    BY <2>1, NextRefines
<1>4. CallInv'
  BY <1>1, <1>2, IteratorsAssumption DEF CallInv
<1>5. self # "none"
  BY <1>2, IteratorsAssumption
<1>6. LookupInv'
  <2>1. Readable /\ phase' # "idle" => asked' \notin DOMAIN str_map
    BY <1>1 DEF LookupInv
  <2> QED
    BY <1>1, <2>1, LookupKept
<1>7. CASE self # pos
  <2>1. it'[pos] = it[pos]
    BY <1>1, <1>2, <1>7 DEF HeldInv
  <2> QED
    BY <1>1, <1>3, <1>4, <1>5, <1>6, <2>1, IndexKept
<1>8. CASE self = pos /\ self' = self
  BY <1>1, <1>2, <1>3, <1>4, <1>5, <1>6, <1>8, IndexKept
<1>9. CASE self = pos /\ self' = "none"
  <2>1. CASE ~Readable
    <3>1. ~Readable'
      BY <1>1, <2>1, SameTree
    <3> QED
      BY <1>3, <1>4, <1>6, <3>1 DEF IndexInv
  <2>2. CASE Readable /\ PosAt[it[pos]] = 0
    <3>1. it' = it
      BY <1>2, <1>9, <2>2, PositionIs
    <3> QED
      BY <1>1, <1>3, <1>4, <1>6, <2>2, <3>1, IndexKept
  <2>3. CASE Readable /\ PosAt[it[pos]] # 0
    <3> DEFINE o == PosAt[it[pos]]
               e == Promise!NextSibling(o)
    <3>1. o \in Kids /\ o \in Good
      BY <2>3, KidsAre DEF IndexInv
    <3>2. it[pos] \in WholeDies /\ it[pos].offset = o
      BY <1>2, <1>9, <3>1, PositionIs, WholeDieIs
    <3>3. /\ ~Promise!Blocked(o) /\ e \in Kids \cup {0}
          /\ \A q \in Kids : q <= o \/ (e # 0 /\ q >= e)
      BY <2>3, <3>1, KidStep
    <3>4. result' = "ok" /\ PosAt[it'[pos]] = e
      BY <1>2, <1>9, <3>2, <3>3 DEF Outcome
    <3>5. phase' = "examine" /\ phase = "examine"
      BY <1>1, <1>9, <3>4 DEF CallInv
    <3>6. /\ Kids' = Kids /\ \A q, n : Matches(q, n)' <=> Matches(q, n)
          /\ PosAt' = PosAt /\ WholeDies' = WholeDies
      BY <1>1, SameTree
    <3> HIDE DEF e
    <3>7. ASSUME NEW q \in Kids \ {parent + 1}, Passed(q)', NEW n, Matches(q, n)'
          PROVE  n \in DOMAIN str_map'
      <4>1. e = 0 \/ q < e
        BY <1>9, <3>4, <3>5, <3>6, <3>7 DEF Passed
      <4>2. q \in Int /\ (e = 0 \/ e \in Int) /\ o \in Int
        BY <2>3, <3>1, <3>3, KidsAre, UnitIs
      <4>3. q <= o
        BY <3>3, <4>1, <4>2
      <4>4. Passed(q)
        BY <1>5, <4>2, <4>3 DEF Passed
      <4> QED
        BY <1>1, <2>3, <3>6, <3>7, <4>4 DEF IndexInv
    <3>8. PosAt'[it'[pos]] \in Kids' \cup {0}
      BY <3>3, <3>4, <3>6
    <3>9. \A n \in DOMAIN str_map' : /\ str_map'[n] \in WholeDies'
                                     /\ str_map'[n].offset \in Kids'
                                     /\ Matches(str_map[n].offset, n)'
      BY <1>1, <2>3, <3>6 DEF IndexInv
    <3>10. IndexInv'
      BY <1>1, <3>6, <3>7, <3>8, <3>9 DEF IndexInv
    <3> QED
      BY <1>3, <1>4, <1>6, <3>10
  <2> QED
    BY <2>1, <2>2, <2>3
<1> QED
  BY <1>2, <1>7, <1>8, <1>9

\* The test of the loop's body.
LEMMA MatchesIs ==
  ASSUME IInv, NEW d \in Held, d \in WholeDies, NEW n
  PROVE  Matches(d.offset, n) <=> d.tag \in accept /\ HasName(d) /\ n = Name(d)
<1> DEFINE o == d.offset
           s == AbbrevOf(sec, o).attributes
           First == \E k \in DOMAIN s : s[k] = "name" /\ \A j \in 1..(k - 1) : s[j] # "name_number"
<1>1. /\ o \in Good /\ d = DieAt(o) /\ d.abbrev # 0 /\ d.attrs.of = o
      /\ o \notin Closes[sec] /\ o \notin Bad[sec]
  BY WholeDieIs DEF Good
<1>2. d.tag = AbbrevOf(sec, o).tag
  BY <1>1 DEF DieAt
<1>3. Attributes(d) = s
  BY <1>1, EntryIs
<1>4. Name(d) = sec.entries[o].name
  BY <1>1 DEF Name
<1>5. DOMAIN s = 1..Len(s) /\ Len(s) \in Nat
  <2>1. InTable(sec, o) # {} /\ o \in 1..Size /\ sec \in Sections
    BY <1>1 DEF Held, Formed, IInv
  <2>2. s \in Seq(Kinds)
    BY <2>1, AbbrevIs
  <2> HIDE DEF s
  <2> QED
    BY <2>2
<1>6. ASSUME NEW kind
      PROVE  /\ Has(d, kind) <=> \E k \in DOMAIN s : s[k] = kind
             /\ Has(d, kind) => LET k == Where(d, kind)
                                IN  /\ k \in 1..Len(s) /\ s[k] = kind
                                    /\ \A j \in 1..(k - 1) : s[j] # kind
  BY <1>3, <1>5, WhereIs DEF Has
<1> HIDE DEF o, s
<1>7. ASSUME HasName(d) PROVE First
  <2> DEFINE k == Where(d, "name")
             m == Where(d, "name_number")
  <2>1. k \in 1..Len(s) /\ s[k] = "name"
    BY <1>6, <1>7 DEF HasName
  <2>2. ASSUME NEW j \in 1..(k - 1), s[j] = "name_number" PROVE FALSE
    <3>1. Has(d, "name_number")
      BY <1>5, <1>6, <2>1, <2>2
    <3>2. m \in 1..Len(s) /\ \A i \in 1..(m - 1) : s[i] # "name_number"
      BY <1>6, <3>1
    <3>3. k < m
      BY <1>7, <3>1 DEF HasName
    <3> HIDE DEF k, m
    <3>4. j \in 1..(m - 1)
      BY <1>5, <2>1, <3>2, <3>3
    <3> QED
      BY <2>2, <3>2, <3>4
  <2> HIDE DEF k
  <2> QED
    BY <1>5, <2>1, <2>2
<1>8. ASSUME First PROVE HasName(d)
  <2>1. PICK i \in DOMAIN s : s[i] = "name" /\ \A j \in 1..(i - 1) : s[j] # "name_number"
    BY <1>8
  <2> DEFINE k == Where(d, "name")
             m == Where(d, "name_number")
  <2>2. Has(d, "name") /\ k \in 1..Len(s) /\ \A j \in 1..(k - 1) : s[j] # "name"
    BY <1>6, <2>1
  <2>3. Has(d, "name_number") => m \in 1..Len(s) /\ s[m] = "name_number"
    BY <1>6
  <2> HIDE DEF k, m
  <2>4. i \in 1..Len(s) /\ k <= i
    BY <1>5, <2>1, <2>2
  <2>5. Has(d, "name_number") => k < m
    <3> SUFFICES ASSUME Has(d, "name_number"), ~(k < m) PROVE FALSE
      OBVIOUS
    <3>1. m \in 1..Len(s) /\ s[m] = "name_number" /\ m <= i
      BY <1>5, <2>2, <2>3, <2>4
    <3>2. m # i
      BY <2>1, <3>1
    <3>3. m \in 1..(i - 1)
      BY <1>5, <2>4, <3>1, <3>2
    <3> QED
      BY <2>1, <3>1, <3>3
  <2> QED
    BY <2>2, <2>5 DEF HasName, k, m
<1>9. Matches(o, n) <=> /\ o \notin Closes[sec] \cup Bad[sec] /\ AbbrevOf(sec, o).tag \in accept
                        /\ First /\ sec.entries[o].name = n
  BY DEF Matches, s
<1> QED
  BY <1>1, <1>2, <1>4, <1>7, <1>8, <1>9 DEF o

LEMMA ExamineIndex == ASSUME StrMapInv, TreeInv', Examine PROVE StrMapInv'
<1> USE DEF StrMapInv, SiblingInv, TreeInv
<1> DEFINE d == it[pos]
           o == PosAt[d]
<1>1. /\ UNCHANGED <<sec, abbrevs, cached, die, it, self, subs, result, parent, asked>>
      /\ Keeps /\ phase = "examine" /\ self = "none" /\ d \in Held /\ d \in Formed
      /\ phase' \in {"check", "idle"}
  BY MapAssumption DEF Examine, treeVars, Keeps, HeldInv, Held, Answer
<1>2. SiblingInv'
  <2>1. [MapNext]_vars
    BY DEF MapNext
  <2> QED
    BY <2>1, NextRefines
<1>3. CallInv'
  <2>1. parent # 0 /\ parent' = parent /\ self' = "none"
    BY <1>1 DEF CallInv
  <2> QED
    BY <2>1, MapAssumption, IteratorsAssumption DEF CallInv
<1>4. CASE ~Readable
  <2>1. ~Readable'
    BY <1>1, <1>4, SameTree
  <2> QED
    BY <1>2, <1>3, <2>1 DEF IndexInv, LookupInv
<1>5. CASE Readable /\ ~(d.tag \in accept /\ HasName(d))
  <2>1. phase' = "check" /\ UNCHANGED <<str_map, answer>>
    BY <1>5 DEF Examine
  <2>2. LookupInv'
    <3>1. asked' \notin DOMAIN str_map
      BY <1>1, <1>5 DEF LookupInv
    <3> QED
      BY <1>1, <2>1, <3>1, LookupKept
  <2>3. /\ Kids' = Kids /\ \A q, n : Matches(q, n)' <=> Matches(q, n)
        /\ PosAt' = PosAt /\ WholeDies' = WholeDies
    BY <1>1, SameTree
  <2>4. ASSUME NEW q \in Kids \ {parent + 1}, Passed(q)', NEW n, Matches(q, n)
        PROVE  n \in DOMAIN str_map
    <3>1. CASE q = o
      <4>1. d \in WholeDies /\ d.offset = q
        <5>1. o \in Good
          BY <1>5, <2>4, <3>1, KidsAre
        <5> QED
          BY <1>1, <3>1, <5>1, PositionIs, WholeDieIs
      <4> QED
        BY <1>1, <1>5, <2>4, <4>1, MatchesIs
    <3>2. CASE q # o
      <4>1. Passed(q)
        BY <1>1, <2>3, <2>4, <3>2 DEF Passed
      <4> QED
        BY <1>5, <2>4, <4>1 DEF IndexInv
    <3> QED
      BY <3>1, <3>2
  <2>5. IndexInv'
    <3>1. PosAt'[it'[pos]] \in Kids' \cup {0}
      BY <1>1, <1>5, <2>3 DEF IndexInv
    <3>2. \A n \in DOMAIN str_map' : /\ str_map'[n] \in WholeDies'
                                     /\ str_map'[n].offset \in Kids'
                                     /\ Matches(str_map[n].offset, n)'
      BY <1>5, <2>1, <2>3 DEF IndexInv
    <3> QED
      BY <1>1, <2>1, <2>3, <2>4, <3>1, <3>2 DEF IndexInv
  <2> QED
    BY <1>2, <1>3, <2>2, <2>5
<1>6. CASE Readable /\ d.tag \in accept /\ HasName(d)
  <2> DEFINE name == Name(d)
  <2>1. /\ str_map' = Indexed(d)
        /\ IF name = asked THEN Answer(asked, d) ELSE phase' = "check" /\ UNCHANGED answer
    BY <1>6 DEF Examine
  <2>2. d \in WholeDies /\ o \in Kids /\ d.offset = o /\ d.abbrev # 0
    <3>1. d.abbrev # 0
      BY <1>6 DEF HasName, Has, Attributes
    <3>2. o \in Kids /\ o \in Good
      BY <1>1, <1>6, <3>1, PositionIs, KidsAre DEF IndexInv
    <3> QED
      BY <1>1, <3>1, <3>2, PositionIs, WholeDieIs
  <2>3. \A n : Matches(o, n) <=> n = name
    BY <1>1, <1>6, <2>2, MatchesIs
  <2>4. /\ Kids' = Kids /\ \A q, n : Matches(q, n)' <=> Matches(q, n)
        /\ PosAt' = PosAt /\ WholeDies' = WholeDies
    BY <1>1, SameTree
  <2> HIDE DEF name
  <2>5. /\ DOMAIN str_map' = DOMAIN str_map \cup {name}
        /\ str_map'[name] = d
        /\ \A n \in DOMAIN str_map : n # name => str_map'[n] = str_map[n]
    BY <2>1 DEF Indexed, name
  <2>6. ASSUME NEW q \in Kids \ {parent + 1}, Passed(q)', NEW n, Matches(q, n)
        PROVE  n \in DOMAIN str_map'
    <3>1. CASE q = o
      BY <2>3, <2>5, <2>6, <3>1
    <3>2. CASE q # o
      <4>1. Passed(q)
        BY <1>1, <2>4, <2>6, <3>2 DEF Passed
      <4> QED
        BY <1>6, <2>5, <2>6, <4>1 DEF IndexInv
    <3> QED
      BY <3>1, <3>2
  <2>7. ASSUME NEW n \in DOMAIN str_map'
        PROVE  /\ str_map'[n] \in WholeDies /\ str_map'[n].offset \in Kids
               /\ Matches(str_map'[n].offset, n)
    <3>1. CASE n = name
      BY <2>2, <2>3, <2>5, <3>1
    <3>2. CASE n # name
      <4>1. n \in DOMAIN str_map /\ str_map'[n] = str_map[n]
        BY <2>5, <2>7, <3>2
      <4> QED
        BY <1>6, <4>1 DEF IndexInv
    <3> QED
      BY <3>1, <3>2
  <2>8. IndexInv'
    <3>1. PosAt'[it'[pos]] \in Kids' \cup {0}
      BY <1>1, <1>6, <2>4 DEF IndexInv
    <3>2. \A n \in DOMAIN str_map' : Matches(str_map[n].offset, n)' <=> Matches(str_map'[n].offset, n)
      BY <1>1 DEF Matches, Keeps
    <3> QED
      BY <1>1, <2>4, <2>6, <2>7, <3>1, <3>2 DEF IndexInv
  <2>9. LookupInv'
    <3>1. CASE name = asked
      <4>1. phase' = "idle" /\ answer' = [name |-> asked, die |-> d]
        BY <2>1, <3>1 DEF Answer
      <4> QED
        BY <2>2, <4>1 DEF LookupInv
    <3>2. CASE name # asked
      <4>1. phase' = "check" /\ UNCHANGED answer
        BY <2>1, <3>2
      <4>2. asked \notin DOMAIN str_map'
        BY <1>1, <1>6, <2>5, <3>2 DEF LookupInv
      <4>3. answer.name # "none" /\ answer.die.abbrev = 0 =>
              \A q \in Kids : Matches(q, answer.name) => q = parent + 1
        BY <1>6 DEF LookupInv
      <4>4. \A q : Matches(q, answer.name)' <=> Matches(q, answer.name)
        BY <1>1, <4>1 DEF Matches, Keeps
      <4> QED
        BY <1>1, <2>4, <4>1, <4>2, <4>3, <4>4 DEF LookupInv
    <3> QED
      BY <3>1, <3>2
  <2> QED
    BY <1>2, <1>3, <2>8, <2>9
<1> QED
  BY <1>4, <1>5, <1>6

\* The same as KidsAre, of the next state.
LEMMA KidsNow ==
  IInv /\ Readable =>
    /\ parent \in 1..Size /\ parent \in Good \cup Closes[sec]
    /\ parent \notin Opens[sec] => Kids = {}
    /\ parent \in Opens[sec] =>
         LET end == Closing(Size, Opens[sec], Closes[sec], parent)
         IN  /\ end \in (parent + 1)..Size /\ parent \notin Closes[sec]
             /\ \A o : o \in Kids <=>
                  /\ o \in (parent + 1)..end /\ o \notin Closes[sec]
                  /\ Depth(Opens[sec], Closes[sec], parent, o - 1) = 1
  BY KidsAre

LEMMA CreateIndex == ASSUME StrMapInv, TreeInv', Create PROVE StrMapInv'
<1> USE DEF StrMapInv, SiblingInv, TreeInv
<1>1. /\ phase = "idle" /\ self = "none" /\ parent = 0 /\ die.abbrev # 0 /\ Begin(pos)
      /\ parent' = IF result' = "ok" THEN die.offset ELSE 0
      /\ UNCHANGED <<str_map, phase, asked, answer>> /\ pos \in Iterators
  BY MapAssumption DEF Create, Idle
<1>2. Keeps /\ UNCHANGED <<die, self>>
  BY <1>1, BeginHeld DEF Begin
<1>3. SiblingInv'
  <2>1. [MapNext]_vars
    BY DEF MapNext
  <2> QED
    BY <2>1, NextRefines
<1>4. CallInv'
  BY <1>1, <1>2, MapAssumption, IteratorsAssumption DEF CallInv
<1>5. LookupInv'
  BY <1>1 DEF LookupInv, CallInv
<1>6. SUFFICES ASSUME Readable' PROVE IndexInv'
  BY <1>3, <1>4, <1>5 DEF IndexInv
<1>7. /\ sec' = sec /\ Size' = Size /\ Good' = Good /\ PosAt' = PosAt /\ WholeDies' = WholeDies
      /\ it \in [Iterators -> Held] /\ die \in Held /\ die \in Formed
  BY <1>2, PosAtKept DEF Keeps, Size, HeldInv, Held
<1> DEFINE p == parent'
           end == Closing(Size, Opens[sec], Closes[sec], p)
<1>8. /\ p \in 1..Size /\ p \in Good \cup Closes[sec]
      /\ p \notin Opens[sec] => Kids' = {}
      /\ p \in Opens[sec] =>
           /\ end \in (p + 1)..Size /\ p \notin Closes[sec]
           /\ \A o : o \in Kids' <=>
                /\ o \in (p + 1)..end /\ o \notin Closes[sec]
                /\ Depth(Opens[sec], Closes[sec], p, o - 1) = 1
  <2>1. (/\ parent \in 1..Size /\ parent \in Good \cup Closes[sec]
         /\ parent \notin Opens[sec] => Kids = {}
         /\ parent \in Opens[sec] =>
              LET e == Closing(Size, Opens[sec], Closes[sec], parent)
              IN  /\ e \in (parent + 1)..Size /\ parent \notin Closes[sec]
                  /\ \A o : o \in Kids <=>
                       /\ o \in (parent + 1)..e /\ o \notin Closes[sec]
                       /\ Depth(Opens[sec], Closes[sec], parent, o - 1) = 1)'
    BY <1>6, KidsNow, PTL
  <2> QED
    BY <1>7, <2>1
<1>9. result' = "ok" /\ p = die.offset /\ Size \in Nat
  BY <1>1, <1>8, UnitIs
<1>10. die \in WholeDies /\ die.attrs.of = p /\ die.next = p + 1
  <2>1. p \notin Bad[sec]
    <3>1. (parent..Size \cap Bad[sec] = {} /\ parent \in 1..Size)'
      BY <1>6 DEF Readable
    <3> QED
      BY <1>7, <1>9, <3>1
  <2>2. die.offset # Size + 1
    BY <1>8, <1>9
  <2>3. die \in WholeDies
    BY <1>1, <1>7, <1>9, <2>1, <2>2 DEF Formed, WholeDies
  <2> QED
    BY <1>9, <2>3, WholeDieIs
<1>11. Children(die) <=> p \in Opens[sec]
  BY <1>1, <1>7, <1>10, EntryIs
<1> HIDE DEF p, end
<1>12. /\ PosAt[it'[pos]] \in Kids' \cup {0}
       /\ \A q \in Kids' \ {p + 1} : q > PosAt[it'[pos]] /\ PosAt[it'[pos]] # 0
       /\ PosAt[it'[pos]] \in Int /\ Kids' \in SUBSET Int
  <2>1. CASE p \notin Opens[sec]
    <3>1. it' = [it EXCEPT ![pos] = NoDie] /\ PosAt[NoDie] = 0
      BY <1>1, <1>11, <2>1, NoDieIs, PositionIs DEF Begin
    <3> QED
      BY <1>1, <1>7, <1>8, <2>1, <3>1
  <2>2. CASE p \in Opens[sec]
    <3> DEFINE r == Read(NoDie, die.next)
    <3>1. r.ok /\ it' = [it EXCEPT ![pos] = r.die]
      BY <1>1, <1>9, <1>11, <2>2 DEF Begin
    <3>2. die.next \in 1..(Size + 1)
      BY <1>8, <1>9, <1>10
    <3>3. PosAt[r.die] = Promise!Settled(p + 1)
      BY <1>10, <3>1, <3>2, NoDieIs, ReadMoves
    <3> HIDE DEF r
    <3>4. PosAt[it'[pos]] = IF p + 1 \in Closes[sec] THEN 0 ELSE p + 1
      BY <1>1, <1>7, <3>1, <3>3 DEF Promise!Settled, Promise!End
    <3>5. Depth(Opens[sec], Closes[sec], p, p) = 1 /\ p + 1 - 1 = p
          /\ Reached(Opens[sec], Closes[sec], p, 1, p + 1)
      <4>1. p \in Int /\ p \notin Closes[sec] /\ p + 1 - 1 = p /\ \A q \in p..p : q = p
        BY <1>8, <2>2
      <4>2. Depth(Opens[sec], Closes[sec], p, p) = 1
        BY <2>2, <4>1, DepthStep
      <4> QED
        BY <4>1, <4>2 DEF Reached
    <3>6. Kids' \in SUBSET Int /\ \A q \in Kids' : q \in (p + 1)..end /\ q \notin Closes[sec]
      BY <1>8, <1>9, <2>2
    <3>7. CASE p + 1 \in Closes[sec]
      <4>1. p + 1 \in (p + 1)..(Size + 1) /\ p + 1 <= Size /\ 1 \in Nat \ {0}
        BY <1>8, <1>9, <2>2
      <4>2. p + 1 \notin Opens[sec]
        BY <3>7, UnitIs
      <4> DEFINE e == p + 1
      <4>3. e \in (p + 1)..(Size + 1) /\ e <= Size /\ Reached(Opens[sec], Closes[sec], p, 1, e)
            /\ e \in Closes[sec] /\ e \notin Opens[sec]
        BY <3>5, <3>7, <4>1, <4>2
      <4> HIDE DEF e
      <4>4. end = e
        BY <1>8, <1>9, <2>2, <4>1, <4>3, ReachedInside DEF end
      <4>5. Kids' = {}
        BY <1>8, <3>6, <3>7, <4>4 DEF e
      <4> QED
        BY <3>4, <3>7, <4>5
    <3>8. CASE p + 1 \notin Closes[sec]
      <4>1. p + 1 \in Kids' /\ p + 1 # 0 /\ p + 1 \in Int
        BY <1>8, <1>9, <2>2, <3>5, <3>8
      <4> QED
        BY <1>8, <1>9, <3>4, <3>6, <3>8, <4>1
    <3> QED
      BY <3>7, <3>8
  <2> QED
    BY <2>1, <2>2
<1>13. ASSUME NEW q \in Kids' \ {p + 1} PROVE ~Passed(q)'
  <2>1. q > PosAt[it'[pos]] /\ PosAt[it'[pos]] # 0 /\ q \in Int /\ PosAt[it'[pos]] \in Int
    BY <1>12, <1>13
  <2> QED
    BY <1>7, <2>1 DEF Passed
<1>14. DOMAIN str_map' = {}
  BY <1>1 DEF CallInv
<1> QED
  BY <1>7, <1>12, <1>13, <1>14 DEF IndexInv, p

LEMMA LookupIndex ==
  ASSUME StrMapInv, TreeInv', NEW n \in Names, Lookup(n) PROVE StrMapInv'
<1> USE DEF StrMapInv, SiblingInv, TreeInv
<1>1. /\ phase = "idle" /\ self = "none" /\ parent # 0 /\ UNCHANGED <<treeVars, parent, str_map>>
      /\ IF n \in DOMAIN str_map
         THEN Answer(n, str_map[n]) /\ UNCHANGED asked
         ELSE phase' = "check" /\ asked' = n /\ UNCHANGED answer
  BY DEF Lookup, Idle
<1>2. Keeps /\ it' = it /\ self' = "none"
  BY <1>1 DEF treeVars, Keeps
<1>3. SiblingInv'
  <2>1. [MapNext]_vars
    BY DEF MapNext
  <2> QED
    BY <2>1, NextRefines
<1>4. CallInv'
  BY <1>1, <1>2, MapAssumption, IteratorsAssumption DEF CallInv
<1>5. IndexInv'
  BY <1>1, <1>2, IndexKept
<1>6. LookupInv'
  <2>1. Readable /\ phase' # "idle" => asked' \notin DOMAIN str_map
    BY <1>1 DEF Answer
  <2>2. answer' = answer \/ (Readable => answer'.die.abbrev # 0)
    <3>1. ASSUME Readable, n \in DOMAIN str_map PROVE str_map[n].abbrev # 0
      BY <3>1, WholeDieIs DEF IndexInv
    <3> QED
      BY <1>1, <3>1 DEF Answer
  <2> QED
    BY <1>1, <1>2, <2>1, <2>2, LookupKept
<1> QED
  BY <1>3, <1>4, <1>5, <1>6

LEMMA ScanIndex == ASSUME StrMapInv, TreeInv', Scan PROVE StrMapInv'
<1> USE DEF StrMapInv, SiblingInv, TreeInv
<1>1. /\ phase = "check" /\ self = "none" /\ UNCHANGED <<parent, str_map, asked>>
      /\ UNCHANGED <<sec, abbrevs, it>>
      /\ IF it[pos].abbrev = 0
         THEN Answer(asked, NoDie) /\ self' = "none"
         ELSE phase' = "examine" /\ self' = pos /\ UNCHANGED answer
  BY DEF Scan, treeVars, unitVars
<1>2. Keeps
  BY <1>1 DEF Keeps
<1>3. SiblingInv'
  <2>1. [MapNext]_vars
    BY DEF MapNext
  <2> QED
    BY <2>1, NextRefines
<1>4. CallInv'
  <2>1. parent' # 0
    BY <1>1 DEF CallInv
  <2>2. self' = pos => phase' = "examine"
    BY <1>1, MapAssumption, IteratorsAssumption
  <2>3. self' \notin Iterators \ {pos}
    BY <1>1, IteratorsAssumption
  <2> QED
    BY <2>1, <2>2, <2>3 DEF CallInv
<1>5. IndexInv'
  BY <1>1, <1>2, IndexKept
<1>6. LookupInv'
  <2>1. Readable /\ phase' # "idle" => asked' \notin DOMAIN str_map
    BY <1>1 DEF LookupInv
  <2>2. CASE it[pos].abbrev = 0
    <3>1. answer'.name = asked
      BY <1>1, <2>2 DEF Answer
    <3>2. PosAt[it[pos]] = 0
      BY <2>2, MapAssumption, PositionIs DEF HeldInv, Held
    <3>3. ASSUME Readable, NEW o \in Kids, Matches(o, asked), o # parent + 1 PROVE FALSE
      <4>1. Passed(o)
        BY <3>2 DEF Passed
      <4>2. asked \in DOMAIN str_map
        BY <3>3, <4>1 DEF IndexInv
      <4> QED
        BY <1>1, <3>3, <4>2 DEF LookupInv
    <3> QED
      BY <1>1, <1>2, <2>1, <3>1, <3>3, LookupKept
  <2>3. CASE it[pos].abbrev # 0
    BY <1>1, <1>2, <2>1, <2>3, LookupKept
  <2> QED
    BY <2>2, <2>3
<1> QED
  BY <1>3, <1>4, <1>5, <1>6

LEMMA NextIndex == StrMapInv /\ TreeInv' /\ [MapNext]_vars => StrMapInv'
<1> SUFFICES ASSUME StrMapInv, TreeInv', [MapNext]_vars PROVE StrMapInv'
  OBVIOUS
<1> USE DEF StrMapInv, SiblingInv, TreeInv
<1>1. SiblingInv'
  BY NextRefines
<1>2. ASSUME Keeps, it'[pos] = it[pos], UNCHANGED mapVars, CallInv',
             phase = "idle" \/ UNCHANGED self
      PROVE  StrMapInv'
  <2>1. UNCHANGED <<parent, str_map, phase, asked, answer>>
    BY <1>2 DEF mapVars
  <2>2. IndexInv'
    BY <1>2, <2>1, IndexKept
  <2>3. Readable /\ phase' # "idle" => asked' \notin DOMAIN str_map
    BY <2>1 DEF LookupInv
  <2>4. LookupInv'
    BY <1>2, <2>1, <2>3, LookupKept
  <2> QED
    BY <1>1, <1>2, <2>2, <2>4
<1>3. CASE MapClient
  <2>1. PICK i \in Iterators \ {pos} : Client(i)
    BY <1>3 DEF MapClient
  <2>2. phase = "idle" /\ self = "none" /\ UNCHANGED mapVars
    BY <1>3 DEF MapClient, Idle
  <2>3. Keeps /\ it'[pos] = it[pos] /\ self' \in {"none", i}
    BY <2>1, <2>2, ClientIndex
  <2>4. CallInv'
    BY <2>2, <2>3, MapAssumption, IteratorsAssumption DEF CallInv, mapVars
  <2> QED
    BY <1>2, <2>2, <2>3, <2>4
<1>4. CASE UNCHANGED vars
  <2>1. Keeps /\ it' = it /\ UNCHANGED self /\ UNCHANGED mapVars
    BY <1>4 DEF vars, treeVars, Keeps
  <2>2. CallInv'
    BY <2>1 DEF CallInv, mapVars
  <2> QED
    BY <1>2, <2>1, <2>2
<1> QED
  BY <1>3, <1>4, WalkIndex, CreateIndex, ScanIndex, ExamineIndex, LookupIndex DEF MapNext

LEMMA IndexInvariant == MapSpec => []StrMapInv
<1>1. MapInit => StrMapInv
  <2> SUFFICES ASSUME MapInit PROVE StrMapInv
    OBVIOUS
  <2>1. SiblingInv
    BY InitRefines
  <2>2. parent = 0 /\ self = "none" /\ phase = "idle" /\ answer.name = "none" /\ DOMAIN str_map = {}
    BY DEF MapInit, Init
  <2>3. ~Readable
    BY <2>2 DEF Readable
  <2> QED
    BY <2>1, <2>2, <2>3, MapAssumption, IteratorsAssumption
    DEF StrMapInv, IndexInv, LookupInv, CallInv
<1> QED
  BY <1>1, NextIndex, TreeInvariant, PTL DEF MapSpec

\* Whatever is looked up, in whichever order, and whatever the client does with
\* the same unit meanwhile, what is in the index under a name is a child that
\* has this name and an accepted tag (die_str_map.cc:92-116).
THEOREM IndexCorrect == MapSpec => []IndexExact
<1>1. StrMapInv => IndexExact
  <2> SUFFICES ASSUME StrMapInv, Readable, NEW n \in DOMAIN str_map
               PROVE  /\ Whole(str_map[n])
                      /\ str_map[n].offset \in Promise!ChildrenOf(parent)
                      /\ Matches(str_map[n].offset, n)
    BY DEF IndexExact
  <2>1. str_map[n] \in WholeDies /\ str_map[n].offset \in Kids /\ Matches(str_map[n].offset, n)
    BY DEF StrMapInv, IndexInv
  <2>2. Whole(str_map[n])
    BY <2>1, WholeDieIs, WholeIs DEF StrMapInv, SiblingInv, TreeInv
  <2> QED
    BY <2>1, <2>2 DEF Kids
<1> QED
  BY <1>1, IndexInvariant, PTL

\* A look-up that finds nothing has missed no child but the first, which is never
\* indexed (die_str_map.cc:100-113).
THEOREM MissesCorrect == MapSpec => []MissesAreRight
<1>1. StrMapInv => MissesAreRight
  BY DEF StrMapInv, LookupInv, MissesAreRight, Kids
<1> QED
  BY <1>1, IndexInvariant, PTL
=============================================================================
