----------------------------- MODULE ExprProofs -----------------------------
(***************************************************************************)
(* Proofs about Expr, for all expressions, arguments, contexts and widths: *)
(* an evaluation leaves its stack only in DW_OP_pick and its expression    *)
(* only by a jump, and the stack holds words.                              *)
(*                                                                         *)
(* The cursor moves forward from operation to operation, so it can be in   *)
(* front of the expression only after a jump; and what an operation other  *)
(* than DW_OP_pick touches is what it has checked.  Operators compute words*)
(* from words: division is trapped where it is not defined, sets of bits   *)
(* are numbers below 2^W, and everything else is taken modulo 2^W.         *)
(***************************************************************************)
EXTENDS Expr, NumberLemmas, TLAPS

\* A byte of the expression is the opcode of a jump.
HasJump == \E i \in DOMAIN prog : prog[i] \in {skip, bra}

\* The inductive invariant: only an expression with a jump has its cursor in
\* front of the expression, and the checks have sufficed so far.
IInv ==
  /\ prog \in Seq(Byte)
  /\ pos \in Nat \/ HasJump
  /\ ChecksSuffice

\* Reading an operand leaves the cursor behind it, or behind the end: never in
\* front of the expression (cursor::fixed, cursor::uleb128 and sleb128).
LEMMA FixedNext ==
  ASSUME NEW p \in Nat, NEW n \in Nat, NEW signed \in BOOLEAN, prog \in Seq(Byte)
  PROVE  Fixed(p, n, signed).next \in Nat
<1>1. Size \in Nat
  BY DEF Size
<1>2. CASE p + n > Size
  <2>1. Fixed(p, n, signed) = [val |-> 0, next |-> Size + 1]
    BY <1>2 DEF Fixed
  <2> QED
    BY <2>1, <1>1
<1>3. CASE ~(p + n > Size)
  <2>1. Fixed(p, n, signed).next = p + n
    BY <1>3 DEF Fixed
  <2> QED
    BY <2>1
<1> QED
  BY <1>2, <1>3

\* The same for LEB128 numbers, whose last byte is the first one below 128.
LEMMA LebNext ==
  ASSUME NEW p \in Nat, NEW signed \in BOOLEAN, prog \in Seq(Byte)
  PROVE  Leb(p, signed).next \in Nat
<1> DEFINE last == {q \in p..(Size - 1) : At(q) < 128}
           e == CHOOSE q \in last : \A r \in last : q <= r
<1>1. Size \in Nat
  BY DEF Size
<1>2. CASE last = {}
  <2>1. Leb(p, signed) = [val |-> 0, next |-> Size + 1]
    BY <1>2 DEF Leb
  <2> QED
    BY <2>1, <1>1
<1>3. CASE last # {}
  <2>1. Leb(p, signed).next = e + 1
    BY <1>3 DEF Leb
  <2>2. \E q \in last : \A r \in last : q <= r
    <3> last \in SUBSET Nat
      BY <1>1
    <3> HIDE DEF last
    <3> QED
      BY Least, <1>3, Zenon
  <2>3. e \in last
    BY <2>2, Zenon
  <2>4. e \in Nat
    BY <2>3, <1>1
  <2> QED
    BY <2>1, <2>4
<1> QED
  BY <1>2, <1>3

\* The same for the operand of any operation.
LEMMA OperandNext ==
  ASSUME NEW op, NEW p \in Nat, prog \in Seq(Byte)
  PROVE  Operand(op, p).next \in Nat
<1>1. \A n \in {1, 2, 4, 8}, signed \in BOOLEAN : Fixed(p, n, signed).next \in Nat
  BY FixedNext
<1>2. \A signed \in BOOLEAN : Leb(p, signed).next \in Nat
  BY LebNext
<1> QED
  BY <1>1, <1>2, AddrSizeAssumption DEF Operand

\* Behind the operation at the cursor.
LEMMA NextBehind ==
  ASSUME prog \in Seq(Byte), Running
  PROVE  Next_ \in Nat /\ pos + 1 \in DOMAIN prog /\ Op = prog[pos + 1]
<1>1. Size \in Nat /\ pos \in 0..(Size - 1)
  BY DEF Size, Running
<1>2. Arg.next \in Nat
  BY <1>1, OperandNext DEF Arg
<1>3. Arg2.next \in Nat
  BY <1>2, LebNext DEF Arg2
<1> QED
  BY <1>1, <1>3 DEF Next_, Op, At, Size

\* The groups of operations that check one, two and three values are disjoint.
LEMMA GroupsDisjoint ==
  /\ rot \notin {over, swap} \cup BinaryOps
  /\ rot \notin {dup, drop, bra, stack_value} \cup UnaryOps
  /\ ({over, swap} \cup BinaryOps)
       \cap ({dup, drop, bra, stack_value} \cup UnaryOps) = {}
  BY DEF pick, rot, over, swap, dup, drop, bra, stack_value, UnaryOps, BinaryOps,
         Relations, deref, abs, neg, not_, plus_uconst, deref_size,
         form_tls_address, eq, ge, gt, le, lt, ne, xderef, xderef_size, and_, div,
         minus, mod, mul, or_, plus, shl, shr, shra, xor_

\* Only DW_OP_pick reaches further than it has checked.
LEMMA OnlyPickIsWild ==
  ASSUME Running, Failure = "wild"
  PROVE  Op = pick
<1> SUFFICES ASSUME Op # pick PROVE FALSE
  OBVIOUS
<1>1. CASE Op = rot
  BY <1>1, GroupsDisjoint DEF Checked, Touched, Failure
<1>2. CASE Op \in {over, swap} \cup BinaryOps
  BY <1>2, GroupsDisjoint DEF Checked, Touched, Failure
<1>3. CASE Op \in {dup, drop, bra, stack_value} \cup UnaryOps
  BY <1>3, GroupsDisjoint DEF Checked, Touched, Failure
<1>4. CASE Op \notin {rot, over, swap, dup, drop, bra, stack_value}
                    \cup BinaryOps \cup UnaryOps
  BY <1>4 DEF Checked, Touched, Failure
<1> QED
  BY <1>1, <1>2, <1>3, <1>4

\* Every action preserves the inductive invariant.
LEMMA StepInvariance == IInv /\ [Evaluate]_vars => IInv'
<1> SUFFICES ASSUME IInv, [Evaluate]_vars PROVE IInv'
  OBVIOUS
<1>1. CASE Start
  BY <1>1 DEF Start, End, Fail, IInv, HasJump, ChecksSuffice
<1>2. CASE StepFails
  <2>1. prog' = prog /\ pos' = 0 /\ pc' = Failure /\ Running
    BY <1>2 DEF StepFails, End, Fail
  <2>2. pc' = "wild" => \E i \in DOMAIN prog : prog[i] = pick
    BY <2>1, NextBehind, OnlyPickIsWild DEF IInv
  <2> QED
    BY <2>1, <2>2 DEF IInv, HasJump, ChecksSuffice
<1>3. CASE StepPush \/ StepPushOwn \/ StepRearrange \/ StepOperator \/ StepLocation
  <2>1. prog' = prog /\ pc' = pc /\ pos' = Next_ /\ Running
    BY <1>3, Zenon
       DEF StepPush, StepPushOwn, StepRearrange, StepOperator, StepLocation, Step
  <2> QED
    BY <2>1, NextBehind DEF IInv, HasJump, ChecksSuffice
<1>4. CASE StepJump
  <2>1. prog' = prog /\ pc' = pc /\ Running /\ Op \in {skip, bra}
    BY <1>4 DEF StepJump, Step
  <2>2. HasJump
    BY <2>1, NextBehind DEF IInv, HasJump
  <2> QED
    BY <2>1, <2>2 DEF IInv, HasJump, ChecksSuffice
<1>5. CASE Finish
  BY <1>5 DEF Finish, End, Fail, IInv, HasJump, ChecksSuffice
<1>6. CASE RunsAway
  <2>1. pos \notin Nat /\ prog' = prog /\ pos' = 0
    BY <1>6 DEF RunsAway, End, Fail
  <2> QED
    BY <2>1 DEF IInv, HasJump, ChecksSuffice
<1>7. CASE UNCHANGED vars
  BY <1>7 DEF vars, IInv, HasJump, ChecksSuffice
<1> QED
  BY <1>1, <1>2, <1>3, <1>4, <1>5, <1>6, <1>7 DEF Evaluate

\* For every expression, argument list, context and word width: an evaluation
\* leaves its stack only in DW_OP_pick, and its expression only by a jump
\* (expr.cc:74-421).
THEOREM ChecksSufficeAlways == Spec => []ChecksSuffice
<1>1. Init => IInv
  BY ExpressionsAssumption DEF Init, IInv, ChecksSuffice, Byte
<1>2. IInv /\ [Evaluate]_vars => IInv'
  BY StepInvariance
<1>3. IInv => ChecksSuffice
  BY DEF IInv
<1> QED
  BY <1>1, <1>2, <1>3, PTL DEF Spec
-----------------------------------------------------------------------------
(* Types.                                                                  *)

LEMMA QuotientNat ==
  \A a \in Nat, b \in Nat \ {0} : a \div b \in Nat /\ a \div b <= a /\ a % b \in 0..(b - 1)
<1> SUFFICES ASSUME NEW a \in Nat, NEW b \in Nat \ {0}
             PROVE  a \div b \in Nat /\ a \div b <= a /\ a % b \in 0..(b - 1)
  OBVIOUS
<1>1. a = b * (a \div b) + (a % b) /\ a % b \in 0..(b - 1) /\ a \div b \in Int
  OBVIOUS
<1>2. a \div b \in Nat
  OBVIOUS
<1>3. b * (a \div b) >= a \div b
  <2> DEFINE q == a \div b
  <2>1. q \in Nat
    BY <1>2
  <2> HIDE DEF q
  <2>2. b * q = q + (b - 1) * q /\ (b - 1) * q \in Nat
    BY <2>1, ProductIsNatural
  <2>3. b * q >= q
    BY <2>1, <2>2
  <2> QED
    BY <2>3 DEF q
<1> QED
  BY <1>1, <1>2, <1>3

\* A word has room for 32, and ToWord makes one.
LEMMA WordIs ==
  /\ M \in Nat /\ M >= 32 /\ M \div 2 \in Nat /\ Word \subseteq Nat
  /\ 0..31 \subseteq Word
  /\ \A i \in Int : ToWord(i) \in Word
<1>1. TwoTo[5] = 32
  <2>1. /\ TwoTo[0] = 1 /\ TwoTo[0 + 1] = 2 * TwoTo[0] /\ TwoTo[1 + 1] = 2 * TwoTo[1]
        /\ TwoTo[2 + 1] = 2 * TwoTo[2] /\ TwoTo[3 + 1] = 2 * TwoTo[3]
        /\ TwoTo[4 + 1] = 2 * TwoTo[4]
    BY TwoToStep, Zenon
  <2> QED
    BY <2>1
<1>2. W \in Nat /\ 5 <= W
  BY WordAssumption
<1>3. M \in Nat /\ M >= 32
  BY <1>1, <1>2, TwoToStep, TwoToGrows DEF M
<1>4. \A i \in Int : i % M \in 0..(M - 1)
  BY <1>3
<1> QED
  BY <1>3, <1>4 DEF Word, ToWord

LEMMA SignedIs ==
  ASSUME NEW x \in Word
  PROVE  /\ Signed(x) \in Int /\ (x # 0 => Signed(x) # 0)
         /\ Magnitude(Signed(x)) \in Nat /\ (x # 0 => Magnitude(Signed(x)) # 0)
<1>1. M \in Nat /\ M \div 2 \in Nat /\ x \in 0..(M - 1)
  BY WordIs DEF Word
<1>2. Signed(x) \in Int /\ (x # 0 => Signed(x) # 0)
  BY <1>1 DEF Signed
<1> QED
  BY <1>2 DEF Magnitude

LEMMA BitsAreWord ==
  ASSUME NEW S, S \subseteq 0..(W - 1)
  PROVE  FromBits(S) \in Word
<1> DEFINE f == [i \in S |-> TwoTo[i]]
<1>1. W \in Nat /\ \A i \in S : f[i] = TwoTo[i]
  BY WordAssumption
<1>2. FromBits(S) = SumFunctionOnSet(f, S)
  BY DEF FromBits, SumFunction
<1> HIDE DEF f
<1> QED
  BY <1>1, <1>2, BitsMakeNumber DEF Word, M

\* Operators compute words from words.
LEMMA UnaryIsWord ==
  ASSUME ContextReturnsWords, NEW x \in Word, NEW a \in Nat, Op \in UnaryOps
  PROVE  Unary(x, a) \in Word
<1>1. x \in Nat /\ AddrSize \in Nat
  BY WordIs, AddrSizeAssumption
<1>2. ToWord(Magnitude(Signed(x))) \in Word
  BY SignedIs, WordIs
<1>3. ToWord(-x) \in Word /\ ToWord(x + a) \in Word
  BY <1>1, WordIs
<1>4. M - 1 - x \in Word
  BY WordIs DEF Word
<1>5. Deref(x, AddrSize) \in Word /\ Deref(x, a) \in Word /\ Tls(x) \in Word
  BY <1>1 DEF ContextReturnsWords
<1> QED
  BY <1>2, <1>3, <1>4, <1>5 DEF Unary, UnaryOps

LEMMA BinaryIsWord ==
  ASSUME ContextReturnsWords, NEW x \in Word, NEW y \in Word, NEW a \in Nat, Op \in BinaryOps,
         Op = mod => y # 0, Op = div => x # 0
  PROVE  Binary(x, y, a) \in Word
<1>1. x \in Nat /\ y \in Nat /\ M \in Nat \ {0} /\ AddrSize \in Nat
  BY WordIs, AddrSizeAssumption
<1>2. /\ FromBits(Bits(x) \cap Bits(y)) \in Word
      /\ FromBits(Bits(x) \cup Bits(y)) \in Word
      /\ FromBits((Bits(x) \cup Bits(y)) \ (Bits(x) \cap Bits(y))) \in Word
  <2>1. Bits(x) \subseteq 0..(W - 1) /\ Bits(y) \subseteq 0..(W - 1)
    BY DEF Bits
  <2>2. /\ Bits(x) \cap Bits(y) \subseteq 0..(W - 1) /\ Bits(x) \cup Bits(y) \subseteq 0..(W - 1)
        /\ (Bits(x) \cup Bits(y)) \ (Bits(x) \cap Bits(y)) \subseteq 0..(W - 1)
    BY <2>1
  <2> QED
    BY <2>2, BitsAreWord
<1>3. ToWord(x + y) \in Word /\ ToWord(x - y) \in Word /\ ToWord(x * y) \in Word
  <2>1. x + y \in Int /\ x - y \in Int /\ x * y \in Int
    BY <1>1, ProductIsNatural
  <2> QED
    BY <2>1, WordIs
<1>4. Op = div => ToWord(Quotient(Signed(y), Signed(x))) \in Word
  <2> SUFFICES ASSUME Op = div PROVE Quotient(Signed(y), Signed(x)) \in Int
    BY WordIs
  <2>1. /\ Magnitude(Signed(y)) \in Nat /\ Magnitude(Signed(x)) \in Nat \ {0}
    BY SignedIs
  <2>2. Magnitude(Signed(y)) \div Magnitude(Signed(x)) \in Nat
    BY <2>1, QuotientNat
  <2> QED
    BY <2>2 DEF Quotient
<1>5. Op = mod => x % y \in Word
  <2> SUFFICES ASSUME Op = mod PROVE x % y \in Word
    OBVIOUS
  <2>1. x % y \in 0..(y - 1)
    BY <1>1, QuotientNat
  <2> QED
    BY <2>1, WordIs DEF Word
<1>6. /\ TwoTo[y] \in Nat \ {0} /\ ToWord(x * TwoTo[y]) \in Word
      /\ x \div TwoTo[y] \in Word
      /\ Magnitude(Signed(x)) \div TwoTo[y] \in Nat
  <2>1. TwoTo[y] \in Nat \ {0}
    BY <1>1, TwoToStep
  <2>2. x * TwoTo[y] \in Int
    BY <1>1, <2>1, ProductIsNatural
  <2>3. x \div TwoTo[y] \in Nat /\ x \div TwoTo[y] <= x
    BY <1>1, <2>1, QuotientNat
  <2>4. Magnitude(Signed(x)) \div TwoTo[y] \in Nat
    BY <2>1, QuotientNat, SignedIs
  <2>5. x \div TwoTo[y] \in Word
    BY <2>3, WordIs DEF Word
  <2> QED
    BY <2>1, <2>2, <2>4, <2>5, WordIs
<1>7. ShiftRightArithmetic(x, y) \in Word
  <2>1. (IF y < W THEN Magnitude(Signed(x)) \div TwoTo[y] ELSE 0) \in Nat
    BY <1>6
  <2> QED
    BY <2>1, WordIs DEF ShiftRightArithmetic
<1>8. XDeref(y, x, AddrSize) \in Word /\ XDeref(y, x, a) \in Word
  BY <1>1 DEF ContextReturnsWords
<1>9. 0 \in Word /\ 1 \in Word
  BY WordIs
<1> QED
  BY <1>2, <1>3, <1>4, <1>5, <1>6, <1>7, <1>8, <1>9 DEF Binary, BinaryOps

\* What a cursor reads is an integer, and a natural number if it is unsigned.
LEMMA BytesAre ==
  ASSUME prog \in Seq(Byte), NEW q \in 0..(Size - 1)
  PROVE  At(q) \in Nat /\ At(q) % 128 \in Nat
<1>1. q + 1 \in 1..Len(prog)
  BY DEF Size
<1>2. prog[q + 1] \in Byte
  BY <1>1
<1>3. \A b \in Byte : b \in Nat /\ b % 128 \in Nat
  BY DEF Byte
<1> QED
  BY <1>2, <1>3 DEF At

LEMMA FixedVal ==
  ASSUME NEW p \in Nat, NEW n \in Nat \ {0}, NEW signed \in BOOLEAN, prog \in Seq(Byte)
  PROVE  Fixed(p, n, signed).val \in Int /\ (signed = FALSE => Fixed(p, n, signed).val \in Nat)
<1> DEFINE kept == {q \in p..(p + n - 1) : n <= 2 \/ 8 * (q - p) < W}
           f == [q \in kept |-> At(q) * TwoTo[8 * (q - p)]]
           v == SumFunction(f)
<1>1. CASE p + n > Size
  BY <1>1 DEF Fixed
<1>2. CASE ~(p + n > Size)
  <2>1. Size \in Nat
    BY DEF Size
  <2>2. IsFiniteSet(kept)
    <3>1. kept \in SUBSET (p..(p + n - 1)) /\ IsFiniteSet(p..(p + n - 1))
      BY FS_Interval
    <3> QED
      BY <3>1, FS_Subset
  <2>3. ASSUME NEW q \in kept PROVE f[q] \in Nat
    <3>1. q \in 0..(Size - 1) /\ 8 * (q - p) \in Nat
      BY <1>2, <2>1
    <3>2. At(q) \in Nat /\ TwoTo[8 * (q - p)] \in Nat
      BY <3>1, BytesAre, TwoToStep
    <3> QED
      BY <3>2, ProductIsNatural
  <2>4. v = SumFunctionOnSet(f, kept)
    BY DEF SumFunction
  <2> HIDE DEF f, kept
  <2>5. v \in Nat
    BY <2>2, <2>3, <2>4, SumNatural
  <2> HIDE DEF v
  <2>6. TwoTo[8 * n] \in Nat
    <3>1. 8 * n \in Nat
      OBVIOUS
    <3> QED
      BY <3>1, TwoToStep
  <2>7. \/ Fixed(p, n, signed).val = v
        \/ signed /\ Fixed(p, n, signed).val = v - TwoTo[8 * n]
    BY <1>2 DEF Fixed, v, f, kept
  <2> QED
    BY <2>5, <2>6, <2>7
<1> QED
  BY <1>1, <1>2

LEMMA LebVal ==
  ASSUME NEW p \in Nat, NEW signed \in BOOLEAN, prog \in Seq(Byte)
  PROVE  Leb(p, signed).val \in Int /\ (signed = FALSE => Leb(p, signed).val \in Nat)
<1> DEFINE last == {q \in p..(Size - 1) : At(q) < 128}
           e == CHOOSE q \in last : \A r \in last : q <= r
           f == [q \in p..e |-> (At(q) % 128) * TwoTo[7 * (q - p)]]
           v == SumFunction(f)
<1>1. CASE last = {}
  BY <1>1 DEF Leb
<1>2. CASE last # {}
  <2>1. Size \in Nat
    BY DEF Size
  <2>2. e \in last
    <3>1. \E q \in last : \A r \in last : q <= r
      <4> last \in SUBSET Nat
        BY <2>1
      <4> HIDE DEF last
      <4> QED
        BY Least, <1>2, Zenon
    <3> QED
      BY <3>1, Zenon
  <2>3. e \in Nat /\ e \in p..(Size - 1)
    BY <2>1, <2>2
  <2> HIDE DEF e
  <2>4. IsFiniteSet(p..e)
    BY <2>3, FS_Interval
  <2>5. ASSUME NEW q \in p..e PROVE f[q] \in Nat
    <3>1. q \in 0..(Size - 1) /\ 7 * (q - p) \in Nat
      BY <2>1, <2>3
    <3>2. At(q) % 128 \in Nat /\ TwoTo[7 * (q - p)] \in Nat
      BY <3>1, BytesAre, TwoToStep
    <3> QED
      BY <3>2, ProductIsNatural
  <2>6. v = SumFunctionOnSet(f, p..e)
    BY DEF SumFunction
  <2> HIDE DEF f
  <2>7. v \in Nat
    BY <2>4, <2>5, <2>6, SumNatural
  <2> HIDE DEF v
  <2>8. 7 * (e - p + 1) \in Nat
    BY <2>3
  <2>9. TwoTo[7 * (e - p + 1)] \in Nat
    BY <2>8, TwoToStep
  <2>10. \/ Leb(p, signed).val = v
         \/ signed /\ Leb(p, signed).val = v - TwoTo[7 * (e - p + 1)]
    BY <1>2 DEF Leb, v, f, e
  <2> QED
    BY <2>7, <2>9, <2>10
<1> QED
  BY <1>1, <1>2
LEMMA OperandVal ==
  ASSUME NEW op, NEW p \in Nat, prog \in Seq(Byte)
  PROVE  /\ Operand(op, p).val \in Int
         /\ op \in {pick, deref_size, xderef_size, plus_uconst, bregx} \cup BinaryOps \cup UnaryOps
              => Operand(op, p).val \in Nat
<1>0. \A n \in {1, 2, 4, 8} : n \in Nat \ {0}
  OBVIOUS
<1>1. \A n \in {1, 2, 4, 8}, signed \in BOOLEAN : Fixed(p, n, signed).val \in Int
  BY <1>0, FixedVal, Zenon
<1>2. Fixed(p, 1, FALSE).val \in Nat
  <2>1. FALSE \in BOOLEAN /\ 1 \in {1, 2, 4, 8}
    OBVIOUS
  <2> QED
    BY <1>0, <2>1, FixedVal, Zenon
<1>3. Leb(p, FALSE).val \in Nat
  BY LebVal
<1>7. \A signed \in BOOLEAN : Leb(p, signed).val \in Int
  BY LebVal
<1>8. Operand(op, p).val \in Int
  <2>1. [val |-> 0, next |-> p].val \in Int
    OBVIOUS
  <2> QED
    BY <1>1, <1>7, <2>1, AddrSizeAssumption, Zenon DEF Operand
<1>4. CASE op \in {pick, deref_size, xderef_size}
  <2>1. op \in {const1u, pick, deref_size, xderef_size}
    BY <1>4
  <2>2. /\ op # const1s /\ op # const2u /\ op \notin {const2s, skip, bra} /\ op # const4u
        /\ op # const4s /\ op # const8u /\ op # const8s /\ op # addr
        /\ op \notin {constu, plus_uconst, regx, bregx, implicit_value}
        /\ ~(op = consts \/ op \in RegisterBased)
    BY <1>4 DEF const1u, pick, const1s, const2u, const2s, skip, bra, const4u, const4s,
                const8u, const8s, addr, constu, regx, bregx, implicit_value, consts,
                RegisterBased, breg0, plus_uconst, deref_size, xderef_size
  <2>3. Operand(op, p) = Fixed(p, 1, FALSE)
    BY <2>1, <2>2 DEF Operand
  <2> QED
    BY <1>2, <1>8, <2>3
<1>5. CASE op \in {plus_uconst, bregx}
  <2>1. /\ op \notin {const1u, pick, deref_size, xderef_size}
        /\ op # const1s /\ op # const2u /\ op \notin {const2s, skip, bra} /\ op # const4u
        /\ op # const4s /\ op # const8u /\ op # const8s /\ op # addr
        /\ op \in {constu, plus_uconst, regx, bregx, implicit_value}
        /\ ~(op = consts \/ op \in RegisterBased)
    BY <1>5 DEF const1u, pick, const1s, const2u, const2s, skip, bra, const4u, const4s,
                const8u, const8s, addr, constu, regx, bregx, implicit_value, consts,
                RegisterBased, breg0, plus_uconst, deref_size, xderef_size
  <2>2. Operand(op, p) = Leb(p, FALSE)
    BY <2>1 DEF Operand
  <2> QED
    BY <1>3, <1>8, <2>2
<1>6. CASE op \in (BinaryOps \cup UnaryOps) \ {deref_size, xderef_size, plus_uconst}
  <2>1. op \in 6..42 \/ op \in 43..46 \/ op = form_tls_address
    BY <1>6 DEF BinaryOps, UnaryOps, Relations, deref, abs, neg, not_, plus_uconst, deref_size,
         form_tls_address, eq, ge, gt, le, lt, ne, xderef, xderef_size, and_, div,
         minus, mod, mul, or_, plus, shl, shr, shra, xor_
  <2>2. /\ op \notin {const1u, pick, deref_size, xderef_size}
        /\ op # const1s /\ op # const2u /\ op \notin {const2s, skip, bra} /\ op # const4u
        /\ op # const4s /\ op # const8u /\ op # const8s /\ op # addr
        /\ op \notin {constu, plus_uconst, regx, bregx, implicit_value}
        /\ ~(op = consts \/ op \in RegisterBased)
    BY <1>6 DEF BinaryOps, UnaryOps, Relations, deref, abs, neg, not_, plus_uconst, deref_size,
         form_tls_address, eq, ge, gt, le, lt, ne, xderef, xderef_size, and_, div,
         minus, mod, mul, or_, plus, shl, shr, shra, xor_, const1u, pick, const1s, const2u, const2s,
         skip, bra, const4u, const4s, const8u, const8s, addr, constu, regx, bregx, implicit_value,
         consts, RegisterBased, breg0
  <2>3. Operand(op, p) = [val |-> 0, next |-> p]
    BY <2>2 DEF Operand
  <2> QED
    BY <2>3
<1> QED
  BY <1>8, <1>4, <1>5, <1>6

\* The operation at the cursor, with its operands.
LEMMA OperationIs ==
  ASSUME prog \in Seq(Byte), Running
  PROVE  /\ Arg.val \in Int /\ Arg2.val \in Int /\ Next_ \in Nat
         /\ Op \in {pick, deref_size, xderef_size, plus_uconst, bregx} \cup BinaryOps \cup UnaryOps
              => Arg.val \in Nat
<1>1. pos + 1 \in Nat
  BY DEF Running, Size
<1>2. /\ Arg.val \in Int /\ Arg.next \in Nat
      /\ Op \in {pick, deref_size, xderef_size, plus_uconst, bregx} \cup BinaryOps \cup UnaryOps
           => Arg.val \in Nat
  BY <1>1, OperandVal, OperandNext DEF Arg
<1>3. Arg2.val \in Int
  BY <1>2, LebVal DEF Arg2
<1> QED
  BY <1>2, <1>3, NextBehind

\* The capacity that doubles until n values fit is one at which they do.
LEMMA CapacityIs ==
  ASSUME NEW c \in Nat \ {0}, NEW n \in Nat
  PROVE  Capacity(c, n) \in Nat \ {0} /\ Capacity(c, n) >= n
<1>1. CASE n <= c
  BY <1>1 DEF Capacity
<1>2. CASE ~(n <= c)
  <2> DEFINE T == {k \in Nat : c * TwoTo[k] >= n}
  <2>1. \A k \in Nat : TwoTo[k] \in Nat /\ c * TwoTo[k] \in Nat
    BY TwoToStep, ProductIsNatural
  <2>2. n \in T
    <3> DEFINE p == TwoTo[n]
    <3>1. p \in Nat /\ p > n
      BY TwoToStep
    <3> HIDE DEF p
    <3>2. c * p = p + (c - 1) * p /\ (c - 1) * p \in Nat
      BY <3>1, ProductIsNatural
    <3>3. c * p >= n
      BY <3>1, <3>2
    <3> QED
      BY <3>3 DEF p
  <2>3. PICK k \in T : \A y \in T : k <= y
    <3>1. T \in SUBSET Nat
      OBVIOUS
    <3> HIDE DEF T
    <3> QED
      BY <2>2, <3>1, Least
  <2>4. k \in 0..n /\ k # 0 /\ c * TwoTo[k] >= n
    <3>1. k \in Nat /\ c * TwoTo[k] >= n
      OBVIOUS
    <3>2. k <= n
      BY <2>2, <2>3
    <3>3. c * TwoTo[0] = c
      BY TwoToStep
    <3> QED
      BY <1>2, <3>1, <3>2, <3>3
  <2>5. k - 1 \in Nat /\ (k - 1) + 1 = k
    BY <2>4
  <2>6. k - 1 \notin T
    <3> HIDE DEF T
    <3> QED
      BY <2>3, <2>4, <2>5
  <2>7. c * TwoTo[k - 1] < n
    BY <2>1, <2>5, <2>6
  <2>8. c * TwoTo[k] = 2 * (c * TwoTo[k - 1])
    <3>1. TwoTo[k] = 2 * TwoTo[k - 1] /\ TwoTo[k - 1] \in Nat
      BY <2>5, TwoToStep
    <3> DEFINE p == TwoTo[k - 1]
    <3>2. c * (2 * p) = 2 * (c * p)
      <4>1. p \in Nat
        BY <3>1
      <4> HIDE DEF p
      <4> QED
        BY <4>1
    <3> QED
      BY <3>1, <3>2
  <2>9. c * TwoTo[k] \in n..(2 * n - 1)
    BY <2>1, <2>4, <2>5, <2>7, <2>8
  <2>10. \E t \in n..(2 * n - 1) : \E j \in 0..n : t = c * TwoTo[j]
    BY <2>4, <2>9
  <2>11. Capacity(c, n) \in n..(2 * n - 1)
    BY <1>2, <2>10 DEF Capacity
  <2> QED
    BY <1>2, <2>11
<1> QED
  BY <1>1, <1>2

\* An operation that does not fail finds on the stack what it touches.
LEMMA EnoughOnStack ==
  ASSUME prog \in Seq(Byte), Running, stack \in Seq(Word), Failure = "none"
  PROVE  /\ Touched <= Len(stack) /\ ~Traps
         /\ Op = pick => Touched = Arg.val + 1
         /\ Op = rot => Touched = 3
         /\ Op \in {over, swap} \cup BinaryOps => Touched = 2
         /\ Op \in {dup, drop, bra, stack_value} \cup UnaryOps => Touched = 1
<1>1. ~(Touched > Len(stack)) /\ ~Traps
  BY DEF Failure
<1>2. Op = pick => Touched = Arg.val + 1
  BY DEF Touched
<1>3. pick # rot /\ pick \notin {over, swap} \cup BinaryOps
      /\ pick \notin {dup, drop, bra, stack_value} \cup UnaryOps
  BY DEF pick, rot, over, swap, dup, drop, bra, stack_value, UnaryOps, BinaryOps,
         Relations, deref, abs, neg, not_, plus_uconst, deref_size,
         form_tls_address, eq, ge, gt, le, lt, ne, xderef, xderef_size, and_, div,
         minus, mod, mul, or_, plus, shl, shr, shra, xor_
<1>4. Op = rot => Touched = 3
  BY <1>3 DEF Touched
<1>5. Op \in {over, swap} \cup BinaryOps => Touched = 2
  BY <1>3, GroupsDisjoint DEF Touched
<1>6. Op \in {dup, drop, bra, stack_value} \cup UnaryOps => Touched = 1
  BY <1>3, GroupsDisjoint DEF Touched
<1>7. Touched \in Int
  BY <1>2, OperationIs DEF Touched
<1>8. Touched <= Len(stack)
  BY <1>1, <1>7
<1> QED
  BY <1>1, <1>2, <1>4, <1>5, <1>6, <1>8

\* The inductive invariant: the capacity, which doubles, is never 0.
Typed == TypeOK /\ cap # 0

\* What an operation finds on the stack, and what it leaves.
LEMMA StackIs ==
  ASSUME stack \in Seq(Word)
  PROVE  /\ \A n \in Nat : n < Len(stack) => Top(n) \in Word
         /\ \A n \in Nat : n <= Len(stack) =>
              Below(n) \in Seq(Word) /\ Len(Below(n)) = Len(stack) - n
<1>1. ASSUME NEW n \in Nat, n < Len(stack) PROVE Top(n) \in Word
  <2>1. Len(stack) - n \in 1..Len(stack)
    BY <1>1
  <2> QED
    BY <2>1 DEF Top
<1>2. ASSUME NEW n \in Nat, n <= Len(stack)
      PROVE  Below(n) \in Seq(Word) /\ Len(Below(n)) = Len(stack) - n
  <2>1. Len(stack) - n \in 0..Len(stack)
    BY <1>2
  <2>2. \A k \in 0..Len(stack) :
          SubSeq(stack, 1, k) \in Seq(Word) /\ Len(SubSeq(stack, 1, k)) = k
    OBVIOUS
  <2> QED
    BY <2>1, <2>2 DEF Below
<1> QED
  BY <1>1, <1>2

\* The values that operations push are words.
LEMMA PushedIsWord ==
  ASSUME ContextReturnsWords, prog \in Seq(Byte), Running, Op \in Pushes
  PROVE  Pushed \in Word
<1>1. Arg.val \in Int /\ Arg2.val \in Int /\ (Op = bregx => Arg.val \in Nat)
  BY OperationIs
<1>2. \A i \in Int : ToWord(i) \in Word
  BY WordIs
<1>3. \A n \in Nat : Reg(n) \in Int
  <2>1. 0 \in Word /\ \A w \in Word : w \in Int
    BY WordIs
  <2>2. \A n \in Nat : Reg(n) \in Word
    BY <2>1, Zenon DEF ContextReturnsWords
  <2> QED
    BY <2>1, <2>2, Zenon
<1>4. CASE Op \in Literals
  <2>1. Op - lit0 \in 0..31 /\ Op \notin RegisterBased /\ Op # bregx
    BY <1>4 DEF Literals, lit0, RegisterBased, breg0, bregx
  <2>2. Pushed = Op - lit0
    BY <1>4, <2>1 DEF Pushed
  <2> QED
    BY <2>1, <2>2, WordIs
<1>5. CASE Op \in RegisterBased
  <2>1. Op - breg0 \in Nat /\ Op \notin Literals /\ Op # bregx
    BY <1>5 DEF RegisterBased, breg0, Literals, lit0, bregx
  <2>2. Pushed = ToWord(Reg(Op - breg0) + Arg.val)
    BY <1>5, <2>1 DEF Pushed
  <2>3. Reg(Op - breg0) + Arg.val \in Int
    BY <1>1, <1>3, <2>1
  <2> QED
    BY <1>2, <2>2, <2>3
<1>6. CASE Op = bregx
  <2>1. Op \notin Literals /\ Op \notin RegisterBased
    BY <1>6 DEF RegisterBased, breg0, Literals, lit0, bregx
  <2>2. Pushed = ToWord(Reg(Arg.val) + Arg2.val)
    BY <1>6, <2>1 DEF Pushed
  <2>3. Reg(Arg.val) + Arg2.val \in Int
    BY <1>1, <1>3, <1>6
  <2> QED
    BY <1>2, <2>2, <2>3
<1>7. CASE Op \notin Literals /\ Op \notin RegisterBased /\ Op # bregx
  <2>1. Pushed = ToWord(Arg.val)
    BY <1>7 DEF Pushed
  <2> QED
    BY <1>1, <1>2, <2>1
<1> QED
  BY <1>4, <1>5, <1>6, <1>7

\* A call that ends leaves nothing behind.
LEMMA EndIsTyped ==
  ASSUME Typed, NEW how \in Ended, End(how),
         kind' \in {"address", "reg", "literal", "implicit", "empty"}, value' \in Word
  PROVE  Typed'
<1>1. <<>> \in Seq(Word) /\ Len(<<>>) = 0
  OBVIOUS
<1> QED
  BY <1>1, WordAssumption DEF Typed, TypeOK, End, Word

LEMMA FailIsTyped ==
  ASSUME Typed, NEW how \in Ended, Fail(how)
  PROVE  Typed'
<1>1. 0 \in Word
  BY WordIs
<1> QED
  BY <1>1, EndIsTyped DEF Fail

LEMMA StartIsTyped ==
  ASSUME Typed, Start
  PROVE  Typed'
<1>1. CASE args = <<>> /\ Fail("trap")
  BY <1>1, FailIsTyped DEF Ended
<1>2. CASE End("done") /\ kind' = "empty" /\ value' = 0
  <2>1. 0 \in Word
    BY WordIs
  <2> QED
    BY <1>2, <2>1, EndIsTyped DEF Ended
<1>3. CASE /\ pc' = "run"
           /\ stack' = [i \in 1..Len(args) |-> args[Len(args) + 1 - i]]
           /\ cap' = Capacity(StackMin, Len(args))
           /\ UNCHANGED <<prog, args, ctx, pos, kind, value>>
  <2>1. args \in Seq(Word) /\ Len(args) \in Nat
    BY DEF Typed, TypeOK
  <2>2. \A i \in 1..Len(args) : args[Len(args) + 1 - i] \in Word
    <3> SUFFICES ASSUME NEW i \in 1..Len(args) PROVE args[Len(args) + 1 - i] \in Word
      OBVIOUS
    <3>1. Len(args) + 1 - i \in 1..Len(args)
      BY <2>1
    <3> QED
      BY <2>1, <3>1
  <2>3. stack' \in Seq(Word) /\ Len(stack') = Len(args)
    BY <1>3, <2>1, <2>2
  <2>4. cap' \in Nat \ {0} /\ cap' >= Len(args)
    BY <1>3, <2>1, CapacityIs, WordAssumption
  <2> QED
    BY <1>3, <2>3, <2>4 DEF Typed, TypeOK
<1> QED
  BY <1>1, <1>2, <1>3 DEF Start

\* A step that rearranges the stack, which does not grow, keeps the types.
LEMMA StepIsTyped ==
  ASSUME Typed, Step, stack' \in Seq(Word), Len(stack') <= cap', cap' \in Nat \ {0},
         pos' \in Int, value' \in Word,
         kind' \in {"address", "reg", "literal", "implicit", "empty"}
  PROVE  Typed'
  BY DEF Typed, TypeOK, Step

LEMMA PushIsTyped ==
  ASSUME Typed, Step, NEW x \in Word, stack' = Append(stack, x),
         cap' = Capacity(cap, Len(stack) + 1), pos' = Next_, UNCHANGED <<kind, value>>
  PROVE  Typed'
<1>1. stack \in Seq(Word) /\ cap \in Nat \ {0} /\ Len(stack) \in Nat
  BY DEF Typed, TypeOK
<1>2. stack' \in Seq(Word) /\ Len(stack') = Len(stack) + 1
  BY <1>1
<1>3. cap' \in Nat \ {0} /\ cap' >= Len(stack) + 1
  BY <1>1, CapacityIs
<1>4. pos' \in Int
  BY NextBehind DEF Typed, TypeOK, Step
<1> QED
  BY <1>1, <1>2, <1>3, <1>4, StepIsTyped DEF Typed, TypeOK

\* The invariant is inductive: every action keeps words on the stack.
LEMMA TypesInvariance ==
  ASSUME ContextReturnsWords, Typed, [Evaluate]_vars
  PROVE  Typed'
<1>1. /\ prog \in Seq(Byte) /\ stack \in Seq(Word) /\ Len(stack) \in Nat
      /\ cap \in Nat \ {0} /\ Len(stack) <= cap /\ value \in Word
      /\ kind \in {"address", "reg", "literal", "implicit", "empty"} /\ pos \in Int
  BY DEF Typed, TypeOK
<1>2. /\ \A n \in Nat : n < Len(stack) => Top(n) \in Word
      /\ \A n \in Nat : n <= Len(stack) =>
           Below(n) \in Seq(Word) /\ Len(Below(n)) = Len(stack) - n
  BY <1>1, StackIs
<1>3. ASSUME Step
      PROVE  /\ Arg.val \in Int /\ Next_ \in Int
             /\ Op \in {pick, deref_size, xderef_size, plus_uconst, bregx}
                         \cup BinaryOps \cup UnaryOps => Arg.val \in Nat
             /\ Touched <= Len(stack) /\ ~Traps
             /\ Op = pick => Touched = Arg.val + 1
             /\ Op = rot => Touched = 3
             /\ Op \in {over, swap} \cup BinaryOps => Touched = 2
             /\ Op \in {dup, drop, bra, stack_value} \cup UnaryOps => Touched = 1
  BY <1>1, <1>3, OperationIs, EnoughOnStack DEF Step
<1>4. CASE Start
  BY <1>4, StartIsTyped
<1>5. CASE StepFails
  <2>1. Failure \in Ended /\ Fail(Failure)
    BY <1>5 DEF StepFails, Failure, Ended
  <2> QED
    BY <2>1, FailIsTyped
<1>6. CASE StepPush
  <2>1. Pushed \in Word
    BY <1>1, <1>6, PushedIsWord DEF StepPush, Step
  <2> QED
    BY <1>6, <2>1, PushIsTyped DEF StepPush, Push
<1>7. CASE StepPushOwn
  <2>1. Step
    BY <1>7 DEF StepPushOwn
  <2>2. Top(CASE Op = dup -> 0 [] Op = over -> 1 [] Op = pick -> Arg.val) \in Word
    <3>1. CASE Op = dup
      BY <1>1, <1>2, <1>3, <2>1, <3>1
    <3>2. CASE Op = over
      <4>1. Op # dup
        BY <3>2 DEF over, dup
      <4> QED
        BY <1>1, <1>2, <1>3, <2>1, <3>2, <4>1
    <3>3. CASE Op = pick
      <4>1. Op # dup /\ Op # over
        BY <3>3 DEF over, dup, pick
      <4>2. Arg.val \in Nat /\ Arg.val < Len(stack)
        BY <1>1, <1>3, <2>1, <3>3
      <4> QED
        BY <1>2, <3>3, <4>1, <4>2
    <3> QED
      BY <1>7, <3>1, <3>2, <3>3 DEF StepPushOwn
  <2>3. PICK y \in Word : stack' = Append(stack, y)
    BY <1>7, <2>2 DEF StepPushOwn, PushOwn
  <2> QED
    BY <1>7, <2>1, <2>3, PushIsTyped DEF StepPushOwn, PushOwn
<1>8. CASE StepRearrange
  <2>1. Step /\ pos' = Next_ /\ UNCHANGED <<cap, kind, value>>
    BY <1>8 DEF StepRearrange
  <2>2. stack' \in Seq(Word) /\ Len(stack') <= Len(stack)
    <3>1. CASE Op = drop /\ stack' = Below(1)
      BY <1>1, <1>2, <1>3, <2>1, <3>1
    <3>2. CASE Op = swap /\ stack' = Below(2) \o <<Top(0), Top(1)>>
      <4>1. Touched = 2 /\ Touched <= Len(stack)
        BY <1>3, <2>1, <3>2
      <4>2. Top(0) \in Word /\ Top(1) \in Word /\ Below(2) \in Seq(Word)
            /\ Len(Below(2)) = Len(stack) - 2
        BY <1>1, <1>2, <4>1
      <4>3. <<Top(0), Top(1)>> \in Seq(Word) /\ Len(<<Top(0), Top(1)>>) = 2
        BY <4>2
      <4> QED
        BY <1>1, <3>2, <4>2, <4>3
    <3>3. CASE Op = rot /\ stack' = Below(3) \o <<Top(0), Top(2), Top(1)>>
      <4>1. Touched = 3 /\ Touched <= Len(stack)
        BY <1>3, <2>1, <3>3
      <4>2. Top(0) \in Word /\ Top(1) \in Word /\ Top(2) \in Word
            /\ Below(3) \in Seq(Word) /\ Len(Below(3)) = Len(stack) - 3
        BY <1>1, <1>2, <4>1
      <4>3. <<Top(0), Top(2), Top(1)>> \in Seq(Word) /\ Len(<<Top(0), Top(2), Top(1)>>) = 3
        BY <4>2
      <4> QED
        BY <1>1, <3>3, <4>2, <4>3
    <3> QED
      BY <1>8, <3>1, <3>2, <3>3 DEF StepRearrange
  <2>3. Len(stack') <= cap' /\ cap' \in Nat \ {0} /\ pos' \in Int /\ value' \in Word
    BY <1>1, <1>3, <2>1, <2>2
  <2> QED
    BY <1>1, <2>1, <2>2, <2>3, StepIsTyped
<1>9. CASE StepOperator
  <2>1. Step /\ pos' = Next_ /\ UNCHANGED <<cap, kind, value>>
    BY <1>9 DEF StepOperator
  <2>2. stack' \in Seq(Word) /\ Len(stack') <= Len(stack)
    <3>1. CASE Op \in UnaryOps /\ stack' = Append(Below(1), Unary(Top(0), Arg.val))
      <4>1. Touched = 1 /\ Touched <= Len(stack) /\ Arg.val \in Nat
        BY <1>3, <2>1, <3>1
      <4>2. Top(0) \in Word /\ Below(1) \in Seq(Word) /\ Len(Below(1)) = Len(stack) - 1
        BY <1>1, <1>2, <4>1
      <4>3. Unary(Top(0), Arg.val) \in Word
        BY <3>1, <4>1, <4>2, UnaryIsWord
      <4> QED
        BY <1>1, <3>1, <4>2, <4>3
    <3>2. CASE Op \in BinaryOps
               /\ stack' = Append(Below(2), Binary(Top(1), Top(0), Arg.val))
      <4>1. Touched = 2 /\ Touched <= Len(stack) /\ Arg.val \in Nat
        BY <1>3, <2>1, <3>2
      <4>2. Top(0) \in Word /\ Top(1) \in Word
            /\ Below(2) \in Seq(Word) /\ Len(Below(2)) = Len(stack) - 2
        BY <1>1, <1>2, <4>1
      <4>3. (Op = mod => Top(0) # 0) /\ (Op = div => Top(1) # 0)
        BY <1>3, <2>1 DEF Traps
      <4>4. Binary(Top(1), Top(0), Arg.val) \in Word
        BY <3>2, <4>1, <4>2, <4>3, BinaryIsWord
      <4> QED
        BY <1>1, <3>2, <4>2, <4>4
    <3> QED
      BY <1>9, <3>1, <3>2 DEF StepOperator
  <2>3. Len(stack') <= cap' /\ cap' \in Nat \ {0} /\ pos' \in Int /\ value' \in Word
    BY <1>1, <1>3, <2>1, <2>2
  <2> QED
    BY <1>1, <2>1, <2>2, <2>3, StepIsTyped
<1>10. CASE StepJump
  <2>1. Step /\ UNCHANGED <<cap, kind, value>>
    BY <1>10 DEF StepJump
  <2>2. pos' \in Int
    BY <1>3, <1>10, <2>1 DEF StepJump
  <2>3. stack' \in Seq(Word) /\ Len(stack') <= Len(stack)
    <3>1. CASE Op = skip /\ UNCHANGED stack
      BY <1>1, <3>1
    <3>2. CASE Op = bra /\ stack' = Below(1)
      BY <1>1, <1>2, <1>3, <2>1, <3>2
    <3> QED
      BY <1>10, <3>1, <3>2 DEF StepJump
  <2>4. Len(stack') <= cap' /\ cap' \in Nat \ {0} /\ value' \in Word
    BY <1>1, <2>1, <2>3
  <2> QED
    BY <1>1, <2>1, <2>2, <2>3, <2>4, StepIsTyped
<1>11. CASE StepLocation
  <2>1. Step /\ pos' = Next_ /\ UNCHANGED <<stack, cap>>
    BY <1>11 DEF StepLocation
  <2>2. value' \in Word /\ kind' \in {"address", "reg", "literal", "implicit", "empty"}
    <3>1. CASE Op = nop /\ UNCHANGED <<kind, value>>
      BY <1>1, <3>1
    <3>2. CASE Op \in RegisterLocations /\ kind' = "reg" /\ value' = Op - reg0
      <4>1. Op - reg0 \in 0..31
        BY <3>2 DEF RegisterLocations, reg0
      <4> QED
        BY <3>2, <4>1, WordIs
    <3>3. CASE kind' \in {"reg", "implicit"} /\ value' = ToWord(Arg.val)
      BY <1>3, <2>1, <3>3, WordIs
    <3>4. CASE Op = stack_value /\ kind' = "literal" /\ value' = Top(0)
      BY <1>1, <1>2, <1>3, <2>1, <3>4
    <3> QED
      BY <1>11, <3>1, <3>2, <3>3, <3>4 DEF StepLocation
  <2>3. Len(stack') <= cap' /\ cap' \in Nat \ {0} /\ pos' \in Int /\ stack' \in Seq(Word)
    BY <1>1, <1>3, <2>1
  <2> QED
    BY <2>1, <2>2, <2>3, StepIsTyped
<1>12. CASE Finish
  <2>1. CASE kind # "address" /\ End("done") /\ UNCHANGED <<kind, value>>
    BY <1>1, <2>1, EndIsTyped DEF Ended
  <2>2. CASE stack # <<>> /\ End("done") /\ value' = Top(0) /\ UNCHANGED kind
    <3>1. 0 < Len(stack)
      BY <1>1, <2>2
    <3> QED
      BY <1>1, <1>2, <2>2, <3>1, EndIsTyped DEF Ended
  <2>3. CASE Fail("expr_error")
    BY <2>3, FailIsTyped DEF Ended
  <2> QED
    BY <1>12, <2>1, <2>2, <2>3 DEF Finish
<1>13. CASE RunsAway
  BY <1>13, FailIsTyped DEF RunsAway, Ended
<1>14. CASE UNCHANGED vars
  BY <1>14 DEF vars, Typed, TypeOK
<1> QED
  BY <1>4, <1>5, <1>6, <1>7, <1>8, <1>9, <1>10, <1>11, <1>12, <1>13, <1>14 DEF Evaluate

\* For every expression, argument list, width of words and context whose methods
\* return words: the stack holds words, as many as its memory has room for, and
\* the result is a word, whatever the operators compute (expr.cc:74-421).
THEOREM TypeCorrect == ASSUME ContextReturnsWords PROVE Spec => []TypeOK
<1>1. Init => Typed
  <2> SUFFICES ASSUME Init PROVE Typed
    OBVIOUS
  <2>1. prog \in Seq(Byte) /\ args \in Seq(Word) /\ 0 \in Word
    BY ExpressionsAssumption, ArgumentsAssumption, WordIs DEF Init, Byte
  <2>2. <<>> \in Seq(Word) /\ Len(<<>>) = 0 /\ StackMin \in Nat \ {0}
    BY WordAssumption
  <2> QED
    BY <2>1, <2>2 DEF Init, Typed, TypeOK
<1>2. Typed /\ [Evaluate]_vars => Typed'
  BY TypesInvariance
<1>3. Typed => TypeOK
  BY DEF Typed
<1> QED
  BY <1>1, <1>2, <1>3, PTL DEF Spec
=============================================================================
