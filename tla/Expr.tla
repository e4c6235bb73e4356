-------------------------------- MODULE Expr --------------------------------
(***************************************************************************)
(* dwarf::expr::evaluate: the stack machine for DWARF expressions and      *)
(* location descriptions (DWARF 4, 2.5 and 2.6).                           *)
(*                                                                         *)
(* An expression is a sequence of bytes.  Each pass of the loop reads one  *)
(* opcode and its operands through a cursor that knows the end of the      *)
(* expression, and works on a stack of target words.  Words are W bits     *)
(* wide (64 in the code); sections are little endian.  Operands are read   *)
(* where the opcode is, so a jump into the middle of an operation executes *)
(* operand bytes as opcodes, as in the code.                               *)
(***************************************************************************)
EXTENDS Numerals, FiniteSets, Functions

CONSTANTS
  Expressions,    \* the expressions: sequences of bytes
  ArgumentLists,  \* the argument lists of the client
  W,              \* bits of a taddr
  StackMin,       \* inline capacity of the stack
  AddrSize,       \* addr_size of the section
  Contexts,       \* the expr_contexts: sets of methods that they implement
  Reg(_), Deref(_, _), XDeref(_, _, _), Tls(_)   \* ... and what they return

ASSUME WordAssumption == W \in Nat /\ W >= 8 /\ StackMin \in Nat \ {0}
ASSUME ExpressionsAssumption ==
  \A e \in Expressions : e \in Seq(0..255)
ASSUME AddrSizeAssumption == AddrSize \in {1, 2, 4, 8}
ASSUME ContextsAssumption ==
  Contexts \subseteq SUBSET {"reg", "deref", "xderef", "tls"}

Byte == 0..255
M == TwoTo[W]
Word == 0..(M - 1)
ASSUME ArgumentsAssumption == \A a \in ArgumentLists : a \in Seq(Word)

\* The methods of a context return a taddr.
ContextReturnsWords ==
  \A x, y \in Word, n \in Nat :
    Reg(n) \in Word /\ Deref(x, n) \in Word /\ XDeref(x, y, n) \in Word /\ Tls(x) \in Word

VARIABLES
  prog,    \* the expression
  args,    \* the arguments
  ctx,     \* the context
  pc,      \* "start", "run", or how the call ended
  pos,     \* the cursor: offset in the expression
  stack,   \* the stack, top last
  cap,     \* its capacity
  kind,    \* result.location_type
  value    \* result.value (of an implicit location: its length)

vars == <<prog, args, ctx, pc, pos, stack, cap, kind, value>>

\* How a call ends: it returns, throws one of three kinds of exceptions, traps,
\* or has used memory that is not part of the stack or of the expression, after
\* which anything may happen.
Ended == {"done", "expr_error", "underflow", "not_implemented", "trap", "wild"}

-----------------------------------------------------------------------------
(* DW_OP.                                                                  *)

addr == 3
deref == 6
const1u == 8
const1s == 9
const2u == 10
const2s == 11
const4u == 12
const4s == 13
const8u == 14
const8s == 15
constu == 16
consts == 17
dup == 18
drop == 19
over == 20
pick == 21
swap == 22
rot == 23
xderef == 24
abs == 25
and_ == 26
div == 27
minus == 28
mod == 29
mul == 30
neg == 31
not_ == 32
or_ == 33
plus == 34
plus_uconst == 35
shl == 36
shr == 37
shra == 38
xor_ == 39
bra == 40
eq == 41
ge == 42
gt == 43
le == 44
lt == 45
ne == 46
skip == 47
lit0 == 48
reg0 == 80
breg0 == 112
regx == 144
fbreg == 145
bregx == 146
piece == 147
deref_size == 148
xderef_size == 149
nop == 150
push_object_address == 151
call2 == 152
call4 == 153
call_ref == 154
form_tls_address == 155
call_frame_cfa == 156
bit_piece == 157
implicit_value == 158
stack_value == 159
lo_user == 224

UnaryOps == {deref, abs, neg, not_, plus_uconst, deref_size, form_tls_address}
Relations == {eq, ge, gt, le, lt, ne}
BinaryOps == {xderef, xderef_size, and_, div, minus, mod, mul, or_, plus, shl,
              shr, shra, xor_} \cup Relations
Literals == lit0..(lit0 + 31)
RegisterLocations == reg0..(reg0 + 31)
RegisterBased == breg0..(breg0 + 31)
NotImplemented == {fbreg, push_object_address, call_frame_cfa, call2, call4,
                   call_ref, piece, bit_piece}
Pushes == {addr, bregx} \cup const1u..consts \cup Literals \cup RegisterBased
Known == Pushes \cup UnaryOps \cup BinaryOps \cup RegisterLocations
         \cup {dup, drop, over, pick, swap, rot, skip, bra, regx, nop,
               implicit_value, stack_value}

-----------------------------------------------------------------------------
(* Words.                                                                  *)

ToWord(i) == i % M
Signed(x) == IF x >= M \div 2 THEN x - M ELSE x
Bits(x) == {i \in 0..(W - 1) : (x \div TwoTo[i]) % 2 = 1}
FromBits(S) == SumFunction([i \in S |-> TwoTo[i]])

\* Division of signed integers in C++ rounds towards zero.
Magnitude(i) == IF i < 0 THEN -i ELSE i
Quotient(i, j) ==
  LET q == Magnitude(i) \div Magnitude(j)
  IN  IF (i < 0) = (j < 0) THEN q ELSE -q

-----------------------------------------------------------------------------
(* The cursor.                                                             *)

Size == Len(prog)
At(p) == prog[p + 1]

\* cursor::fixed: n bytes from p on.  Bits that a word has no room for are left
\* out.  Reading past the end throws: next is then beyond the expression.
Fixed(p, n, signed) ==
  LET kept == {q \in p..(p + n - 1) : n <= 2 \/ 8 * (q - p) < W}
      v == SumFunction([q \in kept |-> At(q) * TwoTo[8 * (q - p)]])
      negative == signed /\ (n <= 2 \/ 8 * n <= W) /\ v >= TwoTo[8 * n - 1]
  IN  IF p + n > Size THEN [val |-> 0, next |-> Size + 1]
      ELSE [val |-> IF negative THEN v - TwoTo[8 * n] ELSE v, next |-> p + n]

\* cursor::uleb128 and sleb128.
Leb(p, signed) ==
  LET last == {q \in p..(Size - 1) : At(q) < 128}
      e == CHOOSE q \in last : \A r \in last : q <= r
      v == SumFunction([q \in p..e |-> (At(q) % 128) * TwoTo[7 * (q - p)]])
      shift == 7 * (e - p + 1)
      negative == signed /\ shift < W /\ At(e) % 128 >= 64
  IN  IF last = {} THEN [val |-> 0, next |-> Size + 1]
      ELSE [val |-> IF negative THEN v - TwoTo[shift] ELSE v, next |-> e + 1]

\* The first operand of op at p, and the second one of DW_OP_bregx.
Operand(op, p) ==
  CASE op \in {const1u, pick, deref_size, xderef_size} -> Fixed(p, 1, FALSE)
    [] op = const1s -> Fixed(p, 1, TRUE)
    [] op = const2u -> Fixed(p, 2, FALSE)
    [] op \in {const2s, skip, bra} -> Fixed(p, 2, TRUE)
    [] op = const4u -> Fixed(p, 4, FALSE)
    [] op = const4s -> Fixed(p, 4, TRUE)
    [] op = const8u -> Fixed(p, 8, FALSE)
    [] op = const8s -> Fixed(p, 8, TRUE)
    [] op = addr -> Fixed(p, AddrSize, FALSE)
    [] op \in {constu, plus_uconst, regx, bregx, implicit_value} -> Leb(p, FALSE)
    [] op = consts \/ op \in RegisterBased -> Leb(p, TRUE)
    [] OTHER -> [val |-> 0, next |-> p]

\* The operation at the cursor.
Op == At(pos)
Arg == Operand(Op, pos + 1)
Arg2 == IF Op = bregx THEN Leb(Arg.next, TRUE) ELSE Arg
Next_ == Arg2.next

\* Throws: an operand, or the block of an implicit value, is cut off.
Truncated ==
  \/ Next_ > Size
  \/ Op = implicit_value /\ (Next_ = Size \/ Next_ + Arg.val > Size)

-----------------------------------------------------------------------------
(* The stack.                                                              *)

Top(n) == stack[Len(stack) - n]
Below(n) == SubSeq(stack, 1, Len(stack) - n)

\* Mutant: DW_OP_rot with the check of DW_OP_swap.
Checked_RotAsSwap ==
  IF Op = pick THEN Arg.val
  ELSE IF Op \in {over, swap, rot} \cup BinaryOps THEN 2
  ELSE IF Op \in {dup, drop, bra, stack_value} \cup UnaryOps THEN 1
  ELSE 0

\* CHECK and CHECKN: how many values the code makes sure are there ...
Checked ==
  IF Op = pick THEN Arg.val
  ELSE IF Op = rot THEN 3
  ELSE IF Op \in {over, swap} \cup BinaryOps THEN 2
  ELSE IF Op \in {dup, drop, bra, stack_value} \cup UnaryOps THEN 1
  ELSE 0

\* ... and how far down the operation reaches.
Touched ==
  IF Op = pick THEN Arg.val + 1
  ELSE IF Op = rot THEN 3
  ELSE IF Op \in {over, swap} \cup BinaryOps THEN 2
  ELSE IF Op \in {dup, drop, bra, stack_value} \cup UnaryOps THEN 1
  ELSE 0

\* Mutant: push_back without reserve().
Capacity_Fixed(c, n) == c

\* small_vector::reserve: the capacity doubles until n values fit.
Capacity(c, n) ==
  IF n <= c THEN c
  ELSE CHOOSE t \in n..(2 * n - 1) : \E k \in 0..n : t = c * TwoTo[k]

\* push_back of a value that is not on the stack.
Push(x) ==
  /\ stack' = Append(stack, x)
  /\ cap' = Capacity(cap, Len(stack) + 1)

\* push_back of a reference to a value on the stack.  If that has to replace a
\* block on the heap it reads the value from the deleted block.
PushOwn(x) ==
  /\ \E y \in IF Len(stack) = cap /\ cap > StackMin THEN Word ELSE {x} :
       stack' = Append(stack, y)
  /\ cap' = Capacity(cap, Len(stack) + 1)

-----------------------------------------------------------------------------
(* Operations.                                                             *)

\* x is on top and a the operand.  Negating the least integer yields itself.
Unary(x, a) ==
  CASE Op = abs -> ToWord(Magnitude(Signed(x)))
    [] Op = neg -> ToWord(-x)
    [] Op = not_ -> M - 1 - x
    [] Op = plus_uconst -> ToWord(x + a)
    [] Op = deref -> Deref(x, AddrSize)
    [] Op = deref_size -> Deref(x, a)
    [] Op = form_tls_address -> Tls(x)

\* DW_OP_shra shifts the magnitude.
ShiftRightArithmetic(x, y) ==
  LET q == IF y < W THEN Magnitude(Signed(x)) \div TwoTo[y] ELSE 0
  IN  ToWord(IF Signed(x) < 0 THEN -q ELSE q)

\* Mutant: the operands of DW_OP_minus the wrong way round.
Binary_Swapped(x, y, a) ==
  CASE Op = and_ -> FromBits(Bits(x) \cap Bits(y))
    [] Op = or_ -> FromBits(Bits(x) \cup Bits(y))
    [] Op = xor_ -> FromBits((Bits(x) \cup Bits(y)) \ (Bits(x) \cap Bits(y)))
    [] Op = plus -> ToWord(x + y)
    [] Op = minus -> ToWord(y - x)
    [] Op = mul -> ToWord(x * y)
    [] Op = div -> ToWord(Quotient(Signed(y), Signed(x)))
    [] Op = mod -> x % y
    [] Op = shl -> IF y < W THEN ToWord(x * TwoTo[y]) ELSE 0
    [] Op = shr -> IF y < W THEN x \div TwoTo[y] ELSE 0
    [] Op = shra -> ShiftRightArithmetic(x, y)
    [] Op \in Relations -> IF Signed(x) <= Signed(y) THEN 1 ELSE 0
    [] Op = xderef -> XDeref(y, x, AddrSize)
    [] Op = xderef_size -> XDeref(y, x, a)

\* y is on top, x below it.  DW_OP_div divides y by x, and all relations are
\* evaluated as <=, whatever SRELOP is given.
Binary(x, y, a) ==
  CASE Op = and_ -> FromBits(Bits(x) \cap Bits(y))
    [] Op = or_ -> FromBits(Bits(x) \cup Bits(y))
    [] Op = xor_ -> FromBits((Bits(x) \cup Bits(y)) \ (Bits(x) \cap Bits(y)))
    [] Op = plus -> ToWord(x + y)
    [] Op = minus -> ToWord(x - y)
    [] Op = mul -> ToWord(x * y)
    [] Op = div -> ToWord(Quotient(Signed(y), Signed(x)))
    [] Op = mod -> x % y
    [] Op = shl -> IF y < W THEN ToWord(x * TwoTo[y]) ELSE 0
    [] Op = shr -> IF y < W THEN x \div TwoTo[y] ELSE 0
    [] Op = shra -> ShiftRightArithmetic(x, y)
    [] Op \in Relations -> IF Signed(x) <= Signed(y) THEN 1 ELSE 0
    [] Op = xderef -> XDeref(y, x, AddrSize)
    [] Op = xderef_size -> XDeref(y, x, a)

\* The processor traps a division by zero, and the one that overflows.
Traps ==
  \/ Op = mod /\ Top(0) = 0
  \/ Op = div /\ \/ Top(1) = 0
                 \/ Top(0) = M \div 2 /\ Top(1) = M - 1

\* The method of the context that an operation calls.
Needs ==
  CASE Op \in RegisterBased \cup {bregx} -> {"reg"}
    [] Op \in {deref, deref_size} -> {"deref"}
    [] Op \in {xderef, xderef_size} -> {"xderef"}
    [] Op = form_tls_address -> {"tls"}
    [] OTHER -> {}

\* The value a push operation pushes.
Pushed ==
  CASE Op \in Literals -> Op - lit0
    [] Op \in RegisterBased -> ToWord(Reg(Op - breg0) + Arg.val)
    [] Op = bregx -> ToWord(Reg(Arg.val) + Arg2.val)
    [] OTHER -> ToWord(Arg.val)

-----------------------------------------------------------------------------
(* The evaluation.                                                         *)

Init ==
  /\ prog \in Expressions /\ args \in ArgumentLists /\ ctx \in Contexts
  /\ pc = "start" /\ pos = 0 /\ stack = <<>> /\ cap = StackMin
  /\ kind = "address" /\ value = 0

End(how) ==
  /\ pc' = how
  /\ pos' = 0 /\ stack' = <<>> /\ cap' = StackMin
  /\ UNCHANGED <<prog, args, ctx>>
Fail(how) == End(how) /\ kind' = "address" /\ value' = 0

\* The arguments are pushed from the last to the first.  The list of no
\* arguments is a null pointer and the loop, which counts down from the last
\* argument, starts before it: end() - 1 >= begin() wraps around and the first
\* read faults.  An empty expression is a result of its own.
Start ==
  /\ pc = "start"
  /\ \/ args = <<>> /\ Fail("trap")
     \/ /\ args # <<>> /\ prog = <<>>
        /\ End("done") /\ kind' = "empty" /\ value' = 0
     \/ /\ args # <<>> /\ prog # <<>>
        /\ pc' = "run"
        /\ stack' = [i \in 1..Len(args) |-> args[Len(args) + 1 - i]]
        /\ cap' = Capacity(StackMin, Len(args))
        /\ UNCHANGED <<prog, args, ctx, pos, kind, value>>

Running == pc = "run" /\ pos \in 0..(Size - 1)

\* The operation throws or goes wrong.  The conditions are in the order in
\* which the code meets them.
Failure ==
  IF Op \in NotImplemented THEN "not_implemented"
  ELSE IF Op \notin Known THEN "expr_error"
  ELSE IF Truncated THEN "underflow"
  ELSE IF Op \in {deref_size, xderef_size} /\ Arg.val > AddrSize THEN "expr_error"
  ELSE IF Checked > Len(stack) THEN "expr_error"
  ELSE IF Touched > Len(stack) THEN "wild"
  ELSE IF ~(Needs \subseteq ctx) THEN "expr_error"
  ELSE IF Traps THEN "trap"
  ELSE "none"

StepFails ==
  /\ Running /\ Failure # "none"
  /\ Fail(Failure)

Step == Running /\ Failure = "none" /\ UNCHANGED <<prog, args, ctx, pc>>

StepPush ==
  /\ Step /\ Op \in Pushes
  /\ Push(Pushed)
  /\ pos' = Next_ /\ UNCHANGED <<kind, value>>

StepPushOwn ==
  /\ Step /\ Op \in {dup, over, pick}
  /\ PushOwn(Top(CASE Op = dup -> 0 [] Op = over -> 1 [] Op = pick -> Arg.val))
  /\ pos' = Next_ /\ UNCHANGED <<kind, value>>

\* DW_OP_drop, swap, rot.
StepRearrange ==
  /\ Step
  /\ \/ Op = drop /\ stack' = Below(1)
     \/ Op = swap /\ stack' = Below(2) \o <<Top(0), Top(1)>>
     \/ Op = rot /\ stack' = Below(3) \o <<Top(0), Top(2), Top(1)>>
  /\ pos' = Next_ /\ UNCHANGED <<cap, kind, value>>

StepOperator ==
  /\ Step
  /\ \/ /\ Op \in UnaryOps
        /\ stack' = Append(Below(1), Unary(Top(0), Arg.val))
     \/ /\ Op \in BinaryOps
        /\ stack' = Append(Below(2), Binary(Top(1), Top(0), Arg.val))
  /\ pos' = Next_ /\ UNCHANGED <<cap, kind, value>>

\* Mutant: offsets count from the opcode.
StepJump_FromOpcode ==
  /\ Step
  /\ \/ Op = skip /\ pos' = pos + Arg.val /\ UNCHANGED stack
     \/ /\ Op = bra /\ stack' = Below(1)
        /\ pos' = IF Top(0) # 0 THEN pos + Arg.val ELSE Next_
  /\ UNCHANGED <<cap, kind, value>>

\* DW_OP_skip and bra count from the end of the operation.
StepJump ==
  /\ Step
  /\ \/ Op = skip /\ pos' = Next_ + Arg.val /\ UNCHANGED stack
     \/ /\ Op = bra /\ stack' = Below(1)
        /\ pos' = IF Top(0) # 0 THEN Next_ + Arg.val ELSE Next_
  /\ UNCHANGED <<cap, kind, value>>

\* Location descriptions, and DW_OP_nop.  The block of an implicit value is
\* not skipped: its bytes are executed next.
StepLocation ==
  /\ Step
  /\ \/ Op = nop /\ UNCHANGED <<kind, value>>
     \/ Op \in RegisterLocations /\ kind' = "reg" /\ value' = Op - reg0
     \/ Op = regx /\ kind' = "reg" /\ value' = ToWord(Arg.val)
     \/ Op = implicit_value /\ kind' = "implicit" /\ value' = ToWord(Arg.val)
     \/ Op = stack_value /\ kind' = "literal" /\ value' = Top(0)
  /\ pos' = Next_ /\ UNCHANGED <<stack, cap>>

\* The end of the expression, or a jump beyond it: an address is taken from the
\* stack, other results are there.
Finish ==
  /\ pc = "run" /\ pos >= Size
  /\ \/ /\ kind # "address" /\ End("done") /\ UNCHANGED <<kind, value>>
     \/ /\ kind = "address" /\ stack # <<>>
        /\ End("done") /\ value' = Top(0) /\ UNCHANGED kind
     \/ kind = "address" /\ stack = <<>> /\ Fail("expr_error")

\* A jump to before the expression: the bytes there are executed.
RunsAway == pc = "run" /\ pos < 0 /\ Fail("wild")

Evaluate ==
  \/ Start \/ StepFails \/ StepPush \/ StepPushOwn \/ StepRearrange
  \/ StepOperator \/ StepJump \/ StepLocation \/ Finish \/ RunsAway

\* The loop runs in the calling thread until it ends.
Spec == Init /\ [][Evaluate]_vars /\ WF_vars(Evaluate)

-----------------------------------------------------------------------------
(* Properties.                                                             *)

\* Types: whatever the operators do, the stack holds words and fits its memory.
TypeOK ==
  /\ prog \in Seq(Byte) /\ args \in Seq(Word) /\ ctx \in Contexts
  /\ pc \in {"start", "run"} \cup Ended
  /\ pos \in Int
  /\ stack \in Seq(Word) /\ cap \in Nat /\ Len(stack) <= cap
  /\ kind \in {"address", "reg", "literal", "implicit", "empty"}
  /\ value \in Word

\* The checks of the operations keep them on the stack and in the expression:
\* only DW_OP_pick, whose check is one short, and jumps can leave either
\* (expr.cc CHECK, CHECKN; every operation that pops or rearranges).
ChecksSuffice ==
  pc = "wild" => \E i \in DOMAIN prog : prog[i] \in {pick, skip, bra}

\* Evaluation of an expression without backward jumps ends.
OnlyForward ==
  \A i \in DOMAIN prog : prog[i] \notin {skip, bra}
                         \/ (i + 2 \in DOMAIN prog => prog[i + 2] < 128)
Terminates == OnlyForward ~> pc \in Ended
=============================================================================
