------------------------------- MODULE MCExpr -------------------------------
(***************************************************************************)
(* TLC instances of Expr.                                                  *)
(*                                                                         *)
(* The expressions are compiled from terms, as a compiler would do it, and *)
(* the terms also have a value, defined over integers without a stack, a   *)
(* cursor or a code: evaluation has to agree with it.  Short sequences of  *)
(* arbitrary bytes, most of them not sensible at all, come on top.         *)
(***************************************************************************)
EXTENDS Expr, TLC

MCReg(n) == (37 * n + 5) % M
MCDeref(a, size) == (a * 3 + size) % M
MCXDeref(a, asid, size) == (a + 16 * asid + size) % M
MCTls(a) == (a + 100) % M

-----------------------------------------------------------------------------
(* Terms.                                                                  *)

Lit(n) == [op |-> "lit", n |-> n]
ArgumentTerm(i) == [op |-> "arg", n |-> i]
RegTerm(r, off) == [op |-> "reg", r |-> r, n |-> off]
Un(o, t) == [op |-> "un", o |-> o, t |-> t]
Bin(o, s, t) == [op |-> "bin", o |-> o, s |-> s, t |-> t]
If(c, s, t) == [op |-> "if", c |-> c, s |-> s, t |-> t]

\* The shortest constant operation for n, or the one that has it sign extended.
CompileLit(n) ==
  IF n \in 0..31 THEN <<lit0 + n>>
  ELSE IF n \in -128..-1 THEN <<const1s, n + 256>>
  ELSE IF n < -128 THEN <<consts, ((n + 16384) % 128) + 128, (n + 16384) \div 128>>
  ELSE IF n < 256 THEN <<const1u, n>>
  ELSE IF n < 1024 THEN <<const2u, n % 256, n \div 256>>
  ELSE <<constu, (n % 128) + 128, n \div 128>>

\* The bytes that push the value of t on a stack with d values on top of the
\* arguments.  The first argument is the topmost one.
RECURSIVE Compile(_, _)
Compile(t, d) ==
  CASE t.op = "lit" -> CompileLit(t.n)
    [] t.op = "arg" -> IF d + t.n = 0 THEN <<dup>> ELSE IF d + t.n = 1 THEN <<over>>
                       ELSE <<pick, d + t.n>>
    [] t.op = "reg" -> IF t.r < 32 THEN <<breg0 + t.r, t.n % 128>>
                       ELSE <<bregx, t.r, t.n % 128>>
    [] t.op = "un" -> Compile(t.t, d) \o
         (IF t.o = plus_uconst THEN <<t.o, 200, 1>>
          ELSE IF t.o = deref_size THEN <<t.o, 2>> ELSE <<t.o>>)
    [] t.op = "bin" -> Compile(t.s, d) \o Compile(t.t, d + 1) \o
         (IF t.o = xderef_size THEN <<t.o, 1>> ELSE <<t.o>>)
    [] t.op = "if" ->
         LET yes == Compile(t.s, d)
             no == Compile(t.t, d) \o <<skip, Len(yes), 0>>
         IN  Compile(t.c, d) \o <<bra, Len(no), 0>> \o no \o yes

\* The bits of two integers, least significant first, combined.
RECURSIVE Bitwise_(_, _, _, _)
Bitwise_(f, x, y, w) ==
  IF w = 0 THEN 0
  ELSE f[<<x % 2, y % 2>>] + 2 * Bitwise_(f, x \div 2, y \div 2, w - 1)
Table(S) == [p \in {0, 1} \X {0, 1} |-> IF p \in S THEN 1 ELSE 0]

\* i shifted n places to the right without a power of two.
RECURSIVE Halved(_, _)
Halved(i, n) == IF n = 0 \/ i = 0 THEN i ELSE Halved(i \div 2, n - 1)
RECURSIVE Doubled(_, _)
Doubled(i, n) == IF n = 0 \/ i = 0 THEN i ELSE Doubled(ToWord(2 * i), n - 1)

UnaryValue(o, x) ==
  CASE o = abs -> IF Signed(x) < 0 THEN ToWord(M - x) ELSE x
    [] o = neg -> ToWord(M - x)
    [] o = not_ -> ToWord(-1 - Signed(x))
    [] o = plus_uconst -> ToWord(x + 200)
    [] o = deref -> MCDeref(x, AddrSize)
    [] o = deref_size -> MCDeref(x, 2)
    [] o = form_tls_address -> MCTls(x)

\* q is i divided by j, rounded towards zero.
IsQuotient(q, i, j) ==
  LET rest == i - q * j
  IN  Magnitude(rest) < Magnitude(j) /\ (rest # 0 => (rest < 0) = (i < 0))

\* DWARF 4, 2.5.1.4: x was pushed first.
BinaryValue(o, x, y) ==
  CASE o = plus -> ToWord(Signed(x) + Signed(y))
    [] o = minus -> ToWord(Signed(x) - Signed(y))
    [] o = mul -> ToWord(Signed(x) * Signed(y))
    [] o = div -> ToWord(CHOOSE q \in -M..M : IsQuotient(q, Signed(x), Signed(y)))
    [] o = mod -> x - y * (x \div y)
    [] o = and_ -> Bitwise_(Table({<<1, 1>>}), x, y, W)
    [] o = or_ -> Bitwise_(Table({<<0, 1>>, <<1, 0>>, <<1, 1>>}), x, y, W)
    [] o = xor_ -> Bitwise_(Table({<<0, 1>>, <<1, 0>>}), x, y, W)
    [] o = shl -> Doubled(x, y)
    [] o = shr -> Halved(x, y)
    [] o = shra -> IF Signed(x) >= 0 THEN Halved(x, y)
                   ELSE ToWord(-Halved(-Signed(x), y))
    [] o = le -> IF Signed(x) <= Signed(y) THEN 1 ELSE 0
    [] o = ge -> IF Signed(x) >= Signed(y) THEN 1 ELSE 0
    [] o = xderef -> MCXDeref(y, x, AddrSize)
    [] o = xderef_size -> MCXDeref(y, x, 1)

RECURSIVE Value(_, _)
Value(t, a) ==
  CASE t.op = "lit" -> ToWord(t.n)
    [] t.op = "arg" -> a[t.n + 1]
    [] t.op = "reg" -> ToWord(MCReg(t.r) + t.n)
    [] t.op = "un" -> UnaryValue(t.o, Value(t.t, a))
    [] t.op = "bin" -> BinaryValue(t.o, Value(t.s, a), Value(t.t, a))
    [] t.op = "if" -> IF Value(t.c, a) # 0 THEN Value(t.s, a) ELSE Value(t.t, a)

-----------------------------------------------------------------------------
(* The terms of the runs.                                                  *)

Leaves == {Lit(0), Lit(3), Lit(-3), Lit(200), Lit(1000), Lit(2047), Lit(-2048),
           ArgumentTerm(0), RegTerm(2, -5)}
Few == {Lit(-3), Lit(2000), ArgumentTerm(0)}
AllBinary == {plus, minus, mul, and_, or_, xor_, shl, shr, shra, le, xderef,
              xderef_size}
AllUnary == {abs, neg, not_, plus_uconst, deref, deref_size, form_tls_address}

Simple == Leaves \cup {RegTerm(40, 7)}
          \cup {Un(o, t) : o \in AllUnary, t \in Leaves}
          \cup {Bin(o, s, t) : o \in AllBinary, s \in Leaves, t \in Leaves}
          \cup {Bin(mod, s, t) : s \in Leaves, t \in Leaves \ {Lit(0)}}
          \cup {Bin(div, s, t) : s \in Leaves \ {Lit(0)}, t \in Leaves \ {Lit(0)}}
Nested == {Bin(o, s, Bin(p, t, u)) :
             o \in {minus, shra}, p \in {minus, le}, s \in Few, t \in Few, u \in Few}
          \cup {Bin(minus, Un(neg, s), Un(abs, t)) : s \in Few, t \in Few}
Conditional == {If(Bin(le, s, t), Bin(minus, s, t), u) :
                  s \in Few, t \in Few, u \in Few}
               \cup {Bin(minus, s, If(t, s, u)) :
                       s \in Few, t \in Few \cup {Lit(0)}, u \in Few}

\* More values than fit into the object: 3 - (3 - (3 - ... a)).
RECURSIVE Chain(_)
Chain(n) == IF n = 0 THEN ArgumentTerm(0) ELSE Bin(minus, Lit(3), Chain(n - 1))
Deep == {Chain(n) : n \in 6..12}

Terms == Simple \cup Nested \cup Conditional \cup Deep
Compiled == {[term |-> t, code |-> Compile(t, 0)] : t \in Terms}

Junk == {lit0, dup, drop, over, pick, swap, rot, plus, 0, 1}
Sequences == UNION {[1..n -> Junk] : n \in 0..3}
Locations ==
  {<<reg0 + 7>>, <<regx, 200, 1>>, <<lit0 + 1, stack_value>>,
   <<implicit_value, 2, lit0, lit0>>, <<implicit_value, 0>>, <<nop>>,
   <<implicit_value, 9, nop>>, <<fbreg, 1>>, <<lo_user>>, <<255>>, <<const2u, 1>>,
   <<constu, 128>>, <<addr, 1, 2, 3, 4>>, <<const4s, 1, 2, 3, 4>>, <<const8u, 1>>,
   <<const1u, 8, deref_size, 5>>, <<skip, 0, 0>>, <<skip, 253, 255>>,
   <<skip, 252, 255>>, <<skip, 9, 0, nop>>, <<lit0, lit0, div>>, <<lit0, lit0, mod>>,
   <<rot>>, <<drop, rot>>}
  \cup {<<lit0 + n, lit0 + 1, minus, dup, bra, 250, 255>> : n \in 1..3}
AllExpressions == {c.code : c \in Compiled} \cup Sequences \cup Locations
SomeArguments == {<<>>, <<5>>, <<2040, 7>>}
AllMethods == {"reg", "deref", "xderef", "tls"}
SomeContexts == {{}, AllMethods}

\* The instance of the run that shows where operators are not what they are
\* named: 12 / 3 + (5 >= 3).
NamedTerms == {Bin(plus, Bin(div, Lit(12), Lit(3)), Bin(ge, Lit(5), Lit(3)))}
NamedExpressions == {Compile(t, 0) : t \in NamedTerms}
OneArgument == {<<5>>}

-----------------------------------------------------------------------------
(* Properties.                                                             *)

\* A division is the quotient of its two operands, one way or the other:
\* OperatorsAsNamed is about which.
HasValue(v, t, a) ==
  IF t.op = "bin" /\ t.o = div
  THEN LET i == Signed(Value(t.s, a))
           j == Signed(Value(t.t, a))
       IN  IsQuotient(Signed(v), i, j) \/ IsQuotient(Signed(v), j, i)
  ELSE v = Value(t, a)

\* Whatever term an expression was compiled from, evaluating it with at least
\* one argument returns the value of the term as an address: operators other
\* than division take their operands in order, jumps land where they should,
\* arguments are numbered from the top, and the stack stays intact when it
\* outgrows the object.  Only a context that lacks a method makes the evaluation
\* throw.  The terms compare by <= alone (expr.cc:92-355).
AgreesWithTerms ==
  pc \in Ended /\ args # <<>> =>
    \A c \in Compiled : c.code = prog =>
      \/ pc = "done" /\ kind = "address" /\ HasValue(value, c.term, args)
      \/ pc = "expr_error" /\ ctx # AllMethods

\* expr.cc:209 names section 2.5.1.4 of DWARF 4 for DW_OP_div, which divides the
\* second value from the top by the top, and expr.cc:329 instantiates SRELOP(>=)
\* for DW_OP_ge: an expression has the value that its operators are named for.
OperatorsAsNamed ==
  pc = "done" => \A t \in NamedTerms : Compile(t, 0) = prog => value = Value(t, args)
=============================================================================
