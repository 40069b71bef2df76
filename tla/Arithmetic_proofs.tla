--------------------------- MODULE Arithmetic_proofs ---------------------------
(***************************************************************************)
(* What Arithmetic promises is all there is to know: two processors that   *)
(* keep the promise, whatever they are made of, and execute the same       *)
(* instructions have the same registers and flags after every one of them. *)
(***************************************************************************)
EXTENDS Alu_proofs

\* The second processor.
VARIABLES regs2, flags2, instr2, status2
B == INSTANCE Arithmetic WITH
         regs <- regs2, flags <- flags2, instr <- instr2, status <- status2

Alike == regs2 = regs /\ flags2 = flags /\ instr2 = instr /\ status2 = status

Files == regs \in [Regs -> Word] /\ regs2 \in [Regs -> Word]

-----------------------------------------------------------------------------
(* Both promises say the same.                                             *)

LEMMA SameWords ==
    ASSUME NEW n, NEW s
    PROVE  /\ B!Limit(s) = A!Limit(s) /\ B!Bits(s) = A!Bits(s)
           /\ B!Natural(n, s) = A!Natural(n, s) /\ B!Integer(n, s) = A!Integer(n, s)
           /\ B!InRange(n, s) = A!InRange(n, s)
           /\ B!Negative(n, s) = A!Negative(n, s) /\ B!Zero(n, s) = A!Zero(n, s)
           /\ B!Magnitude(n) = A!Magnitude(n) /\ B!Smaller(n, s) = A!Smaller(n, s)
<1>1. B!Limit(s) = A!Limit(s) /\ B!Bits(s) = A!Bits(s)
  BY DEF B!Limit, A!Limit, B!Bits, A!Bits
<1>2. B!Natural(n, s) = A!Natural(n, s)
  BY <1>1 DEF B!Natural, A!Natural
<1>3. B!Integer(n, s) = A!Integer(n, s)
  BY <1>1, <1>2 DEF B!Integer, A!Integer
<1>4. /\ B!InRange(n, s) = A!InRange(n, s)
      /\ B!Negative(n, s) = A!Negative(n, s) /\ B!Zero(n, s) = A!Zero(n, s)
  BY <1>1, <1>2, <1>3
  DEF B!InRange, A!InRange, B!Negative, A!Negative, B!Zero, A!Zero
<1>5. B!Magnitude(n) = A!Magnitude(n) /\ B!Smaller(n, s) = A!Smaller(n, s)
  BY DEF B!Magnitude, A!Magnitude, B!Smaller, A!Smaller
<1> QED
  BY <1>1, <1>2, <1>3, <1>4, <1>5

LEMMA SameOperands ==
    ASSUME Alike, NEW b, NEW v, NEW s
    PROVE  /\ B!Second(b) = A!Second(b) /\ B!Movable(b) = A!Movable(b)
           /\ B!CarryIn = A!CarryIn /\ B!Operand(v, s) = A!Operand(v, s)
           /\ B!Amount(s) = A!Amount(s) /\ B!Reported(v, s) = A!Reported(v, s)
           /\ B!Fits(v, s) = A!Fits(v, s)
           /\ B!Shown = A!Shown
<1>1. B!TooFar(b) = A!TooFar(b)
  BY SameWords DEF B!TooFar, A!TooFar
<1>2. B!Second(b) = A!Second(b) /\ B!Movable(b) = A!Movable(b)
  BY <1>1, SameWords DEF Alike, B!Second, A!Second, B!Movable, A!Movable
<1>3. B!CarryIn = A!CarryIn /\ B!Operand(v, s) = A!Operand(v, s)
  BY SameWords DEF Alike, B!CarryIn, A!CarryIn, B!Operand, A!Operand
<1>4. B!Amount(s) = A!Amount(s)
  BY SameWords DEF Alike, B!Amount, A!Amount
<1>5. B!Reported(v, s) = A!Reported(v, s)
  BY SameWords DEF Alike, B!Reported, A!Reported
<1>6. B!Fits(v, s) = A!Fits(v, s)
  BY SameWords DEF B!Fits, A!Fits
<1>7. B!Shown = A!Shown
  BY DEF Alike, B!Shown, A!Shown
<1> QED
  BY <1>2, <1>3, <1>4, <1>5, <1>6, <1>7

-----------------------------------------------------------------------------
(* A promise has one result.                                               *)

\* A register is the value of a size and what is above it.
LEMMA KeepsDetermines ==
    ASSUME NEW s \in Sizes, NEW r \in Regs, Alike, Files', NEW n,
           A!Keeps(r, s, n), B!Keeps(r, s, n)
    PROVE  regs2'[r] = regs'[r]
<1> DEFINE M == Span(s)
           u == regs'[r]
           v == regs2'[r]
<1>1. M \in Nat /\ M > 0 /\ u \in Int /\ v \in Int
  BY SpanLemma, AddrSpaceAssumption DEF Files, Word
<1>2. A!Limit(s) = M /\ B!Limit(s) = M
  BY SameWords DEF A!Limit, A!Bits, Span, Bits
<1>3. u % M = v % M /\ u \div M = v \div M
  BY <1>2 DEF A!Keeps, B!Keeps, A!Natural, B!Natural, Alike
<1> HIDE DEF M, u, v
<1>4. u = M * (u \div M) + (u % M) /\ v = M * (v \div M) + (v % M)
  BY <1>1, DivisionLemma
<1> QED
  BY <1>3, <1>4 DEF u, v

LEMMA OthersDetermine ==
    ASSUME NEW ds, Alike, Files', A!Others(ds), B!Others(ds),
           \A r \in ds \cap Regs : regs2'[r] = regs'[r]
    PROVE  regs2' = regs'
<1>1. \A r \in Regs : regs2'[r] = regs'[r]
  BY DEF A!Others, B!Others, Alike
<1> QED
  BY <1>1 DEF Files

LEMMA ResultDetermines ==
    ASSUME NEW s \in Sizes, NEW d, "null" \notin Regs, Alike, Files', NEW n,
           A!Result(d, s, n), B!Result(d, s, n)
    PROVE  regs2' = regs'
<1>1. \A r \in {d} \cap Regs : regs2'[r] = regs'[r]
  BY KeepsDetermines DEF A!Result, B!Result
<1> QED
  BY <1>1, OthersDetermine DEF A!Result, B!Result

\* A step with that result and these flags.
LEMMA StepDetermines ==
    ASSUME NEW s \in Sizes, NEW d, "null" \notin Regs, Alike, Files', NEW n, NEW f,
           A!Result(d, s, n), B!Result(d, s, n), A!Done, B!Done,
           (A!Flags(f) /\ B!Flags(f)) \/ (flags' = flags /\ flags2' = flags2)
    PROVE  Alike'
<1>1. regs2' = regs'
  BY ResultDetermines
<1>2. flags2' = flags'
  BY DEF Alike, A!Flags, B!Flags
<1>3. instr2' = instr' /\ status2' = status'
  BY DEF Alike, A!Done, B!Done, A!Idle, B!Idle
<1> QED
  BY <1>1, <1>2, <1>3 DEF Alike

LEMMA GoneDetermines ==
    ASSUME Alike, A!Gone, B!Gone
    PROVE  Alike'
BY DEF Alike, A!Gone, B!Gone

-----------------------------------------------------------------------------
(* The instructions.                                                       *)

\* What all of them have in common.
Twin == TypeOK /\ Alike /\ Files' /\ "null" \notin Regs

LEMMA SizeLemma ==
    ASSUME TypeOK,
           instr.op \in {"add", "sub", "mul", "div", "neg", "bswap", "and", "or", "xor",
                         "shl", "shr", "rot", "soc", "copy"}
    PROVE  instr.size \in Sizes /\ regs[instr.a] \in Int
BY OperandsLemma

LEMMA AddDetermined ==
    ASSUME Twin, A!Add, B!Add
    PROVE  Alike'
<1> DEFINE s == instr.size
           u == regs[instr.a]
           v == A!Second(instr.b)
           c == A!CarryIn
           n == u + v + c
           f == AddBits(u, v, c, s)
<1>1. instr.op = "add"
  BY DEF A!Add, A!Doing
<1>2. s \in Sizes
  BY <1>1, SizeLemma DEF Twin
<1>3. A!Result(instr.d, s, n) /\ A!Flags(f) /\ A!Done
  BY DEF A!Add, AddBits
<1>4. B!Result(instr.d, s, n) /\ B!Flags(f) /\ B!Done
  <2>1. B!Second(instr.b) = v /\ B!CarryIn = c
    BY SameOperands DEF Twin
  <2>2. regs2 = regs /\ instr2 = instr
    BY DEF Twin, Alike
  <2>3. f = [carry |-> B!Natural(u, s) + B!Natural(v, s) + c >= B!Limit(s),
             zero |-> B!Zero(n, s),
             overflow |-> ~B!InRange(B!Integer(u, s) + B!Integer(v, s) + c, s),
             sign |-> B!Negative(n, s)]
    BY SameWords DEF AddBits
  <2> HIDE DEF f, v, c
  <2> QED
    BY <2>1, <2>2, <2>3 DEF B!Add
<1> QED
  BY <1>2, <1>3, <1>4, StepDetermines DEF Twin

LEMMA SubDetermined ==
    ASSUME Twin, A!Sub, B!Sub
    PROVE  Alike'
<1> DEFINE s == instr.size
           u == regs[instr.a]
           v == A!Second(instr.b)
           c == A!CarryIn
           n == u - v - c
           f == SubBits(u, v, c, s)
<1>1. instr.op = "sub"
  BY DEF A!Sub, A!Doing
<1>2. s \in Sizes
  BY <1>1, SizeLemma DEF Twin
<1>3. A!Result(instr.d, s, n) /\ A!Flags(f) /\ A!Done
  BY DEF A!Sub, SubBits
<1>4. B!Result(instr.d, s, n) /\ B!Flags(f) /\ B!Done
  <2>1. B!Second(instr.b) = v /\ B!CarryIn = c
    BY SameOperands DEF Twin
  <2>2. regs2 = regs /\ instr2 = instr
    BY DEF Twin, Alike
  <2>3. f = [carry |-> B!Natural(u, s) < B!Natural(v, s) + c,
             zero |-> B!Zero(n, s),
             overflow |-> ~B!InRange(B!Integer(u, s) - B!Integer(v, s) - c, s),
             sign |-> B!Negative(n, s)]
    BY SameWords DEF SubBits
  <2> HIDE DEF f, v, c
  <2> QED
    BY <2>1, <2>2, <2>3 DEF B!Sub
<1> QED
  BY <1>2, <1>3, <1>4, StepDetermines DEF Twin

LEMMA MulDetermined ==
    ASSUME Twin, A!Mul, B!Mul
    PROVE  Alike'
<1> DEFINE s == instr.size
           t == instr.dsize
           n == A!Operand(regs[instr.a], s) * A!Operand(regs[instr.b.reg], s)
           over == OverflowChecks /\ ~A!Fits(n, instr.signed)
           f == A!Reported(n, t)
<1>1. instr.op = "mul"
  BY DEF A!Mul, A!Doing
<1>2. t \in Sizes
  <2>1. IsInstr(instr)
    BY <1>1, OperandsLemma, Zenon DEF Twin
  <2> QED
    BY <1>1, <2>1 DEF IsInstr
<1>3. \/ over /\ A!Gone
      \/ ~over /\ A!Result(instr.d, t, n) /\ A!Flags(f) /\ A!Done
  BY DEF A!Mul
<1>4. \/ over /\ B!Gone
      \/ ~over /\ B!Result(instr.d, t, n) /\ B!Flags(f) /\ B!Done
  <2>1. /\ B!Operand(regs[instr.a], s) = A!Operand(regs[instr.a], s)
        /\ B!Operand(regs[instr.b.reg], s) = A!Operand(regs[instr.b.reg], s)
        /\ B!Fits(n, instr.signed) = A!Fits(n, instr.signed) /\ B!Reported(n, t) = f
    BY SameOperands DEF Twin
  <2>2. regs2 = regs /\ instr2 = instr
    BY DEF Twin, Alike
  <2> HIDE DEF f
  <2> QED
    BY <2>1, <2>2 DEF B!Mul
<1>5. CASE over
  BY <1>3, <1>4, <1>5, GoneDetermines DEF Twin
<1>6. CASE ~over
  <2> HIDE DEF n, f, over, t
  <2> QED
    BY <1>2, <1>3, <1>4, <1>6, StepDetermines DEF Twin
<1> QED
  BY <1>5, <1>6

LEMMA NegDetermined ==
    ASSUME Twin, A!Neg, B!Neg
    PROVE  Alike'
<1> DEFINE s == instr.size
           n == -A!Integer(regs[instr.a], s)
           over == OverflowChecks /\ ~A!InRange(n, WordSize)
           f == A!Reported(n, s)
<1>1. instr.op = "neg"
  BY DEF A!Neg, A!Doing
<1>2. s \in Sizes
  BY <1>1, SizeLemma DEF Twin
<1>3. \/ over /\ A!Gone
      \/ ~over /\ A!Result(instr.d, s, n) /\ A!Flags(f) /\ A!Done
  BY DEF A!Neg
<1>4. \/ over /\ B!Gone
      \/ ~over /\ B!Result(instr.d, s, n) /\ B!Flags(f) /\ B!Done
  <2>1. /\ B!Integer(regs[instr.a], s) = A!Integer(regs[instr.a], s)
        /\ B!InRange(n, WordSize) = A!InRange(n, WordSize) /\ B!Reported(n, s) = f
    BY SameOperands, SameWords DEF Twin
  <2>2. regs2 = regs /\ instr2 = instr
    BY DEF Twin, Alike
  <2> HIDE DEF f
  <2> QED
    BY <2>1, <2>2 DEF B!Neg
<1>5. CASE over
  BY <1>3, <1>4, <1>5, GoneDetermines DEF Twin
<1>6. CASE ~over
  <2> HIDE DEF n, f, over
  <2> QED
    BY <1>2, <1>3, <1>4, <1>6, StepDetermines DEF Twin
<1> QED
  BY <1>5, <1>6

\* Two quotients that leave remainders smaller than the divisor, both of the
\* sign of the dividend, are the same.
LEMMA QuotientUnique ==
    ASSUME NEW x \in Int, NEW y \in Int, NEW p \in Int, NEW q \in Int,
           Magnitude(x - p * y) < Magnitude(y), Magnitude(x - q * y) < Magnitude(y),
           x - p * y = 0 \/ (x - p * y < 0 <=> x < 0),
           x - q * y = 0 \/ (x - q * y < 0 <=> x < 0)
    PROVE  p = q
<1> DEFINE a == p * y
           b == q * y
           k == p - q
           d == k * y
<1>1. a \in Int /\ b \in Int /\ k \in Int /\ d \in Int /\ d = a - b
  OBVIOUS
<1>2. d < Magnitude(y) /\ -d < Magnitude(y)
  <2> HIDE DEF d
  <2>1. /\ Magnitude(x - a) < Magnitude(y) /\ Magnitude(x - b) < Magnitude(y)
        /\ x - a = 0 \/ (x - a < 0 <=> x < 0)
        /\ x - b = 0 \/ (x - b < 0 <=> x < 0)
    OBVIOUS
  <2> HIDE DEF a, b
  <2> QED
    BY <1>1, <2>1 DEF Magnitude
<1> HIDE DEF k, a, b
<1>3. k >= 1 => (y > 0 => d >= y) /\ (y < 0 => d <= y)
  BY <1>1
<1>4. k <= -1 => (y > 0 => d <= -y) /\ (y < 0 => d >= -y)
  BY <1>1
<1>5. k = 0
  <2> HIDE DEF d
  <2> QED
    BY <1>1, <1>2, <1>3, <1>4 DEF Magnitude
<1> QED
  BY <1>5 DEF k

LEMMA DivDetermined ==
    ASSUME Twin, A!Div, B!Div
    PROVE  Alike'
<1> DEFINE s == instr.size
           x == A!Operand(regs[instr.a], s)
           y == A!Operand(regs[instr.b.reg], s)
           lost == y = 0 \/ (y = -1 /\ ~A!InRange(-x, WordSize))
           Small(r) == (r = 0 \/ (r < 0 <=> x < 0)) /\ Magnitude(r) < Magnitude(y)
           Results == -A!Limit(s) .. A!Limit(s)
<1>1. instr.op = "div"
  BY DEF A!Div, A!Doing
<1>2. /\ s \in Sizes /\ instr.a \in Regs /\ instr.b.reg \in Regs
      /\ instr.d \in Regs /\ instr.rem \in Regs /\ regs \in [Regs -> Word]
  <2>1. IsInstr(instr) /\ regs \in [Regs -> Word]
    BY <1>1, OperandsLemma, Zenon DEF Twin
  <2> QED
    BY <1>1, <2>1 DEF IsInstr, IsReg
<1>3. x \in Int /\ y \in Int /\ Results \subseteq Int
  <2>1. ASSUME NEW r \in Regs
        PROVE  A!Operand(regs[r], s) \in Int
    <3> HIDE DEF s
    <3>1. /\ Signed(r, s) = A!Integer(regs[r], s) /\ Unsigned(r, s) = A!Natural(regs[r], s)
          /\ Signed(r, s) \in Int /\ Unsigned(r, s) \in 0 .. Span(s) - 1
      BY <1>2, ValueLemma
    <3>2. A!Integer(regs[r], s) \in Int /\ A!Natural(regs[r], s) \in Int
      BY <3>1
    <3> QED
      BY <3>2 DEF A!Operand
  <2>2. A!Limit(s) \in Int
    <3> HIDE DEF s
    <3>1. A!Limit(s) = Span(s) /\ Span(s) \in Nat
      BY <1>2, SpanLemma DEF A!Limit, A!Bits, Span, Bits
    <3> QED
      BY <3>1
  <2> QED
    BY <1>2, <2>1, <2>2
<1>4. \/ lost /\ A!Gone
      \/ /\ ~lost
         /\ \E q \in Results :
               /\ Small(x - q * y)
               /\ A!Keeps(instr.d, s, q)
               /\ instr.rem = instr.d \/ A!Keeps(instr.rem, s, x - q * y)
               /\ A!Others({instr.d, instr.rem}) /\ A!Flags(A!Reported(q, s)) /\ A!Done
  BY Zenon DEF A!Div, A!Magnitude, Magnitude
<1>5. \/ lost /\ B!Gone
      \/ /\ ~lost
         /\ \E q \in Results :
               /\ Small(x - q * y)
               /\ B!Keeps(instr.d, s, q)
               /\ instr.rem = instr.d \/ B!Keeps(instr.rem, s, x - q * y)
               /\ B!Others({instr.d, instr.rem}) /\ B!Flags(A!Reported(q, s)) /\ B!Done
  <2>1. /\ B!Operand(regs[instr.a], s) = x /\ B!Operand(regs[instr.b.reg], s) = y
        /\ \A q : B!Reported(q, s) = A!Reported(q, s)
    BY SameOperands DEF Twin
  <2>2. B!InRange(-x, WordSize) = A!InRange(-x, WordSize) /\ B!Limit(s) = A!Limit(s)
    BY SameWords
  <2>3. regs2 = regs /\ instr2 = instr
    BY DEF Twin, Alike
  <2> HIDE DEF x, y
  <2> QED
    BY <2>1, <2>2, <2>3 DEF B!Div, B!Magnitude, Magnitude
<1> HIDE DEF x, y, s, Results
<1>6. CASE lost
  BY <1>4, <1>5, <1>6, GoneDetermines DEF Twin
<1>7. CASE ~lost
  <2>1. PICK p \in Results :
           /\ Small(x - p * y)
           /\ A!Keeps(instr.d, s, p)
           /\ instr.rem = instr.d \/ A!Keeps(instr.rem, s, x - p * y)
           /\ A!Others({instr.d, instr.rem}) /\ A!Flags(A!Reported(p, s)) /\ A!Done
    BY <1>4, <1>7
  <2>2. PICK q \in Results :
           /\ Small(x - q * y)
           /\ B!Keeps(instr.d, s, q)
           /\ instr.rem = instr.d \/ B!Keeps(instr.rem, s, x - q * y)
           /\ B!Others({instr.d, instr.rem}) /\ B!Flags(A!Reported(q, s)) /\ B!Done
    BY <1>5, <1>7
  <2>3. p = q
    BY <1>3, <2>1, <2>2, QuotientUnique
  <2> HIDE DEF Small
  <2>4. regs2'[instr.d] = regs'[instr.d]
    BY <1>2, <2>1, <2>2, <2>3, KeepsDetermines DEF Twin
  <2>5. regs2'[instr.rem] = regs'[instr.rem]
    BY <1>2, <2>1, <2>2, <2>3, <2>4, KeepsDetermines DEF Twin
  <2>6. regs2' = regs'
    <3>1. \A r \in {instr.d, instr.rem} \cap Regs : regs2'[r] = regs'[r]
      BY <2>4, <2>5
    <3> QED
      BY <2>1, <2>2, <3>1, OthersDetermine DEF Twin
  <2>7. flags2' = flags'
    BY <2>1, <2>2, <2>3 DEF Twin, Alike, A!Flags, B!Flags
  <2>8. instr2' = instr' /\ status2' = status'
    BY <2>1, <2>2 DEF Twin, Alike, A!Done, B!Done, A!Idle, B!Idle
  <2> QED
    BY <2>6, <2>7, <2>8 DEF Alike
<1> QED
  BY <1>6, <1>7

LEMMA SofDetermined ==
    ASSUME Twin, A!Sof, B!Sof
    PROVE  Alike'
<1> DEFINE s == instr.size
           n == IF instr.cond \in A!Shown THEN 1 ELSE 0
<1>1. instr.op = "sof"
  BY DEF A!Sof, A!Doing
<1>2. s \in Sizes
  BY <1>1, InstrsAssumption DEF Twin, TypeOK, Idle, IsInstr
<1>3. A!Result(instr.d, s, n) /\ flags' = flags /\ A!Done
  BY DEF A!Sof
<1>4. B!Result(instr.d, s, n) /\ flags2' = flags2 /\ B!Done
  <2>1. B!Shown = A!Shown
    BY SameOperands DEF Twin
  <2> QED
    BY <2>1 DEF B!Sof, Twin, Alike
<1> HIDE DEF n
<1> QED
  BY <1>2, <1>3, <1>4, StepDetermines DEF Twin

LEMMA CopyDetermined ==
    ASSUME Twin, A!Copy, B!Copy
    PROVE  Alike'
<1>1. instr.op = "copy"
  BY DEF A!Copy, A!Doing
<1>2. instr.size \in Sizes
  BY <1>1, SizeLemma DEF Twin
<1>3. /\ A!Result(instr.d, instr.size, regs[instr.a]) /\ flags' = flags /\ A!Done
      /\ B!Result(instr.d, instr.size, regs[instr.a]) /\ flags2' = flags2 /\ B!Done
  BY DEF A!Copy, B!Copy, Twin, Alike
<1> QED
  BY <1>2, <1>3, StepDetermines DEF Twin

LEMMA SocDetermined ==
    ASSUME Twin, A!Soc, B!Soc
    PROVE  Alike'
<1> DEFINE s == instr.size
           u == regs[instr.a]
           v == regs[instr.b.reg]
           c == A!CarryIn
           n == IF Holds(instr.cond, u, v, c, s) THEN 1 ELSE 0
<1>1. instr.op = "soc"
  BY DEF A!Soc, A!Doing
<1>2. s \in Sizes
  BY <1>1, SizeLemma DEF Twin
<1>3. A!Result(instr.d, s, n) /\ flags' = flags /\ A!Done
  BY Zenon DEF A!Soc, Holds
<1>4. B!Result(instr.d, s, n) /\ flags2' = flags2 /\ B!Done
  <2>1. B!CarryIn = c /\ regs2 = regs /\ instr2 = instr
    BY SameOperands DEF Twin, Alike
  <2>2. /\ B!Natural(u, s) = A!Natural(u, s) /\ B!Natural(v, s) = A!Natural(v, s)
        /\ B!Integer(u, s) = A!Integer(u, s) /\ B!Integer(v, s) = A!Integer(v, s)
        /\ B!Zero(u - v - c, s) = A!Zero(u - v - c, s)
        /\ B!Negative(u - v - c, s) = A!Negative(u - v - c, s)
        /\ B!InRange(A!Integer(u, s) - A!Integer(v, s) - c, s)
           = A!InRange(A!Integer(u, s) - A!Integer(v, s) - c, s)
    BY SameWords
  <2> HIDE DEF u, v, c
  <2> QED
    BY <2>1, <2>2 DEF B!Soc, Holds, u, v
<1> HIDE DEF n
<1> QED
  BY <1>2, <1>3, <1>4, StepDetermines DEF Twin

LEMMA SameShifts ==
    ASSUME Alike, NEW n, NEW s, NEW digit, NEW w
    PROVE  /\ B!ShiftFlags(n, s, digit) = A!ShiftFlags(n, s, digit)
           /\ B!Digit(n, s, w) = A!Digit(n, s, w)
BY SameOperands DEF B!ShiftFlags, A!ShiftFlags, B!Digit, A!Digit

LEMMA ShlDetermined ==
    ASSUME Twin, A!Shl, B!Shl
    PROVE  Alike'
<1> DEFINE s == instr.size
           l == A!Natural(regs[instr.a], s)
           n == l * 2 ^ A!Smaller(A!Amount(s), A!Bits(s))
           f == A!ShiftFlags(n, s, (n \div A!Limit(s)) % 2)
<1>1. instr.op = "shl"
  BY DEF A!Shl, A!Doing
<1>2. s \in Sizes
  BY <1>1, SizeLemma DEF Twin
<1>3. A!Result(instr.d, s, n) /\ A!Flags(f) /\ A!Done
  BY Zenon DEF A!Shl
<1>4. B!Result(instr.d, s, n) /\ B!Flags(f) /\ B!Done
  <2>1. regs2 = regs /\ instr2 = instr
    BY DEF Twin, Alike
  <2>2. /\ B!Natural(regs[instr.a], s) = l /\ B!Limit(s) = A!Limit(s)
        /\ B!Amount(s) = A!Amount(s) /\ B!Bits(s) = A!Bits(s)
        /\ B!Smaller(A!Amount(s), A!Bits(s)) = A!Smaller(A!Amount(s), A!Bits(s))
    BY SameWords, SameOperands DEF Twin
  <2>3. B!ShiftFlags(n, s, (n \div A!Limit(s)) % 2) = f
    BY SameShifts DEF Twin
  <2> HIDE DEF l, f
  <2> QED
    BY <2>1, <2>2, <2>3 DEF B!Shl
<1> HIDE DEF n, f
<1> QED
  BY <1>2, <1>3, <1>4, StepDetermines DEF Twin

LEMMA ShrDetermined ==
    ASSUME Twin, A!Shr, B!Shr
    PROVE  Alike'
<1> DEFINE s == instr.size
           by == A!Smaller(A!Amount(s), A!Bits(s))
           l == A!Natural(regs[instr.a], s)
           x == IF instr.signed /\ (s = WordSize \/ by = A!Bits(s))
                THEN A!Integer(regs[instr.a], s) ELSE l
           n == x \div 2 ^ by
           digit == IF by = 0 THEN 0 ELSE A!Digit(l, by - 1, 1)
           f == A!ShiftFlags(n, s, digit)
<1>1. instr.op = "shr"
  BY DEF A!Shr, A!Doing
<1>2. s \in Sizes
  BY <1>1, SizeLemma DEF Twin
<1>3. A!Result(instr.d, s, n) /\ A!Flags(f) /\ A!Done
  BY Zenon DEF A!Shr
<1>4. B!Result(instr.d, s, n) /\ B!Flags(f) /\ B!Done
  <2>1. regs2 = regs /\ instr2 = instr
    BY DEF Twin, Alike
  <2>2. /\ B!Natural(regs[instr.a], s) = l
        /\ B!Integer(regs[instr.a], s) = A!Integer(regs[instr.a], s)
        /\ B!Amount(s) = A!Amount(s) /\ B!Bits(s) = A!Bits(s)
        /\ B!Smaller(A!Amount(s), A!Bits(s)) = by
    BY SameWords, SameOperands DEF Twin
  <2>3. B!ShiftFlags(n, s, digit) = f /\ B!Digit(l, by - 1, 1) = A!Digit(l, by - 1, 1)
    BY SameShifts DEF Twin
  <2> HIDE DEF l, f, by
  <2> QED
    BY <2>1, <2>2, <2>3 DEF B!Shr
<1> HIDE DEF n, f
<1> QED
  BY <1>2, <1>3, <1>4, StepDetermines DEF Twin

LEMMA PanicDetermined ==
    ASSUME Twin, A!Panic, B!Panic
    PROVE  Alike'
BY GoneDetermines DEF Twin, A!Panic, B!Panic

\* A value has one number for its bits,
LEMMA BitsUnique ==
    ASSUME NEW s \in Sizes, NEW m \in 0 .. A!Limit(s) - 1, NEW n \in 0 .. A!Limit(s) - 1,
           \A k \in 0 .. A!Bits(s) - 1 : A!Digit(m, k, 1) = A!Digit(n, k, 1)
    PROVE  m = n
<1>1. A!Bits(s) = Bits(s) /\ A!Limit(s) = 2 ^ Bits(s) /\ Bits(s) \in Nat /\ 2 ^ Bits(s) \in Nat
  BY BitsLemma, PowerPositive DEF A!Bits, Bits, A!Limit
<1>2. m \in Nat /\ n \in Nat /\ m < 2 ^ Bits(s) /\ n < 2 ^ Bits(s)
  <2> DEFINE p == 2 ^ Bits(s)
  <2>1. p \in Nat /\ m \in 0 .. p - 1 /\ n \in 0 .. p - 1
    BY <1>1
  <2> HIDE DEF p
  <2>2. m \in Nat /\ n \in Nat /\ m < p /\ n < p
    BY <2>1
  <2> QED
    BY <2>2 DEF p
<1>3. ASSUME NEW k \in 0 .. Bits(s) - 1
      PROVE  BitSet(m, k) <=> BitSet(n, k)
  <2>1. 2 ^ 1 = 2
    BY PowerPositive, PowerNext
  <2>2. k * 1 = k /\ A!Digit(m, k, 1) = A!Digit(n, k, 1)
    BY <1>1
  <2> QED
    BY <2>1, <2>2 DEF A!Digit, BitSet
<1> QED
  BY <1>1, <1>2, <1>3, BitsDetermine

\* and one for its bytes.
LEMMA BytesUnique ==
    ASSUME NEW s \in Sizes, NEW m \in 0 .. A!Limit(s) - 1, NEW n \in 0 .. A!Limit(s) - 1,
           \A k \in 0 .. s - 1 : A!Digit(m, k, ByteBits) = A!Digit(n, k, ByteBits)
    PROVE  m = n
<1>1. /\ A!Limit(s) = 2 ^ Bits(s) /\ Bits(s) \in Nat /\ 2 ^ Bits(s) \in Nat
      /\ Bits(s) = ByteBits * s /\ s \in Nat /\ ByteBits \in Nat /\ ByteBits > 0
  BY BitsLemma, PowerPositive DEF A!Bits, Bits, A!Limit
<1>2. m \in Nat /\ n \in Nat /\ m < 2 ^ Bits(s) /\ n < 2 ^ Bits(s)
  <2> DEFINE p == 2 ^ Bits(s)
  <2>1. p \in Nat /\ m \in 0 .. p - 1 /\ n \in 0 .. p - 1
    BY <1>1
  <2> HIDE DEF p
  <2>2. m \in Nat /\ n \in Nat /\ m < p /\ n < p
    BY <2>1
  <2> QED
    BY <2>2 DEF p
<1>3. ASSUME NEW j \in 0 .. Bits(s) - 1
      PROVE  BitSet(m, j) <=> BitSet(n, j)
  <2> DEFINE k == j \div ByteBits
             b == j % ByteBits
             e == k * ByteBits
  <2>1. k \in 0 .. s - 1
    <3>1. j \in Nat /\ j < ByteBits * s
      BY <1>1
    <3> QED
      BY <1>1, <3>1, QuotientBelowLemma
  <2>2. b \in 0 .. ByteBits - 1 /\ j = ByteBits * k + b
    BY <1>1, DivisionLemma
  <2> HIDE DEF k, b
  <2>3. e \in Nat /\ e + b = j
    BY <1>1, <2>1, <2>2
  <2> HIDE DEF e
  <2>4. ASSUME NEW v \in Nat
        PROVE  BitSet((v \div 2 ^ e) % 2 ^ ByteBits, b) <=> BitSet(v, j)
    <3>1. \A i \in 0 .. ByteBits - 1 :
              BitSet((v \div 2 ^ e) % 2 ^ ByteBits, i) <=> BitSet(v, e + i)
      BY <1>1, <2>3, DigitBits, Zenon
    <3> QED
      BY <2>2, <2>3, <3>1, Zenon
  <2>5. (m \div 2 ^ e) % 2 ^ ByteBits = (n \div 2 ^ e) % 2 ^ ByteBits
    BY <2>1 DEF A!Digit, e
  <2> QED
    BY <2>4, <2>5
<1> QED
  BY <1>1, <1>2, <1>3, BitsDetermine

\* What the bits of both operands say of a bit of the result.
Means(op, x, y, z) ==
    CASE op = "and" -> z = x * y
      [] op = "or" -> z = x + y - x * y
      [] op = "xor" -> z = (x + y) % 2

LEMMA LogicDetermined ==
    ASSUME Twin, A!Logic, B!Logic
    PROVE  Alike'
<1> DEFINE s == instr.size
           l == A!Natural(regs[instr.a], s)
           r == A!Natural(A!Second(instr.b), s)
           f(n) == [A!Reported(n, s) EXCEPT !.overflow = FALSE]
           Combines(n) == \A k \in 0 .. A!Bits(s) - 1 :
               Means(instr.op, A!Digit(l, k, 1), A!Digit(r, k, 1), A!Digit(n, k, 1))
<1>1. instr.op \in {"and", "or", "xor"}
  BY DEF A!Logic, A!Doing
<1>2. s \in Sizes
  BY <1>1, SizeLemma DEF Twin
<1>3. \E n \in 0 .. A!Limit(s) - 1 :
         Combines(n) /\ A!Result(instr.d, s, n) /\ A!Flags(f(n)) /\ A!Done
  BY Zenon DEF A!Logic, Means
<1>4. \E n \in 0 .. A!Limit(s) - 1 :
         Combines(n) /\ B!Result(instr.d, s, n) /\ B!Flags(f(n)) /\ B!Done
  <2>1. regs2 = regs /\ instr2 = instr
    BY DEF Twin, Alike
  <2>2. /\ B!Natural(regs[instr.a], s) = l /\ B!Second(instr.b) = A!Second(instr.b)
        /\ B!Natural(A!Second(instr.b), s) = r
        /\ B!Limit(s) = A!Limit(s) /\ B!Bits(s) = A!Bits(s)
        /\ \A n : B!Reported(n, s) = A!Reported(n, s)
        /\ \A v, k : B!Digit(v, k, 1) = A!Digit(v, k, 1)
    BY SameWords, SameOperands, SameShifts DEF Twin
  <2>3. \E n \in 0 .. B!Limit(s) - 1 :
           /\ \A k \in 0 .. B!Bits(s) - 1 :
                 Means(instr.op, B!Digit(B!Natural(regs[instr.a], s), k, 1),
                       B!Digit(B!Natural(B!Second(instr.b), s), k, 1), B!Digit(n, k, 1))
           /\ B!Result(instr.d, s, n)
           /\ B!Flags([B!Reported(n, s) EXCEPT !.overflow = FALSE])
           /\ B!Done
    BY <2>1, Zenon DEF B!Logic, Means
  <2> HIDE DEF l, r
  <2> QED
    BY <2>2, <2>3
<1>5. PICK m \in 0 .. A!Limit(s) - 1 :
         Combines(m) /\ A!Result(instr.d, s, m) /\ A!Flags(f(m)) /\ A!Done
  BY <1>3
<1>6. PICK n \in 0 .. A!Limit(s) - 1 :
         Combines(n) /\ B!Result(instr.d, s, n) /\ B!Flags(f(n)) /\ B!Done
  BY <1>4
<1> HIDE DEF s, l, r
<1>7. \A k \in 0 .. A!Bits(s) - 1 : A!Digit(m, k, 1) = A!Digit(n, k, 1)
  BY <1>1, <1>5, <1>6 DEF Means
<1>8. m = n
  BY <1>2, <1>7, BitsUnique
<1> HIDE DEF f, Combines
<1> QED
  BY <1>2, <1>5, <1>6, <1>8, StepDetermines DEF Twin

LEMMA BswapDetermined ==
    ASSUME Twin, A!Bswap, B!Bswap
    PROVE  Alike'
<1> DEFINE s == instr.size
           l == regs[instr.a]
           f(n) == [flags EXCEPT !.sign = A!Negative(n, s)]
           Swaps(n) == \A k \in 0 .. s - 1 :
               A!Digit(n, k, ByteBits) = A!Digit(l, s - 1 - k, ByteBits)
<1>1. instr.op = "bswap"
  BY DEF A!Bswap, A!Doing
<1>2. s \in Sizes
  BY <1>1, SizeLemma DEF Twin
<1>3. \E n \in 0 .. A!Limit(s) - 1 :
         Swaps(n) /\ A!Result(instr.d, s, n) /\ A!Flags(f(n)) /\ A!Done
  BY Zenon DEF A!Bswap
<1>4. \E n \in 0 .. A!Limit(s) - 1 :
         Swaps(n) /\ B!Result(instr.d, s, n) /\ B!Flags(f(n)) /\ B!Done
  <2>1. regs2 = regs /\ instr2 = instr /\ flags2 = flags
    BY DEF Twin, Alike
  <2>2. /\ B!Limit(s) = A!Limit(s)
        /\ \A n : B!Negative(n, s) = A!Negative(n, s)
        /\ \A v, k : B!Digit(v, k, ByteBits) = A!Digit(v, k, ByteBits)
    BY SameWords, SameShifts DEF Twin
  <2> QED
    BY <2>1, <2>2 DEF B!Bswap
<1>5. PICK m \in 0 .. A!Limit(s) - 1 :
         Swaps(m) /\ A!Result(instr.d, s, m) /\ A!Flags(f(m)) /\ A!Done
  BY <1>3
<1>6. PICK n \in 0 .. A!Limit(s) - 1 :
         Swaps(n) /\ B!Result(instr.d, s, n) /\ B!Flags(f(n)) /\ B!Done
  BY <1>4
<1> HIDE DEF s, l
<1>7. m = n
  BY <1>2, <1>5, <1>6, BytesUnique
<1> HIDE DEF f, Swaps
<1> QED
  BY <1>2, <1>5, <1>6, <1>7, StepDetermines DEF Twin

\* What a rotation says of its result n: turned back by P it is l.
Turned(n, P, M, l) == (n * P - l) % (M - 1) = 0 /\ (n = 0 <=> l = 0)

\* A rotation that is undone can be undone all the way round.
LEMMA RotationUnique ==
    ASSUME NEW P \in Nat, NEW M \in Nat, NEW l \in Int,
           NEW m \in 0 .. M - 1, NEW n \in 0 .. M - 1,
           M > 1, \E Q \in Nat : M = P * Q,
           Turned(m, P, M, l), Turned(n, P, M, l)
    PROVE  m = n
<1>0. PICK Q \in Nat : M = P * Q
  OBVIOUS
<1> DEFINE N == M - 1
           d == m - n
           x == m * P - l
           y == n * P - l
           a == x \div N
           b == y \div N
           c == a - b
           k == c * Q - d
<1>1. /\ N \in Nat /\ N > 0 /\ M = N + 1 /\ m \in Int /\ n \in Int /\ d \in Int
      /\ m >= 0 /\ m <= N /\ n >= 0 /\ n <= N /\ x \in Int /\ y \in Int
  OBVIOUS
<1>2. x % N = 0 /\ y % N = 0 /\ (m = 0 <=> l = 0) /\ (n = 0 <=> l = 0)
  BY DEF Turned
<1>3. x - y = d * P
  OBVIOUS
<1> HIDE DEF N, x, y
<1>4. x = N * a /\ y = N * b /\ a \in Int /\ b \in Int
  <2> DEFINE u == x % N
             v == y % N
  <2>1. x = N * a + u /\ y = N * b + v /\ a \in Int /\ b \in Int
    BY <1>1, DivisionLemma
  <2>2. u = 0 /\ v = 0 /\ N * a \in Int /\ N * b \in Int
    BY <1>1, <1>2, <2>1
  <2> HIDE DEF u, v, a, b
  <2> QED
    BY <2>1, <2>2
<1> HIDE DEF a, b, d
<1>5. d * P = N * c /\ c \in Int
  BY <1>1, <1>3, <1>4
<1> HIDE DEF c
<1>6. d = N * k /\ k \in Int
  <2>1. (d * P) * Q = d * (P * Q) /\ (N * c) * Q = N * (c * Q)
    BY <1>1, <1>5
  <2>2. d * M = N * (c * Q)
    BY <1>0, <1>5, <2>1
  <2>3. d * M = N * d + d
    BY <1>1
  <2> DEFINE e == c * Q
  <2>4. e \in Int
    BY <1>5
  <2> HIDE DEF e
  <2>5. N * (e - d) = N * e - N * d
    BY <1>1, <2>4
  <2>6. N * e = N * d + d
    BY <2>2, <2>3 DEF e
  <2>7. N * e \in Int /\ N * d \in Int /\ e - d \in Int
    BY <1>1, <2>4
  <2>8. d = N * (e - d)
    BY <1>1, <2>5, <2>6, <2>7
  <2> QED
    BY <2>7, <2>8 DEF e
<1> HIDE DEF k
<1>7. k \in {-1, 0, 1}
  <2>1. k >= 2 => N * k >= N + N
    BY <1>1, <1>6
  <2>2. k <= -2 => N * k <= -N - N
    BY <1>1, <1>6
  <2>3. d <= N /\ d >= -N
    BY <1>1 DEF d
  <2> DEFINE e == N * k
  <2>4. e = d
    BY <1>6
  <2> HIDE DEF e
  <2>5. (k >= 2 => e >= N + N) /\ (k <= -2 => e <= -N - N)
    BY <2>1, <2>2 DEF e
  <2> QED
    BY <1>1, <1>6, <2>3, <2>4, <2>5
<1>8. k # 1 /\ k # -1
  <2>1. k = 1 => d = N
    BY <1>1, <1>6
  <2>2. k = -1 => d = -N
    BY <1>1, <1>6
  <2>3. d = N => m = N /\ n = 0
    BY <1>1 DEF d
  <2>4. d = -N => m = 0 /\ n = N
    BY <1>1 DEF d
  <2> QED
    BY <1>1, <1>2, <2>1, <2>2, <2>3, <2>4
<1>9. d = 0
  BY <1>1, <1>6, <1>7, <1>8
<1> QED
  BY <1>1, <1>9 DEF d

LEMMA RotDetermined ==
    ASSUME Twin, A!Rot, B!Rot
    PROVE  Alike'
<1> DEFINE s == instr.size
           l == A!Natural(regs[instr.a], s)
           f(n) == [flags EXCEPT !.sign = A!Negative(n, s)]
           k == A!Amount(s) % A!Bits(s)
           M == A!Limit(s)
           Turns(n) == Turned(n, 2 ^ k, M, l)
<1>1. instr.op = "rot"
  BY DEF A!Rot, A!Doing
<1>2. s \in Sizes
  BY <1>1, SizeLemma DEF Twin
<1>3. \E n \in 0 .. M - 1 :
         Turns(n) /\ A!Result(instr.d, s, n) /\ A!Flags(f(n)) /\ A!Done
  BY Zenon DEF A!Rot, Turned
<1>4. \E n \in 0 .. M - 1 :
         Turns(n) /\ B!Result(instr.d, s, n) /\ B!Flags(f(n)) /\ B!Done
  <2>1. regs2 = regs /\ instr2 = instr /\ flags2 = flags
    BY DEF Twin, Alike
  <2>2. /\ B!Limit(s) = M /\ B!Bits(s) = A!Bits(s) /\ B!Amount(s) = A!Amount(s)
        /\ B!Natural(regs[instr.a], s) = l
        /\ \A n : B!Negative(n, s) = A!Negative(n, s)
    BY SameWords, SameOperands DEF Twin
  <2>3. \E n \in 0 .. B!Limit(s) - 1 :
           /\ (n * 2 ^ (B!Amount(s) % B!Bits(s)) - B!Natural(regs[instr.a], s))
              % (B!Limit(s) - 1) = 0
           /\ n = 0 <=> B!Natural(regs[instr.a], s) = 0
           /\ B!Result(instr.d, s, n)
           /\ B!Flags([flags EXCEPT !.sign = B!Negative(n, s)])
           /\ B!Done
    BY <2>1, Zenon DEF B!Rot
  <2> HIDE DEF l, M
  <2> QED
    BY <2>2, <2>3 DEF Turned
<1>5. PICK m \in 0 .. M - 1 :
         Turns(m) /\ A!Result(instr.d, s, m) /\ A!Flags(f(m)) /\ A!Done
  BY <1>3
<1>6. PICK n \in 0 .. M - 1 :
         Turns(n) /\ B!Result(instr.d, s, n) /\ B!Flags(f(n)) /\ B!Done
  BY <1>4
<1>7. /\ A!Bits(s) = Bits(s) /\ Bits(s) \in Nat /\ Bits(s) >= 1
      /\ M = 2 ^ Bits(s) /\ M \in Nat /\ M > 1
  <2>1. A!Bits(s) = Bits(s) /\ M = Span(s) /\ Span(s) = 2 ^ Bits(s)
    BY DEF A!Bits, Bits, A!Limit, Span
  <2>2. Bits(s) \in Nat /\ Bits(s) >= 1
    BY <1>2, BitsLemma
  <2> DEFINE h == Half(s)
             g == Span(s)
  <2>3. h \in Nat /\ h > 0 /\ g \in Nat /\ g = h + h
    BY <1>2, SpanLemma
  <2> HIDE DEF g, h
  <2>4. g \in Nat /\ g > 1
    BY <2>3
  <2> HIDE DEF M
  <2> QED
    BY <2>1, <2>2, <2>4 DEF g
<1>8. l \in Int /\ A!Amount(s) \in Nat
  <2>1. IsInstr(instr) /\ regs \in [Regs -> Word] /\ instr.a \in Regs
    BY <1>1, OperandsLemma, Zenon DEF Twin
  <2>2. /\ \A r \in Regs : A!Natural(regs[r], s) \in 0 .. Span(s) - 1
        /\ Span(s) \in Nat
    <3> HIDE DEF s
    <3>1. Span(s) \in Nat
      BY <1>2, SpanLemma
    <3>2. ASSUME NEW r \in Regs
          PROVE  A!Natural(regs[r], s) \in 0 .. Span(s) - 1
      <4>1. regs[r] \in Word
        BY <2>1
      <4>2. A!Natural(regs[r], s) = Unsigned(r, s) /\ Unsigned(r, s) \in 0 .. Span(s) - 1
        BY <1>2, <2>1, ValueLemma
      <4> QED
        BY <4>2
    <3> QED
      BY <3>1, <3>2
  <2>3. IsReg(instr.b) \/ IsPlain(instr.b)
    BY <1>1, <2>1 DEF IsInstr
  <2> HIDE DEF s
  <2>4. A!Amount(s) \in Nat
    BY <2>2, <2>3 DEF A!Amount, IsReg, IsPlain
  <2> QED
    BY <2>1, <2>2, <2>4
<1> HIDE DEF s, l, M
<1>9. m = n
  <2> DEFINE w == Bits(s)
             P == 2 ^ k
             Q == 2 ^ (w - k)
  <2>1. k \in 0 .. w - 1
    BY <1>7, <1>8, DivisionLemma
  <2> HIDE DEF k
  <2>2. k \in Nat /\ w - k \in Nat /\ k + (w - k) = w
    BY <1>7, <2>1
  <2>3. M = P * Q
    BY <1>7, <2>2, PowerSum
  <2>4. P \in Nat /\ Q \in Nat
    BY <2>2, PowerPositive
  <2>5. Turned(m, P, M, l) /\ Turned(n, P, M, l)
    BY <1>5, <1>6
  <2> HIDE DEF P, Q, Turns
  <2>6. \E c \in Nat : M = P * c
    BY <2>3, <2>4
  <2> QED
    BY <1>7, <1>8, <2>4, <2>5, <2>6, RotationUnique
<1> HIDE DEF f, Turns
<1> QED
  BY <1>2, <1>5, <1>6, <1>9, StepDetermines DEF Twin

\* The loaded field, what is below it and what is above it are the register.
LEMMA LdiDetermined ==
    ASSUME Twin, A!Ldi, B!Ldi
    PROVE  Alike'
<1> DEFINE old == regs[instr.d]
           u == regs'[instr.d]
           v == regs2'[instr.d]
           p == 2 ^ instr.shift
           q == 2 ^ (instr.shift + LoadBits)
           field == A!Natural(instr.imm * p, WordSize)
           low == IF instr.clear \in {1, 3} THEN 0 ELSE old % p
           high == IF instr.clear \in {2, 3} THEN 0 ELSE old \div q
<1>1. instr.op = "ldi"
  BY DEF A!Ldi, A!Doing
<1>2. instr.d \in Regs /\ instr.shift \in Nat /\ LoadBits \in Nat
  <2>1. IsInstr(instr)
    BY <1>1, InstrsAssumption DEF Twin, TypeOK, Idle
  <2>2. instr.d \in Regs /\ instr.shift \in 0 .. WordBits - 1 /\ LoadBits \in Nat
    BY <1>1, <2>1, SizesAssumption DEF IsInstr
  <2>3. WordBits - 1 \in Nat
    BY BitsLemma, SizesAssumption
  <2> QED
    BY <2>2, <2>3
<1>3. u \in Int /\ v \in Int /\ p \in Nat /\ p > 0 /\ q \in Nat /\ q > 0
  <2>1. instr.shift + LoadBits \in Nat
    BY <1>2
  <2> QED
    BY <1>2, <2>1, PowerPositive, AddrSpaceAssumption DEF Twin, Files, Word
<1>4. u - (u % p) - (u - (u % q)) = field /\ u % p = low /\ u \div q = high
  BY Zenon DEF A!Ldi
<1>5. v - (v % p) - (v - (v % q)) = field /\ v % p = low /\ v \div q = high
  <2>1. regs2 = regs /\ instr2 = instr /\ B!Natural(instr.imm * p, WordSize) = field
    BY SameWords DEF Twin, Alike
  <2> HIDE DEF field
  <2> QED
    BY <2>1 DEF B!Ldi
<1> HIDE DEF u, v, p, q, low, high, field
<1>6. u = v
  <2>1. /\ u = q * (u \div q) + (u % q) /\ v = q * (v \div q) + (v % q)
        /\ u % q \in Int /\ v % q \in Int /\ u % p \in Int /\ v % p \in Int
        /\ u \div q \in Int
    BY <1>3, DivisionLemma
  <2> DEFINE a == u % q
             b == v % q
             h == q * high
  <2>2. u = h + a /\ v = h + b /\ h \in Int
    BY <1>3, <1>4, <1>5, <2>1
  <2>3. u - low - (u - a) = field /\ v - low - (v - b) = field /\ low \in Int
    BY <1>4, <1>5, <2>1
  <2>4. a \in Int /\ b \in Int
    BY <2>1
  <2> HIDE DEF a, b, h
  <2>5. a = b
    BY <1>3, <2>3, <2>4
  <2> QED
    BY <2>2, <2>5
<1>7. regs2' = regs'
  <2>1. A!Others({instr.d}) /\ B!Others({instr.d})
    BY DEF A!Ldi, B!Ldi, Twin, Alike
  <2>2. \A r \in {instr.d} \cap Regs : regs2'[r] = regs'[r]
    BY <1>6 DEF u, v
  <2> QED
    BY <2>1, <2>2, OthersDetermine DEF Twin
<1>8. flags2' = flags' /\ instr2' = instr' /\ status2' = status'
  BY DEF A!Ldi, B!Ldi, A!Done, B!Done, A!Idle, B!Idle, Twin, Alike
<1> QED
  BY <1>7, <1>8 DEF Alike

-----------------------------------------------------------------------------
(* The whole promise.                                                      *)

\* Which instruction a step is of.
LEMMA Operations ==
    /\ A!Add => instr.op = "add" /\ A!Movable(instr.b)
    /\ A!Sub => instr.op = "sub" /\ A!Movable(instr.b)
    /\ A!Logic => instr.op \in {"and", "or", "xor"} /\ A!Movable(instr.b)
    /\ A!Panic => instr.op \in {"add", "sub", "and", "or", "xor"} /\ ~A!Movable(instr.b)
    /\ A!Mul => instr.op = "mul"
    /\ A!Div => instr.op = "div"
    /\ A!Neg => instr.op = "neg"
    /\ A!Shl => instr.op = "shl"
    /\ A!Shr => instr.op = "shr"
    /\ A!Rot => instr.op = "rot"
    /\ A!Bswap => instr.op = "bswap"
    /\ A!Soc => instr.op = "soc"
    /\ A!Sof => instr.op = "sof"
    /\ A!Ldi => instr.op = "ldi"
    /\ A!Copy => instr.op = "copy"
    /\ A!Decode => instr = Idle
<1>1. /\ A!Add => instr.op = "add" /\ A!Movable(instr.b)
      /\ A!Sub => instr.op = "sub" /\ A!Movable(instr.b)
      /\ A!Logic => instr.op \in {"and", "or", "xor"} /\ A!Movable(instr.b)
      /\ A!Panic => instr.op \in {"add", "sub", "and", "or", "xor"} /\ ~A!Movable(instr.b)
  BY DEF A!Add, A!Sub, A!Logic, A!Panic, A!Doing
<1>2. /\ A!Mul => instr.op = "mul"
      /\ A!Div => instr.op = "div"
      /\ A!Neg => instr.op = "neg"
  BY DEF A!Mul, A!Div, A!Neg, A!Doing
<1>3. /\ A!Shl => instr.op = "shl"
      /\ A!Shr => instr.op = "shr"
      /\ A!Rot => instr.op = "rot"
      /\ A!Bswap => instr.op = "bswap"
  BY DEF A!Shl, A!Shr, A!Rot, A!Bswap, A!Doing
<1>4. /\ A!Soc => instr.op = "soc"
      /\ A!Sof => instr.op = "sof"
      /\ A!Ldi => instr.op = "ldi"
      /\ A!Copy => instr.op = "copy"
      /\ A!Decode => instr = Idle
  BY DEF A!Soc, A!Sof, A!Ldi, A!Copy, A!Doing, A!Decode, A!Idle, Idle
<1> QED
  BY <1>1, <1>2, <1>3, <1>4

\* The same of the second processor.
LEMMA OtherOperations ==
    ASSUME Alike
    PROVE  /\ B!Add => instr.op = "add" /\ A!Movable(instr.b)
           /\ B!Sub => instr.op = "sub" /\ A!Movable(instr.b)
           /\ B!Logic => instr.op \in {"and", "or", "xor"} /\ A!Movable(instr.b)
           /\ B!Panic => instr.op \in {"add", "sub", "and", "or", "xor"} /\ ~A!Movable(instr.b)
           /\ B!Mul => instr.op = "mul"
           /\ B!Div => instr.op = "div"
           /\ B!Neg => instr.op = "neg"
           /\ B!Shl => instr.op = "shl"
           /\ B!Shr => instr.op = "shr"
           /\ B!Rot => instr.op = "rot"
           /\ B!Bswap => instr.op = "bswap"
           /\ B!Soc => instr.op = "soc"
           /\ B!Sof => instr.op = "sof"
           /\ B!Ldi => instr.op = "ldi"
           /\ B!Copy => instr.op = "copy"
           /\ B!Decode => instr = Idle
<1>1. B!Movable(instr.b) = A!Movable(instr.b) /\ instr2 = instr
  BY SameOperands DEF Alike
<1>2. /\ B!Add => instr.op = "add" /\ A!Movable(instr.b)
      /\ B!Sub => instr.op = "sub" /\ A!Movable(instr.b)
      /\ B!Logic => instr.op \in {"and", "or", "xor"} /\ A!Movable(instr.b)
      /\ B!Panic => instr.op \in {"add", "sub", "and", "or", "xor"} /\ ~A!Movable(instr.b)
  BY <1>1 DEF B!Add, B!Sub, B!Logic, B!Panic, B!Doing
<1>3. /\ B!Mul => instr.op = "mul"
      /\ B!Div => instr.op = "div"
      /\ B!Neg => instr.op = "neg"
  BY <1>1 DEF B!Mul, B!Div, B!Neg, B!Doing
<1>4. /\ B!Shl => instr.op = "shl"
      /\ B!Shr => instr.op = "shr"
      /\ B!Rot => instr.op = "rot"
      /\ B!Bswap => instr.op = "bswap"
  BY <1>1 DEF B!Shl, B!Shr, B!Rot, B!Bswap, B!Doing
<1>5. /\ B!Soc => instr.op = "soc"
      /\ B!Sof => instr.op = "sof"
      /\ B!Ldi => instr.op = "ldi"
      /\ B!Copy => instr.op = "copy"
      /\ B!Decode => instr = Idle
  BY <1>1 DEF B!Soc, B!Sof, B!Ldi, B!Copy, B!Doing, B!Decode, B!Idle, Idle
<1> QED
  BY <1>2, <1>3, <1>4, <1>5

\* After an instruction that two processors begin alike, and end as the
\* instruction set promises, they are alike: the promise leaves no freedom, in
\* registers, flags or panics, to vm.rs or to another implementation of it.
THEOREM PromiseDetermines ==
    ASSUME Twin, instr # Idle, A!Next, B!Next
    PROVE  Alike'
<1>1. Alike
  BY DEF Twin
<1>2. ASSUME A!Add \/ A!Sub \/ A!Logic \/ A!Panic
      PROVE  Alike'
  <2>1. \/ A!Add /\ B!Add
        \/ A!Sub /\ B!Sub
        \/ A!Logic /\ B!Logic
        \/ A!Panic /\ B!Panic
    BY <1>1, <1>2, Operations, OtherOperations DEF B!Next
  <2> QED
    BY <2>1, AddDetermined, SubDetermined, LogicDetermined, PanicDetermined
<1>3. ASSUME A!Mul \/ A!Div \/ A!Neg
      PROVE  Alike'
  <2>1. \/ A!Mul /\ B!Mul
        \/ A!Div /\ B!Div
        \/ A!Neg /\ B!Neg
    BY <1>1, <1>3, Operations, OtherOperations DEF B!Next
  <2> QED
    BY <2>1, MulDetermined, DivDetermined, NegDetermined
<1>4. ASSUME A!Shl \/ A!Shr \/ A!Rot \/ A!Bswap
      PROVE  Alike'
  <2>1. \/ A!Shl /\ B!Shl
        \/ A!Shr /\ B!Shr
        \/ A!Rot /\ B!Rot
        \/ A!Bswap /\ B!Bswap
    BY <1>1, <1>4, Operations, OtherOperations DEF B!Next
  <2> QED
    BY <2>1, ShlDetermined, ShrDetermined, RotDetermined, BswapDetermined
<1>5. ASSUME A!Soc \/ A!Sof \/ A!Ldi \/ A!Copy
      PROVE  Alike'
  <2>1. \/ A!Soc /\ B!Soc
        \/ A!Sof /\ B!Sof
        \/ A!Ldi /\ B!Ldi
        \/ A!Copy /\ B!Copy
    BY <1>1, <1>5, Operations, OtherOperations DEF B!Next
  <2> QED
    BY <2>1, SocDetermined, SofDetermined, LdiDetermined, CopyDetermined
<1>6. ~A!Decode
  BY Operations
<1> QED
  BY <1>2, <1>3, <1>4, <1>5, <1>6 DEF A!Next

\* Another implementation of the promise, whose registers hold words and whose
\* condition bits are bits,
Peer ==
    /\ B!Init
    /\ [](/\ regs2 \in [Regs -> Word]
          /\ flags2 \in [{"carry", "zero", "overflow", "sign"} -> BOOLEAN])

\* executes the instructions that the emulator does.
Together == A!Next /\ B!Next /\ (instr = Idle => instr2' = instr')

\* The emulator never differs from it, however long they run.
THEOREM Agreement ==
    ASSUME "null" \notin Regs
    PROVE  Spec /\ Peer /\ [][Together]_<<vars, regs2, flags2, instr2, status2>> => []Alike
<1> DEFINE bits == {"carry", "zero", "overflow", "sign"}
           Typed == regs2 \in [Regs -> Word] /\ flags2 \in [bits -> BOOLEAN]
           both == <<vars, regs2, flags2, instr2, status2>>
<1>1. Init /\ B!Init /\ Typed => Alike
  <2> SUFFICES ASSUME Init, B!Init, Typed
               PROVE  Alike
    OBVIOUS
  <2>1. regs2 = regs
    BY DEF Init, B!Init
  <2>2. flags2 = flags
    BY DEF Init, B!Init
  <2>3. instr2 = instr /\ status2 = status
    BY DEF Init, B!Init, Idle, B!Idle
  <2> QED
    BY <2>1, <2>2, <2>3 DEF Alike
<1>2. /\ TypeOK /\ TypeOK' /\ Typed /\ Typed' /\ Alike
      /\ [Together]_both
      => Alike'
  <2> SUFFICES ASSUME TypeOK, TypeOK', Typed, Typed', Alike, [Together]_both
               PROVE  Alike'
    OBVIOUS
  <2>1. CASE both' = both
    BY <2>1 DEF Alike, vars
  <2>2. CASE Together /\ instr # Idle
    <3>1. Files'
      BY DEF TypeOK, Files
    <3>2. Twin /\ A!Next /\ B!Next
      BY <2>2, <3>1 DEF Twin, Together
    <3> QED
      BY <2>2, <3>2, PromiseDetermines
  <2>3. CASE Together /\ instr = Idle
    <3>1. A!Decode /\ B!Decode
      <4>1. Idle.op = "idle" /\ instr.op = "idle"
        BY <2>3 DEF Idle
      <4> QED
        BY <2>3, <4>1, Operations, OtherOperations DEF Together, A!Next, B!Next
    <3> QED
      BY <2>3, <3>1 DEF Together, Alike, A!Decode, B!Decode
  <2> QED
    BY <2>1, <2>2, <2>3
<1> QED
  BY <1>1, <1>2, TypeCorrect, PTL DEF Spec, Peer

=============================================================================
