------------------------------ MODULE Arithmetic ------------------------------
(***************************************************************************)
(* What the emulator promises of arithmetic, logic, shifts and comparisons *)
(* in terms of the integers that operands stand for: the instruction set   *)
(* of spec/src/instructions.md, except where the emulator differs. It is   *)
(* the specification that Alu is shown to implement.  The differences:     *)
(*   - Second moves the immediates of add and sub by S times their width,  *)
(*     not by S bits, and can extend the sign of those of and, or and xor; *)
(*   - Movable, Panic: a debug build panics on one that is moved too far;  *)
(*   - Shr shifts in zeros, not the sign, in a size of less than a word;   *)
(*   - Mul has destinations narrower than its operands, too;               *)
(*   - Reported gives the sign bit of results of unsigned mul and div, for *)
(*     which the manual has a sentence and a formula that differ;          *)
(*   - the panics of Mul, Div and Neg, of which the manual says nothing.   *)
(***************************************************************************)
EXTENDS Integers

CONSTANTS Regs, Sizes, WordSize, ByteBits, ImmBits, LoadBits, Instrs, OverflowChecks

VARIABLES regs, flags, instr, status

avars == <<regs, flags, instr, status>>

Idle == [op |-> "idle"]

Bits(s) == ByteBits * s
Limit(s) == 2 ^ Bits(s)
Smaller(m, n) == IF m < n THEN m ELSE n
Magnitude(n) == IF n < 0 THEN -n ELSE n

\* A value of size s as a natural number, and as an integer.
Natural(v, s) == v % Limit(s)
Integer(v, s) ==
    IF Natural(v, s) < Limit(s) \div 2 THEN Natural(v, s) ELSE Natural(v, s) - Limit(s)

InRange(n, s) == -(Limit(s) \div 2) <= n /\ n < Limit(s) \div 2
Negative(n, s) == Integer(n, s) < 0
Zero(n, s) == Natural(n, s) = 0

\* Register d comes to hold n, in size s; nothing else in it changes.
Keeps(d, s, n) ==
    /\ Natural(regs'[d], s) = Natural(n, s)
    /\ regs'[d] \div Limit(s) = regs[d] \div Limit(s)
Others(ds) == \A r \in Regs \ ds : regs'[r] = regs[r]
Result(d, s, n) == (d = "null" \/ Keeps(d, s, n)) /\ Others({d})

Doing(ops) == status = "running" /\ instr.op \in ops
Done == instr' = Idle /\ UNCHANGED status
Flags(f) == flags' = IF instr.f THEN f ELSE flags
Gone == status' = "panicked" /\ UNCHANGED <<regs, flags, instr>>

TooFar(b) == b.kind = "shifted" /\ b.factor * ImmBits >= Bits(WordSize)

Movable(b) == ~OverflowChecks \/ ~TooFar(b)

\* The second operand: a register, or an immediate moved up by S times its width
\* (by S bits, the manual has it for add and sub: see ShiftedBySBits in Alu) and
\* extended as a natural number or an integer.  One moved out of the word panics
\* a debug build, where the manual truncates it; a release build takes the
\* distance modulo the width of a word.
Second(b) ==
    CASE b.kind = "reg" -> regs[b.reg]
      [] b.kind = "shifted" ->
            LET negative == b.extend /\ b.imm >= 2 ^ (ImmBits - 1) /\ ~TooFar(b)
            IN  (IF negative THEN b.imm - 2 ^ ImmBits ELSE b.imm)
                * 2 ^ ((b.factor * ImmBits) % Bits(WordSize))

CarryIn == IF instr.carry /\ flags.carry THEN 1 ELSE 0

-----------------------------------------------------------------------------

\* Carry is unsigned overflow, and overflow signed overflow.
Add ==
    /\ Doing({"add"}) /\ Movable(instr.b)
    /\ LET s == instr.size
           l == regs[instr.a]
           r == Second(instr.b)
           sum == l + r + CarryIn
       IN  /\ Result(instr.d, s, sum)
           /\ Flags([carry |-> Natural(l, s) + Natural(r, s) + CarryIn >= Limit(s),
                     zero |-> Zero(sum, s),
                     overflow |-> ~InRange(Integer(l, s) + Integer(r, s) + CarryIn, s),
                     sign |-> Negative(sum, s)])
           /\ Done

\* Carry is a borrow.
Sub ==
    /\ Doing({"sub"}) /\ Movable(instr.b)
    /\ LET s == instr.size
           l == regs[instr.a]
           r == Second(instr.b)
           difference == l - r - CarryIn
       IN  /\ Result(instr.d, s, difference)
           /\ Flags([carry |-> Natural(l, s) < Natural(r, s) + CarryIn,
                     zero |-> Zero(difference, s),
                     overflow |-> ~InRange(Integer(l, s) - Integer(r, s) - CarryIn, s),
                     sign |-> Negative(difference, s)])
           /\ Done

\* Comparisons order naturals and integers.
Soc ==
    /\ Doing({"soc"})
    /\ LET s == instr.size
           l == regs[instr.a]
           r == regs[instr.b.reg]
           below == Natural(l, s) < Natural(r, s) + CarryIn
           equal == Zero(l - r - CarryIn, s)
           outside == ~InRange(Integer(l, s) - Integer(r, s) - CarryIn, s)
           negative == Negative(l - r - CarryIn, s)
           less == Integer(l, s) < Integer(r, s) + CarryIn
           holds == CASE instr.cond = "c" -> below
                      [] instr.cond = "nc" -> ~below
                      [] instr.cond = "z" -> equal
                      [] instr.cond = "nz" -> ~equal
                      [] instr.cond = "o" -> outside
                      [] instr.cond = "no" -> ~outside
                      [] instr.cond = "s" -> negative
                      [] instr.cond = "ns" -> ~negative
                      [] instr.cond = "l" -> less
                      [] instr.cond = "nl" -> ~less
       IN  Result(instr.d, s, IF holds THEN 1 ELSE 0)
    /\ Done /\ UNCHANGED flags

\* What the flags say: of each condition and its negation one.
Shown ==
    {IF flags.carry THEN "c" ELSE "nc", IF flags.zero THEN "z" ELSE "nz",
     IF flags.overflow THEN "o" ELSE "no", IF flags.sign THEN "s" ELSE "ns",
     IF flags.sign = flags.overflow THEN "nl" ELSE "l"}

Sof ==
    /\ Doing({"sof"})
    /\ Result(instr.d, instr.size, IF instr.cond \in Shown THEN 1 ELSE 0)
    /\ Done /\ UNCHANGED flags

\* The other flag-setting instructions report the value they leave.
Reported(n, s) == [flags EXCEPT !.zero = Zero(n, s), !.sign = Negative(n, s)]

Operand(v, s) == IF instr.signed THEN Integer(v, s) ELSE Natural(v, s)

\* The panics of these two are those of the host's arithmetic.
Fits(n, signed) ==
    IF signed THEN InRange(n, WordSize) ELSE 0 <= n /\ n < Limit(WordSize)

Mul ==
    /\ Doing({"mul"})
    /\ LET s == instr.size
           product == Operand(regs[instr.a], s) * Operand(regs[instr.b.reg], s)
       IN  \/ OverflowChecks /\ ~Fits(product, instr.signed) /\ Gone
           \/ /\ ~OverflowChecks \/ Fits(product, instr.signed)
              /\ Result(instr.d, instr.dsize, product)
              /\ Flags(Reported(product, instr.dsize))
              /\ Done

\* The remainder has the sign of the dividend and is less than the divisor.
Div ==
    /\ Doing({"div"})
    /\ LET s == instr.size
           x == Operand(regs[instr.a], s)
           y == Operand(regs[instr.b.reg], s)
           lost == y = 0 \/ (y = -1 /\ ~InRange(-x, WordSize))
       IN  \/ lost /\ Gone
           \/ ~lost /\ \E q \in -Limit(s) .. Limit(s) :
                 LET rem == x - q * y
                 IN  /\ rem = 0 \/ (rem < 0 <=> x < 0)
                     /\ Magnitude(rem) < Magnitude(y)
                     /\ Keeps(instr.d, s, q)
                     /\ instr.rem = instr.d \/ Keeps(instr.rem, s, rem)
                     /\ Others({instr.d, instr.rem})
                     /\ Flags(Reported(q, s))
                     /\ Done

Neg ==
    /\ Doing({"neg"})
    /\ LET s == instr.size
           n == -Integer(regs[instr.a], s)
       IN  \/ OverflowChecks /\ ~InRange(n, WordSize) /\ Gone
           \/ /\ ~OverflowChecks \/ InRange(n, WordSize)
              /\ Result(instr.d, s, n) /\ Flags(Reported(n, s)) /\ Done

-----------------------------------------------------------------------------

\* Digit k of v, of width bits.
Digit(v, k, width) == (v \div 2 ^ (k * width)) % 2 ^ width

Logic ==
    /\ Doing({"and", "or", "xor"}) /\ Movable(instr.b)
    /\ LET s == instr.size
           l == Natural(regs[instr.a], s)
           r == Natural(Second(instr.b), s)
           Means(x, y, z) ==
               CASE instr.op = "and" -> z = x * y
                 [] instr.op = "or" -> z = x + y - x * y
                 [] instr.op = "xor" -> z = (x + y) % 2
       IN  \E n \in 0 .. Limit(s) - 1 :
              /\ \A k \in 0 .. Bits(s) - 1 : Means(Digit(l, k, 1), Digit(r, k, 1), Digit(n, k, 1))
              /\ Result(instr.d, s, n)
              /\ Flags([Reported(n, s) EXCEPT !.overflow = FALSE])
              /\ Done

\* Shifts multiply and divide; carry is the last digit shifted out, and stays
\* after a shift by nothing.
Amount(s) == IF instr.b.kind = "reg" THEN Natural(regs[instr.b.reg], s) ELSE instr.b.imm

ShiftFlags(n, s, digit) ==
    [Reported(n, s) EXCEPT !.overflow = FALSE,
                           !.carry = IF Amount(s) = 0 THEN @ ELSE digit = 1]

Shl ==
    /\ Doing({"shl"})
    /\ LET s == instr.size
           l == Natural(regs[instr.a], s)
           n == l * 2 ^ Smaller(Amount(s), Bits(s))
       IN  Result(instr.d, s, n) /\ Flags(ShiftFlags(n, s, (n \div Limit(s)) % 2)) /\ Done

\* The sign is that of a whole word: an arithmetic shift of less than a word
\* by less than its size shifts in zeros.
Shr ==
    /\ Doing({"shr"})
    /\ LET s == instr.size
           by == Smaller(Amount(s), Bits(s))
           l == Natural(regs[instr.a], s)
           x == IF instr.signed /\ (s = WordSize \/ by = Bits(s))
                THEN Integer(regs[instr.a], s) ELSE l
           n == x \div 2 ^ by
           digit == IF by = 0 THEN 0 ELSE Digit(l, by - 1, 1)
       IN  Result(instr.d, s, n) /\ Flags(ShiftFlags(n, s, digit)) /\ Done

\* A rotation to the right is undone by one to the left, which multiplies
\* modulo Limit - 1.
Rot ==
    /\ Doing({"rot"})
    /\ LET s == instr.size
           l == Natural(regs[instr.a], s)
       IN  \E n \in 0 .. Limit(s) - 1 :
              /\ (n * 2 ^ (Amount(s) % Bits(s)) - l) % (Limit(s) - 1) = 0
              /\ n = 0 <=> l = 0
              /\ Result(instr.d, s, n)
              /\ Flags([flags EXCEPT !.sign = Negative(n, s)])
              /\ Done

Bswap ==
    /\ Doing({"bswap"})
    /\ LET s == instr.size
           l == regs[instr.a]
       IN  \E n \in 0 .. Limit(s) - 1 :
              /\ \A k \in 0 .. s - 1 : Digit(n, k, ByteBits) = Digit(l, s - 1 - k, ByteBits)
              /\ Result(instr.d, s, n)
              /\ Flags([flags EXCEPT !.sign = Negative(n, s)])
              /\ Done

-----------------------------------------------------------------------------

\* The loaded field, what is below it and what is above it.
Ldi ==
    /\ Doing({"ldi"})
    /\ LET old == regs[instr.d]
           new == regs'[instr.d]
           field == 2 ^ instr.shift
           above == 2 ^ (instr.shift + LoadBits)
       IN  /\ new - (new % field) - (new - (new % above))
              = Natural(instr.imm * field, WordSize)
           /\ new % field = IF instr.clear \in {1, 3} THEN 0 ELSE old % field
           /\ new \div above = IF instr.clear \in {2, 3} THEN 0 ELSE old \div above
    /\ Others({instr.d})
    /\ Done /\ UNCHANGED flags

Copy ==
    /\ Doing({"copy"})
    /\ Result(instr.d, instr.size, regs[instr.a])
    /\ Done /\ UNCHANGED flags

Decode ==
    /\ status = "running" /\ instr = Idle
    /\ instr' \in Instrs
    /\ UNCHANGED <<regs, flags, status>>

\* A debug build panics on an immediate that is moved out of the word.
Panic ==
    /\ Doing({"add", "sub", "and", "or", "xor"})
    /\ ~Movable(instr.b) /\ Gone

Init ==
    /\ \A r \in Regs : regs[r] = 0
    /\ \A b \in {"carry", "zero", "overflow", "sign"} : ~flags[b]
    /\ instr = Idle /\ status = "running"

Next ==
    \/ Decode
    \/ Add \/ Sub \/ Mul \/ Div \/ Neg
    \/ Logic \/ Shl \/ Shr \/ Rot \/ Bswap
    \/ Soc \/ Sof \/ Ldi \/ Copy
    \/ Panic

Spec == Init /\ [][Next]_avars

=============================================================================
