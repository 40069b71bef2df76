--------------------------------- MODULE Alu ---------------------------------
(***************************************************************************)
(* What the instructions of vm.rs compute: sized arithmetic, logic, shifts *)
(* and comparisons on registers, and the condition bits.  Registers and    *)
(* fields have the proportions of the emulator's, at any scale: sizes      *)
(* count bytes of ByteBits bits.                                           *)
(***************************************************************************)
EXTENDS Words

CONSTANTS
    Regs,            \* register names
    Sizes,           \* numbers of bytes of an operand
    WordSize,        \* the largest of them
    ByteBits,        \* 8
    ImmBits,         \* width of the immediates of arithmetic, 11
    LoadBits,        \* width of the immediates of ldi, 16
    Instrs,          \* decoded instructions that may be executed
    OverflowChecks   \* arithmetic overflow panics (a debug build) or wraps

Bits(s) == ByteBits * s
Span(s) == 2 ^ Bits(s)
WordBits == Bits(WordSize)

Conditions == {"c", "nc", "z", "nz", "o", "no", "s", "ns", "l", "nl"}

ASSUME SizesAssumption ==
    /\ Sizes \subseteq Nat \ {0} /\ WordSize \in Sizes
    /\ \A s \in Sizes : s <= WordSize
    /\ {ByteBits, ImmBits, LoadBits} \subseteq Nat \ {0}
    /\ AddrSpace = Span(WordSize)
ASSUME BuildAssumption == OverflowChecks \in BOOLEAN

\* Instructions that the decoder yields: registers, immediates (as they stand
\* or shifted by a factor) and switches.
IsReg(b) == b.kind = "reg" /\ b.reg \in Regs
IsShifted(b) ==
    /\ b.kind = "shifted" /\ b.imm \in 0 .. 2 ^ ImmBits - 1
    /\ b.factor \in 0 .. 7 /\ b.extend \in BOOLEAN
IsPlain(b) == b.kind = "plain" /\ b.imm \in 0 .. 127

IsInstr(i) ==
    LET Sized == i.size \in Sizes /\ i.d \in Regs
        Unary == Sized /\ i.a \in Regs
        Binary == i.size \in Sizes /\ i.d \in Regs \cup {"null"} /\ i.a \in Regs
        FlagSetting == i.f \in BOOLEAN
    IN  \/ /\ i.op \in {"add", "sub"} /\ Binary /\ FlagSetting
           /\ i.carry \in BOOLEAN /\ (IsReg(i.b) \/ IsShifted(i.b))
        \/ /\ i.op = "mul" /\ Unary /\ FlagSetting /\ IsReg(i.b)
           /\ i.dsize \in Sizes /\ i.signed \in BOOLEAN
        \/ /\ i.op = "div" /\ Unary /\ FlagSetting /\ IsReg(i.b)
           /\ i.rem \in Regs /\ i.signed \in BOOLEAN
        \/ i.op \in {"neg", "bswap"} /\ Unary /\ FlagSetting
        \/ i.op \in {"and", "or", "xor"} /\ Binary /\ FlagSetting /\ (IsReg(i.b) \/ IsShifted(i.b))
        \/ i.op \in {"shl", "rot"} /\ Binary /\ FlagSetting /\ (IsReg(i.b) \/ IsPlain(i.b))
        \/ /\ i.op = "shr" /\ Binary /\ FlagSetting /\ (IsReg(i.b) \/ IsPlain(i.b))
           /\ i.signed \in BOOLEAN
        \/ i.op = "soc" /\ Unary /\ IsReg(i.b) /\ i.cond \in Conditions /\ i.carry \in BOOLEAN
        \/ i.op = "sof" /\ Sized /\ i.cond \in Conditions
        \/ /\ i.op = "ldi" /\ i.d \in Regs /\ i.imm \in 0 .. 2 ^ LoadBits - 1
           /\ i.shift \in 0 .. WordBits - 1 /\ i.clear \in 0 .. 3
        \/ i.op = "copy" /\ Unary
ASSUME InstrsAssumption == \A i \in Instrs : IsInstr(i)

VARIABLES
    regs,    \* register file
    flags,   \* [carry, zero, overflow, sign]
    instr,   \* the decoded instruction, or Idle between two
    status   \* "running" or "panicked"

vars == <<regs, flags, instr, status>>

Idle == [op |-> "idle"]

-----------------------------------------------------------------------------
(* Bits and sizes.                                                         *)

Bit(v, n) == v % 2 ^ (n + 1) >= 2 ^ n
Positions == 0 .. WordBits - 1
FromBits(set) == CHOOSE v \in Word : \A n \in Positions : Bit(v, n) <=> n \in set
Wrap(n) == n % AddrSpace

\* Register::get_unsigned and get_signed, the latter as an integer.
Unsigned(r, s) == regs[r] % Span(s)
Signed(r, s) == IF Bit(regs[r], Bits(s) - 1) THEN Unsigned(r, s) - Span(s) ELSE Unsigned(r, s)

\* Mutant: the value is not cut to the size.
SetWhole(old, s, v) == old - (old % Span(s)) + v

\* Register::set, which keeps the bits above the size.
Set(old, s, v) == old - (old % Span(s)) + (v % Span(s))

Msb(v, s) == Bit(v, Bits(s) - 1)
IsZero(v, s) == v % Span(s) = 0

\* A null destination drops the result.
Write(d, s, v) == regs' = IF d = "null" THEN regs ELSE [regs EXCEPT ![d] = Set(@, s, v)]

\* imm11_with_shift_factor: an immediate moved up by whole fields.  A shift
\* by more than the word panics or uses the low bits of the amount.
Immediate(b) ==
    LET amount == b.factor * ImmBits
        shifted == Wrap(b.imm * 2 ^ (amount % WordBits))
        msb == amount + ImmBits - 1
    IN  IF b.extend /\ msb < WordBits - 1 /\ Bit(shifted, msb)
        THEN shifted + (AddrSpace - 2 ^ (msb + 1))
        ELSE shifted
ImmediatePanics(b) == b.kind = "shifted" /\ OverflowChecks /\ b.factor * ImmBits >= WordBits

\* The second operand: a register, or an immediate as it stands or shifted.
SignedWord(b, s) == IF b.kind = "reg" THEN Wrap(Signed(b.reg, s)) ELSE Immediate(b)
UnsignedWord(b, s) ==
    CASE b.kind = "reg" -> Unsigned(b.reg, s)
      [] b.kind = "shifted" -> Immediate(b)
      [] b.kind = "plain" -> b.imm

-----------------------------------------------------------------------------
(* The end of an instruction.                                              *)

Decoded(ops) == status = "running" /\ instr.op \in ops
Retire == instr' = Idle /\ UNCHANGED status
Panic == status' = "panicked" /\ UNCHANGED <<regs, flags, instr>>

SetFlags(f) == flags' = IF instr.f THEN f ELSE flags

-----------------------------------------------------------------------------
(* Arithmetic.                                                             *)

CarryIn == IF instr.carry /\ flags.carry THEN 1 ELSE 0

\* Mutant: forgets the carry that came in.
AddFlagsUnsigned(l, r, res, s) ==
    [carry |-> Msb(l, s) /\ Msb(r, s),
     zero |-> IsZero(res, s),
     overflow |-> (Msb(l, s) /\ Msb(r, s) /\ ~Msb(res, s))
                  \/ (~Msb(l, s) /\ ~Msb(r, s) /\ Msb(res, s)),
     sign |-> Msb(res, s)]
AddFlags(l, r, res, s) ==
    [carry |-> (Msb(l, s) /\ Msb(r, s)) \/ ((Msb(l, s) \/ Msb(r, s)) /\ ~Msb(res, s)),
     zero |-> IsZero(res, s),
     overflow |-> (Msb(l, s) /\ Msb(r, s) /\ ~Msb(res, s))
                  \/ (~Msb(l, s) /\ ~Msb(r, s) /\ Msb(res, s)),
     sign |-> Msb(res, s)]

SubFlags(l, r, res, s) ==
    [carry |-> (~Msb(l, s) /\ Msb(r, s)) \/ (Msb(res, s) /\ Msb(r, s))
               \/ (Msb(res, s) /\ ~Msb(l, s)),
     zero |-> IsZero(res, s),
     overflow |-> (Msb(l, s) /\ ~Msb(r, s) /\ ~Msb(res, s))
                  \/ (~Msb(l, s) /\ Msb(r, s) /\ Msb(res, s)),
     sign |-> Msb(res, s)]

Sum(l, r, c) == Plus(Plus(l, r), c)
Difference(l, r, c) == Minus(Minus(l, r), c)

Add ==
    /\ Decoded({"add"})
    /\ LET s == instr.size
           l == Wrap(Signed(instr.a, s))
           r == SignedWord(instr.b, s)
           res == Sum(l, r, CarryIn)
       IN  \/ ImmediatePanics(instr.b) /\ Panic
           \/ /\ ~ImmediatePanics(instr.b)
              /\ Write(instr.d, s, res) /\ SetFlags(AddFlags(l, r, res, s)) /\ Retire

Sub ==
    /\ Decoded({"sub"})
    /\ LET s == instr.size
           l == Wrap(Signed(instr.a, s))
           r == SignedWord(instr.b, s)
           res == Difference(l, r, CarryIn)
       IN  \/ ImmediatePanics(instr.b) /\ Panic
           \/ /\ ~ImmediatePanics(instr.b)
              /\ Write(instr.d, s, res) /\ SetFlags(SubFlags(l, r, res, s)) /\ Retire

\* The bits of a result that most instructions report.
ResultFlags(res, s) == [flags EXCEPT !.zero = IsZero(res, s), !.sign = Msb(res, s)]

Representable(n, signed) ==
    IF signed THEN -(AddrSpace \div 2) <= n /\ n < AddrSpace \div 2 ELSE n \in Word

Mul ==
    /\ Decoded({"mul"})
    /\ LET s == instr.size
           t == instr.dsize
           product == IF instr.signed THEN Signed(instr.a, s) * Signed(instr.b.reg, s)
                      ELSE Unsigned(instr.a, s) * Unsigned(instr.b.reg, s)
           overflow == OverflowChecks /\ ~Representable(product, instr.signed)
       IN  \/ overflow /\ Panic
           \/ /\ ~overflow
              /\ Write(instr.d, t, Wrap(product)) /\ SetFlags(ResultFlags(Wrap(product), t))
              /\ Retire

\* Division rounds to zero.
Magnitude(x) == IF x < 0 THEN -x ELSE x
Quotient(x, y) ==
    LET q == Magnitude(x) \div Magnitude(y)
    IN  IF (x < 0) = (y < 0) THEN q ELSE -q

\* The remainder goes first, and is lost when both go to the same register.
Div ==
    /\ Decoded({"div"})
    /\ LET s == instr.size
           x == IF instr.signed THEN Signed(instr.a, s) ELSE Unsigned(instr.a, s)
           y == IF instr.signed THEN Signed(instr.b.reg, s) ELSE Unsigned(instr.b.reg, s)
           quot == Quotient(x, y)
           rem == x - y * quot
       IN  \/ y = 0 /\ Panic
           \/ y # 0 /\ ~Representable(quot, instr.signed) /\ Panic
           \/ /\ y # 0 /\ Representable(quot, instr.signed)
              /\ regs' = [r \in Regs |->
                             IF r = instr.d THEN Set(regs[r], s, Wrap(quot))
                             ELSE IF r = instr.rem THEN Set(regs[r], s, Wrap(rem))
                             ELSE regs[r]]
              /\ SetFlags(ResultFlags(Wrap(quot), s))
              /\ Retire

Neg ==
    /\ Decoded({"neg"})
    /\ LET s == instr.size
           x == Signed(instr.a, s)
           overflow == OverflowChecks /\ ~Representable(-x, TRUE)
       IN  \/ overflow /\ Panic
           \/ /\ ~overflow
              /\ Write(instr.d, s, Wrap(-x)) /\ SetFlags(ResultFlags(Wrap(-x), s)) /\ Retire

-----------------------------------------------------------------------------
(* Logic, shifts and rotations.                                            *)

LogicFlags(res, s) == [ResultFlags(res, s) EXCEPT !.overflow = FALSE]

Combined(op, x, y) ==
    CASE op = "and" -> FromBits({n \in Positions : Bit(x, n) /\ Bit(y, n)})
      [] op = "or" -> FromBits({n \in Positions : Bit(x, n) \/ Bit(y, n)})
      [] op = "xor" -> FromBits({n \in Positions : Bit(x, n) # Bit(y, n)})

Logic ==
    /\ Decoded({"and", "or", "xor"})
    /\ LET s == instr.size
           res == Combined(instr.op, Unsigned(instr.a, s), UnsignedWord(instr.b, s))
       IN  \/ ImmediatePanics(instr.b) /\ Panic
           \/ /\ ~ImmediatePanics(instr.b)
              /\ Write(instr.d, s, res) /\ SetFlags(LogicFlags(res, s)) /\ Retire

\* A shift by nothing keeps the carry.
ShiftFlags(res, s, amount, carry) ==
    [LogicFlags(res, s) EXCEPT !.carry = IF amount = 0 THEN @ ELSE carry]

LeftCarry(v, s, n) == Bit(v, IF n >= Bits(s) THEN 0 ELSE Bits(s) - n)
RightCarry(v, s, n) == Bit(v, IF n >= Bits(s) THEN Bits(s) - 1 ELSE n - 1)

Shl ==
    /\ Decoded({"shl"})
    /\ LET s == instr.size
           l == Unsigned(instr.a, s)
           n == UnsignedWord(instr.b, s)
           res == IF n >= Bits(s) THEN 0 ELSE Wrap(l * 2 ^ n)
       IN  /\ Write(instr.d, s, res)
           /\ SetFlags(ShiftFlags(res, s, n, LeftCarry(l, s, n)))
           /\ Retire

\* An arithmetic shift of a value of any size: the value is zero-extended
\* before it is shifted as a signed word.
ShiftRight(l, s, n, signed) ==
    IF n >= Bits(s) THEN IF signed /\ Msb(l, s) THEN AddrSpace - 1 ELSE 0
    ELSE IF signed /\ Bit(l, WordBits - 1) THEN Wrap((l - AddrSpace) \div 2 ^ n)
    ELSE l \div 2 ^ n

Shr ==
    /\ Decoded({"shr"})
    /\ LET s == instr.size
           l == Unsigned(instr.a, s)
           n == UnsignedWord(instr.b, s)
           res == ShiftRight(l, s, n, instr.signed)
       IN  /\ Write(instr.d, s, res)
           /\ SetFlags(ShiftFlags(res, s, n, RightCarry(l, s, n)))
           /\ Retire

Rot ==
    /\ Decoded({"rot"})
    /\ LET s == instr.size
           l == Unsigned(instr.a, s)
           n == UnsignedWord(instr.b, s) % Bits(s)
           res == (l \div 2 ^ n) + (l % 2 ^ n) * 2 ^ (Bits(s) - n)
       IN  /\ Write(instr.d, s, res)
           /\ SetFlags([flags EXCEPT !.sign = Msb(res, s)])
           /\ Retire

Bswap ==
    /\ Decoded({"bswap"})
    /\ LET s == instr.size
           l == Unsigned(instr.a, s)
           Origin(n) == (s - 1 - (n \div ByteBits)) * ByteBits + (n % ByteBits)
           res == FromBits({n \in 0 .. Bits(s) - 1 : Bit(l, Origin(n))})
       IN  /\ Write(instr.d, s, res)
           /\ SetFlags([flags EXCEPT !.sign = Msb(res, s)])
           /\ Retire

-----------------------------------------------------------------------------
(* Conditions and moves.                                                   *)

Test(cond, f) ==
    CASE cond = "c" -> f.carry
      [] cond = "nc" -> ~f.carry
      [] cond = "z" -> f.zero
      [] cond = "nz" -> ~f.zero
      [] cond = "o" -> f.overflow
      [] cond = "no" -> ~f.overflow
      [] cond = "s" -> f.sign
      [] cond = "ns" -> ~f.sign
      [] cond = "l" -> f.sign # f.overflow
      [] cond = "nl" -> f.sign = f.overflow

\* compare!, which the conditional jumps use too.
Soc ==
    /\ Decoded({"soc"})
    /\ LET s == instr.size
           l == Wrap(Signed(instr.a, s))
           r == SignedWord(instr.b, s)
           holds == Test(instr.cond, SubFlags(l, r, Difference(l, r, CarryIn), s))
       IN  Write(instr.d, s, IF holds THEN 1 ELSE 0)
    /\ Retire /\ UNCHANGED flags

Sof ==
    /\ Decoded({"sof"})
    /\ Write(instr.d, instr.size, IF Test(instr.cond, flags) THEN 1 ELSE 0)
    /\ Retire /\ UNCHANGED flags

\* ldi: the immediate replaces a field of the register, and the bits below
\* (clear 1), above (2) or both (3) are cleared.
Ldi ==
    /\ Decoded({"ldi"})
    /\ LET old == regs[instr.d]
           above == 2 ^ (instr.shift + LoadBits)
           low == IF instr.clear \in {1, 3} THEN 0 ELSE old % 2 ^ instr.shift
           high == IF instr.clear \in {2, 3} THEN 0 ELSE old - (old % above)
       IN  regs' = [regs EXCEPT ![instr.d] = low + Wrap(instr.imm * 2 ^ instr.shift) + high]
    /\ Retire /\ UNCHANGED flags

Copy ==
    /\ Decoded({"copy"})
    /\ Write(instr.d, instr.size, Unsigned(instr.a, instr.size))
    /\ Retire /\ UNCHANGED flags

-----------------------------------------------------------------------------

Decode ==
    /\ status = "running" /\ instr = Idle
    /\ instr' \in Instrs
    /\ UNCHANGED <<regs, flags, status>>

\* The process is gone.
Panicked == status = "panicked" /\ UNCHANGED vars

Init ==
    /\ regs = [r \in Regs |-> 0]
    /\ flags = [carry |-> FALSE, zero |-> FALSE, overflow |-> FALSE, sign |-> FALSE]
    /\ instr = Idle
    /\ status = "running"

Next ==
    \/ Decode
    \/ Add \/ Sub \/ Mul \/ Div \/ Neg
    \/ Logic \/ Shl \/ Shr \/ Rot \/ Bswap
    \/ Soc \/ Sof \/ Ldi \/ Copy
    \/ Panicked

Spec == Init /\ [][Next]_vars

-----------------------------------------------------------------------------
(* Properties.                                                             *)

TypeOK ==
    /\ regs \in [Regs -> Word]
    /\ flags \in [{"carry", "zero", "overflow", "sign"} -> BOOLEAN]
    /\ instr \in Instrs \cup {Idle}
    /\ status \in {"running", "panicked"}

\* What the emulator promises, on integers; the code works on bits. That is the
\* instruction set, except for what the properties at the end are about and
\* the other differences that Arithmetic lists.
A == INSTANCE Arithmetic
ImplementsArithmetic == A!Spec

-----------------------------------------------------------------------------
(* What the manual says and the emulator does not do.                      *)

\* instructions.md: an arithmetic shr shifts in copies of the most significant
\* bit.
ArithmeticShift ==
    [][(instr.op = "shr" /\ instr.signed /\ instr.d # "null" /\ instr' = Idle)
       => A!Keeps(instr.d, instr.size,
                  A!Integer(regs[instr.a], instr.size)
                  \div 2 ^ A!Smaller(A!Amount(instr.size), Bits(instr.size)))]_vars

\* instructions.md: the immediate of an add or a sub is shifted left by S bits,
\* not by S times its own width.
ShiftedBySBits ==
    [][(instr.op \in {"add", "sub"} /\ instr.b.kind = "shifted" /\ instr.d # "null" /\ instr' = Idle)
       => LET b == instr.b
              value == IF b.extend /\ b.imm >= 2 ^ (ImmBits - 1) THEN b.imm - 2 ^ ImmBits ELSE b.imm
              r == value * 2 ^ b.factor + CarryIn
          IN  A!Keeps(instr.d, instr.size,
                      IF instr.op = "add" THEN regs[instr.a] + r ELSE regs[instr.a] - r)]_vars

=============================================================================
