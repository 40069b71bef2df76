-------------------------------- MODULE Words --------------------------------
(***************************************************************************)
(* Words of 64 bits, which are register values, addresses and unsigned     *)
(* integers in the emulator and the assembler alike: arithmetic wraps at   *)
(* AddrSpace.                                                              *)
(***************************************************************************)
EXTENDS Integers

CONSTANT AddrSpace       \* number of words (2^64)

\* What the proofs need of 2^64: that it counts whole instructions, and that
\* half of it does too.
ASSUME AddrSpaceAssumption ==
    /\ AddrSpace \in Nat
    /\ AddrSpace > 0
    /\ AddrSpace % 8 = 0

Word == 0 .. AddrSpace - 1

UnwrappedPlus(a, b) == a + b   \* mutant

\* wrapping_add and wrapping_sub.
Plus(a, b) == IF a + b < AddrSpace THEN a + b ELSE a + b - AddrSpace
Minus(a, b) == IF a >= b THEN a - b ELSE a - b + AddrSpace
Quad(v) == Plus(Plus(v, v), Plus(v, v))

\* A field of span values as a signed word.
SignExtend(field, span) ==
    IF field < span \div 2 THEN field ELSE AddrSpace - span + field

\* On an instruction boundary.
Aligned(a) == a % 4 = 0

=============================================================================
