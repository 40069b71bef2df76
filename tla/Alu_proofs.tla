------------------------------ MODULE Alu_proofs ------------------------------
(***************************************************************************)
(* The formulas of the code for results and condition bits mean what the   *)
(* instruction set promises, for registers and sizes of any width.         *)
(***************************************************************************)
EXTENDS Alu, Numbers_proofs

-----------------------------------------------------------------------------
(* Sizes.  Half is the value of the most significant bit.                  *)

Half(s) == 2 ^ (Bits(s) - 1)

\* Numbers of bits.
LEMMA BitsLemma ==
    ASSUME NEW s \in Sizes
    PROVE  /\ Bits(s) \in Nat /\ Bits(s) >= 1 /\ Bits(s) - 1 \in Nat
           /\ WordBits \in Nat /\ WordBits >= 1 /\ WordBits - 1 \in Nat
           /\ Bits(s) <= WordBits /\ WordBits - Bits(s) \in Nat
           /\ s # WordSize => Bits(s) < WordBits
           /\ s \in Nat /\ s > 0 /\ ByteBits \in Nat /\ ByteBits > 0
<1>1. /\ s \in Nat /\ s > 0 /\ WordSize \in Nat /\ WordSize > 0 /\ s <= WordSize
      /\ ByteBits \in Nat /\ ByteBits > 0
  BY SizesAssumption
<1> DEFINE b == ByteBits
           w == WordSize
<1>2. b * s \in Nat /\ b * w \in Nat /\ b * s >= 1 /\ b * w >= 1 /\ b * s <= b * w
  <2>1. b \in Nat /\ b > 0 /\ w \in Nat /\ w > 0 /\ s <= w
    BY <1>1
  <2> HIDE DEF b, w
  <2>2. w = s + (w - s) /\ w - s \in Nat /\ b * (w - s) \in Nat
    BY <1>1, <2>1
  <2>3. b * w = b * s + b * (w - s)
    BY <1>1, <2>1, <2>2
  <2>4. b * s \in Nat /\ b * s >= 1 /\ b * w \in Nat /\ b * w >= 1
    BY <1>1, <2>1
  <2>5. QED
    BY <2>2, <2>3, <2>4
<1>3. s # w => b * s < b * w
  <2>1. b \in Nat /\ b > 0 /\ w \in Nat /\ s <= w
    BY <1>1
  <2> HIDE DEF b, w
  <2>2. ASSUME s # w PROVE b * s < b * w
    <3>1. b * w = b * s + b * (w - s) /\ b * (w - s) >= 1 /\ b * s \in Nat /\ b * w \in Nat
      BY <1>1, <2>1, <2>2
    <3> DEFINE x == b * s
               y == b * w
               z == b * (w - s)
    <3>2. y = x + z /\ z >= 1 /\ x \in Nat /\ y \in Nat /\ z \in Int
      BY <1>1, <2>1, <3>1
    <3> HIDE DEF x, y, z
    <3>3. x < y
      BY <3>2
    <3>4. QED
      BY <3>3 DEF x, y
  <2>3. QED
    BY <2>2
<1>4. Bits(s) = b * s /\ WordBits = b * w
  BY DEF Bits, WordBits
<1> HIDE DEF b, w
<1>5. Bits(s) \in Nat /\ WordBits \in Nat /\ Bits(s) >= 1 /\ WordBits >= 1 /\ Bits(s) <= WordBits
  BY <1>2, <1>4
<1>6. s # WordSize => Bits(s) < WordBits
  BY <1>3, <1>4 DEF w
<1>7. QED
  BY <1>1, <1>5, <1>6

LEMMA SpanLemma ==
    ASSUME NEW s \in Sizes
    PROVE  /\ Span(s) \in Nat /\ Span(s) > 0
           /\ Half(s) \in Nat /\ Half(s) > 0
           /\ Span(s) = Half(s) + Half(s) /\ Span(s) \div 2 = Half(s)
           /\ AddrSpace \in Nat /\ AddrSpace > 0
           /\ \E n \in Int : AddrSpace = Span(s) * n
           /\ Bits(s) - 1 + 1 = Bits(s)
<1>1. /\ Bits(s) \in Nat /\ Bits(s) - 1 \in Nat /\ WordBits \in Nat
      /\ WordBits - Bits(s) \in Nat
  BY BitsLemma
<1>2. Bits(s) - 1 + 1 = Bits(s) /\ Bits(s) + (WordBits - Bits(s)) = WordBits
  BY <1>1
<1>3. /\ Span(s) \in Nat /\ Span(s) > 0 /\ Half(s) \in Nat /\ Half(s) > 0
      /\ Span(s) = Half(s) + Half(s)
  BY <1>1, <1>2, PowerNext, PowerPositive DEF Span, Half
<1>4. AddrSpace \in Nat /\ AddrSpace > 0
  BY AddrSpaceAssumption
<1>5. AddrSpace = 2 ^ WordBits
  BY SizesAssumption DEF Span, WordBits
<1>6. AddrSpace = Span(s) * 2 ^ (WordBits - Bits(s))
  BY <1>1, <1>2, <1>5, PowerSum DEF Span
<1>7. 2 ^ (WordBits - Bits(s)) \in Int
  BY <1>1, PowerPositive
<1>8. \E n \in Int : AddrSpace = Span(s) * n
  BY <1>6, <1>7
<1> HIDE DEF Span, Half
<1>9. Span(s) \div 2 = Half(s)
  BY <1>3
<1>10. QED
  BY <1>2, <1>3, <1>4, <1>8, <1>9

\* The most significant bit tells the upper half.
LEMMA MsbLemma ==
    ASSUME NEW s \in Sizes, NEW v \in Int
    PROVE  /\ v % Span(s) \in 0 .. Span(s) - 1
           /\ Msb(v, s) <=> v % Span(s) >= Half(s)
<1>1. v % Span(s) \in 0 .. Span(s) - 1
  BY SpanLemma, DivisionLemma
<1>2. Msb(v, s) <=> v % Span(s) >= Half(s)
  BY SpanLemma DEF Msb, Bit, Half, Span
<1>3. QED
  BY <1>1, <1>2

\* Wrapping at the word keeps a value of any size.
LEMMA WrapLemma ==
    ASSUME NEW s \in Sizes, NEW v \in Int
    PROVE  Wrap(v) \in Word /\ Wrap(v) % Span(s) = v % Span(s)
<1> DEFINE q == v \div AddrSpace
<1>1. PICK n \in Int : AddrSpace = Span(s) * n
  BY SpanLemma
<1>2. q \in Int /\ Wrap(v) \in 0 .. AddrSpace - 1 /\ v = AddrSpace * q + Wrap(v)
  BY SpanLemma, DivisionLemma DEF Wrap
<1>3. Wrap(v) \in Int /\ Wrap(v) \in Word
  BY <1>2 DEF Word
<1> HIDE DEF q
<1>4. Span(s) \in Nat /\ Span(s) > 0
  BY SpanLemma
<1>5. AddrSpace * q = Span(s) * (n * q) /\ n * q \in Int
  <2>1. n * q \in Int
    BY <1>1, <1>2
  <2>2. (Span(s) * n) * q = Span(s) * (n * q)
    BY <1>1, <1>2, <1>4
  <2>3. QED
    BY <1>1, <2>1, <2>2
<1>6. v = Wrap(v) + Span(s) * (n * q)
  BY <1>2, <1>3, <1>4, <1>5
<1>7. (Wrap(v) + Span(s) * (n * q)) % Span(s) = Wrap(v) % Span(s)
  BY <1>3, <1>4, <1>5, ShiftLemma
<1>8. QED
  BY <1>3, <1>6, <1>7

\* So do word additions and subtractions.
LEMMA WordLemma ==
    ASSUME NEW s \in Sizes, NEW a \in Word, NEW b \in Word
    PROVE  /\ Plus(a, b) \in Word /\ Same(Span(s), Plus(a, b), a + b)
           /\ Minus(a, b) \in Word /\ Same(Span(s), Minus(a, b), a - b)
<1>1. PICK n \in Int : AddrSpace = Span(s) * n
  BY SpanLemma
<1>2. AddrSpace \in Nat /\ Span(s) \in Nat /\ Span(s) > 0
  BY SpanLemma
<1>3. a \in Int /\ b \in Int /\ a + b \in Int /\ a - b \in Int
  BY <1>2 DEF Word
<1>4. Plus(a, b) \in Word /\ Minus(a, b) \in Word
  BY <1>2 DEF Plus, Minus, Word
<1>5. -n \in Int /\ Span(s) * (-n) = -(Span(s) * n) /\ Span(s) * 0 = 0 /\ 0 \in Int
  BY <1>1, <1>2
<1>6. Plus(a, b) = (a + b) + Span(s) * 0 \/ Plus(a, b) = (a + b) + Span(s) * (-n)
  BY <1>1, <1>2, <1>3, <1>5 DEF Plus
<1>7. Minus(a, b) = (a - b) + Span(s) * 0 \/ Minus(a, b) = (a - b) + Span(s) * n
  BY <1>1, <1>2, <1>3, <1>5 DEF Minus
<1>8. QED
  BY <1>1, <1>4, <1>5, <1>6, <1>7 DEF Same

\* The code's sums and differences of operands and a carry.
LEMMA ResultLemma ==
    ASSUME NEW s \in Sizes, NEW l \in Word, NEW r \in Word, NEW c \in {0, 1},
           NEW a \in Int, NEW b \in Int, Same(Span(s), l, a), Same(Span(s), r, b)
    PROVE  /\ Sum(l, r, c) \in Word /\ Same(Span(s), Sum(l, r, c), a + b + c)
           /\ Difference(l, r, c) \in Word
           /\ Same(Span(s), Difference(l, r, c), a - b - c)
<1>1. /\ AddrSpace \in Nat /\ Span(s) \in Nat /\ Span(s) > 0
      /\ AddrSpace % 8 = 0 /\ AddrSpace > 0
  BY SpanLemma, AddrSpaceAssumption
<1>2. c \in Word /\ c \in Int /\ \A n \in Word : n \in Int
  BY <1>1 DEF Word
<1> DEFINE M == Span(s)
           p == Plus(l, r)
           m == Minus(l, r)
<1>3. /\ p \in Word /\ Same(M, p, l + r)
      /\ m \in Word /\ Same(M, m, l - r)
  BY WordLemma
<1>4. /\ Plus(p, c) \in Word /\ Same(M, Plus(p, c), p + c)
      /\ Minus(m, c) \in Word /\ Same(M, Minus(m, c), m - c)
  BY <1>2, <1>3, WordLemma
<1>5. M \in Nat /\ Same(M, l, a) /\ Same(M, r, b)
  BY <1>1
<1> HIDE DEF M, p, m
<1>6. l \in Int /\ r \in Int /\ p \in Int /\ m \in Int /\ Plus(p, c) \in Int /\ Minus(m, c) \in Int
  BY <1>2, <1>3, <1>4
<1>6a. /\ l + r \in Int /\ l - r \in Int /\ a + r \in Int /\ a - r \in Int
       /\ a + b \in Int /\ a - b \in Int
  BY <1>6
<1>7. Same(M, Plus(p, c), a + b + c)
  <2>1. Same(M, p + c, l + r + c)
    BY <1>2, <1>3, <1>5, <1>6, <1>6a, SameSumLemma
  <2>2. Same(M, l + r + c, a + r + c)
    <3>1. Same(M, l + r, a + r)
      BY <1>5, <1>6, SameSumLemma
    <3>2. QED
      BY <1>2, <1>5, <1>6a, <3>1, SameSumLemma
  <2>3. Same(M, a + r + c, a + b + c)
    <3>1. Same(M, a + r, a + b)
      BY <1>5, <1>6, SameSumLemma
    <3>2. QED
      BY <1>2, <1>5, <1>6a, <3>1, SameSumLemma
  <2>4. p + c \in Int /\ l + r + c \in Int /\ a + r + c \in Int /\ a + b + c \in Int
    BY <1>2, <1>6
  <2>5. QED
    BY <1>4, <1>5, <1>6, <2>1, <2>2, <2>3, <2>4, SameTransLemma
<1>8. Same(M, Minus(m, c), a - b - c)
  <2>1. Same(M, m - c, l - r - c)
    BY <1>2, <1>3, <1>5, <1>6, <1>6a, SameSumLemma
  <2>2. Same(M, l - r - c, a - r - c)
    <3>1. Same(M, l - r, a - r)
      BY <1>5, <1>6, SameSumLemma
    <3>2. QED
      BY <1>2, <1>5, <1>6a, <3>1, SameSumLemma
  <2>3. Same(M, a - r - c, a - b - c)
    <3>1. Same(M, a - r, a - b)
      BY <1>5, <1>6, SameSumLemma
    <3>2. QED
      BY <1>2, <1>5, <1>6a, <3>1, SameSumLemma
  <2>4. m - c \in Int /\ l - r - c \in Int /\ a - r - c \in Int /\ a - b - c \in Int
    BY <1>2, <1>6
  <2>5. QED
    BY <1>4, <1>5, <1>6, <2>1, <2>2, <2>3, <2>4, SameTransLemma
<1>9. QED
  BY <1>4, <1>7, <1>8 DEF Sum, Difference, M, p, m

\* A register keeps what lies above the size of an operand.
LEMMA SetLemma ==
    ASSUME NEW s \in Sizes, NEW old \in Word, NEW v \in Int, NEW n \in Int,
           Same(Span(s), v, n)
    PROVE  /\ Set(old, s, v) % Span(s) = n % Span(s)
           /\ Set(old, s, v) \div Span(s) = old \div Span(s)
<1> DEFINE M == Span(s)
           q == old \div M
           u == v % M
<1>1. M \in Nat /\ M > 0 /\ AddrSpace \in Nat
  BY SpanLemma
<1>2. old \in Int
  BY <1>1 DEF Word
<1>3. q \in Int /\ old % M \in Int /\ old = M * q + (old % M) /\ u \in 0 .. M - 1 /\ M * q \in Int
  <2>1. q \in Int /\ old % M \in Int /\ old = M * q + (old % M)
    BY <1>1, <1>2, DivisionLemma
  <2>2. u \in 0 .. M - 1
    BY <1>1, DivisionLemma
  <2> HIDE DEF M, q, u
  <2>3. M * q \in Int
    BY <1>1, <2>1
  <2>4. QED
    BY <2>1, <2>2, <2>3
<1>4. u = n % M
  BY <1>1, SameLemma
<1>5. Set(old, s, v) = M * q + u
  <2>1. Set(old, s, v) = old - (old % M) + u
    BY DEF Set
  <2> DEFINE w == old % M
             y == M * q
  <2>2. old = y + w /\ y \in Int /\ w \in Int /\ Set(old, s, v) = old - w + u /\ u \in Int
    BY <1>3, <2>1
  <2> HIDE DEF w, y, u
  <2>3. Set(old, s, v) = y + u
    BY <2>2
  <2>4. QED
    BY <2>3 DEF y
<1> HIDE DEF M, q, u
<1>6. (M * q + u) % M = u /\ (M * q + u) \div M = q
  BY <1>1, <1>3, UniqueLemma
<1>7. QED
  BY <1>4, <1>5, <1>6 DEF M, q

\* A register as the code extends it to a word.
SignedOf(v, s) == IF Bit(v, Bits(s) - 1) THEN (v % Span(s)) - Span(s) ELSE v % Span(s)

LEMMA SignedLemma ==
    ASSUME NEW s \in Sizes, NEW v \in Word
    PROVE  Wrap(SignedOf(v, s)) \in Word /\ Same(Span(s), Wrap(SignedOf(v, s)), v)
<1>1. /\ AddrSpace \in Nat /\ AddrSpace > 0 /\ Span(s) \in Nat /\ Span(s) > 0
  BY SpanLemma
<1>2. v \in Int
  BY <1>1 DEF Word
<1> DEFINE M == Span(s)
           u == v % M
           x == SignedOf(v, s)
<1>3. u \in Int /\ v \in Int /\ Same(M, v, u)
  BY <1>1, <1>2, RemainderLemma
<1>4. x = u \/ x = u - M
  BY DEF SignedOf
<1> HIDE DEF M, u, x
<1>5. M \in Nat /\ M > 0 /\ \E n \in Int : AddrSpace = M * n
  BY SpanLemma DEF M
<1>6. x \in Int /\ Same(M, x, v)
  <2>1. PICK k \in Int : v = u + M * k
    BY <1>3 DEF Same
  <2>2. /\ -k \in Int /\ M * (-k) = -(M * k)
        /\ -k - 1 \in Int /\ M * (-k - 1) = -(M * k) - M /\ M * k \in Int
    BY <1>5
  <2>3. u = v + M * (-k) /\ u - M = v + M * (-k - 1) /\ u - M \in Int
    BY <1>3, <1>5, <2>1, <2>2
  <2>4. QED
    BY <1>3, <1>4, <2>2, <2>3 DEF Same
<1>7. Wrap(x) \in Word /\ Wrap(x) % M = x % M
  BY <1>6, WrapLemma DEF M
<1>8. Wrap(x) \in Int /\ x % M \in Int /\ Same(M, Wrap(x), Wrap(x) % M) /\ Same(M, x, x % M)
  <2>1. Wrap(x) \in Int
    BY <1>1, <1>7 DEF Word
  <2>2. QED
    BY <1>5, <1>6, <2>1, RemainderLemma
<1> DEFINE y == Wrap(x)
           z == x % M
<1>9. Same(M, y, z) /\ Same(M, x, z) /\ y \in Int /\ z \in Int
  BY <1>7, <1>8
<1> HIDE DEF y, z
<1>10. Same(M, z, x)
  <2>1. PICK k \in Int : x = z + M * k
    BY <1>9 DEF Same
  <2>2. -k \in Int /\ M * (-k) = -(M * k) /\ M * k \in Int
    BY <1>5
  <2>3. z = x + M * (-k)
    BY <1>6, <1>9, <2>1, <2>2
  <2>4. QED
    BY <2>2, <2>3 DEF Same
<1>11. Same(M, y, x)
  BY <1>5, <1>6, <1>9, <1>10, SameTransLemma
<1>12. Same(M, y, v)
  BY <1>3, <1>5, <1>6, <1>9, <1>11, SameTransLemma
<1>13. QED
  BY <1>7, <1>12 DEF y, x, M

-----------------------------------------------------------------------------
(* Condition bits.  x is the result of an addition or a subtraction in a   *)
(* size of 2 * H values, and the comparisons with H are tests of most      *)
(* significant bits.                                                       *)

ToInteger(a, H) == IF a < H THEN a ELSE a - (H + H)

AdditionBits(H, M, a, b, c, x) ==
    /\ (a >= H /\ b >= H) \/ ((a >= H \/ b >= H) /\ ~(x >= H)) <=> a + b + c >= M
    /\ (a >= H /\ b >= H /\ ~(x >= H)) \/ (~(a >= H) /\ ~(b >= H) /\ x >= H)
       <=> ~(/\ -H <= ToInteger(a, H) + ToInteger(b, H) + c
             /\ ToInteger(a, H) + ToInteger(b, H) + c < H)

LEMMA AdditionLemma ==
    ASSUME NEW H \in Nat, H > 0, NEW M, M = H + H,
           NEW a \in 0 .. M - 1, NEW b \in 0 .. M - 1, NEW c \in {0, 1},
           NEW n, n = a + b + c, NEW x, x = n % M
    PROVE  AdditionBits(H, M, a, b, c, x)
<1>1. M \in Nat /\ M > 0 /\ n \in Int /\ -M <= n /\ n < M + M /\ n >= 0
  OBVIOUS
<1>2. n % M = IF n < 0 THEN n + M ELSE IF n < M THEN n ELSE n - M
  BY <1>1, OnceLemma
<1>3. x = IF n < M THEN n ELSE n - M
  BY <1>1, <1>2
<1>4. QED
  BY <1>1, <1>3 DEF ToInteger, AdditionBits

SubtractionBits(H, M, a, b, c, x) ==
    /\ (~(a >= H) /\ b >= H) \/ (x >= H /\ b >= H) \/ (x >= H /\ ~(a >= H)) <=> a < b + c
    /\ (a >= H /\ ~(b >= H) /\ ~(x >= H)) \/ (~(a >= H) /\ b >= H /\ x >= H)
       <=> ~(/\ -H <= ToInteger(a, H) - ToInteger(b, H) - c
             /\ ToInteger(a, H) - ToInteger(b, H) - c < H)
    /\ (x >= H <=> (/\ -H <= ToInteger(a, H) - ToInteger(b, H) - c
                    /\ ToInteger(a, H) - ToInteger(b, H) - c < H))
       <=> ToInteger(a, H) < ToInteger(b, H) + c

LEMMA SubtractionLemma ==
    ASSUME NEW H \in Nat, H > 0, NEW M, M = H + H,
           NEW a \in 0 .. M - 1, NEW b \in 0 .. M - 1, NEW c \in {0, 1},
           NEW n, n = a - b - c, NEW x, x = n % M
    PROVE  SubtractionBits(H, M, a, b, c, x)
<1>1. M \in Nat /\ M > 0 /\ n \in Int /\ -M <= n /\ n < M + M
  OBVIOUS
<1>2. n % M = IF n < 0 THEN n + M ELSE IF n < M THEN n ELSE n - M
  BY <1>1, OnceLemma
<1>3. x = IF n < 0 THEN n + M ELSE n
  BY <1>1, <1>2
<1>4. QED
  BY <1>1, <1>3 DEF ToInteger, SubtractionBits

\* The vocabulary of the promise in that of the code.
LEMMA VocabularyLemma ==
    ASSUME NEW s \in Sizes, NEW n \in Int
    PROVE  /\ A!Limit(s) = Span(s)
           /\ A!Natural(n, s) = n % Span(s)
           /\ A!Integer(n, s) = ToInteger(n % Span(s), Half(s))
           /\ A!InRange(n, s) <=> -Half(s) <= n /\ n < Half(s)
           /\ A!Negative(n, s) <=> n % Span(s) >= Half(s)
           /\ A!Zero(n, s) <=> n % Span(s) = 0
<1>1. A!Limit(s) = Span(s)
  BY DEF A!Limit, A!Bits, Span, Bits
<1>2. /\ Span(s) \in Nat /\ Span(s) > 0 /\ Half(s) \in Nat /\ Half(s) > 0
      /\ Span(s) = Half(s) + Half(s) /\ Span(s) \div 2 = Half(s)
  BY SpanLemma
<1> DEFINE m == n % Span(s)
<1>3. m \in 0 .. Span(s) - 1
  BY <1>2, DivisionLemma
<1>4. A!Natural(n, s) = m /\ (A!Zero(n, s) <=> m = 0)
  BY <1>1 DEF A!Natural, A!Zero
<1>5. A!InRange(n, s) <=> -Half(s) <= n /\ n < Half(s)
  BY <1>1, <1>2 DEF A!InRange
<1>6. A!Integer(n, s) = IF m < Half(s) THEN m ELSE m - Span(s)
  BY <1>1, <1>2, <1>4 DEF A!Integer
<1>7. A!Negative(n, s) <=> A!Integer(n, s) < 0
  BY DEF A!Negative
<1> HIDE DEF m
<1>8. (A!Negative(n, s) <=> m >= Half(s)) /\ A!Integer(n, s) = ToInteger(m, Half(s))
  BY <1>2, <1>3, <1>6, <1>7 DEF ToInteger
<1>9. QED
  BY <1>1, <1>4, <1>5, <1>8 DEF m

\* Most significant bits and zero tests of congruent values.
LEMMA TestsLemma ==
    ASSUME NEW s \in Sizes, NEW x \in Word, NEW n \in Int, Same(Span(s), x, n)
    PROVE  /\ n % Span(s) \in 0 .. Span(s) - 1 /\ x % Span(s) = n % Span(s)
           /\ Msb(x, s) <=> n % Span(s) >= Half(s)
           /\ IsZero(x, s) <=> n % Span(s) = 0
<1>1. Span(s) \in Nat /\ Span(s) > 0 /\ AddrSpace \in Nat
  BY SpanLemma
<1>2. x \in Int
  BY <1>1 DEF Word
<1>3. x % Span(s) = n % Span(s) /\ n % Span(s) \in 0 .. Span(s) - 1
  BY <1>1, <1>2, SameLemma, DivisionLemma
<1>4. Msb(x, s) <=> x % Span(s) >= Half(s)
  BY <1>2, MsbLemma
<1>5. QED
  BY <1>3, <1>4 DEF IsZero

\* The condition bits that are promised.
AddBits(u, v, c, s) ==
    [carry |-> A!Natural(u, s) + A!Natural(v, s) + c >= A!Limit(s),
     zero |-> A!Zero(u + v + c, s),
     overflow |-> ~A!InRange(A!Integer(u, s) + A!Integer(v, s) + c, s),
     sign |-> A!Negative(u + v + c, s)]

SubBits(u, v, c, s) ==
    [carry |-> A!Natural(u, s) < A!Natural(v, s) + c,
     zero |-> A!Zero(u - v - c, s),
     overflow |-> ~A!InRange(A!Integer(u, s) - A!Integer(v, s) - c, s),
     sign |-> A!Negative(u - v - c, s)]

\* The condition bits of an addition.
LEMMA AddFlagsLemma ==
    ASSUME NEW s \in Sizes, NEW l \in Word, NEW r \in Word, NEW c \in {0, 1},
           NEW u \in Int, NEW v \in Int, Same(Span(s), l, u), Same(Span(s), r, v)
    PROVE  AddFlags(l, r, Sum(l, r, c), s) = AddBits(u, v, c, s)
<1> DEFINE M == Span(s)
           H == Half(s)
           a == u % M
           b == v % M
           x == (u + v + c) % M
           res == Sum(l, r, c)
<1>1. M \in Nat /\ M > 0 /\ H \in Nat /\ H > 0 /\ M = H + H
  BY SpanLemma
<1>2. u + v + c \in Int
  OBVIOUS
<1>3. res \in Word /\ Same(M, res, u + v + c)
  BY ResultLemma
<1>4. /\ a \in 0 .. M - 1 /\ b \in 0 .. M - 1
      /\ (Msb(l, s) <=> a >= H) /\ (Msb(r, s) <=> b >= H)
  BY TestsLemma
<1>5. (Msb(res, s) <=> x >= H) /\ (IsZero(res, s) <=> x = 0) /\ res % M = x
  BY <1>2, <1>3, TestsLemma
<1>6. x = (a + b + c) % M
  <2>1. Same(M, l, a) /\ Same(M, r, b)
    <3>1. l \in Int /\ r \in Int
      BY AddrSpaceAssumption DEF Word
    <3>2. Same(M, u, a) /\ Same(M, v, b) /\ a \in Int /\ b \in Int
      BY <1>1, RemainderLemma
    <3>3. M \in Nat /\ Same(M, l, u) /\ Same(M, r, v)
      BY <1>1
    <3> HIDE DEF M, a, b
    <3>4. QED
      BY <3>1, <3>2, <3>3, SameTransLemma
  <2>2. a \in Int /\ b \in Int /\ a + b + c \in Int
    BY <1>4
  <2>3. Same(M, res, a + b + c)
    BY <2>1, <2>2, ResultLemma
  <2>4. res % M = (a + b + c) % M
    BY <1>3, <2>2, <2>3, TestsLemma
  <2>5. QED
    BY <1>5, <2>4
<1>7. /\ A!Natural(u, s) = a /\ A!Natural(v, s) = b /\ A!Limit(s) = M
      /\ A!Integer(u, s) = ToInteger(a, H) /\ A!Integer(v, s) = ToInteger(b, H)
      /\ (A!Zero(u + v + c, s) <=> x = 0) /\ (A!Negative(u + v + c, s) <=> x >= H)
  BY <1>2, VocabularyLemma
<1>8. A!InRange(ToInteger(a, H) + ToInteger(b, H) + c, s)
      <=> /\ -H <= ToInteger(a, H) + ToInteger(b, H) + c
          /\ ToInteger(a, H) + ToInteger(b, H) + c < H
  <2>1. ToInteger(a, H) + ToInteger(b, H) + c \in Int
    BY <1>1, <1>4 DEF ToInteger
  <2>2. QED
    BY <2>1, VocabularyLemma
<1> DEFINE n == a + b + c
<1>8a. n = a + b + c /\ x = n % M
  BY <1>6
<1> HIDE DEF M, H, a, b, x, res, n
<1>9. AdditionBits(H, M, a, b, c, x)
  BY <1>1, <1>4, <1>8a, AdditionLemma
<1>10. /\ (Msb(l, s) /\ Msb(r, s)) \/ ((Msb(l, s) \/ Msb(r, s)) /\ ~Msb(res, s)) <=> a + b + c >= M
       /\ (Msb(l, s) /\ Msb(r, s) /\ ~Msb(res, s)) \/ (~Msb(l, s) /\ ~Msb(r, s) /\ Msb(res, s))
          <=> ~A!InRange(ToInteger(a, H) + ToInteger(b, H) + c, s)
  BY <1>4, <1>5, <1>8, <1>9 DEF AdditionBits
<1>11. QED
  <2> DEFINE Carry == (Msb(l, s) /\ Msb(r, s)) \/ ((Msb(l, s) \/ Msb(r, s)) /\ ~Msb(res, s))
             Over == (Msb(l, s) /\ Msb(r, s) /\ ~Msb(res, s))
                     \/ (~Msb(l, s) /\ ~Msb(r, s) /\ Msb(res, s))
  <2>1. AddFlags(l, r, res, s)
        = [carry |-> Carry, zero |-> IsZero(res, s), overflow |-> Over, sign |-> Msb(res, s)]
    BY DEF AddFlags
  <2>2. /\ Carry = (A!Natural(u, s) + A!Natural(v, s) + c >= A!Limit(s))
        /\ Over = (~A!InRange(A!Integer(u, s) + A!Integer(v, s) + c, s))
        /\ IsZero(res, s) = A!Zero(u + v + c, s)
        /\ Msb(res, s) = A!Negative(u + v + c, s)
    BY <1>5, <1>7, <1>10 DEF IsZero, Msb, Bit, A!InRange, A!Zero, A!Negative
  <2>3. QED
    BY <2>1, <2>2, Zenon DEF res, AddBits

\* Those of a subtraction, and the order they decide.
LEMMA SubFlagsLemma ==
    ASSUME NEW s \in Sizes, NEW l \in Word, NEW r \in Word, NEW c \in {0, 1},
           NEW u \in Int, NEW v \in Int, Same(Span(s), l, u), Same(Span(s), r, v)
    PROVE  /\ SubFlags(l, r, Difference(l, r, c), s) = SubBits(u, v, c, s)
           /\ (A!Negative(u - v - c, s) # ~A!InRange(A!Integer(u, s) - A!Integer(v, s) - c, s))
              <=> A!Integer(u, s) < A!Integer(v, s) + c
<1> DEFINE M == Span(s)
           H == Half(s)
           a == u % M
           b == v % M
           x == (u - v - c) % M
           res == Difference(l, r, c)
<1>1. M \in Nat /\ M > 0 /\ H \in Nat /\ H > 0 /\ M = H + H
  BY SpanLemma
<1>2. u - v - c \in Int
  OBVIOUS
<1>3. res \in Word /\ Same(M, res, u - v - c)
  BY ResultLemma
<1>4. /\ a \in 0 .. M - 1 /\ b \in 0 .. M - 1
      /\ (Msb(l, s) <=> a >= H) /\ (Msb(r, s) <=> b >= H)
  BY TestsLemma
<1>5. (Msb(res, s) <=> x >= H) /\ (IsZero(res, s) <=> x = 0) /\ res % M = x
  BY <1>2, <1>3, TestsLemma
<1>6. x = (a - b - c) % M
  <2>1. Same(M, l, a) /\ Same(M, r, b)
    <3>1. l \in Int /\ r \in Int
      BY AddrSpaceAssumption DEF Word
    <3>2. Same(M, u, a) /\ Same(M, v, b) /\ a \in Int /\ b \in Int
      BY <1>1, RemainderLemma
    <3>3. M \in Nat /\ Same(M, l, u) /\ Same(M, r, v)
      BY <1>1
    <3> HIDE DEF M, a, b
    <3>4. QED
      BY <3>1, <3>2, <3>3, SameTransLemma
  <2>2. a \in Int /\ b \in Int /\ a - b - c \in Int
    BY <1>4
  <2>3. Same(M, res, a - b - c)
    BY <2>1, <2>2, ResultLemma
  <2>4. res % M = (a - b - c) % M
    BY <1>3, <2>2, <2>3, TestsLemma
  <2>5. QED
    BY <1>5, <2>4
<1>7. /\ A!Natural(u, s) = a /\ A!Natural(v, s) = b /\ A!Limit(s) = M
      /\ A!Integer(u, s) = ToInteger(a, H) /\ A!Integer(v, s) = ToInteger(b, H)
      /\ (A!Zero(u - v - c, s) <=> x = 0) /\ (A!Negative(u - v - c, s) <=> x >= H)
  BY <1>2, VocabularyLemma
<1>8. A!InRange(ToInteger(a, H) - ToInteger(b, H) - c, s)
      <=> /\ -H <= ToInteger(a, H) - ToInteger(b, H) - c
          /\ ToInteger(a, H) - ToInteger(b, H) - c < H
  <2>1. ToInteger(a, H) - ToInteger(b, H) - c \in Int
    BY <1>1, <1>4 DEF ToInteger
  <2>2. QED
    BY <2>1, VocabularyLemma
<1> DEFINE n == a - b - c
<1>8a. n = a - b - c /\ x = n % M
  BY <1>6
<1> HIDE DEF M, H, a, b, x, res, n
<1>9. SubtractionBits(H, M, a, b, c, x)
  BY <1>1, <1>4, <1>8a, SubtractionLemma
<1>10. /\ (~Msb(l, s) /\ Msb(r, s)) \/ (Msb(res, s) /\ Msb(r, s)) \/ (Msb(res, s) /\ ~Msb(l, s))
          <=> a < b + c
       /\ (Msb(l, s) /\ ~Msb(r, s) /\ ~Msb(res, s)) \/ (~Msb(l, s) /\ Msb(r, s) /\ Msb(res, s))
          <=> ~A!InRange(ToInteger(a, H) - ToInteger(b, H) - c, s)
       /\ (Msb(res, s) <=> A!InRange(ToInteger(a, H) - ToInteger(b, H) - c, s))
          <=> ToInteger(a, H) < ToInteger(b, H) + c
  BY <1>4, <1>5, <1>8, <1>9 DEF SubtractionBits
<1>11. QED
  <2> DEFINE Carry == (~Msb(l, s) /\ Msb(r, s)) \/ (Msb(res, s) /\ Msb(r, s))
                      \/ (Msb(res, s) /\ ~Msb(l, s))
             Over == (Msb(l, s) /\ ~Msb(r, s) /\ ~Msb(res, s))
                     \/ (~Msb(l, s) /\ Msb(r, s) /\ Msb(res, s))
  <2>1. SubFlags(l, r, res, s)
        = [carry |-> Carry, zero |-> IsZero(res, s), overflow |-> Over, sign |-> Msb(res, s)]
    BY DEF SubFlags
  <2>2. /\ Carry = (A!Natural(u, s) < A!Natural(v, s) + c)
        /\ Over = (~A!InRange(A!Integer(u, s) - A!Integer(v, s) - c, s))
        /\ IsZero(res, s) = A!Zero(u - v - c, s)
        /\ Msb(res, s) = A!Negative(u - v - c, s)
    BY <1>5, <1>7, <1>10 DEF IsZero, Msb, Bit, A!InRange, A!Zero, A!Negative
  <2>3. SubFlags(l, r, res, s) = SubBits(u, v, c, s)
    BY <2>1, <2>2, Zenon DEF SubBits
  <2>4. (A!Negative(u - v - c, s) # ~A!InRange(A!Integer(u, s) - A!Integer(v, s) - c, s))
        <=> A!Integer(u, s) < A!Integer(v, s) + c
    BY <1>5, <1>7, <1>10 DEF A!InRange, A!Negative
  <2>5. QED
    BY <2>3, <2>4 DEF res

-----------------------------------------------------------------------------
(* Instructions.                                                           *)

\* What the decoder yields for an instruction with operands.
LEMMA OperandsLemma ==
    ASSUME TypeOK,
           instr.op \in {"add", "sub", "mul", "div", "neg", "bswap", "and", "or", "xor",
                         "shl", "shr", "rot", "soc", "copy"}
    PROVE  /\ IsInstr(instr) /\ regs \in [Regs -> Word]
           /\ instr.size \in Sizes /\ instr.d \in Regs \cup {"null"} /\ instr.a \in Regs
           /\ regs[instr.a] \in Word /\ regs[instr.a] \in Int
           /\ CarryIn \in {0, 1}
<1>1. IsInstr(instr)
  BY InstrsAssumption DEF TypeOK, Idle
<1>2. instr.size \in Sizes /\ instr.d \in Regs \cup {"null"} /\ instr.a \in Regs
  BY <1>1 DEF IsInstr
<1>3. regs \in [Regs -> Word]
  BY DEF TypeOK
<1>4. regs[instr.a] \in Word
  BY <1>2, <1>3
<1>5. regs[instr.a] \in Int
  BY <1>4, AddrSpaceAssumption DEF Word
<1>6. CarryIn \in {0, 1}
  BY DEF CarryIn
<1>7. QED
  BY <1>1, <1>2, <1>3, <1>4, <1>5, <1>6, Zenon

\* The bits that the code reports of a result are those of the promise.
LEMMA ReportedLemma ==
    ASSUME NEW s \in Sizes, NEW x \in Int, NEW n \in Int, Same(Span(s), x, n)
    PROVE  /\ ResultFlags(x, s) = A!Reported(n, s)
           /\ Msb(x, s) = A!Negative(n, s) /\ IsZero(x, s) = A!Zero(n, s)
<1>1. Span(s) \in Nat /\ Span(s) > 0
  BY SpanLemma
<1>2. x % Span(s) = n % Span(s)
  BY <1>1, SameLemma
<1>3. Msb(x, s) <=> n % Span(s) >= Half(s)
  BY <1>2, MsbLemma
<1>4. (A!Negative(n, s) <=> n % Span(s) >= Half(s)) /\ (A!Zero(n, s) <=> n % Span(s) = 0)
  BY VocabularyLemma
<1>5. IsZero(x, s) <=> n % Span(s) = 0
  BY <1>2 DEF IsZero
<1>6. Msb(x, s) = A!Negative(n, s) /\ IsZero(x, s) = A!Zero(n, s)
  BY <1>3, <1>4, <1>5 DEF Msb, Bit, IsZero, A!Zero, A!Negative
<1>7. QED
  BY <1>6, Zenon DEF ResultFlags, A!Reported

\* A word is congruent to what it wraps, in any size.
LEMMA WrappedLemma ==
    ASSUME NEW s \in Sizes, NEW v \in Int
    PROVE  Wrap(v) \in Word /\ Wrap(v) \in Int /\ Same(Span(s), Wrap(v), v)
<1>1. AddrSpace \in Nat /\ AddrSpace > 0 /\ Span(s) \in Nat
  BY SpanLemma
<1>2. PICK n \in Int : AddrSpace = Span(s) * n
  BY SpanLemma
<1>3. Wrap(v) \in Word
  BY WrapLemma
<1>4. Wrap(v) \in Int
  BY <1>1, <1>3 DEF Word
<1> DEFINE M == AddrSpace
           w == v % M
<1>5. w = Wrap(v) /\ Same(M, v, w)
  BY <1>1, RemainderLemma DEF Wrap
<1> HIDE DEF M, w
<1>6. Same(M, w, v)
  BY <1>1, <1>4, <1>5, SameBackLemma DEF M
<1>7. Same(Span(s), w, v)
  BY <1>1, <1>2, <1>4, <1>5, <1>6, SameDivisorLemma DEF M
<1>8. QED
  BY <1>3, <1>4, <1>5, <1>7

\* A register keeps the type of a register.
LEMMA SetTypeLemma ==
    ASSUME NEW s \in Sizes, NEW old \in Word, NEW v \in Int
    PROVE  Set(old, s, v) \in Word
<1> DEFINE M == Span(s)
           q == old \div M
           t == old % M
           u == v % M
<1>1. M \in Nat /\ M > 0 /\ AddrSpace \in Nat
  BY SpanLemma
<1>2. old \in Nat /\ old < AddrSpace
  BY <1>1 DEF Word
<1>3. \E n \in Nat : AddrSpace = M * n
  <2>1. PICK n \in Int : AddrSpace = M * n
    BY SpanLemma
  <2> HIDE DEF M
  <2>2. n >= 0
    BY <1>1, <1>2, <2>1
  <2>3. QED
    BY <2>1, <2>2
<1>4. PICK n \in Nat : AddrSpace = M * n
  BY <1>3
<1>5. q \in 0 .. n - 1 /\ t \in 0 .. M - 1 /\ u \in 0 .. M - 1 /\ old = M * q + t
  <2> HIDE DEF M
  <2>1. q \in 0 .. n - 1
    BY <1>1, <1>2, <1>4, QuotientBelowLemma
  <2>2. QED
    BY <1>1, <1>2, <2>1, DivisionLemma
<1>6. Set(old, s, v) = old - t + u
  BY DEF Set
<1> HIDE DEF M, q, t, u
<1>7. M * q + u < M * n /\ M * q \in Nat
  BY <1>1, <1>5, RowsLemma
<1> DEFINE x == M * q
<1>8. old = x + t /\ x + u < AddrSpace /\ x \in Nat
  BY <1>4, <1>5, <1>7
<1> HIDE DEF x
<1>9. old - t + u \in 0 .. AddrSpace - 1
  BY <1>1, <1>5, <1>8
<1>10. QED
  BY <1>6, <1>9 DEF Word

\* An immediate is congruent to the integer that is promised.
LEMMA ImmediateLemma ==
    ASSUME NEW s \in Sizes, NEW b, IsShifted(b)
    PROVE  /\ Immediate(b) \in Word /\ A!Second(b) \in Int
           /\ Same(Span(s), Immediate(b), A!Second(b))
<1> DEFINE amount == b.factor * ImmBits
           k == amount % WordBits
           msb == amount + ImmBits - 1
           p == 2 ^ k
           x == b.imm * p
           top == 2 ^ (msb + 1)
           shifted == Wrap(x)
           M == AddrSpace
           extended == b.extend /\ msb < WordBits - 1 /\ Bit(shifted, msb)
           negative == b.extend /\ b.imm >= 2 ^ (ImmBits - 1) /\ ~A!TooFar(b)
<1>1. /\ WordBits \in Nat /\ WordBits > 0 /\ ImmBits \in Nat /\ ImmBits > 0
      /\ M \in Nat /\ M > 0 /\ M = 2 ^ WordBits
  <2>1. WordSize \in Sizes /\ AddrSpace = Span(WordSize) /\ ImmBits \in Nat /\ ImmBits > 0
    BY SizesAssumption
  <2>2. Span(WordSize) = 2 ^ WordBits
    BY DEF Span, WordBits
  <2>3. WordBits \in Nat /\ WordBits > 0
    BY <2>1, BitsLemma
  <2>4. QED
    BY <2>1, <2>2, <2>3, AddrSpaceAssumption
<1>2. /\ b.kind = "shifted" /\ b.imm \in 0 .. 2 ^ ImmBits - 1 /\ b.factor \in 0 .. 7
      /\ b.extend \in BOOLEAN
  BY DEF IsShifted
<1>3. 2 ^ ImmBits \in Nat /\ 2 ^ (ImmBits - 1) \in Nat
  BY <1>1, PowerPositive
<1>4. amount \in Nat /\ k \in Nat /\ (amount < WordBits => k = amount)
  <2>1. amount \in Nat
    BY <1>1, <1>2
  <2> HIDE DEF amount
  <2>2. k \in 0 .. WordBits - 1
    BY <1>1, <2>1, DivisionLemma
  <2>3. amount < WordBits => k = amount
    BY <1>1, <2>1, OnceLemma
  <2>4. QED
    BY <1>1, <2>1, <2>2, <2>3
<1>5. A!TooFar(b) <=> ~(amount < WordBits)
  <2>1. A!TooFar(b) <=> amount >= WordBits
    BY <1>2 DEF A!TooFar, A!Bits, WordBits, Bits
  <2> HIDE DEF amount
  <2>2. QED
    BY <1>1, <1>4, <2>1
<1>6. msb \in Nat /\ msb + 1 = amount + ImmBits /\ (msb < WordBits - 1 => amount < WordBits)
      /\ msb = amount + (ImmBits - 1) /\ ImmBits - 1 \in Nat
  <2> HIDE DEF amount
  <2>1. QED
    BY <1>1, <1>4
<1>7. p \in Nat /\ p > 0 /\ top \in Nat /\ top > 0
  <2> HIDE DEF amount, k, msb
  <2>1. QED
    BY <1>4, <1>6, PowerPositive
<1>8. b.imm \in Nat /\ x \in Nat
  <2> HIDE DEF p
  <2>1. b.imm \in Nat
    BY <1>2, <1>3
  <2>2. QED
    BY <1>7, <2>1
<1>9. amount < WordBits => top = 2 ^ ImmBits * p /\ (b.imm - 2 ^ ImmBits) * p = x - top
  <2> SUFFICES ASSUME amount < WordBits
               PROVE  top = 2 ^ ImmBits * p /\ (b.imm - 2 ^ ImmBits) * p = x - top
    OBVIOUS
  <2>1. top = 2 ^ ImmBits * p
    <3> HIDE DEF amount, k, msb
    <3>1. msb + 1 = ImmBits + k
      BY <1>1, <1>4, <1>6
    <3>2. QED
      BY <1>1, <1>4, <3>1, PowerSum
  <2> DEFINE I == 2 ^ ImmBits
             i == b.imm
  <2>2. I \in Nat /\ i \in Nat /\ p \in Nat /\ top = I * p
    BY <1>3, <1>7, <1>8, <2>1
  <2> HIDE DEF I, i, p, top
  <2>3. (i - I) * p = i * p - I * p
    BY <2>2
  <2>4. QED
    BY <2>2, <2>3 DEF I, i
<1>10. A!Second(b) = IF negative THEN (b.imm - 2 ^ ImmBits) * p ELSE x
  BY <1>2 DEF A!Second, A!Bits, WordBits, Bits
<1>11. Immediate(b) = IF extended THEN shifted + (M - top) ELSE shifted
  BY DEF Immediate
<1>12. shifted \in Word /\ shifted \in Int /\ Same(M, shifted, x)
  <2>1. shifted \in Word /\ shifted \in Int
    BY <1>8, WrappedLemma
  <2>2. Same(M, x, shifted)
    BY <1>1, <1>8, RemainderLemma DEF Wrap
  <2> HIDE DEF M, x, shifted
  <2>3. QED
    BY <1>1, <1>8, <2>1, <2>2, SameBackLemma
<1>13. ASSUME msb < WordBits - 1
       PROVE  /\ shifted = x /\ x < top /\ top <= M
              /\ Bit(shifted, msb) <=> b.imm >= 2 ^ (ImmBits - 1)
  <2> DEFINE I == 2 ^ ImmBits
             J == 2 ^ (ImmBits - 1)
             i == b.imm
  <2>1. I \in Nat /\ J \in Nat /\ i \in 0 .. I - 1 /\ I = J + J /\ top = I * p
    <3>1. ImmBits - 1 + 1 = ImmBits
      BY <1>1
    <3>2. I = J + J
      BY <1>6, <3>1, PowerNext
    <3>3. QED
      BY <1>2, <1>3, <1>6, <1>9, <1>13, <3>2
  <2>2. 2 ^ msb = J * p
    <3> HIDE DEF amount, k, msb
    <3>1. msb = (ImmBits - 1) + k
      BY <1>1, <1>4, <1>6, <1>13
    <3>2. QED
      BY <1>4, <1>6, <3>1, PowerSum
  <2>3. top <= M
    <3>1. msb + 1 \in Nat /\ msb + 1 <= WordBits
      <4> HIDE DEF msb
      <4>1. QED
        BY <1>1, <1>6, <1>13
    <3> HIDE DEF msb
    <3>2. QED
      BY <1>1, <3>1, PowerGreater
  <2>4. x < top /\ (x >= J * p <=> i >= J)
    <3>1. x = i * p
      OBVIOUS
    <3> HIDE DEF I, J, i, p, top, x
    <3>2. p \in Nat /\ p > 0 /\ i \in Int /\ I \in Int /\ J \in Int /\ i < I /\ 0 \in 0 .. p - 1
      BY <1>7, <2>1
    <3>3. p * i + 0 < p * I /\ p * i \in Int /\ p * I \in Int
      BY <3>2, RowsLemma
    <3>4. i < J => p * i + 0 < p * J
      BY <3>2, RowsLemma
    <3>5. i >= J => p * i >= p * J
      <4>1. p * i = p * J + p * (i - J) /\ p * J \in Int /\ p * (i - J) \in Int
        BY <3>2
      <4>2. i >= J => p * (i - J) >= 0
        BY <3>2
      <4> DEFINE e == p * i
                 f == p * J
                 g == p * (i - J)
      <4>3. e = f + g /\ f \in Int /\ g \in Int /\ (i >= J => g >= 0)
        BY <4>1, <4>2
      <4> HIDE DEF e, f, g
      <4>4. i >= J => e >= f
        BY <4>3
      <4>5. QED
        BY <4>4 DEF e, f
    <3>6. i * p = p * i /\ I * p = p * I /\ J * p = p * J
      BY <3>2
    <3> DEFINE e == p * i
               f == p * J
               g == p * I
    <3>7. x = e /\ top = g /\ J * p = f /\ e + 0 < g /\ (i < J => e + 0 < f) /\ (i >= J => e >= f)
          /\ e \in Int /\ f \in Int /\ g \in Int
      BY <2>1, <3>1, <3>2, <3>3, <3>4, <3>5, <3>6
    <3> HIDE DEF e, f, g
    <3>8. QED
      BY <3>2, <3>7
  <2>5. shifted = x /\ x % top = x
    <3> HIDE DEF M, x, top
    <3>1. x \in 0 .. top - 1 /\ x \in 0 .. M - 1
      BY <1>1, <1>7, <1>8, <2>3, <2>4
    <3>2. x % top = x /\ x % M = x
      BY <1>1, <1>7, <1>8, <3>1, OnceLemma
    <3>3. QED
      BY <3>2 DEF Wrap, M
  <2>6. Bit(shifted, msb) <=> x >= J * p
    <3> HIDE DEF J, p, x, shifted, msb
    <3>1. QED
      BY <2>2, <2>5 DEF Bit
  <2> HIDE DEF shifted, x, top, M, p
  <2>7. QED
    BY <2>3, <2>4, <2>5, <2>6
<1>14. ASSUME ~(msb < WordBits - 1)
       PROVE  \E j \in Int : top = M * j
  <2>1. msb + 1 \in Nat /\ WordBits <= msb + 1
    <3> HIDE DEF msb
    <3>1. QED
      BY <1>1, <1>6, <1>14
  <2> DEFINE n == msb + 1
             rest == 2 ^ (n - WordBits)
  <2> HIDE DEF msb, M
  <2>2. n \in Nat /\ WordBits <= n /\ top = 2 ^ n
    BY <2>1
  <2> HIDE DEF n, top
  <2>3. 2 ^ n = 2 ^ WordBits * rest /\ rest \in Nat
    BY <1>1, <2>2, PowerGreater
  <2> HIDE DEF rest
  <2>4. top = M * rest /\ rest \in Int
    BY <1>1, <2>2, <2>3
  <2>5. QED
    BY <2>4
<1>15. Immediate(b) \in Word /\ Immediate(b) \in Int /\ A!Second(b) \in Int
       /\ Same(M, Immediate(b), A!Second(b))
  <2>1. negative => A!Second(b) = x - top
    <3> HIDE DEF amount, x, top, p
    <3>1. QED
      BY <1>5, <1>9, <1>10
  <2>2. ~negative => A!Second(b) = x
    BY <1>10
  <2>3. CASE extended
    <3>1. negative
      <4> HIDE DEF amount, msb, shifted
      <4>1. QED
        BY <1>5, <1>6, <1>13, <2>3
    <3>2. shifted = x /\ x < top /\ top <= M
      <4> HIDE DEF msb, shifted, x, top, M
      <4>1. QED
        BY <1>13, <2>3
    <3> HIDE DEF extended, negative, shifted, x, top, M
    <3>3. Immediate(b) = (x - top) + M * 1 /\ x - top \in Int
      BY <1>1, <1>7, <1>8, <1>11, <2>3, <3>2
    <3>4. Immediate(b) \in 0 .. M - 1
      BY <1>1, <1>7, <1>8, <3>2, <3>3
    <3>5. 1 \in Int /\ A!Second(b) = x - top
      BY <2>1, <3>1
    <3>6. Immediate(b) \in Int
      BY <1>1, <3>4
    <3>7. QED
      BY <3>3, <3>4, <3>5, <3>6 DEF Same, Word, M
  <2>4. CASE ~extended /\ negative
    <3>1. ~(msb < WordBits - 1)
      <4> HIDE DEF amount, msb, shifted
      <4>1. QED
        BY <1>13, <2>4
    <3>2. PICK j \in Int : top = M * j
      <4> HIDE DEF msb, top, M
      <4>1. QED
        BY <1>14, <3>1
    <3> HIDE DEF extended, negative, shifted, x, top, M
    <3>3. x = (x - top) + M * j /\ x - top \in Int
      BY <1>7, <1>8, <3>2
    <3>4. Same(M, x, x - top)
      BY <3>3 DEF Same
    <3>5. Same(M, shifted, x - top)
      BY <1>1, <1>8, <1>12, <3>3, <3>4, SameTransLemma
    <3>6. QED
      BY <1>11, <1>12, <2>1, <2>4, <3>3, <3>5
  <2>5. CASE ~extended /\ ~negative
    <3> HIDE DEF extended, negative, shifted, x, top, M
    <3>1. QED
      BY <1>8, <1>11, <1>12, <2>2, <2>5
  <2> HIDE DEF extended, negative
  <2>6. QED
    BY <2>3, <2>4, <2>5
<1>16. Same(Span(s), Immediate(b), A!Second(b))
  <2>1. PICK n \in Int : AddrSpace = Span(s) * n
    BY SpanLemma
  <2>2. Span(s) \in Nat
    BY SpanLemma
  <2>3. QED
    BY <1>15, <2>1, <2>2, SameDivisorLemma
<1>17. QED
  BY <1>15, <1>16

\* The second operand is congruent to the integer that is promised.
LEMMA SecondLemma ==
    ASSUME regs \in [Regs -> Word], NEW s \in Sizes, NEW b, IsReg(b) \/ IsShifted(b)
    PROVE  /\ A!Second(b) \in Int
           /\ SignedWord(b, s) \in Word /\ Same(Span(s), SignedWord(b, s), A!Second(b))
           /\ UnsignedWord(b, s) \in Word /\ Same(Span(s), UnsignedWord(b, s), A!Second(b))
<1>1. CASE IsReg(b)
  <2> DEFINE v == regs[b.reg]
             M == Span(s)
  <2>1. b.kind = "reg" /\ v \in Word
    BY <1>1 DEF IsReg
  <2>2. v \in Int /\ v \in Nat
    BY <2>1, AddrSpaceAssumption DEF Word
  <2>3. A!Second(b) = v
    BY <2>1 DEF A!Second
  <2>4. SignedWord(b, s) = Wrap(SignedOf(v, s))
    BY <2>1 DEF SignedWord, Signed, SignedOf, Unsigned
  <2>5. UnsignedWord(b, s) = v % M
    BY <2>1 DEF UnsignedWord, Unsigned
  <2>6. M \in Nat /\ M > 0
    BY SpanLemma
  <2> HIDE DEF M, v
  <2>7. v % M \in Word /\ v % M \in Int
    <3>1. v % M \in 0 .. M - 1 /\ v % M <= v
      BY <2>2, <2>6
    <3>2. QED
      BY <2>1, <2>2, <2>6, <3>1, AddrSpaceAssumption DEF Word
  <2>8. Same(M, v % M, v)
    <3>1. Same(M, v, v % M)
      BY <2>2, <2>6, RemainderLemma
    <3>2. QED
      BY <2>2, <2>6, <2>7, <3>1, SameBackLemma
  <2>9. SignedWord(b, s) \in Word /\ Same(Span(s), SignedWord(b, s), v)
    BY <2>1, <2>4, SignedLemma
  <2>10. QED
    BY <2>2, <2>3, <2>5, <2>7, <2>8, <2>9 DEF M
<1>2. CASE IsShifted(b)
  <2>1. SignedWord(b, s) = Immediate(b) /\ UnsignedWord(b, s) = Immediate(b)
    BY <1>2 DEF IsShifted, SignedWord, UnsignedWord
  <2>2. QED
    BY <1>2, <2>1, ImmediateLemma
<1>3. QED
  BY <1>1, <1>2

\* A write of a congruent value is the promised result.
LEMMA WriteLemma ==
    ASSUME regs \in [Regs -> Word], NEW s \in Sizes, NEW d \in Regs \cup {"null"},
           NEW v \in Int, NEW n \in Int, Same(Span(s), v, n), Write(d, s, v)
    PROVE  A!Result(d, s, n)
<1>1. CASE d = "null"
  BY <1>1 DEF Write, A!Result, A!Others
<1>2. CASE d # "null"
  <2>1. d \in Regs /\ regs' = [regs EXCEPT ![d] = Set(regs[d], s, v)]
    BY <1>2 DEF Write
  <2>2. regs'[d] = Set(regs[d], s, v) /\ \A r \in Regs \ {d} : regs'[r] = regs[r]
    BY <2>1
  <2>3. regs[d] \in Word
    BY <2>1
  <2>4. /\ Set(regs[d], s, v) % Span(s) = n % Span(s)
        /\ Set(regs[d], s, v) \div Span(s) = regs[d] \div Span(s)
    BY <2>3, SetLemma
  <2>5. A!Limit(s) = Span(s)
    BY DEF A!Limit, A!Bits, Span, Bits
  <2>6. A!Keeps(d, s, n)
    BY <2>2, <2>4, <2>5 DEF A!Keeps, A!Natural
  <2>7. QED
    BY <2>2, <2>6 DEF A!Result, A!Others
<1>3. QED
  BY <1>1, <1>2

-----------------------------------------------------------------------------
(* Steps.                                                                  *)

FlagRecords == [{"carry", "zero", "overflow", "sign"} -> BOOLEAN]

LEMMA FlagRecordLemma ==
    ASSUME NEW c \in BOOLEAN, NEW z \in BOOLEAN, NEW o \in BOOLEAN, NEW n \in BOOLEAN
    PROVE  [carry |-> c, zero |-> z, overflow |-> o, sign |-> n] \in FlagRecords
BY DEF FlagRecords

\* The registers after a result, and the end of the instruction.
LEMMA StepLemma ==
    ASSUME TypeOK, NEW s \in Sizes, NEW d \in Regs \cup {"null"}, NEW v \in Int, NEW n \in Int,
           Same(Span(s), v, n), Write(d, s, v), Retire
    PROVE  A!Result(d, s, n) /\ A!Done /\ regs' \in [Regs -> Word]
<1>1. regs \in [Regs -> Word]
  BY DEF TypeOK
<1>2. A!Result(d, s, n)
  BY <1>1, WriteLemma
<1>3. A!Done
  BY DEF Retire, A!Done, Idle, A!Idle
<1>4. regs' \in [Regs -> Word]
  <2>1. CASE d = "null"
    BY <1>1, <2>1 DEF Write
  <2>2. CASE d # "null"
    <3>1. d \in Regs /\ regs' = [regs EXCEPT ![d] = Set(regs[d], s, v)] /\ regs[d] \in Word
      BY <1>1, <2>2 DEF Write
    <3>2. Set(regs[d], s, v) \in Word
      BY <3>1, SetTypeLemma
    <3>3. QED
      BY <1>1, <3>1, <3>2
  <2>3. QED
    BY <2>1, <2>2
<1>5. QED
  BY <1>2, <1>3, <1>4

\* The condition bits after a step that sets them.
LEMMA SetFlagsLemma ==
    ASSUME TypeOK, NEW f, NEW g \in FlagRecords, f = g, SetFlags(f)
    PROVE  flags' \in FlagRecords /\ A!Flags(g)
<1>1. flags \in FlagRecords
  BY DEF TypeOK, FlagRecords
<1>2. flags' = IF instr.f THEN g ELSE flags
  BY DEF SetFlags
<1>3. flags' \in FlagRecords
  BY <1>1, <1>2
<1>4. QED
  BY <1>2, <1>3 DEF A!Flags

LEMMA TypeLemma ==
    ASSUME TypeOK, regs' \in [Regs -> Word], flags' \in FlagRecords, Retire
    PROVE  TypeOK'
BY DEF TypeOK, FlagRecords, Retire

\* The promises of a panic.
LEMMA GoneLemma ==
    ASSUME TypeOK, Panic
    PROVE  TypeOK' /\ A!Gone
BY DEF TypeOK, Panic, A!Gone

LEMMA PanicLemma ==
    ASSUME TypeOK, Decoded({"add", "sub", "and", "or", "xor"}), ImmediatePanics(instr.b), Panic
    PROVE  TypeOK' /\ A!Panic
<1>1. TypeOK' /\ A!Gone
  BY GoneLemma
<1>2. ~A!Movable(instr.b)
  BY DEF ImmediatePanics, A!Movable, A!TooFar, A!Bits, WordBits, Bits
<1>3. A!Doing({"add", "sub", "and", "or", "xor"})
  BY DEF Decoded, A!Doing
<1>4. QED
  BY <1>1, <1>2, <1>3 DEF A!Panic

LEMMA MovableLemma ==
    ASSUME NEW b, IsReg(b) \/ IsShifted(b), ~ImmediatePanics(b)
    PROVE  A!Movable(b)
<1>1. CASE b.kind # "shifted"
  BY <1>1 DEF A!Movable, A!TooFar
<1>2. CASE b.kind = "shifted"
  BY <1>2 DEF ImmediatePanics, A!Movable, A!TooFar, A!Bits, WordBits, Bits
<1>3. QED
  BY <1>1, <1>2

LEMMA BitsTypeLemma ==
    ASSUME NEW u, NEW v, NEW c, NEW s
    PROVE  AddBits(u, v, c, s) \in FlagRecords /\ SubBits(u, v, c, s) \in FlagRecords
<1>1. ASSUME NEW a, NEW b, NEW z, NEW i, NEW n
      PROVE  [carry |-> a >= b, zero |-> A!Zero(z, s), overflow |-> ~A!InRange(i, s),
              sign |-> A!Negative(n, s)] \in FlagRecords
  <2>1. (a >= b) \in BOOLEAN
    OBVIOUS
  <2>2. A!Zero(z, s) \in BOOLEAN /\ (~A!InRange(i, s)) \in BOOLEAN /\ A!Negative(n, s) \in BOOLEAN
    BY DEF A!Zero, A!InRange, A!Negative
  <2>3. QED
    BY <2>1, <2>2, FlagRecordLemma
<1>2. ASSUME NEW a, NEW b, NEW z, NEW i, NEW n
      PROVE  [carry |-> a < b, zero |-> A!Zero(z, s), overflow |-> ~A!InRange(i, s),
              sign |-> A!Negative(n, s)] \in FlagRecords
  <2>1. (a < b) \in BOOLEAN
    OBVIOUS
  <2>2. A!Zero(z, s) \in BOOLEAN /\ (~A!InRange(i, s)) \in BOOLEAN /\ A!Negative(n, s) \in BOOLEAN
    BY DEF A!Zero, A!InRange, A!Negative
  <2>3. QED
    BY <2>1, <2>2, FlagRecordLemma
<1>3. AddBits(u, v, c, s) \in FlagRecords
  BY <1>1 DEF AddBits
<1>4. SubBits(u, v, c, s) \in FlagRecords
  BY <1>2 DEF SubBits
<1>5. QED
  BY <1>3, <1>4

-----------------------------------------------------------------------------
(* Arithmetic.                                                             *)

\* An add leaves the sum, and its bits report unsigned and signed overflow, for
\* operands of every size: the code works on words and tests bits.
THEOREM AddExact ==
    ASSUME TypeOK, Add
    PROVE  TypeOK' /\ (A!Add \/ A!Panic)
<1> DEFINE s == instr.size
           c == CarryIn
           u == regs[instr.a]
           v == A!Second(instr.b)
           l == Wrap(Signed(instr.a, s))
           r == SignedWord(instr.b, s)
<1>1. Decoded({"add"}) /\ instr.op = "add"
  BY DEF Add, Decoded
<1>2. /\ IsInstr(instr) /\ regs \in [Regs -> Word]
      /\ s \in Sizes /\ instr.d \in Regs \cup {"null"} /\ instr.a \in Regs
      /\ u \in Word /\ u \in Int /\ c \in {0, 1}
  BY <1>1, OperandsLemma, Zenon
<1>3. IsReg(instr.b) \/ IsShifted(instr.b)
  BY <1>1, <1>2 DEF IsInstr
<1>4. CASE ImmediatePanics(instr.b)
  <2>1. Panic
    BY <1>4 DEF Add
  <2>2. Decoded({"add", "sub", "and", "or", "xor"})
    BY <1>1 DEF Decoded
  <2>3. QED
    BY <1>4, <2>1, <2>2, PanicLemma
<1>5. CASE ~ImmediatePanics(instr.b)
  <2> DEFINE res == Sum(l, r, c)
             n == u + v + c
  <2>1. Write(instr.d, s, res) /\ SetFlags(AddFlags(l, r, res, s)) /\ Retire
    BY <1>5 DEF Add
  <2>2. l = Wrap(SignedOf(u, s))
    BY DEF Signed, SignedOf, Unsigned
  <2>3. l \in Word /\ Same(Span(s), l, u)
    BY <1>2, <2>2, SignedLemma
  <2>4. v \in Int /\ r \in Word /\ Same(Span(s), r, v)
    BY <1>2, <1>3, SecondLemma
  <2>5. A!Movable(instr.b)
    BY <1>3, <1>5, MovableLemma
  <2> HIDE DEF s, c, u, v, l, r
  <2>6. res \in Word /\ Same(Span(s), res, n) /\ n \in Int
    <3>1. res \in Word /\ Same(Span(s), res, n)
      BY <1>2, <2>3, <2>4, ResultLemma
    <3>2. n \in Int
      BY <1>2, <2>4
    <3>3. QED
      BY <3>1, <3>2
  <2>7. res \in Int
    BY <2>6, AddrSpaceAssumption DEF Word
  <2>8. AddFlags(l, r, res, s) = AddBits(u, v, c, s)
    BY <1>2, <2>3, <2>4, AddFlagsLemma
  <2>9. AddBits(u, v, c, s) \in FlagRecords
    BY BitsTypeLemma
  <2>10. flags' \in FlagRecords /\ A!Flags(AddBits(u, v, c, s))
    BY <2>1, <2>8, <2>9, SetFlagsLemma
  <2> HIDE DEF res, n
  <2>11. A!Result(instr.d, s, n) /\ A!Done /\ regs' \in [Regs -> Word]
    BY <1>2, <2>1, <2>6, <2>7, StepLemma
  <2>12. TypeOK'
    BY <2>1, <2>10, <2>11, TypeLemma
  <2>13. A!CarryIn = c /\ A!Doing({"add"})
    BY <1>1 DEF A!CarryIn, CarryIn, c, A!Doing, Decoded
  <2>14. A!Add
    BY <2>5, <2>10, <2>11, <2>13, Zenon DEF A!Add, AddBits, s, u, v, n
  <2>15. QED
    BY <2>12, <2>14
<1>6. QED
  BY <1>4, <1>5

\* A sub leaves the difference, and its bits report a borrow and signed
\* overflow.
THEOREM SubExact ==
    ASSUME TypeOK, Sub
    PROVE  TypeOK' /\ (A!Sub \/ A!Panic)
<1> DEFINE s == instr.size
           c == CarryIn
           u == regs[instr.a]
           v == A!Second(instr.b)
           l == Wrap(Signed(instr.a, s))
           r == SignedWord(instr.b, s)
<1>1. Decoded({"sub"}) /\ instr.op = "sub"
  BY DEF Sub, Decoded
<1>2. /\ IsInstr(instr) /\ regs \in [Regs -> Word]
      /\ s \in Sizes /\ instr.d \in Regs \cup {"null"} /\ instr.a \in Regs
      /\ u \in Word /\ u \in Int /\ c \in {0, 1}
  BY <1>1, OperandsLemma, Zenon
<1>3. IsReg(instr.b) \/ IsShifted(instr.b)
  BY <1>1, <1>2 DEF IsInstr
<1>4. CASE ImmediatePanics(instr.b)
  <2>1. Panic
    BY <1>4 DEF Sub
  <2>2. Decoded({"add", "sub", "and", "or", "xor"})
    BY <1>1 DEF Decoded
  <2>3. QED
    BY <1>4, <2>1, <2>2, PanicLemma
<1>5. CASE ~ImmediatePanics(instr.b)
  <2> DEFINE res == Difference(l, r, c)
             n == u - v - c
  <2>1. Write(instr.d, s, res) /\ SetFlags(SubFlags(l, r, res, s)) /\ Retire
    BY <1>5 DEF Sub
  <2>2. l = Wrap(SignedOf(u, s))
    BY DEF Signed, SignedOf, Unsigned
  <2>3. l \in Word /\ Same(Span(s), l, u)
    BY <1>2, <2>2, SignedLemma
  <2>4. v \in Int /\ r \in Word /\ Same(Span(s), r, v)
    BY <1>2, <1>3, SecondLemma
  <2>5. A!Movable(instr.b)
    BY <1>3, <1>5, MovableLemma
  <2> HIDE DEF s, c, u, v, l, r
  <2>6. res \in Word /\ Same(Span(s), res, n) /\ n \in Int
    <3>1. res \in Word /\ Same(Span(s), res, n)
      BY <1>2, <2>3, <2>4, ResultLemma
    <3>2. n \in Int
      BY <1>2, <2>4
    <3>3. QED
      BY <3>1, <3>2
  <2>7. res \in Int
    BY <2>6, AddrSpaceAssumption DEF Word
  <2>8. SubFlags(l, r, res, s) = SubBits(u, v, c, s)
    BY <1>2, <2>3, <2>4, SubFlagsLemma
  <2>9. SubBits(u, v, c, s) \in FlagRecords
    BY BitsTypeLemma
  <2>10. flags' \in FlagRecords /\ A!Flags(SubBits(u, v, c, s))
    BY <2>1, <2>8, <2>9, SetFlagsLemma
  <2> HIDE DEF res, n
  <2>11. A!Result(instr.d, s, n) /\ A!Done /\ regs' \in [Regs -> Word]
    BY <1>2, <2>1, <2>6, <2>7, StepLemma
  <2>12. TypeOK'
    BY <2>1, <2>10, <2>11, TypeLemma
  <2>13. A!CarryIn = c /\ A!Doing({"sub"})
    BY <1>1 DEF A!CarryIn, CarryIn, c, A!Doing, Decoded
  <2>14. A!Sub
    BY <2>5, <2>10, <2>11, <2>13, Zenon DEF A!Sub, SubBits, s, u, v, n
  <2>15. QED
    BY <2>12, <2>14
<1>6. QED
  BY <1>4, <1>5

\* Changes of single bits.
LEMMA FlagExceptLemma ==
    ASSUME NEW f \in FlagRecords, NEW b \in BOOLEAN
    PROVE  /\ [f EXCEPT !.carry = b] \in FlagRecords /\ [f EXCEPT !.zero = b] \in FlagRecords
           /\ [f EXCEPT !.overflow = b] \in FlagRecords /\ [f EXCEPT !.sign = b] \in FlagRecords
BY DEF FlagRecords

LEMMA ReportedTypeLemma ==
    ASSUME TypeOK, NEW n, NEW s
    PROVE  /\ A!Reported(n, s) \in FlagRecords
           /\ [A!Reported(n, s) EXCEPT !.overflow = FALSE] \in FlagRecords
           /\ [flags EXCEPT !.sign = A!Negative(n, s)] \in FlagRecords
<1>1. flags \in FlagRecords
  BY DEF TypeOK, FlagRecords
<1>2. A!Zero(n, s) \in BOOLEAN /\ A!Negative(n, s) \in BOOLEAN
  BY DEF A!Zero, A!Negative
<1> DEFINE f == [flags EXCEPT !.zero = A!Zero(n, s)]
           g == [f EXCEPT !.sign = A!Negative(n, s)]
<1>3. f \in FlagRecords
  BY <1>1, <1>2, FlagExceptLemma
<1>4. g \in FlagRecords
  <2> HIDE DEF f
  <2>1. QED
    BY <1>2, <1>3, FlagExceptLemma
<1>5. A!Reported(n, s) = g
  BY DEF A!Reported
<1>6. A!Reported(n, s) \in FlagRecords
  BY <1>4, <1>5
<1>7. [A!Reported(n, s) EXCEPT !.overflow = FALSE] \in FlagRecords
  BY <1>6, FlagExceptLemma
<1>8. [flags EXCEPT !.sign = A!Negative(n, s)] \in FlagRecords
  BY <1>1, <1>2, FlagExceptLemma
<1>9. QED
  BY <1>6, <1>7, <1>8

\* A step that leaves a value and reports it.
LEMMA ReportStepLemma ==
    ASSUME TypeOK, NEW s \in Sizes, NEW d \in Regs \cup {"null"}, NEW v \in Int, NEW n \in Int,
           Same(Span(s), v, n), Write(d, s, v), Retire, SetFlags(ResultFlags(v, s))
    PROVE  TypeOK' /\ A!Result(d, s, n) /\ A!Flags(A!Reported(n, s)) /\ A!Done
<1>1. A!Result(d, s, n) /\ A!Done /\ regs' \in [Regs -> Word]
  BY StepLemma
<1>2. ResultFlags(v, s) = A!Reported(n, s)
  BY ReportedLemma
<1>3. flags' \in FlagRecords /\ A!Flags(A!Reported(n, s))
  BY <1>2, ReportedTypeLemma, SetFlagsLemma
<1>4. QED
  BY <1>1, <1>3, TypeLemma

\* What registers stand for.
LEMMA ValueLemma ==
    ASSUME regs \in [Regs -> Word], NEW r \in Regs, NEW s \in Sizes
    PROVE  /\ Signed(r, s) = A!Integer(regs[r], s) /\ Unsigned(r, s) = A!Natural(regs[r], s)
           /\ Unsigned(r, s) \in 0 .. Span(s) - 1
           /\ Signed(r, s) \in Int /\ -Half(s) <= Signed(r, s) /\ Signed(r, s) < Half(s)
<1> DEFINE u == regs[r]
           m == u % Span(s)
           H == Half(s)
           M == Span(s)
<1>1. u \in Int
  BY AddrSpaceAssumption DEF Word
<1>2. M \in Nat /\ M > 0 /\ H \in Nat /\ H > 0 /\ M = H + H
  BY SpanLemma
<1>3. m \in 0 .. M - 1 /\ (Bit(u, Bits(s) - 1) <=> m >= H)
  BY <1>1, MsbLemma DEF Msb
<1>4. A!Natural(u, s) = m /\ A!Integer(u, s) = ToInteger(m, H)
  BY <1>1, VocabularyLemma
<1>5. Unsigned(r, s) = m /\ Signed(r, s) = IF m >= H THEN m - M ELSE m
  BY <1>3 DEF Unsigned, Signed
<1> HIDE DEF u, m, H, M
<1>6. /\ Signed(r, s) = ToInteger(m, H) /\ Signed(r, s) \in Int
      /\ -H <= Signed(r, s) /\ Signed(r, s) < H
  BY <1>2, <1>3, <1>5 DEF ToInteger
<1>7. QED
  BY <1>3, <1>4, <1>5, <1>6 DEF u, H, M

\* What a register of the host holds.
LEMMA FitsLemma ==
    ASSUME NEW n \in Int, NEW signed
    PROVE  /\ Representable(n, signed) <=> A!Fits(n, signed)
           /\ Representable(n, TRUE) <=> A!InRange(n, WordSize)
           /\ Half(WordSize) \in Nat /\ AddrSpace = Half(WordSize) + Half(WordSize)
           /\ Representable(n, TRUE) <=> -Half(WordSize) <= n /\ n < Half(WordSize)
           /\ \A s \in Sizes : Half(s) <= Half(WordSize)
<1>1. WordSize \in Sizes /\ AddrSpace = Span(WordSize)
  BY SizesAssumption
<1>2. /\ AddrSpace \in Nat /\ AddrSpace \div 2 = Half(WordSize) /\ Half(WordSize) \in Nat
      /\ AddrSpace = Half(WordSize) + Half(WordSize)
  BY <1>1, SpanLemma
<1>3. A!Limit(WordSize) = AddrSpace /\ (A!InRange(n, WordSize) <=> -Half(WordSize) <= n /\ n < Half(WordSize))
  BY <1>1, VocabularyLemma
<1>4. n \in Word <=> 0 <= n /\ n < AddrSpace
  BY <1>2 DEF Word
<1>5. \A s \in Sizes : Half(s) <= Half(WordSize)
  <2> TAKE s \in Sizes
  <2>1. Bits(s) - 1 \in Nat /\ WordBits - 1 \in Nat /\ Bits(s) - 1 <= WordBits - 1
    <3>1. /\ Bits(s) - 1 \in Nat /\ WordBits - 1 \in Nat /\ Bits(s) <= WordBits
          /\ Bits(s) \in Nat /\ WordBits \in Nat
      BY BitsLemma
    <3>2. QED
      BY <3>1
  <2>2. 2 ^ (Bits(s) - 1) <= 2 ^ (WordBits - 1)
    BY <2>1, PowerGreater
  <2>3. QED
    BY <2>2 DEF Half, WordBits
<1>6. QED
  BY <1>2, <1>3, <1>4, <1>5 DEF Representable, A!Fits

\* mul leaves the product, in the size of its destination, or panics a debug
\* build when the product is not representable.
THEOREM MulExact ==
    ASSUME TypeOK, Mul
    PROVE  TypeOK' /\ A!Mul
<1> DEFINE s == instr.size
           t == instr.dsize
           x == IF instr.signed THEN Signed(instr.a, s) ELSE Unsigned(instr.a, s)
           y == IF instr.signed THEN Signed(instr.b.reg, s) ELSE Unsigned(instr.b.reg, s)
           product == x * y
           overflow == OverflowChecks /\ ~Representable(product, instr.signed)
<1>1. status = "running" /\ instr.op = "mul"
  BY DEF Mul, Decoded
<1>2. /\ IsInstr(instr) /\ regs \in [Regs -> Word]
      /\ s \in Sizes /\ instr.d \in Regs \cup {"null"} /\ instr.a \in Regs
  BY <1>1, OperandsLemma, Zenon
<1>3. t \in Sizes /\ instr.b.reg \in Regs /\ instr.signed \in BOOLEAN
  BY <1>1, <1>2 DEF IsInstr, IsReg
<1>4. \/ overflow /\ Panic
      \/ /\ ~overflow
         /\ Write(instr.d, t, Wrap(product)) /\ SetFlags(ResultFlags(Wrap(product), t))
         /\ Retire
  <2>1. product = IF instr.signed THEN Signed(instr.a, s) * Signed(instr.b.reg, s)
                  ELSE Unsigned(instr.a, s) * Unsigned(instr.b.reg, s)
    BY <1>3
  <2> HIDE DEF x, y
  <2>2. QED
    BY <2>1 DEF Mul
<1>5. /\ x = A!Operand(regs[instr.a], s) /\ y = A!Operand(regs[instr.b.reg], s)
      /\ x \in Int /\ y \in Int
  <2>1. \A r \in Regs : /\ Signed(r, s) = A!Integer(regs[r], s)
                        /\ Unsigned(r, s) = A!Natural(regs[r], s)
                        /\ Signed(r, s) \in Int /\ Unsigned(r, s) \in Int
    <3> TAKE r \in Regs
    <3>1. /\ Signed(r, s) = A!Integer(regs[r], s) /\ Unsigned(r, s) = A!Natural(regs[r], s)
          /\ Signed(r, s) \in Int /\ Unsigned(r, s) \in 0 .. Span(s) - 1
      BY <1>2, ValueLemma
    <3>2. Span(s) \in Nat
      BY <1>2, SpanLemma
    <3>3. Unsigned(r, s) \in Int
      BY <3>1, <3>2
    <3>4. QED
      BY <3>1, <3>3
  <2>2. QED
    BY <1>2, <1>3, <2>1 DEF A!Operand
<1> HIDE DEF s, t, x, y
<1>6. product \in Int
  BY <1>5
<1>7. product = A!Operand(regs[instr.a], s) * A!Operand(regs[instr.b.reg], s)
  BY <1>5
<1> HIDE DEF product
<1>8. overflow <=> OverflowChecks /\ ~A!Fits(product, instr.signed)
  BY <1>6, FitsLemma
<1>9. A!Doing({"mul"})
  BY <1>1 DEF A!Doing
<1>10. CASE overflow /\ Panic
  <2>1. TypeOK' /\ A!Gone
    BY <1>10, GoneLemma
  <2>2. A!Mul
    BY <1>7, <1>8, <1>9, <1>10, <2>1 DEF A!Mul, s
  <2>3. QED
    BY <2>1, <2>2
<1>11. CASE ~overflow /\ Write(instr.d, t, Wrap(product)) /\ SetFlags(ResultFlags(Wrap(product), t)) /\ Retire
  <2>1. Wrap(product) \in Int /\ Same(Span(t), Wrap(product), product)
    BY <1>3, <1>6, WrappedLemma DEF t
  <2>2. TypeOK' /\ A!Result(instr.d, t, product) /\ A!Flags(A!Reported(product, t)) /\ A!Done
    BY <1>2, <1>3, <1>6, <1>11, <2>1, ReportStepLemma DEF t
  <2>3. A!Mul
    BY <1>7, <1>8, <1>9, <1>11, <2>2 DEF A!Mul, s, t
  <2>4. QED
    BY <2>2, <2>3
<1>12. QED
  BY <1>4, <1>10, <1>11

\* neg leaves the opposite.
THEOREM NegExact ==
    ASSUME TypeOK, Neg
    PROVE  TypeOK' /\ A!Neg
<1> DEFINE s == instr.size
           x == Signed(instr.a, s)
           n == -x
           overflow == OverflowChecks /\ ~Representable(n, TRUE)
<1>1. status = "running" /\ instr.op = "neg"
  BY DEF Neg, Decoded
<1>2. /\ regs \in [Regs -> Word]
      /\ s \in Sizes /\ instr.d \in Regs \cup {"null"} /\ instr.a \in Regs
  BY <1>1, OperandsLemma, Zenon
<1>3. \/ overflow /\ Panic
      \/ /\ ~overflow
         /\ Write(instr.d, s, Wrap(n)) /\ SetFlags(ResultFlags(Wrap(n), s)) /\ Retire
  BY DEF Neg
<1>4. x = A!Integer(regs[instr.a], s) /\ x \in Int
  BY <1>2, ValueLemma
<1> HIDE DEF s, x
<1>5. n \in Int /\ n = -A!Integer(regs[instr.a], s)
  BY <1>4
<1> HIDE DEF n
<1>6. overflow <=> OverflowChecks /\ ~A!InRange(n, WordSize)
  BY <1>5, FitsLemma
<1>7. A!Doing({"neg"})
  BY <1>1 DEF A!Doing
<1>8. CASE overflow /\ Panic
  <2>1. TypeOK' /\ A!Gone
    BY <1>8, GoneLemma
  <2>2. A!Neg
    BY <1>5, <1>6, <1>7, <1>8, <2>1 DEF A!Neg, s
  <2>3. QED
    BY <2>1, <2>2
<1>9. CASE ~overflow /\ Write(instr.d, s, Wrap(n)) /\ SetFlags(ResultFlags(Wrap(n), s)) /\ Retire
  <2>1. Wrap(n) \in Int /\ Same(Span(s), Wrap(n), n)
    BY <1>2, <1>5, WrappedLemma
  <2>2. TypeOK' /\ A!Result(instr.d, s, n) /\ A!Flags(A!Reported(n, s)) /\ A!Done
    BY <1>2, <1>5, <1>9, <2>1, ReportStepLemma
  <2>3. A!Neg
    BY <1>5, <1>6, <1>7, <1>9, <2>2 DEF A!Neg, s
  <2>4. QED
    BY <2>2, <2>3
<1>10. QED
  BY <1>3, <1>8, <1>9

\* q and rem are what division of the host, which rounds to zero, makes of x
\* and y; the quotient has no representation only for the least x and y = -1.
Divides(x, y, q, rem) ==
    /\ q \in Int /\ rem \in Int /\ y * q \in Int
    /\ Magnitude(q) <= Magnitude(x)
    /\ Magnitude(rem) < Magnitude(y)
    /\ rem = 0 \/ (rem < 0 <=> x < 0)
    /\ 0 <= x /\ 0 < y => 0 <= q
    /\ q = Magnitude(x) /\ q > 0 => y = 1 \/ y = -1
    /\ y = 1 => q = x

LEMMA QuotientLemma ==
    ASSUME NEW x \in Int, NEW y \in Int, y # 0
    PROVE  Divides(x, y, Quotient(x, y), x - y * Quotient(x, y))
<1> DEFINE a == Magnitude(x)
           b == Magnitude(y)
           p == a \div b
           t == a % b
           q == Quotient(x, y)
           rem == x - y * q
<1>1. a \in Nat /\ b \in Nat /\ b > 0
  BY DEF Magnitude
<1>2. p \in Int /\ t \in 0 .. b - 1 /\ t \in Int /\ a = b * p + t
  <2> HIDE DEF a, b
  <2>1. QED
    BY <1>1, DivisionLemma
<1>3. q = IF (x < 0) = (y < 0) THEN p ELSE -p
  BY DEF Quotient
<1>4. (x < 0 => a = -x) /\ (~(x < 0) => a = x) /\ (y < 0 => b = -y) /\ (~(y < 0) => b = y)
  BY DEF Magnitude
<1> HIDE DEF a, b, p, t, q
<1>5. p >= 0
  <2>1. ASSUME p < 0
        PROVE  FALSE
    <3>1. b * p + t < b * 0 /\ b * 0 = 0
      BY <1>1, <1>2, <2>1, RowsLemma
    <3>2. QED
      BY <1>1, <1>2, <3>1
  <2>2. QED
    BY <1>2, <2>1
<1>6. b * p \in Int /\ b * p >= p
  BY <1>1, <1>2, <1>5
<1>7. p <= a /\ (p = a /\ p > 0 => b = 1)
  <2>1. p <= a
    <3> DEFINE z == b * p
    <3>1. a = z + t /\ z >= p /\ z \in Int
      BY <1>2, <1>6
    <3> HIDE DEF z
    <3>2. QED
      BY <1>2, <3>1
  <2>2. ASSUME p = a, p > 0, b >= 2
        PROVE  FALSE
    <3>1. b * p >= 2 * p
      BY <1>1, <1>2, <2>2
    <3> DEFINE z == b * p
    <3>2. a = z + t /\ z >= 2 * p /\ z \in Int
      BY <1>2, <1>6, <3>1
    <3> HIDE DEF z
    <3>3. QED
      BY <1>1, <1>2, <2>2, <3>2
  <2>3. QED
    BY <1>1, <2>1, <2>2
<1>8. b = 1 => p = a
  <2> SUFFICES ASSUME b = 1 PROVE p = a
    OBVIOUS
  <2>1. b * p = p /\ t = 0
    BY <1>2
  <2>2. QED
    BY <1>2, <2>1
<1>9. q \in Int /\ y * q \in Int /\ (x < 0 => y * q = -(b * p)) /\ (~(x < 0) => y * q = b * p)
  <2>1. q \in Int
    BY <1>2, <1>3
  <2>2. CASE y < 0 /\ x < 0
    BY <1>2, <1>3, <1>4, <2>2
  <2>3. CASE y < 0 /\ ~(x < 0)
    <3>1. q = -p /\ y = -b
      BY <1>1, <1>3, <1>4, <2>3
    <3>2. (-b) * (-p) = b * p
      BY <1>1, <1>2
    <3>3. QED
      BY <1>6, <2>1, <2>3, <3>1, <3>2
  <2>4. CASE ~(y < 0) /\ x < 0
    <3>1. q = -p /\ y = b
      BY <1>1, <1>3, <1>4, <2>4
    <3>2. b * (-p) = -(b * p)
      BY <1>1, <1>2
    <3>3. QED
      BY <1>6, <2>1, <2>4, <3>1, <3>2
  <2>5. CASE ~(y < 0) /\ ~(x < 0)
    BY <1>2, <1>3, <1>4, <1>6, <2>5
  <2>6. QED
    BY <2>2, <2>3, <2>4, <2>5
<1> DEFINE z == b * p
           w == y * q
<1>10. rem = x - w /\ w \in Int /\ z \in Int /\ a = z + t /\ (x < 0 => w = -z) /\ (~(x < 0) => w = z)
  BY <1>2, <1>6, <1>9
<1> HIDE DEF z, w, rem
<1>11. rem \in Int /\ (x < 0 => rem = -t) /\ (~(x < 0) => rem = t)
  BY <1>2, <1>4, <1>10
<1>12. Magnitude(rem) < b
  BY <1>1, <1>2, <1>11 DEF Magnitude
<1>13. rem = 0 \/ (rem < 0 <=> x < 0)
  BY <1>2, <1>11
<1>14. Magnitude(q) <= a
  BY <1>2, <1>3, <1>5, <1>7 DEF Magnitude
<1>15. 0 <= x /\ 0 < y => 0 <= q
  BY <1>2, <1>3, <1>5
<1>16. q = a /\ q > 0 => y = 1 \/ y = -1
  <2> SUFFICES ASSUME q = a, q > 0 PROVE y = 1 \/ y = -1
    OBVIOUS
  <2>1. q = p
    BY <1>2, <1>3, <1>5
  <2>2. b = 1
    BY <1>7, <2>1
  <2>3. QED
    BY <1>4, <2>2
<1>17. y = 1 => q = x
  BY <1>1, <1>2, <1>3, <1>4, <1>8
<1>18. Divides(x, y, q, rem)
  BY <1>9, <1>11, <1>12, <1>13, <1>14, <1>15, <1>16, <1>17 DEF a, b, Divides
<1>19. QED
  BY <1>18, Zenon DEF q, rem

LEMMA KeepsLemma ==
    ASSUME NEW s \in Sizes, NEW r \in Regs, regs[r] \in Word, NEW v \in Int, NEW n \in Int,
           Same(Span(s), v, n), regs'[r] = Set(regs[r], s, v)
    PROVE  A!Keeps(r, s, n)
<1>1. /\ Set(regs[r], s, v) % Span(s) = n % Span(s)
      /\ Set(regs[r], s, v) \div Span(s) = regs[r] \div Span(s)
  BY SetLemma
<1>2. A!Limit(s) = Span(s)
  BY DEF A!Limit, A!Bits, Span, Bits
<1>3. QED
  BY <1>1, <1>2 DEF A!Keeps, A!Natural

\* div leaves a quotient and a remainder with the sign of the dividend; it
\* panics when the divisor is zero or the quotient is not representable.
THEOREM DivExact ==
    ASSUME TypeOK, Div
    PROVE  TypeOK' /\ A!Div
<1> DEFINE s == instr.size
           x == IF instr.signed THEN Signed(instr.a, s) ELSE Unsigned(instr.a, s)
           y == IF instr.signed THEN Signed(instr.b.reg, s) ELSE Unsigned(instr.b.reg, s)
           quot == Quotient(x, y)
           rem == x - y * quot
           After(r) == IF r = instr.d THEN Set(regs[r], s, Wrap(quot))
                       ELSE IF r = instr.rem THEN Set(regs[r], s, Wrap(rem))
                       ELSE regs[r]
<1>1. status = "running" /\ instr.op = "div"
  BY DEF Div, Decoded
<1>2. /\ IsInstr(instr) /\ regs \in [Regs -> Word] /\ s \in Sizes /\ instr.a \in Regs
  BY <1>1, OperandsLemma, Zenon
<1>3. /\ instr.d \in Regs /\ instr.rem \in Regs /\ instr.b.reg \in Regs
      /\ instr.signed \in BOOLEAN
  BY <1>1, <1>2 DEF IsInstr, IsReg
<1>4. \/ y = 0 /\ Panic
      \/ y # 0 /\ ~Representable(quot, instr.signed) /\ Panic
      \/ /\ y # 0 /\ Representable(quot, instr.signed)
         /\ regs' = [r \in Regs |-> After(r)]
         /\ SetFlags(ResultFlags(Wrap(quot), s)) /\ Retire
  BY DEF Div
<1>5. ASSUME NEW r \in Regs
      PROVE  /\ Signed(r, s) = A!Integer(regs[r], s) /\ Unsigned(r, s) = A!Natural(regs[r], s)
             /\ Signed(r, s) \in Int /\ Unsigned(r, s) \in Nat
             /\ -Half(s) <= Signed(r, s) /\ Signed(r, s) < Half(s)
             /\ Unsigned(r, s) < Half(s) + Half(s)
  <2>1. /\ Signed(r, s) = A!Integer(regs[r], s) /\ Unsigned(r, s) = A!Natural(regs[r], s)
        /\ Signed(r, s) \in Int /\ Unsigned(r, s) \in 0 .. Span(s) - 1
        /\ -Half(s) <= Signed(r, s) /\ Signed(r, s) < Half(s)
    BY <1>2, ValueLemma
  <2>2. Span(s) \in Nat /\ Half(s) \in Nat /\ Span(s) = Half(s) + Half(s)
    BY <1>2, SpanLemma
  <2>3. Unsigned(r, s) \in Nat /\ Unsigned(r, s) < Half(s) + Half(s)
    BY <2>1, <2>2
  <2>4. QED
    BY <2>1, <2>3
<1>6. /\ x = A!Operand(regs[instr.a], s) /\ y = A!Operand(regs[instr.b.reg], s)
      /\ x \in Int /\ y \in Int
      /\ instr.signed => -Half(s) <= x /\ x < Half(s)
      /\ ~instr.signed => x \in Nat /\ y \in Nat /\ x < Half(s) + Half(s)
  BY <1>2, <1>3, <1>5 DEF A!Operand
<1>7. Half(s) \in Nat /\ A!Limit(s) = Half(s) + Half(s)
  BY <1>2, SpanLemma, VocabularyLemma
<1> HIDE DEF s, x, y
<1>8. A!Doing({"div"})
  BY <1>1 DEF A!Doing
<1>9. CASE y = 0 /\ Panic
  <2>1. TypeOK' /\ A!Gone
    BY <1>9, GoneLemma
  <2>2. A!Div
    BY <1>6, <1>8, <1>9, <2>1 DEF A!Div, s
  <2>3. QED
    BY <2>1, <2>2
<1>10. CASE y # 0
  <2>1. /\ quot \in Int /\ rem \in Int /\ y * quot \in Int
        /\ Magnitude(quot) <= Magnitude(x) /\ Magnitude(rem) < Magnitude(y)
        /\ rem = 0 \/ (rem < 0 <=> x < 0)
        /\ (0 <= x /\ 0 < y => 0 <= quot)
        /\ (quot = Magnitude(x) /\ quot > 0 => y = 1 \/ y = -1)
        /\ (y = 1 => quot = x)
    <3>1. Divides(x, y, quot, rem)
      BY <1>6, <1>10, QuotientLemma, Zenon
    <3> HIDE DEF quot, rem
    <3>2. QED
      BY <3>1, Zenon DEF Divides
  <2>2. rem = x - quot * y
    <3> HIDE DEF quot
    <3>1. y * quot = quot * y
      BY <1>6, <2>1
    <3>2. QED
      BY <3>1
  <2> HIDE DEF quot, rem
  <2>3. CASE ~Representable(quot, instr.signed) /\ Panic
    <3> DEFINE H == Half(s)
               W == Half(WordSize)
    <3>1. H \in Nat /\ W \in Nat /\ H <= W /\ AddrSpace = W + W
      BY <1>2, <1>7, <2>1, FitsLemma
    <3>2. /\ Representable(quot, TRUE) <=> -W <= quot /\ quot < W
          /\ -x \in Int /\ (A!InRange(-x, WordSize) <=> -W <= -x /\ -x < W)
      <4>1. -x \in Int
        BY <1>6
      <4>2. Representable(quot, TRUE) <=> -W <= quot /\ quot < W
        BY <2>1, FitsLemma
      <4>3. A!InRange(-x, WordSize) <=> -W <= -x /\ -x < W
        BY <4>1, SizesAssumption, VocabularyLemma
      <4>4. QED
        BY <4>1, <4>2, <4>3
    <3> HIDE DEF H, W
    <3>3. CASE instr.signed
      <4>1. -H <= x /\ x < H /\ instr.signed = TRUE
        BY <1>3, <1>6, <3>3 DEF H
      <4>2. ~(-W <= quot /\ quot < W)
        BY <2>3, <3>2, <4>1
      <4>3. quot = W /\ x = -W /\ quot = Magnitude(x) /\ quot > 0
        BY <1>6, <2>1, <3>1, <4>1, <4>2 DEF Magnitude
      <4>4. y = -1
        BY <1>6, <2>1, <3>1, <4>1, <4>3
      <4>5. ~A!InRange(-x, WordSize)
        BY <3>1, <3>2, <4>3
      <4>6. TypeOK' /\ A!Gone
        BY <2>3, GoneLemma
      <4>7. A!Div
        BY <1>6, <1>8, <4>4, <4>5, <4>6, Zenon DEF A!Div, s
      <4>8. QED
        BY <4>6, <4>7
    <3>4. CASE ~instr.signed
      <4>1. x \in Nat /\ y \in Nat /\ x < H + H /\ instr.signed = FALSE
        BY <1>3, <1>6, <3>4 DEF H
      <4>2. 0 <= quot /\ quot < AddrSpace
        BY <1>10, <2>1, <3>1, <4>1 DEF Magnitude
      <4>3. quot \in Word
        BY <2>1, <3>1, <4>2 DEF Word
      <4>4. QED
        BY <2>3, <4>1, <4>3 DEF Representable
    <3>5. QED
      BY <3>3, <3>4
  <2>4. CASE /\ Representable(quot, instr.signed)
             /\ regs' = [r \in Regs |-> After(r)]
             /\ SetFlags(ResultFlags(Wrap(quot), s)) /\ Retire
    <3>1. /\ Wrap(quot) \in Int /\ Same(Span(s), Wrap(quot), quot)
          /\ Wrap(rem) \in Int /\ Same(Span(s), Wrap(rem), rem)
      BY <1>2, <2>1, WrappedLemma
    <3>2. \A r \in Regs : regs'[r] = After(r) /\ regs[r] \in Word
      BY <1>2, <2>4
    <3>3. A!Keeps(instr.d, s, quot)
      BY <1>2, <1>3, <2>1, <3>1, <3>2, KeepsLemma
    <3>4. instr.rem = instr.d \/ A!Keeps(instr.rem, s, rem)
      BY <1>2, <1>3, <2>1, <3>1, <3>2, KeepsLemma
    <3>5. A!Others({instr.d, instr.rem})
      BY <3>2 DEF A!Others
    <3>6. regs' \in [Regs -> Word]
      <4>1. \A r \in Regs : After(r) \in Word
        BY <1>2, <3>1, <3>2, SetTypeLemma
      <4> HIDE DEF After
      <4>2. QED
        BY <2>4, <4>1
    <3>7. flags' \in FlagRecords /\ A!Flags(A!Reported(quot, s))
      <4>1. ResultFlags(Wrap(quot), s) = A!Reported(quot, s)
        BY <1>2, <2>1, <3>1, ReportedLemma
      <4>2. QED
        BY <2>4, <4>1, ReportedTypeLemma, SetFlagsLemma
    <3>8. TypeOK' /\ A!Done
      BY <2>4, <3>6, <3>7, TypeLemma DEF Retire, A!Done, Idle, A!Idle
    <3>9. quot \in -A!Limit(s) .. A!Limit(s)
      <4> DEFINE H == Half(s)
      <4>1. H \in Nat /\ A!Limit(s) = H + H /\ -(H + H) <= x /\ x < H + H
        <5>1. H \in Nat /\ A!Limit(s) = H + H
          BY <1>7
        <5>2. (instr.signed => -H <= x /\ x < H) /\ (~instr.signed => x \in Nat /\ x < H + H)
          BY <1>6
        <5> HIDE DEF H
        <5>3. QED
          BY <1>6, <5>1, <5>2
      <4> HIDE DEF H
      <4>2. -(H + H) <= quot /\ quot <= H + H
        BY <1>6, <2>1, <4>1 DEF Magnitude
      <4>3. QED
        BY <2>1, <4>1, <4>2
    <3>10. A!Magnitude(rem) < A!Magnitude(y)
      BY <2>1 DEF Magnitude, A!Magnitude
    <3>11. A!Div
      <4> DEFINE Promise(q, e) ==
                   /\ e = 0 \/ (e < 0 <=> x < 0)
                   /\ A!Magnitude(e) < A!Magnitude(y)
                   /\ A!Keeps(instr.d, s, q)
                   /\ instr.rem = instr.d \/ A!Keeps(instr.rem, s, e)
                   /\ A!Others({instr.d, instr.rem})
                   /\ A!Flags(A!Reported(q, s))
                   /\ A!Done
      <4>1. Promise(quot, rem)
        BY <2>1, <3>3, <3>4, <3>5, <3>7, <3>8, <3>10
      <4>2. Promise(quot, x - quot * y)
        BY <2>2, <4>1
      <4>3. \E q \in -A!Limit(s) .. A!Limit(s) : Promise(q, x - q * y)
        <5> HIDE DEF Promise
        <5>1. QED
          BY <3>9, <4>2
      <4>4. ~(y = 0 \/ (y = -1 /\ ~A!InRange(-x, WordSize)))
        <5>1. y # -1 \/ A!InRange(-x, WordSize)
          <6> SUFFICES ASSUME y = -1 PROVE A!InRange(-x, WordSize)
            OBVIOUS
          <6>1. instr.signed = TRUE
            BY <1>3, <1>6
          <6>2. quot = -x
            <7>1. rem = 0 /\ rem = x - quot * (-1) /\ quot * (-1) = -quot
              BY <2>1, <2>2 DEF Magnitude
            <7> QED
              BY <1>6, <2>1, <7>1
          <6> QED
            BY <2>1, <2>4, <6>1, <6>2, FitsLemma
        <5> QED
          BY <1>10, <5>1
      <4>5. QED
        BY <1>6, <1>8, <4>3, <4>4, Zenon DEF A!Div, s
    <3>12. QED
      BY <3>8, <3>11
  <2>5. QED
    BY <1>4, <1>10, <2>3, <2>4
<1>11. QED
  BY <1>4, <1>9, <1>10

-----------------------------------------------------------------------------
(* Logic, shifts and rotations.                                            *)

LEMMA BitLemma ==
    ASSUME NEW v \in Int, NEW n \in Nat
    PROVE  /\ Bit(v, n) <=> BitSet(v, n)
           /\ A!Digit(v, n, 1) \in {0, 1} /\ (A!Digit(v, n, 1) = 1 <=> BitSet(v, n))
<1>1. Bit(v, n) <=> BitSet(v, n)
  BY BitCompared DEF Bit
<1>2. n * 1 = n /\ 2 ^ 1 = 2
  OBVIOUS
<1>3. A!Digit(v, n, 1) = (v \div 2 ^ n) % 2
  BY <1>2 DEF A!Digit
<1>4. (v \div 2 ^ n) % 2 \in {0, 1}
  <2>1. 2 ^ n \in Nat /\ 2 ^ n > 0
    BY PowerPositive
  <2> DEFINE q == v \div 2 ^ n
  <2>2. q \in Int
    BY <2>1, DivisionLemma
  <2> HIDE DEF q
  <2>3. q % 2 \in {0, 1}
    BY <2>2
  <2>4. QED
    BY <2>3 DEF q
<1>5. QED
  BY <1>1, <1>3, <1>4 DEF BitSet

\* There is one word with the bits of a set of positions.
LEMMA FromBitsLemma ==
    ASSUME NEW set
    PROVE  /\ FromBits(set) \in Word /\ FromBits(set) \in Nat
           /\ \A n \in Positions : BitSet(FromBits(set), n) <=> n \in set
<1>1. WordSize \in Sizes /\ AddrSpace = 2 ^ WordBits
  BY SizesAssumption DEF Span, WordBits
<1>2. WordBits \in Nat
  BY <1>1, BitsLemma
<1>3. PICK v \in 0 .. 2 ^ WordBits - 1 : \A n \in 0 .. WordBits - 1 : BitSet(v, n) <=> n \in set
  BY <1>2, BitsExist
<1>4. \A w \in Word : w \in Nat
  BY AddrSpaceAssumption DEF Word
<1>5. \A w \in Word, n \in Positions : Bit(w, n) <=> BitSet(w, n)
  <2>1. \A n \in Positions : n \in Nat
    BY <1>2 DEF Positions
  <2>2. \A w \in Word : w \in Int
    BY <1>4
  <2>3. QED
    BY <2>1, <2>2, BitLemma
<1>6. v \in Word /\ \A n \in Positions : BitSet(v, n) <=> n \in set
  BY <1>1, <1>3 DEF Word, Positions
<1>7. \E w \in Word : \A n \in Positions : Bit(w, n) <=> n \in set
  BY <1>5, <1>6
<1>8. FromBits(set) \in Word /\ \A n \in Positions : Bit(FromBits(set), n) <=> n \in set
  BY <1>7 DEF FromBits
<1>9. QED
  BY <1>4, <1>5, <1>8

\* The bits of a value within its size.
LEMMA SizedBitsLemma ==
    ASSUME NEW s \in Sizes, NEW v \in Nat, NEW k \in 0 .. Bits(s) - 1
    PROVE  k \in Positions /\ k \in Nat /\ (BitSet(v % Span(s), k) <=> BitSet(v, k))
<1>1. Bits(s) \in Nat /\ WordBits \in Nat /\ Bits(s) <= WordBits
  BY BitsLemma
<1>2. k \in Positions /\ k \in Nat
  BY <1>1 DEF Positions
<1>3. BitSet(v % 2 ^ Bits(s), k) <=> BitSet(v, k)
  BY <1>1, BitsRemain
<1>4. QED
  BY <1>2, <1>3 DEF Span

\* A step that leaves a value, reports it and clears the overflow.
LEMMA LogicStepLemma ==
    ASSUME TypeOK, NEW s \in Sizes, NEW d \in Regs \cup {"null"}, NEW v \in Int, NEW n \in Int,
           Same(Span(s), v, n), Write(d, s, v), Retire, SetFlags(LogicFlags(v, s))
    PROVE  /\ TypeOK' /\ A!Result(d, s, n) /\ A!Done
           /\ A!Flags([A!Reported(n, s) EXCEPT !.overflow = FALSE])
<1>1. A!Result(d, s, n) /\ A!Done /\ regs' \in [Regs -> Word]
  BY StepLemma
<1>2. LogicFlags(v, s) = [A!Reported(n, s) EXCEPT !.overflow = FALSE]
  BY ReportedLemma DEF LogicFlags
<1>3. flags' \in FlagRecords /\ A!Flags([A!Reported(n, s) EXCEPT !.overflow = FALSE])
  BY <1>2, ReportedTypeLemma, SetFlagsLemma
<1>4. QED
  BY <1>1, <1>3, TypeLemma

\* and, or and xor combine the binary digits of their operands.
THEOREM LogicExact ==
    ASSUME TypeOK, Logic
    PROVE  TypeOK' /\ (A!Logic \/ A!Panic)
<1> DEFINE s == instr.size
           l == Unsigned(instr.a, s)
           w == UnsignedWord(instr.b, s)
           v == A!Second(instr.b)
           r == A!Natural(v, s)
           op == instr.op
           res == Combined(op, l, w)
           n == res % Span(s)
           Means(x, y, z) ==
               CASE op = "and" -> z = x * y
                 [] op = "or" -> z = x + y - x * y
                 [] op = "xor" -> z = (x + y) % 2
<1>1. Decoded({"and", "or", "xor"}) /\ status = "running" /\ op \in {"and", "or", "xor"}
  BY DEF Logic, Decoded
<1>2. /\ IsInstr(instr) /\ regs \in [Regs -> Word]
      /\ s \in Sizes /\ instr.d \in Regs \cup {"null"} /\ instr.a \in Regs
  BY <1>1, OperandsLemma, Zenon
<1>3. IsReg(instr.b) \/ IsShifted(instr.b)
  BY <1>1, <1>2 DEF IsInstr
<1>4. CASE ImmediatePanics(instr.b)
  <2>1. Panic
    BY <1>4 DEF Logic
  <2>2. Decoded({"add", "sub", "and", "or", "xor"})
    BY <1>1 DEF Decoded
  <2>3. QED
    BY <1>4, <2>1, <2>2, PanicLemma
<1>5. CASE ~ImmediatePanics(instr.b)
  <2>1. Write(instr.d, s, res) /\ SetFlags(LogicFlags(res, s)) /\ Retire
    BY <1>5 DEF Logic
  <2>2. l = A!Natural(regs[instr.a], s) /\ l \in 0 .. Span(s) - 1
    BY <1>2, ValueLemma
  <2>3. v \in Int /\ w \in Word /\ Same(Span(s), w, v)
    BY <1>2, <1>3, SecondLemma
  <2>4. A!Movable(instr.b)
    BY <1>3, <1>5, MovableLemma
  <2>5. Span(s) \in Nat /\ Span(s) > 0 /\ A!Limit(s) = Span(s)
    BY <1>2, SpanLemma DEF A!Limit, A!Bits, Span, Bits
  <2>6. l \in Nat /\ w \in Nat
    BY <2>2, <2>3, <2>5, AddrSpaceAssumption DEF Word
  <2>7. r = w % Span(s)
    <3>1. w % Span(s) = v % Span(s)
      BY <2>3, <2>5, <2>6, SameLemma
    <3>2. QED
      BY <2>5, <3>1 DEF A!Natural
  <2> HIDE DEF s, l, w, v, r, op, res
  <2>8. r \in Int
    BY <2>5, <2>6, <2>7, DivisionLemma
  <2> DEFINE Both(k) == CASE op = "and" -> BitSet(l, k) /\ BitSet(w, k)
                          [] op = "or" -> BitSet(l, k) \/ BitSet(w, k)
                          [] op = "xor" -> BitSet(l, k) # BitSet(w, k)
  <2>9. res \in Word /\ res \in Nat /\ \A k \in Positions : BitSet(res, k) <=> Both(k)
    <3>1. \A k \in Positions : (Bit(l, k) <=> BitSet(l, k)) /\ (Bit(w, k) <=> BitSet(w, k))
      <4>1. \A k \in Positions : k \in Nat
        <5>1. WordBits \in Nat
          BY <1>2, BitsLemma
        <5>2. QED
          BY <5>1 DEF Positions
      <4>2. l \in Int /\ w \in Int
        BY <2>6
      <4>3. QED
        BY <4>1, <4>2, BitLemma
    <3>2. CASE op = "and"
      <4> DEFINE set == {k \in Positions : Bit(l, k) /\ Bit(w, k)}
      <4>1. res = FromBits(set)
        BY <3>2 DEF res, Combined
      <4>2. \A k \in Positions : k \in set <=> Both(k)
        BY <3>1, <3>2
      <4> HIDE DEF set, Both
      <4>3. QED
        BY <4>1, <4>2, FromBitsLemma
    <3>3. CASE op = "or"
      <4> DEFINE set == {k \in Positions : Bit(l, k) \/ Bit(w, k)}
      <4>1. res = FromBits(set)
        BY <3>3 DEF res, Combined
      <4>2. \A k \in Positions : k \in set <=> Both(k)
        BY <3>1, <3>3
      <4> HIDE DEF set, Both
      <4>3. QED
        BY <4>1, <4>2, FromBitsLemma
    <3>4. CASE op = "xor"
      <4> DEFINE set == {k \in Positions : Bit(l, k) # Bit(w, k)}
      <4>1. res = FromBits(set)
        BY <3>4 DEF res, Combined
      <4>2. \A k \in Positions : k \in set <=> Both(k)
        <5>1. \A k \in Positions : (Bit(l, k) # Bit(w, k)) <=> (BitSet(l, k) # BitSet(w, k))
          BY <3>1 DEF Bit, BitSet
        <5>2. QED
          BY <5>1, <3>4
      <4> HIDE DEF set, Both
      <4>3. QED
        BY <4>1, <4>2, FromBitsLemma
    <3>5. QED
      BY <1>1, <3>2, <3>3, <3>4
  <2>10. n \in 0 .. A!Limit(s) - 1 /\ n \in Int /\ Same(Span(s), res, n)
    <3>1. n \in 0 .. Span(s) - 1 /\ n \in Int
      BY <2>5, <2>9, DivisionLemma
    <3>2. Same(Span(s), res, n)
      BY <2>5, <2>9, RemainderLemma
    <3>3. QED
      BY <2>5, <3>1, <3>2
  <2>11. \A k \in 0 .. A!Bits(s) - 1 : Means(A!Digit(l, k, 1), A!Digit(r, k, 1), A!Digit(n, k, 1))
    <3>1. A!Bits(s) = Bits(s)
      BY DEF A!Bits, Bits
    <3> SUFFICES ASSUME NEW k \in 0 .. Bits(s) - 1
                 PROVE  Means(A!Digit(l, k, 1), A!Digit(r, k, 1), A!Digit(n, k, 1))
      BY <3>1
    <3>2. /\ k \in Positions /\ k \in Nat
          /\ BitSet(n, k) <=> BitSet(res, k)
          /\ BitSet(r, k) <=> BitSet(w, k)
      BY <1>2, <2>6, <2>7, <2>9, SizedBitsLemma
    <3>3. BitSet(n, k) <=> Both(k)
      BY <2>9, <3>2
    <3> DEFINE x == A!Digit(l, k, 1)
               y == A!Digit(r, k, 1)
               z == A!Digit(n, k, 1)
    <3>4. /\ x \in {0, 1} /\ (x = 1 <=> BitSet(l, k))
          /\ y \in {0, 1} /\ (y = 1 <=> BitSet(w, k))
          /\ z \in {0, 1} /\ (z = 1 <=> Both(k))
      <4>1. l \in Int
        BY <2>6
      <4> HIDE DEF n, Both
      <4>2. QED
        BY <2>8, <2>10, <3>2, <3>3, <4>1, BitLemma
    <3> HIDE DEF x, y, z
    <3>5. CASE op = "and"
      <4>1. z = 1 <=> x = 1 /\ y = 1
        BY <3>4, <3>5
      <4>2. z = x * y
        BY <3>4, <4>1
      <4>3. QED
        BY <3>5, <4>2 DEF x, y, z
    <3>6. CASE op = "or"
      <4>1. z = 1 <=> x = 1 \/ y = 1
        BY <3>4, <3>6
      <4>2. z = x + y - x * y
        BY <3>4, <4>1
      <4>3. QED
        BY <3>6, <4>2 DEF x, y, z
    <3>7. CASE op = "xor"
      <4>1. z = 1 <=> (x = 1 <=> y # 1)
        BY <3>4, <3>7 DEF BitSet
      <4>2. z = (x + y) % 2
        BY <3>4, <4>1
      <4>3. QED
        BY <3>7, <4>2 DEF x, y, z
    <3>8. QED
      BY <1>1, <3>5, <3>6, <3>7
  <2> HIDE DEF n
  <2>12. /\ TypeOK' /\ A!Result(instr.d, s, n) /\ A!Done
         /\ A!Flags([A!Reported(n, s) EXCEPT !.overflow = FALSE])
    <3>1. res \in Int
      BY <2>9
    <3>2. QED
      BY <1>2, <2>1, <2>10, <3>1, LogicStepLemma
  <2>13. A!Doing({"and", "or", "xor"})
    BY <1>1 DEF A!Doing, op
  <2>14. A!Logic
    <3> DEFINE Promise(m) ==
                 /\ \A k \in 0 .. A!Bits(s) - 1 :
                        Means(A!Digit(l, k, 1), A!Digit(r, k, 1), A!Digit(m, k, 1))
                 /\ A!Result(instr.d, s, m)
                 /\ A!Flags([A!Reported(m, s) EXCEPT !.overflow = FALSE])
                 /\ A!Done
    <3>1. \E m \in 0 .. A!Limit(s) - 1 : Promise(m)
      BY <2>10, <2>11, <2>12
    <3>2. QED
      BY <2>2, <2>4, <2>13, <3>1, Zenon DEF A!Logic, s, r, v, op
  <2>15. QED
    BY <2>12, <2>14
<1>6. QED
  BY <1>4, <1>5

\* A step that shifts: the carry is the last digit shifted out.
LEMMA ShiftStepLemma ==
    ASSUME TypeOK, NEW s \in Sizes, NEW d \in Regs \cup {"null"}, NEW v \in Int, NEW n \in Int,
           Same(Span(s), v, n), Write(d, s, v), Retire,
           NEW carry \in BOOLEAN, NEW digit, A!Amount(s) # 0 => (carry <=> digit = 1),
           SetFlags(ShiftFlags(v, s, A!Amount(s), carry))
    PROVE  TypeOK' /\ A!Result(d, s, n) /\ A!Done /\ A!Flags(A!ShiftFlags(n, s, digit))
<1>1. A!Result(d, s, n) /\ A!Done /\ regs' \in [Regs -> Word]
  BY StepLemma
<1> DEFINE f == [A!Reported(n, s) EXCEPT !.overflow = FALSE]
           c == IF A!Amount(s) = 0 THEN f.carry ELSE carry
           e == IF A!Amount(s) = 0 THEN f.carry ELSE digit = 1
           g == [f EXCEPT !.carry = c]
<1>2. LogicFlags(v, s) = f
  BY ReportedLemma DEF LogicFlags
<1>3. ShiftFlags(v, s, A!Amount(s), carry) = g
  BY <1>2 DEF ShiftFlags
<1>4. f \in FlagRecords
  BY ReportedTypeLemma
<1> HIDE DEF f
<1>5. c \in BOOLEAN /\ c = e
  BY <1>4 DEF FlagRecords
<1>6. g \in FlagRecords
  <2> HIDE DEF c
  <2>1. QED
    BY <1>4, <1>5, FlagExceptLemma
<1>7. A!ShiftFlags(n, s, digit) = [f EXCEPT !.carry = e]
  BY DEF A!ShiftFlags, f
<1>8. A!ShiftFlags(n, s, digit) = g
  <2> HIDE DEF c, e
  <2>1. QED
    BY <1>5, <1>7
<1> HIDE DEF g
<1>9. flags' \in FlagRecords /\ A!Flags(A!ShiftFlags(n, s, digit))
  BY <1>3, <1>6, <1>8, SetFlagsLemma
<1>10. QED
  BY <1>1, <1>9, TypeLemma

\* What the decoder yields for a shift.
LEMMA AmountLemma ==
    ASSUME TypeOK, instr.op \in {"shl", "shr", "rot"}
    PROVE  /\ regs \in [Regs -> Word] /\ instr.size \in Sizes /\ instr.d \in Regs \cup {"null"}
           /\ UnsignedWord(instr.b, instr.size) = A!Amount(instr.size)
           /\ A!Amount(instr.size) \in Nat
           /\ Unsigned(instr.a, instr.size) = A!Natural(regs[instr.a], instr.size)
           /\ Unsigned(instr.a, instr.size) \in 0 .. Span(instr.size) - 1
           /\ Signed(instr.a, instr.size) = A!Integer(regs[instr.a], instr.size)
<1>1. /\ IsInstr(instr) /\ regs \in [Regs -> Word] /\ instr.size \in Sizes
      /\ instr.d \in Regs \cup {"null"} /\ instr.a \in Regs
  BY OperandsLemma, Zenon
<1>2. IsReg(instr.b) \/ IsPlain(instr.b)
  BY <1>1 DEF IsInstr
<1> DEFINE s == instr.size
<1>3. /\ Unsigned(instr.a, s) = A!Natural(regs[instr.a], s)
      /\ Unsigned(instr.a, s) \in 0 .. Span(s) - 1
      /\ Signed(instr.a, s) = A!Integer(regs[instr.a], s)
  BY <1>1, ValueLemma
<1>4. UnsignedWord(instr.b, s) = A!Amount(s) /\ A!Amount(s) \in Nat
  <2>1. CASE IsReg(instr.b)
    <3>1. instr.b.kind = "reg" /\ instr.b.reg \in Regs
      BY <2>1 DEF IsReg
    <3>2. /\ Unsigned(instr.b.reg, s) = A!Natural(regs[instr.b.reg], s)
          /\ Unsigned(instr.b.reg, s) \in 0 .. Span(s) - 1
      BY <1>1, <3>1, ValueLemma
    <3>3. Unsigned(instr.b.reg, s) \in Nat
      <4>1. Span(s) \in Nat
        BY <1>1, SpanLemma
      <4>2. QED
        BY <3>2, <4>1
    <3>4. QED
      BY <3>1, <3>2, <3>3 DEF UnsignedWord, A!Amount
  <2>2. CASE IsPlain(instr.b)
    BY <2>2 DEF IsPlain, UnsignedWord, A!Amount
  <2>3. QED
    BY <1>2, <2>1, <2>2
<1>5. QED
  BY <1>1, <1>3, <1>4

\* shl multiplies by a power of two.
THEOREM ShlExact ==
    ASSUME TypeOK, Shl
    PROVE  TypeOK' /\ A!Shl
<1> DEFINE s == instr.size
           l == Unsigned(instr.a, s)
           m == A!Amount(s)
           B == Bits(s)
           M == Span(s)
           by == A!Smaller(m, B)
           n == l * 2 ^ by
           res == IF m >= B THEN 0 ELSE Wrap(l * 2 ^ m)
           carry == LeftCarry(l, s, m)
           digit == (n \div M) % 2
<1>1. status = "running" /\ instr.op = "shl"
  BY DEF Shl, Decoded
<1>2. /\ s \in Sizes /\ instr.d \in Regs \cup {"null"}
      /\ UnsignedWord(instr.b, s) = m /\ m \in Nat
      /\ l = A!Natural(regs[instr.a], s) /\ l \in 0 .. M - 1
  BY <1>1, AmountLemma
<1>3. /\ Write(instr.d, s, res) /\ SetFlags(ShiftFlags(res, s, m, carry)) /\ Retire
  BY <1>2 DEF Shl
<1>4. /\ B \in Nat /\ B >= 1 /\ M \in Nat /\ M > 0 /\ M = 2 ^ B
  BY <1>2, BitsLemma, SpanLemma DEF Span
<1>5. l \in Nat
  BY <1>2, <1>4
<1> HIDE DEF s, l, m, B, M
<1>6. ASSUME m >= B
      PROVE  n \in Int /\ res \in Int /\ Same(M, res, n) /\ (carry <=> digit = 1)
  <2>1. by = B /\ res = 0 /\ n = l * M
    BY <1>2, <1>4, <1>6 DEF A!Smaller
  <2>2. n = M * l + 0 /\ n \in Int
    BY <1>4, <1>5, <2>1
  <2>3. n \div M = l
    BY <1>4, <1>5, <2>2, UniqueLemma
  <2>4. Same(M, res, n)
    <3>1. -l \in Int /\ M * (-l) = -(M * l) /\ M * l \in Int
      BY <1>4, <1>5
    <3> HIDE DEF n, res
    <3>2. res = n + M * (-l)
      BY <1>4, <1>5, <2>1, <2>2, <3>1
    <3>3. QED
      BY <3>1, <3>2 DEF Same
  <2>5. carry <=> digit = 1
    <3>1. carry = Bit(l, 0)
      BY <1>6 DEF LeftCarry, B
    <3>2. Bit(l, 0) <=> BitSet(l, 0)
      BY <1>5, BitLemma
    <3>3. l \div 2 ^ 0 = l
      BY <1>5
    <3>4. QED
      BY <2>3, <3>1, <3>2, <3>3 DEF BitSet
  <2>6. res \in Int
    BY <2>1
  <2>7. QED
    BY <2>2, <2>4, <2>5, <2>6
<1>7. ASSUME m < B
      PROVE  n \in Int /\ res \in Int /\ Same(M, res, n) /\ (carry <=> digit = 1)
  <2>1. by = m /\ n = l * 2 ^ m /\ res = Wrap(n)
    BY <1>2, <1>4, <1>7 DEF A!Smaller
  <2>2. n \in Int
    <3>1. 2 ^ m \in Nat
      BY <1>2, PowerPositive
    <3>2. QED
      BY <1>5, <2>1, <3>1
  <2>3. res \in Int /\ Same(M, res, n)
    <3> HIDE DEF n
    <3>1. QED
      BY <1>2, <2>1, <2>2, WrappedLemma DEF M
  <2>4. carry <=> digit = 1
    <3>1. B - m \in Nat /\ m <= B /\ ~(m >= B)
      BY <1>2, <1>4, <1>7
    <3>2. carry = Bit(l, B - m)
      BY <3>1 DEF LeftCarry, B
    <3>3. Bit(l, B - m) <=> BitSet(l, B - m)
      BY <1>5, <3>1, BitLemma
    <3>4. /\ M = 2 ^ m * 2 ^ (B - m) /\ 2 ^ m \in Nat /\ 2 ^ m > 0
          /\ 2 ^ (B - m) \in Nat /\ 2 ^ (B - m) > 0
      BY <1>2, <1>4, <3>1, PowerGreater, PowerPositive
    <3>5. n \div M = l \div 2 ^ (B - m)
      <4> DEFINE P == 2 ^ m
                 Q == 2 ^ (B - m)
      <4>1. P \in Nat /\ P > 0 /\ Q \in Nat /\ Q > 0 /\ M = P * Q /\ n = l * P
        BY <2>1, <3>4
      <4> HIDE DEF P, Q, n
      <4>2. (l * P) \div (P * Q) = l \div Q
        BY <1>5, <4>1, DivideMultipleLemma
      <4>3. QED
        BY <4>1, <4>2 DEF Q
    <3>6. QED
      BY <3>2, <3>3, <3>5 DEF BitSet
  <2>5. QED
    BY <2>2, <2>3, <2>4
<1>8. n \in Int /\ res \in Int /\ Same(Span(s), res, n) /\ (carry <=> digit = 1)
  <2>1. m >= B \/ m < B
    BY <1>2, <1>4
  <2> HIDE DEF n, res, carry, digit
  <2>2. QED
    BY <1>6, <1>7, <2>1 DEF M
<1>9. carry \in BOOLEAN
  BY DEF LeftCarry, Bit
<1>10. TypeOK' /\ A!Result(instr.d, s, n) /\ A!Done /\ A!Flags(A!ShiftFlags(n, s, digit))
  <2>1. SetFlags(ShiftFlags(res, s, A!Amount(s), carry)) /\ Write(instr.d, s, res) /\ Retire
    BY <1>3 DEF m
  <2> HIDE DEF n, res, carry, digit
  <2>2. QED
    BY <1>2, <1>8, <1>9, <2>1, ShiftStepLemma
<1>11. A!Shl
  <2>1. A!Limit(s) = M /\ A!Bits(s) = B
    BY DEF A!Limit, A!Bits, M, B, Span, Bits
  <2>2. A!Doing({"shl"})
    BY <1>1 DEF A!Doing
  <2>3. QED
    BY <1>2, <1>10, <2>1, <2>2, Zenon DEF A!Shl, s, m
<1>12. QED
  BY <1>10, <1>11

\* shr divides by one, rounding down.
THEOREM ShrExact ==
    ASSUME TypeOK, Shr
    PROVE  TypeOK' /\ A!Shr
<1> DEFINE s == instr.size
           l == Unsigned(instr.a, s)
           i == A!Integer(regs[instr.a], s)
           m == A!Amount(s)
           B == Bits(s)
           M == Span(s)
           H == Half(s)
           signed == instr.signed
           by == A!Smaller(m, B)
           x == IF signed /\ (s = WordSize \/ by = B) THEN i ELSE l
           n == x \div 2 ^ by
           res == ShiftRight(l, s, m, signed)
           carry == RightCarry(l, s, m)
           digit == IF by = 0 THEN 0 ELSE A!Digit(l, by - 1, 1)
<1>1. status = "running" /\ instr.op = "shr"
  BY DEF Shr, Decoded
<1>2. /\ s \in Sizes /\ instr.d \in Regs \cup {"null"}
      /\ UnsignedWord(instr.b, s) = m /\ m \in Nat
      /\ l = A!Natural(regs[instr.a], s) /\ l \in 0 .. M - 1
  BY <1>1, AmountLemma
<1>3. /\ Write(instr.d, s, res) /\ SetFlags(ShiftFlags(res, s, m, carry)) /\ Retire
  BY <1>2 DEF Shr
<1>4. /\ B \in Nat /\ B >= 1 /\ M \in Nat /\ M > 0 /\ M = 2 ^ B
      /\ H \in Nat /\ H > 0 /\ M = H + H /\ AddrSpace \in Nat /\ AddrSpace > 0
  BY <1>2, BitsLemma, SpanLemma DEF Span
<1>5. l \in Nat /\ l < M
  BY <1>2, <1>4
<1>6. (Msb(l, s) <=> l >= H) /\ i = ToInteger(l, H)
  <2>1. l % M = l
    BY <1>4, <1>5, OnceLemma
  <2>2. regs[instr.a] \in Int
    BY <1>1, OperandsLemma
  <2>3. i = ToInteger(regs[instr.a] % M, H) /\ A!Natural(regs[instr.a], s) = regs[instr.a] % M
    BY <1>2, <2>2, VocabularyLemma
  <2>4. Msb(l, s) <=> l % M >= H
    BY <1>2, <1>5, MsbLemma
  <2>5. QED
    BY <1>2, <2>1, <2>3, <2>4
<1>7. i = (IF l >= H THEN l - M ELSE l) /\ i \in Int
  BY <1>4, <1>5, <1>6 DEF ToInteger
<1>8. /\ s = WordSize => AddrSpace = M /\ (Bit(l, WordBits - 1) <=> l >= H)
      /\ s # WordSize => ~Bit(l, WordBits - 1)
  <2>1. ASSUME s = WordSize
        PROVE  AddrSpace = M /\ (Bit(l, WordBits - 1) <=> l >= H)
    BY <1>6, <2>1, SizesAssumption DEF Msb, WordBits, M
  <2>2. ASSUME s # WordSize
        PROVE  ~Bit(l, WordBits - 1)
    <3>1. WordBits \in Nat /\ WordBits - 1 \in Nat /\ B < WordBits /\ (WordBits - 1) + 1 = WordBits
      BY <1>2, <2>2, BitsLemma DEF B
    <3>2. B <= WordBits - 1
      BY <1>4, <3>1
    <3> DEFINE p == 2 ^ (WordBits - 1)
               q == 2 ^ WordBits
    <3>3. M <= p /\ p \in Nat /\ p > 0 /\ q = p + p
      BY <1>4, <3>1, <3>2, PowerGreater, PowerNext, PowerPositive
    <3> HIDE DEF p, q
    <3>4. l % q = l /\ l < p
      BY <1>4, <1>5, <3>3, OnceLemma
    <3>5. ~(l % q >= p)
      BY <1>4, <1>5, <3>3, <3>4
    <3>6. Bit(l, WordBits - 1) <=> l % q >= p
      BY <3>1 DEF Bit, p, q
    <3>7. QED
      BY <3>5, <3>6
  <2>3. QED
    BY <2>1, <2>2
<1>9. signed \in BOOLEAN
  <2>1. IsInstr(instr)
    BY <1>1, OperandsLemma, Zenon
  <2>2. QED
    BY <1>1, <2>1 DEF IsInstr
<1> HIDE DEF s, l, i, m, B, M, H, signed
<1>10. ASSUME m >= B
       PROVE  n \in Int /\ res \in Int /\ Same(M, res, n)
  <2>1. by = B
    BY <1>2, <1>4, <1>10 DEF A!Smaller
  <2>2. n = x \div M /\ x = IF signed THEN i ELSE l
    BY <1>4, <2>1
  <2>3. res = IF signed /\ Msb(l, s) THEN AddrSpace - 1 ELSE 0
    BY <1>10 DEF ShiftRight, B
  <2>4. CASE signed /\ l >= H
    <3>1. x = M * (-1) + l /\ x = l - M /\ res = AddrSpace - 1
      BY <1>4, <1>5, <1>6, <1>7, <2>2, <2>3, <2>4
    <3>2. n = -1
      BY <1>4, <1>5, <2>2, <3>1, UniqueLemma
    <3>3. PICK k \in Int : AddrSpace = M * k
      BY <1>2, SpanLemma DEF M
    <3>4. res = n + M * k /\ res \in Int /\ n \in Int
      BY <1>4, <3>1, <3>2, <3>3
    <3>5. QED
      BY <3>4 DEF Same
  <2>5. CASE ~(signed /\ l >= H)
    <3>1. x = M * 0 + l /\ x = l /\ res = 0
      BY <1>4, <1>5, <1>6, <1>7, <2>2, <2>3, <2>5
    <3>2. n = 0
      BY <1>4, <1>5, <2>2, <3>1, UniqueLemma
    <3>3. res = n + M * 0 /\ res \in Int /\ n \in Int /\ 0 \in Int
      BY <1>4, <3>1, <3>2
    <3>4. QED
      BY <3>3 DEF Same
  <2>6. QED
    BY <2>4, <2>5
<1>11. ASSUME m < B
       PROVE  n \in Int /\ res \in Int /\ Same(M, res, n)
  <2> DEFINE p == 2 ^ m
  <2>1. by = m /\ by # B
    BY <1>2, <1>4, <1>11 DEF A!Smaller
  <2>2. n = x \div p /\ x = IF signed /\ s = WordSize THEN i ELSE l
    BY <2>1
  <2>3. res = IF signed /\ Bit(l, WordBits - 1) THEN Wrap((l - AddrSpace) \div p) ELSE l \div p
    <3>1. ~(m >= B)
      BY <1>2, <1>4, <1>11
    <3>2. QED
      BY <3>1 DEF ShiftRight, B
  <2>4. p \in Nat /\ p > 0
    BY <1>2, PowerPositive
  <2> HIDE DEF p
  <2>5. x \in Int /\ n \in Int
    <3>1. x \in Int
      BY <1>5, <1>7
    <3> HIDE DEF x
    <3>2. QED
      BY <2>2, <2>4, <3>1, DivisionLemma
  <2>6. CASE signed /\ s = WordSize /\ l >= H
    <3>1. x = l - AddrSpace /\ res = Wrap(n)
      BY <1>4, <1>5, <1>7, <1>8, <2>2, <2>3, <2>6
    <3> HIDE DEF n, res, x
    <3>2. QED
      BY <1>2, <2>5, <3>1, WrappedLemma DEF M
  <2>7. CASE ~(signed /\ s = WordSize /\ l >= H)
    <3>1. x = l
      BY <1>7, <2>2, <2>7
    <3>2. ~(signed /\ Bit(l, WordBits - 1))
      BY <1>8, <2>7
    <3>3. res = n
      BY <2>2, <2>3, <3>1, <3>2
    <3> HIDE DEF n, res, x
    <3>4. Same(M, n, n)
      BY <1>4, <2>5, RemainderLemma
    <3>5. QED
      BY <2>5, <3>3, <3>4
  <2>8. QED
    BY <2>6, <2>7
<1>12. n \in Int /\ res \in Int /\ Same(Span(s), res, n)
  <2>1. m >= B \/ m < B
    BY <1>2, <1>4
  <2> HIDE DEF n, res
  <2>2. QED
    BY <1>10, <1>11, <2>1 DEF M
<1>13. m # 0 => (carry <=> digit = 1)
  <2> SUFFICES ASSUME m # 0 PROVE carry <=> digit = 1
    OBVIOUS
  <2>1. by \in Nat /\ by > 0 /\ by - 1 \in Nat /\ by # 0
    BY <1>2, <1>4 DEF A!Smaller
  <2>2. by = IF m >= B THEN B ELSE m
    BY <1>2, <1>4 DEF A!Smaller
  <2>3. carry <=> Bit(l, by - 1)
    BY <2>2 DEF RightCarry, B
  <2>4. digit = A!Digit(l, by - 1, 1)
    BY <2>1
  <2> HIDE DEF by, carry, digit
  <2>5. QED
    BY <1>5, <2>1, <2>3, <2>4, BitLemma
<1>14. carry \in BOOLEAN
  BY DEF RightCarry, Bit
<1>15. TypeOK' /\ A!Result(instr.d, s, n) /\ A!Done /\ A!Flags(A!ShiftFlags(n, s, digit))
  <2>1. /\ SetFlags(ShiftFlags(res, s, A!Amount(s), carry)) /\ Write(instr.d, s, res) /\ Retire
        /\ A!Amount(s) # 0 => (carry <=> digit = 1)
    BY <1>3, <1>13 DEF m
  <2> HIDE DEF n, res, carry, digit
  <2>2. QED
    BY <1>2, <1>12, <1>14, <2>1, ShiftStepLemma
<1>16. A!Shr
  <2>1. A!Bits(s) = B
    BY DEF A!Bits, B, Bits
  <2>2. A!Doing({"shr"})
    BY <1>1 DEF A!Doing
  <2>3. QED
    BY <1>2, <1>15, <2>1, <2>2, Zenon DEF A!Shr, s, m, i, signed
<1>17. QED
  BY <1>15, <1>16

\* A step that leaves a value and reports its sign only.
LEMMA SignStepLemma ==
    ASSUME TypeOK, NEW s \in Sizes, NEW d \in Regs \cup {"null"}, NEW v \in Int, NEW n \in Int,
           Same(Span(s), v, n), Write(d, s, v), Retire, SetFlags([flags EXCEPT !.sign = Msb(v, s)])
    PROVE  /\ TypeOK' /\ A!Result(d, s, n) /\ A!Done
           /\ A!Flags([flags EXCEPT !.sign = A!Negative(n, s)])
<1>1. A!Result(d, s, n) /\ A!Done /\ regs' \in [Regs -> Word]
  BY StepLemma
<1>2. [flags EXCEPT !.sign = Msb(v, s)] = [flags EXCEPT !.sign = A!Negative(n, s)]
  BY ReportedLemma
<1>3. flags' \in FlagRecords /\ A!Flags([flags EXCEPT !.sign = A!Negative(n, s)])
  BY <1>2, ReportedTypeLemma, SetFlagsLemma
<1>4. QED
  BY <1>1, <1>3, TypeLemma

\* rot moves the low digits above the high ones, which a multiplication undoes.
LEMMA RotationLemma ==
    ASSUME NEW P \in Nat, P > 0, NEW Q \in Nat, Q > 0, NEW M, M = P * Q, M > 1,
           NEW l \in Nat, l < M, NEW n, n = (l \div P) + (l % P) * Q
    PROVE  n \in 0 .. M - 1 /\ (n * P - l) % (M - 1) = 0 /\ (n = 0 <=> l = 0)
<1> DEFINE q == l \div P
           t == l % P
<1>1. q \in 0 .. Q - 1 /\ t \in 0 .. P - 1 /\ l = P * q + t
  BY QuotientBelowLemma, DivisionLemma
<1>2. n = q + t * Q
  OBVIOUS
<1> HIDE DEF q, t
<1>3. q \in Nat /\ t \in Nat /\ t < P /\ M \in Nat
  BY <1>1
<1>4. Q * t + q < Q * P
  BY <1>1, <1>3, RowsLemma
<1>5. Q * t = t * Q /\ Q * P = M /\ t * Q \in Nat
  BY <1>3
<1>6. n \in 0 .. M - 1
  BY <1>2, <1>3, <1>4, <1>5
<1>7. n * P - l = (M - 1) * t
  <2>1. (q + t * Q) * P = P * q + t * M
    <3>1. (q + t * Q) * P = P * q + t * (P * Q)
      BY <1>3
    <3>2. QED
      BY <3>1
  <2>2. (M - 1) * t = t * M - t
    BY <1>3
  <2> DEFINE x == P * q
             y == t * M
             z == n * P
  <2>3. z = x + y /\ l = x + t /\ x \in Int /\ y \in Int /\ (M - 1) * t = y - t
    BY <1>1, <1>2, <1>3, <2>1, <2>2
  <2> HIDE DEF x, y, z
  <2>4. z - l = (M - 1) * t
    BY <1>3, <2>3
  <2>5. QED
    BY <2>4 DEF z
<1>8. ((M - 1) * t + 0) % (M - 1) = 0
  <2>1. M - 1 \in Nat /\ M - 1 > 0 /\ 0 \in 0 .. (M - 1) - 1
    BY <1>3
  <2>2. QED
    BY <1>3, <2>1, UniqueLemma
<1>9. (n * P - l) % (M - 1) = 0
  <2>1. (M - 1) * t + 0 = (M - 1) * t
    BY <1>3
  <2>2. QED
    BY <1>7, <1>8, <2>1
<1>10. n = 0 <=> q = 0 /\ t = 0
  <2>1. t = 0 => t * Q = 0
    OBVIOUS
  <2>2. t > 0 => t * Q > 0
    BY <1>3
  <2>3. QED
    BY <1>2, <1>3, <1>5, <2>1, <2>2
<1>11. l = 0 <=> q = 0 /\ t = 0
  <2>1. q = 0 => P * q = 0
    OBVIOUS
  <2>2. q > 0 => P * q > 0
    BY <1>3
  <2>3. P * q \in Nat
    BY <1>3
  <2>4. QED
    BY <1>1, <1>3, <2>1, <2>2, <2>3
<1>12. QED
  BY <1>6, <1>9, <1>10, <1>11

\* rot moves the bits that fall out below to the top.
THEOREM RotExact ==
    ASSUME TypeOK, Rot
    PROVE  TypeOK' /\ A!Rot
<1> DEFINE s == instr.size
           l == Unsigned(instr.a, s)
           m == A!Amount(s)
           B == Bits(s)
           M == Span(s)
           k == m % B
           n == (l \div 2 ^ k) + (l % 2 ^ k) * 2 ^ (B - k)
<1>1. status = "running" /\ instr.op = "rot"
  BY DEF Rot, Decoded
<1>2. /\ s \in Sizes /\ instr.d \in Regs \cup {"null"}
      /\ UnsignedWord(instr.b, s) = m /\ m \in Nat
      /\ l = A!Natural(regs[instr.a], s) /\ l \in 0 .. M - 1
  BY <1>1, AmountLemma
<1>3. Write(instr.d, s, n) /\ SetFlags([flags EXCEPT !.sign = Msb(n, s)]) /\ Retire
  BY <1>2 DEF Rot
<1>4. /\ B \in Nat /\ B >= 1 /\ M \in Nat /\ M > 1 /\ M = 2 ^ B
  <2>1. B \in Nat /\ B >= 1 /\ M = 2 ^ B
    BY <1>2, BitsLemma DEF Span
  <2>2. M \in Nat /\ Half(s) \in Nat /\ Half(s) > 0 /\ M = Half(s) + Half(s)
    BY <1>2, SpanLemma
  <2>3. M > 1
    <3> HIDE DEF M
    <3>1. QED
      BY <2>2
  <2>4. QED
    BY <2>1, <2>2, <2>3
<1> HIDE DEF s, l, m, B, M
<1>5. k \in Nat /\ k < B /\ B - k \in Nat
  <2>1. k \in 0 .. B - 1
    BY <1>2, <1>4, DivisionLemma
  <2>2. QED
    BY <1>4, <2>1
<1> HIDE DEF k
<1>6. n \in 0 .. M - 1 /\ (n * 2 ^ k - l) % (M - 1) = 0 /\ (n = 0 <=> l = 0)
  <2> DEFINE P == 2 ^ k
             Q == 2 ^ (B - k)
  <2>1. P \in Nat /\ P > 0 /\ Q \in Nat /\ Q > 0 /\ M = P * Q
    BY <1>4, <1>5, PowerGreater, PowerPositive
  <2>2. l \in Nat /\ l < M /\ n = (l \div P) + (l % P) * Q
    BY <1>2, <1>4
  <2> HIDE DEF P, Q, n
  <2>3. n \in 0 .. M - 1 /\ (n * P - l) % (M - 1) = 0 /\ (n = 0 <=> l = 0)
    BY <1>4, <2>1, <2>2, RotationLemma
  <2>4. QED
    BY <2>3 DEF P
<1> HIDE DEF n
<1>7. n \in Int /\ Same(M, n, n)
  <2>1. n \in Int
    BY <1>4, <1>6
  <2>2. QED
    BY <1>4, <2>1, RemainderLemma
<1>8. /\ TypeOK' /\ A!Result(instr.d, s, n) /\ A!Done
      /\ A!Flags([flags EXCEPT !.sign = A!Negative(n, s)])
  BY <1>2, <1>3, <1>7, SignStepLemma DEF M
<1>9. A!Rot
  <2>1. A!Limit(s) = M /\ A!Bits(s) = B
    BY DEF A!Limit, A!Bits, M, B, Span, Bits
  <2>2. A!Doing({"rot"})
    BY <1>1 DEF A!Doing
  <2> DEFINE Promise(r) == /\ (r * 2 ^ k - l) % (M - 1) = 0
                           /\ r = 0 <=> l = 0
                           /\ A!Result(instr.d, s, r)
                           /\ A!Flags([flags EXCEPT !.sign = A!Negative(r, s)])
                           /\ A!Done
  <2>3. \E r \in 0 .. M - 1 : Promise(r)
    BY <1>6, <1>8
  <2>4. QED
    BY <1>2, <2>1, <2>2, <2>3, Zenon DEF A!Rot, s, m, k
<1>10. QED
  BY <1>8, <1>9

\* bswap reverses the bytes.
THEOREM BswapExact ==
    ASSUME TypeOK, Bswap
    PROVE  TypeOK' /\ A!Bswap
<1> DEFINE s == instr.size
           u == regs[instr.a]
           l == Unsigned(instr.a, s)
           B == Bits(s)
           M == Span(s)
           w == ByteBits
           Origin(i) == (s - 1 - (i \div w)) * w + (i % w)
           set == {i \in 0 .. B - 1 : Bit(l, Origin(i))}
           res == FromBits(set)
           n == res % M
<1>1. status = "running" /\ instr.op = "bswap"
  BY DEF Bswap, Decoded
<1>2. /\ regs \in [Regs -> Word] /\ s \in Sizes /\ instr.d \in Regs \cup {"null"}
      /\ instr.a \in Regs /\ u \in Word /\ u \in Int
  BY <1>1, OperandsLemma, Zenon
<1>3. Write(instr.d, s, res) /\ SetFlags([flags EXCEPT !.sign = Msb(res, s)]) /\ Retire
  BY DEF Bswap
<1>4. /\ B \in Nat /\ M \in Nat /\ M > 0 /\ s \in Nat /\ s > 0 /\ w \in Nat /\ w > 0
      /\ B = w * s
  BY <1>2, BitsLemma, SpanLemma DEF Bits
<1>5. u \in Nat /\ l = u % M /\ l \in Nat
  <2>1. u \in Nat
    BY <1>2, AddrSpaceAssumption DEF Word
  <2>2. l = u % M
    BY DEF Unsigned
  <2> HIDE DEF u, M
  <2>3. u % M \in 0 .. M - 1
    BY <1>4, <2>1, DivisionLemma
  <2>4. QED
    BY <1>4, <2>1, <2>2, <2>3
<1>6. res \in Nat /\ res \in Int /\ \A i \in Positions : BitSet(res, i) <=> i \in set
  <2> HIDE DEF set
  <2>1. QED
    BY FromBitsLemma
<1> HIDE DEF res
<1>7. n \in 0 .. M - 1 /\ n \in Nat /\ n \in Int /\ Same(M, res, n)
  <2> HIDE DEF M
  <2>1. n \in 0 .. M - 1 /\ Same(M, res, n)
    BY <1>4, <1>6, DivisionLemma, RemainderLemma
  <2>2. QED
    BY <1>4, <2>1
<1>8. ASSUME NEW k \in 0 .. s - 1
      PROVE  A!Digit(n, k, w) = A!Digit(u, s - 1 - k, w)
  <2> DEFINE h == s - 1 - k
             e == k * w
             g == h * w
  <2>1. k \in Nat /\ h \in Nat /\ k < s /\ h < s
    BY <1>4
  <2>2. e \in Nat /\ g \in Nat /\ e = w * k /\ g = w * h
    <3> HIDE DEF h, w
    <3>1. QED
      BY <1>4, <2>1
  <2>3. ASSUME NEW j \in 0 .. w - 1
        PROVE  BitSet(n, e + j) <=> BitSet(u, g + j)
    <3>1. e + j \in 0 .. B - 1 /\ g + j \in 0 .. B - 1 /\ e + j \in Nat /\ g + j \in Nat
      <4> HIDE DEF w, h, B
      <4>1. w * k + j < w * s /\ w * h + j < w * s
        BY <1>4, <2>1, RowsLemma
      <4> HIDE DEF e, g
      <4> DEFINE x == w * s
      <4>2. e + j < B /\ g + j < B
        BY <1>4, <2>2, <4>1
      <4>3. QED
        BY <1>4, <2>2, <4>2
    <3>2. (e + j) \div w = k /\ (e + j) % w = j
      <4> HIDE DEF w
      <4>1. (w * k + j) \div w = k /\ (w * k + j) % w = j
        BY <1>4, <2>1, UniqueLemma
      <4>2. QED
        BY <2>2, <4>1
    <3>3. Origin(e + j) = g + j
      <4> HIDE DEF e, w
      <4>1. QED
        BY <3>2
    <3> HIDE DEF Origin, w, e, g, h
    <3>4. e + j \in Positions /\ (BitSet(n, e + j) <=> BitSet(res, e + j))
      BY <1>2, <1>6, <3>1, SizedBitsLemma
    <3>5. BitSet(res, e + j) <=> Bit(l, g + j)
      <4>1. e + j \in set <=> Bit(l, Origin(e + j))
        BY <3>1
      <4> HIDE DEF set
      <4>2. QED
        BY <1>6, <3>3, <3>4, <4>1
    <3>6. Bit(l, g + j) <=> BitSet(l, g + j)
      BY <1>5, <3>1, BitLemma
    <3>7. BitSet(l, g + j) <=> BitSet(u, g + j)
      BY <1>2, <1>5, <3>1, SizedBitsLemma
    <3>8. QED
      BY <3>4, <3>5, <3>6, <3>7
  <2> DEFINE x == A!Digit(n, k, w)
             y == A!Digit(u, h, w)
  <2>4. x = (n \div 2 ^ e) % 2 ^ w /\ y = (u \div 2 ^ g) % 2 ^ w
    BY DEF A!Digit
  <2> HIDE DEF x, y, e, g, h, w, n, u
  <2>5. x \in Nat /\ x < 2 ^ w /\ y \in Nat /\ y < 2 ^ w
    BY <1>4, <1>5, <1>7, <2>2, <2>4, DigitBits
  <2>6. \A j \in 0 .. w - 1 : BitSet(x, j) <=> BitSet(y, j)
    <3>1. \A j \in 0 .. w - 1 : BitSet(x, j) <=> BitSet(n, e + j)
      BY <1>4, <1>7, <2>2, <2>4, DigitBits
    <3>2. \A j \in 0 .. w - 1 : BitSet(y, j) <=> BitSet(u, g + j)
      BY <1>4, <1>5, <2>2, <2>4, DigitBits
    <3>3. QED
      BY <2>3, <3>1, <3>2
  <2>7. x = y
    BY <1>4, <2>5, <2>6, BitsDetermine
  <2>8. QED
    BY <2>7 DEF x, y, h
<1> HIDE DEF n, M
<1>9. /\ TypeOK' /\ A!Result(instr.d, s, n) /\ A!Done
      /\ A!Flags([flags EXCEPT !.sign = A!Negative(n, s)])
  BY <1>2, <1>3, <1>6, <1>7, SignStepLemma DEF M
<1>10. A!Bswap
  <2>1. A!Limit(s) = M
    BY DEF A!Limit, A!Bits, M, Span, Bits
  <2>2. A!Doing({"bswap"})
    BY <1>1 DEF A!Doing
  <2> DEFINE Promise(r) == /\ \A k \in 0 .. s - 1 : A!Digit(r, k, w) = A!Digit(u, s - 1 - k, w)
                           /\ A!Result(instr.d, s, r)
                           /\ A!Flags([flags EXCEPT !.sign = A!Negative(r, s)])
                           /\ A!Done
  <2>3. \E r \in 0 .. M - 1 : Promise(r)
    BY <1>7, <1>8, <1>9
  <2>4. QED
    BY <2>1, <2>2, <2>3, Zenon DEF A!Bswap
<1>11. QED
  BY <1>9, <1>10

\* The condition of a comparison orders naturals and integers.
Holds(cond, u, v, c, s) ==
    LET below == A!Natural(u, s) < A!Natural(v, s) + c
        equal == A!Zero(u - v - c, s)
        outside == ~A!InRange(A!Integer(u, s) - A!Integer(v, s) - c, s)
        negative == A!Negative(u - v - c, s)
        less == A!Integer(u, s) < A!Integer(v, s) + c
    IN  CASE cond = "c" -> below
          [] cond = "nc" -> ~below
          [] cond = "z" -> equal
          [] cond = "nz" -> ~equal
          [] cond = "o" -> outside
          [] cond = "no" -> ~outside
          [] cond = "s" -> negative
          [] cond = "ns" -> ~negative
          [] cond = "l" -> less
          [] cond = "nl" -> ~less

LEMMA TestLemma ==
    ASSUME NEW u, NEW v, NEW c, NEW s, NEW cond \in Conditions,
           (A!Negative(u - v - c, s) # ~A!InRange(A!Integer(u, s) - A!Integer(v, s) - c, s))
           <=> A!Integer(u, s) < A!Integer(v, s) + c
    PROVE  Test(cond, SubBits(u, v, c, s)) <=> Holds(cond, u, v, c, s)
<1> DEFINE f == SubBits(u, v, c, s)
           below == A!Natural(u, s) < A!Natural(v, s) + c
           equal == A!Zero(u - v - c, s)
           outside == ~A!InRange(A!Integer(u, s) - A!Integer(v, s) - c, s)
           negative == A!Negative(u - v - c, s)
           less == A!Integer(u, s) < A!Integer(v, s) + c
<1>1. (f.carry <=> below) /\ (f.zero <=> equal) /\ (f.overflow <=> outside) /\ (f.sign <=> negative)
  BY DEF SubBits
<1>2. (f.sign # f.overflow <=> less) /\ (f.sign = f.overflow <=> ~less)
  BY DEF SubBits, A!Negative, A!InRange
<1>3. cond \in {"c", "nc", "z", "nz", "o", "no", "s", "ns", "l", "nl"}
  BY DEF Conditions
<1>4. CASE cond = "c"
  BY <1>1, <1>2, <1>4 DEF Test, Holds
<1>5. CASE cond = "nc"
  BY <1>1, <1>2, <1>5 DEF Test, Holds
<1>6. CASE cond = "z"
  BY <1>1, <1>2, <1>6 DEF Test, Holds
<1>7. CASE cond = "nz"
  BY <1>1, <1>2, <1>7 DEF Test, Holds
<1>8. CASE cond = "o"
  BY <1>1, <1>2, <1>8 DEF Test, Holds
<1>9. CASE cond = "no"
  BY <1>1, <1>2, <1>9 DEF Test, Holds
<1>10. CASE cond = "s"
  BY <1>1, <1>2, <1>10 DEF Test, Holds
<1>11. CASE cond = "ns"
  BY <1>1, <1>2, <1>11 DEF Test, Holds
<1>12. CASE cond = "l"
  BY <1>1, <1>2, <1>12 DEF Test, Holds
<1>13. CASE cond = "nl"
  BY <1>1, <1>2, <1>13 DEF Test, Holds
<1>14. QED
  BY <1>3, <1>4, <1>5, <1>6, <1>7, <1>8, <1>9, <1>10, <1>11, <1>12, <1>13

\* soc compares registers as naturals or integers of its size.
THEOREM ComparisonExact ==
    ASSUME TypeOK, Soc
    PROVE  TypeOK' /\ A!Soc
<1> DEFINE s == instr.size
           c == CarryIn
           u == regs[instr.a]
           v == regs[instr.b.reg]
           l == Wrap(Signed(instr.a, s))
           r == SignedWord(instr.b, s)
           holds == Test(instr.cond, SubFlags(l, r, Difference(l, r, c), s))
           bit == IF holds THEN 1 ELSE 0
<1>1. /\ Decoded({"soc"}) /\ instr.op = "soc"
      /\ Write(instr.d, s, bit) /\ Retire /\ flags' = flags
  BY DEF Soc, Decoded
<1>2. /\ IsInstr(instr) /\ regs \in [Regs -> Word]
      /\ s \in Sizes /\ instr.d \in Regs \cup {"null"} /\ instr.a \in Regs
      /\ u \in Word /\ u \in Int /\ c \in {0, 1}
  BY <1>1, OperandsLemma, Zenon
<1>3. IsReg(instr.b) /\ instr.cond \in Conditions
  BY <1>1, <1>2 DEF IsInstr
<1>4. l = Wrap(SignedOf(u, s))
  BY DEF Signed, SignedOf, Unsigned
<1>5. l \in Word /\ Same(Span(s), l, u)
  BY <1>2, <1>4, SignedLemma
<1>6. v \in Int /\ r \in Word /\ Same(Span(s), r, v)
  <2>1. A!Second(instr.b) = v
    BY <1>3 DEF IsReg, A!Second
  <2>2. QED
    BY <1>2, <1>3, <2>1, SecondLemma
<1> HIDE DEF s, c, u, v, l, r
<1>7. /\ SubFlags(l, r, Difference(l, r, c), s) = SubBits(u, v, c, s)
      /\ (A!Negative(u - v - c, s) # ~A!InRange(A!Integer(u, s) - A!Integer(v, s) - c, s))
         <=> A!Integer(u, s) < A!Integer(v, s) + c
  BY <1>2, <1>5, <1>6, SubFlagsLemma
<1>8. A!Result(instr.d, s, bit) /\ A!Done /\ regs' \in [Regs -> Word]
  <2>1. bit \in Int
    OBVIOUS
  <2>2. Span(s) \in Nat /\ Span(s) > 0
    BY <1>2, SpanLemma
  <2> HIDE DEF bit
  <2>3. Same(Span(s), bit, bit)
    BY <2>1, <2>2, RemainderLemma
  <2>4. QED
    BY <1>1, <1>2, <2>1, <2>3, StepLemma
<1>9. TypeOK'
  <2>1. flags' \in FlagRecords
    BY <1>1 DEF TypeOK, FlagRecords
  <2>2. QED
    BY <1>1, <1>8, <2>1, TypeLemma
<1>10. v = regs[instr.b.reg] /\ A!CarryIn = c /\ A!Doing({"soc"})
  BY <1>1 DEF A!CarryIn, CarryIn, c, v, A!Doing, Decoded
<1>11. A!Soc
  <2>1. Test(instr.cond, SubBits(u, v, c, s)) <=> Holds(instr.cond, u, v, c, s)
    BY <1>3, <1>7, TestLemma
  <2>2. bit = IF Holds(instr.cond, u, v, c, s) THEN 1 ELSE 0
    BY <1>7, <2>1
  <2>3. A!Result(instr.d, s, IF Holds(instr.cond, u, v, c, s) THEN 1 ELSE 0)
    BY <1>8, <2>2
  <2>4. QED
    BY <1>1, <1>8, <1>10, <2>3, Zenon DEF A!Soc, Holds, s, u
<1>12. QED
  BY <1>9, <1>11

\* sof stores a truth value, and copy moves the value of its size.
THEOREM ConditionExact ==
    ASSUME TypeOK, Sof
    PROVE  TypeOK' /\ A!Sof
<1> DEFINE s == instr.size
           bit == IF Test(instr.cond, flags) THEN 1 ELSE 0
<1>1. /\ status = "running" /\ instr.op = "sof"
      /\ Write(instr.d, s, bit) /\ Retire /\ flags' = flags
  BY DEF Sof, Decoded
<1>2. s \in Sizes /\ instr.d \in Regs \cup {"null"} /\ instr.cond \in Conditions
  BY <1>1, InstrsAssumption DEF TypeOK, Idle, IsInstr
<1>3. bit \in {0, 1} /\ bit \in Int
  OBVIOUS
<1> HIDE DEF s, bit
<1>4. Same(Span(s), bit, bit)
  BY <1>2, <1>3, SpanLemma, RemainderLemma
<1>5. A!Result(instr.d, s, bit) /\ A!Done /\ regs' \in [Regs -> Word]
  BY <1>1, <1>2, <1>3, <1>4, StepLemma
<1>6. TypeOK'
  <2>1. flags' \in FlagRecords
    BY <1>1 DEF TypeOK, FlagRecords
  <2>2. QED
    BY <1>1, <1>5, <2>1, TypeLemma
<1>7. A!Sof
  <2>1. Test(instr.cond, flags) <=> instr.cond \in A!Shown
    BY <1>2 DEF Test, A!Shown, Conditions, TypeOK
  <2>2. A!Result(instr.d, s, IF instr.cond \in A!Shown THEN 1 ELSE 0)
    BY <1>5, <2>1 DEF bit
  <2>3. QED
    BY <1>1, <1>5, <2>2 DEF A!Sof, A!Doing, s
<1>8. QED
  BY <1>6, <1>7

\* copy moves the value of its size, whatever the registers are.
THEOREM CopyExact ==
    ASSUME TypeOK, Copy
    PROVE  TypeOK' /\ A!Copy
<1> DEFINE s == instr.size
           u == regs[instr.a]
           v == Unsigned(instr.a, s)
<1>1. /\ status = "running" /\ instr.op = "copy"
      /\ Write(instr.d, s, v) /\ Retire /\ flags' = flags
  BY DEF Copy, Decoded
<1>2. s \in Sizes /\ instr.d \in Regs \cup {"null"} /\ u \in Int
  BY <1>1, OperandsLemma, Zenon
<1>3. v \in Int /\ Same(Span(s), v, u)
  <2>1. v = u % Span(s) /\ Span(s) \in Nat /\ Span(s) > 0
    BY <1>2, SpanLemma DEF Unsigned
  <2> HIDE DEF u, v
  <2>2. v \in Int /\ Same(Span(s), u, v)
    BY <1>2, <2>1, RemainderLemma
  <2>3. QED
    BY <1>2, <2>1, <2>2, SameBackLemma
<1> HIDE DEF s, u, v
<1>4. A!Result(instr.d, s, u) /\ A!Done /\ regs' \in [Regs -> Word]
  BY <1>1, <1>2, <1>3, StepLemma
<1>5. TypeOK'
  <2>1. flags' \in FlagRecords
    BY <1>1 DEF TypeOK, FlagRecords
  <2>2. QED
    BY <1>1, <1>4, <2>1, TypeLemma
<1>6. A!Copy
  BY <1>1, <1>4 DEF A!Copy, A!Doing, s, u
<1>7. QED
  BY <1>5, <1>6

\* ldi replaces a field, and keeps or clears what is below and above it; the
\* part of the field that leaves the word is lost.
THEOREM LdiExact ==
    ASSUME TypeOK, Ldi
    PROVE  TypeOK' /\ A!Ldi
<1> DEFINE d == instr.d
           old == regs[d]
           F == 2 ^ instr.shift
           G == 2 ^ LoadBits
           K == 2 ^ (WordBits - instr.shift)
           above == 2 ^ (instr.shift + LoadBits)
           low == IF instr.clear \in {1, 3} THEN 0 ELSE old % F
           high == IF instr.clear \in {2, 3} THEN 0 ELSE old - (old % above)
           h == IF instr.clear \in {2, 3} THEN 0 ELSE old \div above
           w == Wrap(instr.imm * F)
           t == instr.imm % K
           new == low + w + high
<1>1. /\ status = "running" /\ instr.op = "ldi" /\ regs' = [regs EXCEPT ![d] = new]
      /\ Retire /\ flags' = flags
  BY DEF Ldi, Decoded
<1>2. IsInstr(instr) /\ regs \in [Regs -> Word]
  BY <1>1, InstrsAssumption DEF TypeOK, Idle
<1>3. /\ d \in Regs /\ instr.imm \in 0 .. G - 1 /\ instr.shift \in 0 .. WordBits - 1
  BY <1>1, <1>2 DEF IsInstr
<1>4. /\ WordSize \in Sizes /\ AddrSpace = 2 ^ WordBits /\ WordBits \in Nat /\ LoadBits \in Nat
      /\ AddrSpace \in Nat /\ AddrSpace > 0
  <2>1. WordSize \in Sizes /\ AddrSpace = 2 ^ WordBits /\ LoadBits \in Nat
    BY SizesAssumption DEF Span, WordBits
  <2>2. QED
    BY <2>1, BitsLemma, AddrSpaceAssumption
<1>5. /\ instr.shift \in Nat /\ instr.shift <= WordBits /\ instr.shift + LoadBits \in Nat
      /\ WordBits - instr.shift \in Nat
  BY <1>3, <1>4
<1>6. /\ F \in Nat /\ F > 0 /\ G \in Nat /\ G > 0 /\ K \in Nat /\ K > 0
      /\ above = F * G /\ AddrSpace = F * K /\ above \in Nat /\ above > 0
  BY <1>4, <1>5, PowerPositive, PowerSum, PowerGreater
<1>7. old \in Nat /\ old < AddrSpace /\ old \in Int
  <2>1. old \in Word
    BY <1>2, <1>3
  <2> HIDE DEF old
  <2>2. QED
    BY <1>4, <2>1 DEF Word
<1>8. AddrSpace <= above \/ \E R \in Nat : AddrSpace = above * R
  <2> DEFINE a == instr.shift + LoadBits
  <2>1. a \in Nat /\ above = 2 ^ a
    BY <1>5
  <2> HIDE DEF a, above
  <2>2. CASE WordBits <= a
    <3>1. 2 ^ WordBits <= 2 ^ a
      BY <1>4, <2>1, <2>2, PowerGreater
    <3>2. QED
      BY <1>4, <2>1, <3>1
  <2>3. CASE a <= WordBits
    <3>1. 2 ^ WordBits = 2 ^ a * 2 ^ (WordBits - a) /\ 2 ^ (WordBits - a) \in Nat
      BY <1>4, <2>1, <2>3, PowerGreater
    <3>2. QED
      BY <1>4, <2>1, <3>1
  <2>4. QED
    BY <1>4, <2>1, <2>2, <2>3
<1> HIDE DEF F, G, K, above, old, d
<1>9. low \in 0 .. F - 1
  <2>1. old % F \in 0 .. F - 1
    BY <1>6, <1>7, DivisionLemma
  <2>2. QED
    BY <1>6, <2>1
<1>10. w = F * t /\ t \in Nat /\ t < G /\ t < K
  <2> DEFINE i == instr.imm
  <2>1. i \in Nat /\ i < G /\ i * F = F * i
    BY <1>3, <1>6
  <2>2. (F * i) % (F * K) = F * (i % K) /\ i % K \in Nat /\ i % K < K /\ i % K <= i
    BY <1>6, <2>1, RemainderMultipleLemma
  <2>3. w = F * t
    BY <1>6, <2>1, <2>2 DEF Wrap
  <2>4. t \in Nat /\ t < G /\ t < K
    <3>1. t = i % K
      OBVIOUS
    <3> HIDE DEF t, i
    <3>2. QED
      BY <1>6, <2>1, <2>2, <3>1
  <2>5. QED
    BY <2>3, <2>4
<1>11. h \in Nat /\ high = above * h
  <2> DEFINE q == old \div above
             r == old % above
  <2>1. q \in Nat /\ r \in Int /\ old = above * q + r
    BY <1>6, <1>7, QuotientNatural, DivisionLemma
  <2>2. above * q \in Int /\ above * 0 = 0
    BY <1>6, <2>1
  <2>3. high = (IF instr.clear \in {2, 3} THEN 0 ELSE old - r) /\ h = IF instr.clear \in {2, 3} THEN 0 ELSE q
    OBVIOUS
  <2> HIDE DEF q, r, high, h
  <2> DEFINE x == above * q
  <2>4. old = x + r /\ x \in Int
    BY <2>1, <2>2
  <2> HIDE DEF x
  <2>5. old - r = x
    BY <2>1, <2>4
  <2>6. QED
    BY <2>1, <2>2, <2>3, <2>5 DEF x
<1> HIDE DEF low, high, w, t, h
<1>12. /\ new \in Nat /\ w \in Nat /\ high \in Nat /\ low + w \in 0 .. above - 1
       /\ new % F = low /\ new % above = low + w /\ new \div above = h
  BY <1>6, <1>9, <1>10, <1>11, FieldsLemma
<1>13. new < AddrSpace
  <2>1. CASE AddrSpace <= above
    <3>1. old \div above = 0 /\ h = 0
      <4>1. old \in 0 .. above - 1 /\ above * 0 + old = old
        BY <1>4, <1>6, <1>7, <2>1
      <4>2. (above * 0 + old) \div above = 0
        BY <1>6, <4>1, UniqueLemma
      <4>3. QED
        BY <4>1, <4>2 DEF h
    <3>2. high = 0
      BY <1>6, <1>11, <3>1
    <3>3. F * t + low < F * K
      BY <1>6, <1>9, <1>10, RowsLemma
    <3> DEFINE x == F * t
    <3>4. x = w /\ x + low < AddrSpace
      BY <1>6, <1>10, <3>3
    <3> HIDE DEF x
    <3>5. low \in Int
      BY <1>6, <1>9
    <3>6. QED
      BY <1>12, <3>2, <3>4, <3>5
  <2>2. CASE \E R \in Nat : AddrSpace = above * R
    <3>1. PICK R \in Nat : AddrSpace = above * R
      BY <2>2
    <3>2. old \div above \in 0 .. R - 1 /\ R > 0
      <4>1. old \div above \in 0 .. R - 1
        BY <1>6, <1>7, <3>1, QuotientBelowLemma
      <4>2. R # 0
        BY <1>4, <1>6, <3>1
      <4>3. QED
        BY <4>1, <4>2
    <3>3. h \in Int /\ h < R
      BY <3>2 DEF h
    <3>4. above * h + (low + w) < above * R
      <4> DEFINE e == low + w
      <4>1. e \in 0 .. above - 1 /\ R \in Int
        BY <1>12, <3>1
      <4> HIDE DEF e
      <4>2. above * h + e < above * R
        BY <1>6, <3>3, <4>1, RowsLemma
      <4>3. QED
        BY <4>2 DEF e
    <3> DEFINE x == above * h
               y == above * R
    <3>5. x = high /\ y = AddrSpace /\ x + (low + w) < y
      BY <1>11, <3>1, <3>4
    <3> HIDE DEF x, y
    <3>6. low \in Int
      BY <1>6, <1>9
    <3>7. QED
      BY <1>12, <3>5, <3>6
  <2>3. QED
    BY <1>8, <2>1, <2>2
<1>14. TypeOK'
  <2>1. new \in Word
    BY <1>4, <1>12, <1>13 DEF Word
  <2> HIDE DEF new
  <2>2. regs' \in [Regs -> Word]
    BY <1>1, <1>2, <2>1
  <2>3. flags' \in FlagRecords
    BY <1>1 DEF TypeOK, FlagRecords
  <2>4. QED
    BY <1>1, <2>2, <2>3, TypeLemma
<1>15. A!Ldi
  <2>1. regs'[d] = new /\ A!Others({d})
    <3> HIDE DEF new
    <3>1. QED
      BY <1>1, <1>2, <1>3 DEF A!Others
  <2>2. new - (new % F) - (new - (new % above)) = A!Natural(instr.imm * F, WordSize)
    <3>1. A!Natural(instr.imm * F, WordSize) = w
      BY SizesAssumption DEF A!Natural, A!Limit, A!Bits, w, Wrap, Span, Bits
    <3>2. low \in Int
      BY <1>6, <1>9
    <3>3. new - low - (new - (low + w)) = w
      BY <1>12, <3>2
    <3>4. QED
      BY <1>12, <3>1, <3>3
  <2>3. new % F = IF instr.clear \in {1, 3} THEN 0 ELSE old % F
    BY <1>12 DEF low
  <2>4. new \div above = IF instr.clear \in {2, 3} THEN 0 ELSE old \div above
    BY <1>12 DEF h
  <2>5. A!Doing({"ldi"}) /\ A!Done
    BY <1>1 DEF A!Doing, A!Done, Retire, Idle, A!Idle
  <2> HIDE DEF new
  <2>6. QED
    BY <1>1, <2>1, <2>2, <2>3, <2>4, <2>5, Zenon DEF A!Ldi, d, old, F, above
<1>16. QED
  BY <1>14, <1>15

-----------------------------------------------------------------------------
(* The machine implements the instruction set.                             *)

\* Every step keeps the types and is a step of the promise.
THEOREM StepExact ==
    ASSUME TypeOK, [Next]_vars
    PROVE  TypeOK' /\ [A!Next]_A!avars
<1>1. CASE Decode
  <2>1. TypeOK'
    BY <1>1 DEF TypeOK, Decode
  <2>2. A!Decode
    BY <1>1 DEF Decode, A!Decode, Idle, A!Idle
  <2>3. QED
    BY <2>1, <2>2 DEF A!Next
<1>2. CASE Add
  BY <1>2, AddExact DEF A!Next
<1>3. CASE Sub
  BY <1>3, SubExact DEF A!Next
<1>4. CASE Mul
  BY <1>4, MulExact DEF A!Next
<1>5. CASE Div
  BY <1>5, DivExact DEF A!Next
<1>6. CASE Neg
  BY <1>6, NegExact DEF A!Next
<1>7. CASE Logic
  BY <1>7, LogicExact DEF A!Next
<1>8. CASE Shl
  BY <1>8, ShlExact DEF A!Next
<1>9. CASE Shr
  BY <1>9, ShrExact DEF A!Next
<1>10. CASE Rot
  BY <1>10, RotExact DEF A!Next
<1>11. CASE Bswap
  BY <1>11, BswapExact DEF A!Next
<1>12. CASE Soc
  BY <1>12, ComparisonExact DEF A!Next
<1>13. CASE Sof
  BY <1>13, ConditionExact DEF A!Next
<1>14. CASE Ldi
  BY <1>14, LdiExact DEF A!Next
<1>15. CASE Copy
  BY <1>15, CopyExact DEF A!Next
<1>16. CASE Panicked \/ UNCHANGED vars
  <2>1. UNCHANGED vars
    BY <1>16 DEF Panicked
  <2>2. TypeOK'
    BY <2>1 DEF TypeOK, vars
  <2>3. UNCHANGED A!avars
    BY <2>1 DEF vars, A!avars
  <2>4. QED
    BY <2>2, <2>3
<1>17. QED
  BY <1>1, <1>2, <1>3, <1>4, <1>5, <1>6, <1>7, <1>8, <1>9, <1>10, <1>11, <1>12, <1>13,
     <1>14, <1>15, <1>16 DEF Next

LEMMA InitExact ==
    ASSUME Init
    PROVE  TypeOK /\ A!Init
<1>1. 0 \in Word
  BY AddrSpaceAssumption DEF Word
<1>2. flags \in FlagRecords
  BY FlagRecordLemma DEF Init
<1>3. TypeOK
  BY <1>1, <1>2 DEF Init, TypeOK, FlagRecords
<1>4. \A b \in {"carry", "zero", "overflow", "sign"} : ~flags[b]
  BY DEF Init
<1>5. A!Init
  BY <1>4 DEF Init, A!Init, Idle, A!Idle
<1>6. QED
  BY <1>3, <1>5

\* Registers hold words and condition bits truth values, after every sequence
\* of instructions.
THEOREM TypeCorrect == Spec => []TypeOK
<1>1. Init => TypeOK
  BY InitExact
<1>2. TypeOK /\ [Next]_vars => TypeOK'
  BY StepExact
<1>3. QED
  BY <1>1, <1>2, PTL DEF Spec

\* What the code computes bit by bit is what the instruction set promises of
\* integers, for every instruction, every width of words and immediates, and
\* both kinds of build.
THEOREM Implementation == Spec => ImplementsArithmetic
<1>1. Init => TypeOK /\ A!Init
  BY InitExact
<1>2. TypeOK /\ [Next]_vars => TypeOK' /\ [A!Next]_A!avars
  BY StepExact
<1>3. QED
  BY <1>1, <1>2, PTL DEF Spec, ImplementsArithmetic, A!Spec

=============================================================================
