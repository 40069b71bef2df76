---------------------------- MODULE Numbers_proofs ----------------------------
(***************************************************************************)
(* Words, induction, powers of two, quotients and remainders, and the      *)
(* digits of natural numbers.                                              *)
(***************************************************************************)
EXTENDS Words, FiniteSetTheorems, TLAPS

-----------------------------------------------------------------------------
(* Word arithmetic stays within words and on instruction boundaries.       *)

\* The sum of two words is a word, and aligned if both are.
LEMMA PlusLemma ==
    ASSUME NEW a \in Word, NEW b \in Word
    PROVE  /\ Plus(a, b) \in Word
           /\ Aligned(a) /\ Aligned(b) => Aligned(Plus(a, b))
BY AddrSpaceAssumption DEF Plus, Word, Aligned

\* The difference of two words is a word.
LEMMA MinusLemma ==
    ASSUME NEW a \in Word, NEW b \in Word
    PROVE  Minus(a, b) \in Word
BY AddrSpaceAssumption DEF Minus, Word

\* Four times a word is an aligned word.
LEMMA QuadLemma ==
    ASSUME NEW v \in Word
    PROVE  Quad(v) \in Word /\ Aligned(Quad(v))
BY AddrSpaceAssumption DEF Quad, Plus, Word, Aligned

-----------------------------------------------------------------------------
(* Induction, over a set: the predicate is membership.                     *)

\* Every set of natural numbers has a least element.
LEMMA LeastNumber ==
    ASSUME NEW S \in SUBSET Nat, S # {}
    PROVE  \E n \in S : \A m \in S : n <= m
<1>1. PICK n \in S : \A m \in S : ~(<<m, n>> \in OpToRel(<, Nat))
  BY NatLessThanWellFounded, WFMin
<1>2. OpToRel(<, Nat) = {p \in Nat \X Nat : p[1] < p[2]}
  BY Zenon DEF OpToRel
<1>3. ASSUME NEW m \in S, m < n
      PROVE  FALSE
  <2>1. <<m, n>> \in {p \in Nat \X Nat : p[1] < p[2]}
    BY <1>3
  <2>2. QED
    BY <1>1, <1>2, <2>1
<1>4. QED
  BY <1>3

\* A set with zero and every successor has all natural numbers.
LEMMA Induction ==
    ASSUME NEW S, 0 \in S, \A n \in Nat : n \in S => n + 1 \in S
    PROVE  Nat \subseteq S
<1> SUFFICES ASSUME Nat \ S # {} PROVE FALSE
  OBVIOUS
<1>1. PICK n \in Nat \ S : \A m \in Nat \ S : n <= m
  BY LeastNumber
<1>2. n # 0 /\ n - 1 \in Nat
  BY <1>1
<1>3. n - 1 \in S
  BY <1>1, <1>2
<1>4. n - 1 + 1 \in S
  BY <1>2, <1>3
<1>5. QED
  BY <1>1, <1>4

-----------------------------------------------------------------------------
(* Powers of two count subsets.                                            *)

Subsets(n) == SUBSET (1 .. n)

LEMMA SubsetsCount ==
    ASSUME NEW n \in Nat
    PROVE  IsFiniteSet(Subsets(n)) /\ Cardinality(Subsets(n)) = 2 ^ n /\ 2 ^ n \in Nat
<1>1. IsFiniteSet(1 .. n) /\ Cardinality(1 .. n) = n
  BY FS_Interval
<1>2. IsFiniteSet(Subsets(n)) /\ Cardinality(Subsets(n)) = 2 ^ Cardinality(1 .. n)
  BY <1>1, FS_SUBSET DEF Subsets
<1>3. Cardinality(Subsets(n)) \in Nat
  BY <1>2, FS_CardinalityType
<1>4. QED
  BY <1>1, <1>2, <1>3

\* They double from one to the next.
LEMMA PowerNext ==
    ASSUME NEW n \in Nat
    PROVE  2 ^ (n + 1) = 2 ^ n + 2 ^ n
<1> DEFINE A == Subsets(n)
           B == {T \cup {n + 1} : T \in A}
           f == [T \in A |-> T \cup {n + 1}]
<1>1. n + 1 \in Nat /\ 1 .. n + 1 = 1 .. n \cup {n + 1} /\ n + 1 \notin 1 .. n
  OBVIOUS
<1>2. A \cup B = Subsets(n + 1)
  <2>1. A \cup B \subseteq Subsets(n + 1)
    BY <1>1 DEF Subsets
  <2>2. ASSUME NEW T \in Subsets(n + 1)
        PROVE  T \in A \cup B
    <3>1. CASE n + 1 \in T
      <4>1. T \ {n + 1} \in A /\ T = (T \ {n + 1}) \cup {n + 1}
        BY <1>1, <3>1 DEF Subsets
      <4>2. QED
        BY <4>1
    <3>2. CASE n + 1 \notin T
      BY <1>1, <3>2 DEF Subsets
    <3>3. QED
      BY <3>1, <3>2
  <2>3. QED
    BY <2>1, <2>2
<1>3. A \cap B = {}
  BY <1>1 DEF Subsets
<1>4. ExistsBijection(A, B)
  <2>1. f \in [A -> B] /\ \A T \in A : f[T] = T \cup {n + 1}
    OBVIOUS
  <2>2. \A T, U \in A : f[T] = f[U] => T = U
    <3> SUFFICES ASSUME NEW T \in A, NEW U \in A, f[T] = f[U] PROVE T = U
      OBVIOUS
    <3>1. n + 1 \notin T /\ n + 1 \notin U
      BY <1>1 DEF Subsets
    <3>2. T \cup {n + 1} = U \cup {n + 1}
      OBVIOUS
    <3>3. QED
      BY <3>1, <3>2
  <2>3. \A V \in B : \E T \in A : f[T] = V
    OBVIOUS
  <2> HIDE DEF A, B, f
  <2>4. DOMAIN f = A
    BY <2>1
  <2>5. f \in Bijection(A, B)
    BY <2>1, <2>2, <2>3, <2>4 DEF Bijection, Injection, Surjection, IsInjective
  <2>6. QED
    BY <2>5 DEF ExistsBijection
<1>5. IsFiniteSet(A) /\ Cardinality(A) = 2 ^ n
  BY SubsetsCount
<1>6. Cardinality(Subsets(n + 1)) = 2 ^ (n + 1)
  BY <1>1, SubsetsCount
<1> HIDE DEF A, B, f
<1>7. IsFiniteSet(B) /\ Cardinality(B) = Cardinality(A)
  BY <1>4, <1>5, FS_Bijection
<1>8. Cardinality(A \cup B) = Cardinality(A) + Cardinality(B) - Cardinality(A \cap B)
  BY <1>5, <1>7, FS_Union
<1>9. Cardinality(A \cap B) = 0
  BY <1>3, FS_EmptySet
<1>10. 2 ^ n \in Nat
  BY SubsetsCount
<1> DEFINE p == 2 ^ n
           q == 2 ^ (n + 1)
<1>11. p \in Nat /\ q = p + p - 0
  <2>1. Cardinality(Subsets(n + 1)) = p + p - 0
    BY <1>2, <1>5, <1>7, <1>8, <1>9
  <2>2. QED
    BY <1>6, <1>10, <2>1
<1> HIDE DEF p, q
<1>12. q = p + p
  BY <1>11
<1>13. QED
  BY <1>12 DEF p, q

\* They are positive, and 1 for 0.
LEMMA PowerPositive ==
    ASSUME NEW n \in Nat
    PROVE  2 ^ n \in Nat /\ 2 ^ n > 0 /\ 2 ^ 0 = 1 /\ 2 ^ 1 = 2
<1>1. 2 ^ n \in Nat /\ Cardinality(Subsets(n)) = 2 ^ n /\ IsFiniteSet(Subsets(n))
  BY SubsetsCount
<1>2. {} \in Subsets(n)
  BY DEF Subsets
<1>3. 2 ^ n # 0
  BY <1>1, <1>2, FS_EmptySet
<1>4. 2 ^ 0 = 1 /\ 2 ^ 1 = 2
  OBVIOUS
<1>5. QED
  BY <1>1, <1>3, <1>4

\* The product of two is the power of the sum.
LEMMA PowerSum ==
    ASSUME NEW m \in Nat, NEW n \in Nat
    PROVE  2 ^ (m + n) = 2 ^ m * 2 ^ n
<1> DEFINE S == {k \in Nat : 2 ^ (m + k) = 2 ^ m * 2 ^ k}
<1>1. 0 \in S
  <2>1. m + 0 = m /\ 2 ^ 0 = 1 /\ 2 ^ m \in Nat
    BY PowerPositive
  <2>2. 2 ^ (m + 0) = 2 ^ m * 2 ^ 0
    BY <2>1
  <2>3. QED
    BY <2>2
<1>2. ASSUME NEW k \in Nat, k \in S
      PROVE  k + 1 \in S
  <2>1. m + (k + 1) = (m + k) + 1 /\ m + k \in Nat
    OBVIOUS
  <2>2. 2 ^ (m + (k + 1)) = 2 ^ (m + k) + 2 ^ (m + k)
    BY <2>1, PowerNext
  <2>3. 2 ^ (k + 1) = 2 ^ k + 2 ^ k /\ 2 ^ k \in Nat /\ 2 ^ m \in Nat
    BY PowerNext, PowerPositive
  <2>4. 2 ^ (m + k) = 2 ^ m * 2 ^ k
    BY <1>2
  <2> DEFINE a == 2 ^ m
             b == 2 ^ k
  <2>5. a \in Nat /\ b \in Nat /\ 2 ^ (m + (k + 1)) = a * b + a * b /\ 2 ^ (k + 1) = b + b
    BY <2>2, <2>3, <2>4
  <2> HIDE DEF a, b
  <2>6. a * b + a * b = a * (b + b)
    BY <2>5
  <2>7. QED
    BY <2>5, <2>6 DEF a, b
<1> HIDE DEF S
<1>3. n \in S
  BY <1>1, <1>2, Induction
<1>4. QED
  BY <1>3 DEF S

\* Greater powers are multiples of smaller ones.
LEMMA PowerGreater ==
    ASSUME NEW m \in Nat, NEW n \in Nat, m <= n
    PROVE  2 ^ m <= 2 ^ n /\ 2 ^ n = 2 ^ m * 2 ^ (n - m) /\ 2 ^ (n - m) \in Nat
<1>1. n - m \in Nat /\ m + (n - m) = n
  OBVIOUS
<1>2. 2 ^ n = 2 ^ m * 2 ^ (n - m)
  BY <1>1, PowerSum
<1> DEFINE p == 2 ^ m
           q == 2 ^ (n - m)
<1>3. p \in Nat /\ p > 0 /\ q \in Nat /\ q > 0 /\ 2 ^ n = p * q
  BY <1>1, <1>2, PowerPositive
<1> HIDE DEF p, q
<1>4. p <= p * q
  BY <1>3
<1>5. QED
  BY <1>3, <1>4 DEF p, q

-----------------------------------------------------------------------------
(* Remainders.                                                             *)

\* Quotient and remainder.
LEMMA DivisionLemma ==
    ASSUME NEW M \in Nat, M > 0, NEW x \in Int
    PROVE  /\ x \div M \in Int /\ x % M \in 0 .. M - 1 /\ x % M \in Int
           /\ x = M * (x \div M) + (x % M)
<1>1. x \div M \in Int
  OBVIOUS
<1>2. x % M \in 0 .. M - 1
  OBVIOUS
<1>3. x = M * (x \div M) + (x % M)
  OBVIOUS
<1>4. x % M \in Int
  BY <1>2
<1>5. QED
  BY <1>1, <1>2, <1>3, <1>4

\* They are unique.
LEMMA UniqueLemma ==
    ASSUME NEW M \in Nat, M > 0, NEW q \in Int, NEW r \in 0 .. M - 1
    PROVE  (M * q + r) % M = r /\ (M * q + r) \div M = q
<1> DEFINE x == M * q + r
           q1 == x \div M
           r1 == x % M
<1>1. x \in Int /\ q1 \in Int /\ r1 \in 0 .. M - 1 /\ x = M * q1 + r1
  <2>1. x \in Int
    OBVIOUS
  <2>2. QED
    BY <2>1, DivisionLemma
<1>2. M * (q - q1) = r1 - r
  BY <1>1
<1> HIDE DEF x, q1, r1
<1>3. CASE q - q1 >= 1
  <2>1. M * (q - q1) >= M
    BY <1>1, <1>3
  <2>2. QED
    BY <1>1, <1>2, <2>1
<1>4. CASE q - q1 <= -1
  <2>1. M * (q1 - q) >= M
    BY <1>1, <1>4
  <2>2. M * (q1 - q) = -(M * (q - q1))
    BY <1>1
  <2>3. QED
    BY <1>1, <1>2, <2>1, <2>2
<1>5. CASE q = q1
  <2>1. r = r1
    BY <1>1, <1>2, <1>5
  <2>2. QED
    BY <1>5, <2>1 DEF q1, r1, x
<1>6. QED
  BY <1>1, <1>3, <1>4, <1>5

\* Adding a multiple does not change a remainder.
LEMMA ShiftLemma ==
    ASSUME NEW M \in Nat, M > 0, NEW x \in Int, NEW k \in Int
    PROVE  (x + M * k) % M = x % M /\ (x + M * k) \div M = (x \div M) + k
<1> DEFINE q == x \div M
           r == x % M
<1>1. q \in Int /\ r \in 0 .. M - 1 /\ r \in Int /\ x = M * q + r
  BY DivisionLemma
<1> HIDE DEF q, r
<1>2. M * q + M * k = M * (q + k)
  BY <1>1
<1>3. x + M * k = M * (q + k) + r
  BY <1>1, <1>2
<1>4. q + k \in Int
  BY <1>1
<1>5. (M * (q + k) + r) % M = r /\ (M * (q + k) + r) \div M = q + k
  BY <1>1, <1>4, UniqueLemma
<1>6. QED
  BY <1>3, <1>5 DEF q, r

\* Congruence.
Same(M, x, y) == \E k \in Int : x = y + M * k

LEMMA RemainderLemma ==
    ASSUME NEW M \in Nat, M > 0, NEW x \in Int
    PROVE  x % M \in Int /\ Same(M, x, x) /\ Same(M, x, x % M)
<1>1. x \div M \in Int /\ x % M \in Int /\ x = M * (x \div M) + (x % M)
  BY DivisionLemma
<1> DEFINE q == x \div M
           r == x % M
<1>2. q \in Int /\ r \in Int /\ x = M * q + r
  BY <1>1
<1> HIDE DEF q, r
<1>3. x = r + M * q /\ x = x + M * 0 /\ 0 \in Int
  BY <1>2
<1>4. QED
  BY <1>2, <1>3 DEF Same, r

LEMMA SameLemma ==
    ASSUME NEW M \in Nat, M > 0, NEW x \in Int, NEW y \in Int, Same(M, x, y)
    PROVE  x % M = y % M
<1>1. PICK k \in Int : x = y + M * k
  BY DEF Same
<1>2. QED
  BY <1>1, ShiftLemma

LEMMA SameSumLemma ==
    ASSUME NEW M \in Nat, NEW x \in Int, NEW y \in Int, NEW u \in Int, Same(M, x, y)
    PROVE  /\ Same(M, x + u, y + u) /\ Same(M, x - u, y - u)
           /\ Same(M, u + x, u + y) /\ Same(M, u - x, u - y)
<1>1. PICK k \in Int : x = y + M * k
  BY DEF Same
<1>2. -k \in Int /\ M * (-k) = -(M * k) /\ M * k \in Int
  OBVIOUS
<1> DEFINE n == M * k
           o == M * (-k)
<1>3. x = y + n /\ o = -n /\ n \in Int
  BY <1>1, <1>2
<1> HIDE DEF n, o
<1>4. x + u = (y + u) + n /\ x - u = (y - u) + n /\ u + x = (u + y) + n /\ u - x = (u - y) + o
  BY <1>3
<1>5. QED
  BY <1>2, <1>4 DEF Same, n, o

LEMMA SameTransLemma ==
    ASSUME NEW M \in Nat, NEW x \in Int, NEW y \in Int, NEW z \in Int,
           Same(M, x, y), Same(M, y, z)
    PROVE  Same(M, x, z)
<1>1. PICK i \in Int : x = y + M * i
  BY DEF Same
<1>2. PICK j \in Int : y = z + M * j
  BY DEF Same
<1>3. M * i + M * j = M * (i + j) /\ i + j \in Int /\ M * i \in Int /\ M * j \in Int
  OBVIOUS
<1>4. x = z + M * (i + j)
  BY <1>1, <1>2, <1>3
<1>5. QED
  BY <1>3, <1>4 DEF Same

\* A number below twice the modulus.
LEMMA OnceLemma ==
    ASSUME NEW M \in Nat, M > 0, NEW x \in Int, -M <= x, x < M + M
    PROVE  x % M = IF x < 0 THEN x + M ELSE IF x < M THEN x ELSE x - M
<1>1. CASE x < 0
  <2>1. x + M \in 0 .. M - 1 /\ x = M * (-1) + (x + M)
    BY <1>1
  <2>2. QED
    BY <1>1, <2>1, UniqueLemma
<1>2. CASE 0 <= x /\ x < M
  <2>1. x \in 0 .. M - 1 /\ x = M * 0 + x
    BY <1>2
  <2>2. (M * 0 + x) % M = x
    BY <2>1, UniqueLemma
  <2>3. QED
    BY <1>2, <2>1, <2>2
<1>3. CASE M <= x
  <2>1. x - M \in 0 .. M - 1 /\ x = M * 1 + (x - M)
    BY <1>3
  <2>2. (M * 1 + (x - M)) % M = x - M
    BY <2>1, UniqueLemma
  <2>3. QED
    BY <1>3, <2>1, <2>2
<1>4. QED
  BY <1>1, <1>2, <1>3

\* Congruence is symmetric, and that of a modulus is that of its divisors.
LEMMA SameBackLemma ==
    ASSUME NEW M \in Nat, NEW x \in Int, NEW y \in Int, Same(M, x, y)
    PROVE  Same(M, y, x)
<1>1. PICK k \in Int : x = y + M * k
  BY DEF Same
<1>2. -k \in Int /\ M * (-k) = -(M * k) /\ M * k \in Int
  OBVIOUS
<1> DEFINE n == M * k
           o == M * (-k)
<1>3. x = y + n /\ o = -n /\ n \in Int
  BY <1>1, <1>2
<1> HIDE DEF n, o
<1>4. y = x + o
  BY <1>3
<1>5. QED
  BY <1>2, <1>4 DEF Same, o

LEMMA SameDivisorLemma ==
    ASSUME NEW M \in Nat, NEW n \in Int, NEW x \in Int, NEW y \in Int, Same(M * n, x, y)
    PROVE  Same(M, x, y)
<1>1. PICK k \in Int : x = y + (M * n) * k
  BY DEF Same
<1>2. (M * n) * k = M * (n * k) /\ n * k \in Int
  OBVIOUS
<1>3. QED
  BY <1>1, <1>2 DEF Same

\* Rows of M numbers, i of them, hold M * i.
LEMMA RowsLemma ==
    ASSUME NEW M \in Nat, NEW n \in Int, NEW i \in Int, i < n, NEW r \in 0 .. M - 1
    PROVE  M * i + r < M * n /\ M * i \in Int /\ M * n \in Int /\ M * i <= M * n - M
<1>1. M * n = M * i + M * (n - i) /\ M * i \in Int /\ M * n \in Int
  OBVIOUS
<1>2. n - i \in Int /\ n - i >= 1
  OBVIOUS
<1>3. M * (n - i) >= M /\ M * (n - i) \in Int
  BY <1>2
<1> DEFINE x == M * i
           y == M * n
           z == M * (n - i)
<1>4. y = x + z /\ x \in Int /\ y \in Int /\ z \in Int /\ z >= M
  BY <1>1, <1>3
<1> HIDE DEF x, y, z
<1>5. x + r < y /\ x <= y - M
  BY <1>4
<1>6. QED
  BY <1>4, <1>5 DEF x, y

\* The quotient of a number is less than the rows it is in.
LEMMA QuotientBelowLemma ==
    ASSUME NEW M \in Nat, M > 0, NEW n \in Nat, NEW v \in Nat, v < M * n
    PROVE  v \div M \in 0 .. n - 1
<1> DEFINE q == v \div M
           r == v % M
<1>1. q \in Int /\ r \in 0 .. M - 1 /\ v = M * q + r /\ r \in Int
  BY DivisionLemma
<1> HIDE DEF q, r
<1>2. q >= 0
  <2>1. ASSUME q <= -1
        PROVE  FALSE
    <3>1. q < 0
      BY <1>1, <2>1
    <3>2. M * q + r < M * 0 /\ M * 0 = 0
      BY <1>1, <3>1, RowsLemma
    <3>3. QED
      BY <1>1, <3>2
  <2>2. QED
    BY <1>1, <2>1
<1>3. q < n
  <2>1. ASSUME q >= n
        PROVE  FALSE
    <3>1. M * q = M * n + M * (q - n) /\ M * (q - n) >= 0 /\ M * (q - n) \in Int
      BY <1>1, <2>1
    <3> DEFINE x == M * q
               y == M * n
               z == M * (q - n)
    <3>2. x = y + z /\ z >= 0 /\ z \in Int /\ y \in Int /\ v = x + r /\ v < y
      BY <1>1, <3>1
    <3> HIDE DEF x, y, z
    <3>3. QED
      BY <1>1, <3>2
  <2>2. QED
    BY <1>1, <2>1
<1>4. QED
  BY <1>1, <1>2, <1>3 DEF q

LEMMA QuotientNatural ==
    ASSUME NEW M \in Nat, M > 0, NEW v \in Nat
    PROVE  v \div M \in Nat
<1> DEFINE x == M * v
           y == M * (v + 1)
<1>1. y = x + M /\ x >= v /\ x \in Nat
  OBVIOUS
<1> HIDE DEF x, y
<1>2. v < y /\ v + 1 \in Nat
  BY <1>1
<1>3. v \div M \in 0 .. (v + 1) - 1
  BY <1>2, QuotientBelowLemma DEF y
<1>4. QED
  BY <1>3

\* Dividing twice, and dividing multiples.
LEMMA DivideTwiceLemma ==
    ASSUME NEW P \in Nat, P > 0, NEW Q \in Nat, Q > 0, NEW v \in Int
    PROVE  (v \div P) \div Q = v \div (P * Q)
<1> DEFINE a == v \div P
           r == v % P
           b == a \div Q
           t == a % Q
<1>1. a \in Int /\ r \in 0 .. P - 1 /\ v = P * a + r
  BY DivisionLemma
<1>2. b \in Int /\ t \in 0 .. Q - 1 /\ t \in Int /\ a = Q * b + t
  <2> HIDE DEF a
  <2>1. QED
    BY <1>1, DivisionLemma
<1> HIDE DEF a, r, b, t
<1>3. P * a = (P * Q) * b + P * t /\ (P * Q) * b \in Int /\ P * t \in Nat
  <2>1. P * (Q * b + t) = (P * Q) * b + P * t
    BY <1>2
  <2>2. QED
    BY <1>2, <2>1
<1>4. P * t + r < P * Q /\ P * Q \in Nat /\ P * Q > 0
  BY <1>1, <1>2, RowsLemma
<1> DEFINE x == P * Q
           y == P * t
           z == x * b
<1>5. v = z + y + r /\ y + r < x /\ x \in Nat /\ x > 0 /\ y \in Nat /\ z \in Int
  BY <1>1, <1>3, <1>4
<1>6. y + r \in 0 .. x - 1 /\ v = z + (y + r)
  <2> HIDE DEF x, y, z
  <2>1. QED
    BY <1>1, <1>5
<1>7. (x * b + (y + r)) \div x = b
  <2> HIDE DEF x, y
  <2>1. QED
    BY <1>2, <1>5, <1>6, UniqueLemma
<1>8. v \div x = b
  BY <1>6, <1>7
<1>9. QED
  BY <1>8 DEF b, a

LEMMA DivideMultipleLemma ==
    ASSUME NEW P \in Nat, P > 0, NEW Q \in Nat, Q > 0, NEW v \in Int
    PROVE  (v * P) \div (P * Q) = v \div Q
<1>1. v * P = P * v + 0 /\ v * P \in Int
  OBVIOUS
<1>2. (P * v + 0) \div P = v
  BY UniqueLemma
<1>3. (v * P) \div P = v
  BY <1>1, <1>2
<1> DEFINE w == v * P
<1>4. (w \div P) \div Q = w \div (P * Q)
  <2>1. w \in Int
    BY <1>1
  <2> HIDE DEF w
  <2>2. QED
    BY <2>1, DivideTwiceLemma
<1>5. QED
  BY <1>3, <1>4

\* A number of three fields: F values of low, G of the middle one.
LEMMA FieldsLemma ==
    ASSUME NEW F \in Nat, F > 0, NEW G \in Nat, G > 0, NEW low \in 0 .. F - 1,
           NEW t \in Nat, t < G, NEW h \in Nat, NEW w, w = F * t, NEW above, above = F * G,
           NEW high, high = above * h
    PROVE  /\ low + w + high \in Nat /\ above \in Nat /\ above > 0 /\ w \in Nat /\ high \in Nat
           /\ low + w \in 0 .. above - 1
           /\ (low + w + high) % F = low
           /\ (low + w + high) % above = low + w
           /\ (low + w + high) \div above = h
<1>1. above \in Nat /\ above > 0 /\ w \in Nat
  BY SMT
<1>2. F * t + low < F * G
  BY RowsLemma
<1>3. low + w \in 0 .. above - 1
  BY <1>1, <1>2
<1>4. high \in Nat
  BY <1>1
<1>5. (above * h + (low + w)) % above = low + w /\ (above * h + (low + w)) \div above = h
  BY <1>1, <1>3, UniqueLemma
<1>6. low + w + high = above * h + (low + w) /\ low + w + high \in Nat
  BY <1>1, <1>3, <1>4
<1>7. (low + w + high) % F = low
  <2>1. F * (t + G * h) = w + high /\ t + G * h \in Int
    <3>1. F * (t + G * h) = F * t + (F * G) * h /\ t + G * h \in Int
      OBVIOUS
    <3>2. QED
      BY <3>1
  <2>2. (F * (t + G * h) + low) % F = low
    BY <2>1, UniqueLemma
  <2>3. F * (t + G * h) + low = low + w + high
    BY <1>1, <1>4, <2>1
  <2>4. QED
    BY <2>2, <2>3
<1>8. QED
  BY <1>1, <1>3, <1>4, <1>5, <1>6, <1>7

\* A multiple in a multiple of the modulus.
LEMMA RemainderMultipleLemma ==
    ASSUME NEW F \in Nat, F > 0, NEW K \in Nat, K > 0, NEW v \in Nat
    PROVE  (F * v) % (F * K) = F * (v % K) /\ v % K \in Nat /\ v % K < K /\ v % K <= v
<1> DEFINE q == v \div K
           r == v % K
<1>1. q \in Int /\ r \in 0 .. K - 1 /\ v = K * q + r /\ r \in Int
  BY DivisionLemma
<1>2. r <= v
  BY SMT
<1> HIDE DEF q, r
<1>3. F * (K * q + r) = (F * K) * q + F * r
  BY <1>1
<1>4. F * r + 0 < F * K /\ F * r \in Nat /\ F * K \in Nat /\ F * K > 0
  BY <1>1, RowsLemma
<1> DEFINE M == F * K
           w == F * r
<1>5. F * v = M * q + w /\ w \in 0 .. M - 1 /\ M \in Nat /\ M > 0
  BY <1>1, <1>3, <1>4
<1>6. (M * q + w) % M = w
  <2> HIDE DEF M, w
  <2>1. QED
    BY <1>1, <1>5, UniqueLemma
<1>7. QED
  BY <1>1, <1>2, <1>5, <1>6 DEF r

-----------------------------------------------------------------------------
(* Bits.                                                                   *)

\* Bit n of v is set.
BitSet(v, n) == (v \div 2 ^ n) % 2 = 1

\* A power below another divides it, twice.
LEMMA PowerBelow ==
    ASSUME NEW m \in Nat, NEW n \in Nat, n < m
    PROVE  \E k \in Nat : 2 ^ m = 2 ^ n * (2 * k)
<1> DEFINE k == 2 ^ (m - n - 1)
<1>1. m - n - 1 \in Nat /\ (m - n - 1) + 1 = m - n /\ n + (m - n) = m /\ m - n \in Nat
  OBVIOUS
<1>2. k \in Nat /\ 2 ^ (m - n) = k + k
  BY <1>1, PowerNext, PowerPositive
<1>3. 2 ^ m = 2 ^ n * 2 ^ (m - n)
  BY <1>1, PowerSum
<1> HIDE DEF k
<1>4. 2 ^ m = 2 ^ n * (2 * k)
  BY <1>2, <1>3
<1>5. QED
  BY <1>2, <1>4

\* Multiples of a power have no influence on the bits below it, and follow
\* the bits of a number below the power.
LEMMA BitsBelow ==
    ASSUME NEW m \in Nat, NEW v \in Nat, NEW c \in Nat
    PROVE  /\ \A n \in 0 .. m - 1 : BitSet(v + 2 ^ m * c, n) <=> BitSet(v, n)
           /\ v < 2 ^ m => (BitSet(v + 2 ^ m * c, m) <=> c % 2 = 1)
<1>1. ASSUME NEW n \in 0 .. m - 1
      PROVE  BitSet(v + 2 ^ m * c, n) <=> BitSet(v, n)
  <2>1. n \in Nat /\ n < m
    OBVIOUS
  <2>2. PICK k \in Nat : 2 ^ m = 2 ^ n * (2 * k)
    BY <2>1, PowerBelow
  <2> DEFINE p == 2 ^ n
             q == v \div p
  <2>3. p \in Nat /\ p > 0
    BY <2>1, PowerPositive
  <2>4. q \in Int
    BY <2>3, DivisionLemma
  <2>5. 2 ^ m * c = p * (2 * (k * c)) /\ 2 * (k * c) \in Int /\ k * c \in Int
    <3> HIDE DEF p
    <3>1. (p * (2 * k)) * c = p * (2 * (k * c))
      BY <2>3
    <3>2. QED
      BY <2>2, <3>1 DEF p
  <2>6. (v + 2 ^ m * c) \div p = q + 2 * (k * c)
    <3>1. (v + p * (2 * (k * c))) \div p = (v \div p) + 2 * (k * c)
      BY <2>3, <2>5, ShiftLemma
    <3>2. QED
      BY <2>5, <3>1
  <2>7. (q + 2 * (k * c)) % 2 = q % 2
    <3> HIDE DEF q
    <3>1. QED
      BY <2>4, <2>5, ShiftLemma
  <2>8. QED
    BY <2>6, <2>7 DEF BitSet
<1>2. ASSUME v < 2 ^ m
      PROVE  BitSet(v + 2 ^ m * c, m) <=> c % 2 = 1
  <2> DEFINE p == 2 ^ m
  <2>1. p \in Nat /\ p > 0
    BY PowerPositive
  <2>2. v \in 0 .. p - 1 /\ p * c + v = v + p * c
    <3> HIDE DEF p
    <3>1. p * c \in Nat
      BY <2>1
    <3>2. QED
      BY <1>2, <2>1, <3>1 DEF p
  <2>3. (p * c + v) \div p = c
    <3> HIDE DEF p
    <3>1. QED
      BY <2>1, <2>2, UniqueLemma
  <2>4. QED
    BY <2>2, <2>3 DEF BitSet
<1>3. QED
  BY <1>1, <1>2

\* A bit is a comparison of a remainder.
LEMMA BitCompared ==
    ASSUME NEW v \in Int, NEW n \in Nat
    PROVE  BitSet(v, n) <=> v % 2 ^ (n + 1) >= 2 ^ n
<1> DEFINE p == 2 ^ n
           P == 2 ^ (n + 1)
           q == v \div P
           r == v % P
<1>1. p \in Nat /\ p > 0 /\ P = p + p /\ P = p * 2
  BY PowerNext, PowerPositive
<1>2. q \in Int /\ r \in 0 .. P - 1 /\ v = P * q + r
  <2> HIDE DEF P
  <2>1. P \in Nat /\ P > 0
    BY <1>1
  <2>2. QED
    BY <2>1, DivisionLemma
<1> DEFINE h == IF r >= p THEN 1 ELSE 0
<1> HIDE DEF p, P, q, r
<1>3. h \in {0, 1} /\ r - p * h \in 0 .. p - 1 /\ (h = 1 <=> r >= p)
  BY <1>1, <1>2
<1> HIDE DEF h
<1>4. P * q = p * (2 * q) /\ p * (2 * q) \in Int /\ p * h \in Int /\ 2 * q \in Int
      /\ p * (2 * q + h) = p * (2 * q) + p * h
  BY <1>1, <1>2, <1>3
<1> DEFINE x == p * (2 * q)
           y == p * h
           z == p * (2 * q + h)
<1>5. v = x + r /\ z = x + y /\ x \in Int /\ y \in Int /\ r - y \in 0 .. p - 1 /\ r \in Int
  BY <1>1, <1>2, <1>3, <1>4
<1>6. v = z + (r - y)
  <2> HIDE DEF x, y, z
  <2>1. QED
    BY <1>5
<1>7. (p * (2 * q + h) + (r - y)) \div p = 2 * q + h
  <2>1. 2 * q + h \in Int
    BY <1>2, <1>3
  <2> HIDE DEF y
  <2>2. QED
    BY <1>1, <1>5, <2>1, UniqueLemma
<1>8. v \div p = 2 * q + h
  BY <1>6, <1>7
<1>9. (2 * q + h) % 2 = h
  BY <1>2, <1>3, UniqueLemma
<1>10. (v \div p) % 2 = h
  BY <1>8, <1>9
<1>11. QED
  BY <1>3, <1>10 DEF BitSet, p, P, r

\* A remainder keeps the bits below its modulus, and a quotient moves them.
LEMMA BitsRemain ==
    ASSUME NEW m \in Nat, NEW v \in Nat, NEW n \in 0 .. m - 1
    PROVE  BitSet(v % 2 ^ m, n) <=> BitSet(v, n)
<1> DEFINE p == 2 ^ m
           q == v \div p
           r == v % p
<1>1. p \in Nat /\ p > 0
  BY PowerPositive
<1>2. q \in Int /\ r \in Nat /\ v = p * q + r
  <2> HIDE DEF p
  <2>1. q \in Int /\ r \in 0 .. p - 1 /\ v = p * q + r
    BY <1>1, DivisionLemma
  <2>2. QED
    BY <1>1, <2>1
<1>3. q \in Nat
  <2> HIDE DEF p
  <2>1. QED
    BY <1>1, QuotientNatural
<1>4. v = r + 2 ^ m * q
  <2> HIDE DEF q, r
  <2>1. p * q \in Nat
    BY <1>1, <1>3
  <2> DEFINE x == p * q
  <2>2. v = x + r /\ x \in Nat
    BY <1>2, <2>1
  <2> HIDE DEF x
  <2>3. v = r + x
    BY <1>2, <2>2
  <2>4. QED
    BY <2>3 DEF x, p
<1> HIDE DEF q
<1>5. BitSet(r + 2 ^ m * q, n) <=> BitSet(r, n)
  <2> HIDE DEF r
  <2>1. QED
    BY <1>2, <1>3, BitsBelow
<1>6. QED
  BY <1>4, <1>5

LEMMA BitsMove ==
    ASSUME NEW m \in Nat, NEW v \in Int, NEW n \in Nat
    PROVE  BitSet(v \div 2 ^ m, n) <=> BitSet(v, m + n)
<1>1. 2 ^ (m + n) = 2 ^ m * 2 ^ n
  BY PowerSum
<1>2. 2 ^ m \in Nat /\ 2 ^ m > 0 /\ 2 ^ n \in Nat /\ 2 ^ n > 0
  BY PowerPositive
<1>3. (v \div 2 ^ m) \div 2 ^ n = v \div (2 ^ m * 2 ^ n)
  BY <1>2, DivideTwiceLemma
<1>4. QED
  BY <1>1, <1>3 DEF BitSet

\* The bits of a digit of width w that has e bits below it.
LEMMA DigitBits ==
    ASSUME NEW v \in Nat, NEW e \in Nat, NEW w \in Nat
    PROVE  /\ (v \div 2 ^ e) % 2 ^ w \in Nat /\ (v \div 2 ^ e) % 2 ^ w < 2 ^ w
           /\ \A j \in 0 .. w - 1 : BitSet((v \div 2 ^ e) % 2 ^ w, j) <=> BitSet(v, e + j)
<1> DEFINE p == 2 ^ e
           q == v \div p
           M == 2 ^ w
<1>1. p \in Nat /\ p > 0 /\ M \in Nat /\ M > 0
  BY PowerPositive
<1>2. q \in Nat
  <2> HIDE DEF p
  <2>1. QED
    BY <1>1, QuotientNatural
<1>3. q % M \in Nat /\ q % M < M
  <2> HIDE DEF q, M
  <2>1. q % M \in 0 .. M - 1
    BY <1>1, <1>2, DivisionLemma
  <2>2. QED
    BY <1>1, <2>1
<1>4. ASSUME NEW j \in 0 .. w - 1
      PROVE  BitSet(q % M, j) <=> BitSet(v, e + j)
  <2>1. BitSet(q, j) <=> BitSet(v, e + j)
    BY BitsMove
  <2> HIDE DEF q
  <2>2. BitSet(q % M, j) <=> BitSet(q, j)
    BY <1>2, BitsRemain
  <2>3. QED
    BY <2>1, <2>2
<1>5. QED
  BY <1>3, <1>4

\* Below a power of two there is a number with any bits one likes,
LEMMA BitsExist ==
    ASSUME NEW B, NEW m \in Nat
    PROVE  \E v \in 0 .. 2 ^ m - 1 : \A n \in 0 .. m - 1 : BitSet(v, n) <=> n \in B
<1> DEFINE Has(k) == \E v \in Nat : v < 2 ^ k /\ \A n \in 0 .. k - 1 : BitSet(v, n) <=> n \in B
           S == {k \in Nat : Has(k)}
<1>1. 0 \in S
  <2>1. 0 < 2 ^ 0
    BY PowerPositive
  <2>2. QED
    BY <2>1
<1>2. ASSUME NEW k \in Nat, k \in S
      PROVE  k + 1 \in S
  <2>1. PICK v \in Nat : v < 2 ^ k /\ \A n \in 0 .. k - 1 : BitSet(v, n) <=> n \in B
    BY <1>2
  <2> DEFINE c == IF k \in B THEN 1 ELSE 0
             w == v + 2 ^ k * c
  <2>2. c \in {0, 1} /\ c \in Nat /\ (c % 2 = 1 <=> k \in B)
    OBVIOUS
  <2>3. \A n \in 0 .. k - 1 : BitSet(w, n) <=> BitSet(v, n)
    BY <2>2, BitsBelow
  <2>4. BitSet(w, k) <=> c % 2 = 1
    BY <2>1, <2>2, BitsBelow
  <2>5. w \in Nat /\ w < 2 ^ (k + 1)
    <3>1. 2 ^ (k + 1) = 2 ^ k + 2 ^ k /\ 2 ^ k \in Nat
      BY PowerNext, PowerPositive
    <3> DEFINE p == 2 ^ k
               q == 2 ^ (k + 1)
    <3>2. p \in Nat /\ q = p + p /\ v < p
      BY <2>1, <3>1
    <3> HIDE DEF c, p, q
    <3>3. v + p * c \in Nat /\ v + p * c < q
      BY <2>2, <3>2
    <3>4. QED
      BY <3>3 DEF p, q
  <2> HIDE DEF c, w
  <2>6. \A n \in 0 .. k : n = k \/ n \in 0 .. k - 1
    OBVIOUS
  <2>7. \A n \in 0 .. k : BitSet(w, n) <=> n \in B
    BY <2>1, <2>2, <2>3, <2>4, <2>6
  <2>8. (k + 1) - 1 = k /\ k + 1 \in Nat
    OBVIOUS
  <2>9. Has(k + 1)
    BY <2>5, <2>7, <2>8
  <2>10. QED
    BY <2>8, <2>9
<1> HIDE DEF S
<1>3. m \in S
  BY <1>1, <1>2, Induction
<1>4. PICK v \in Nat : v < 2 ^ m /\ \A n \in 0 .. m - 1 : BitSet(v, n) <=> n \in B
  BY <1>3 DEF S
<1>5. v \in 0 .. 2 ^ m - 1
  <2>1. 2 ^ m \in Nat
    BY PowerPositive
  <2> DEFINE p == 2 ^ m
  <2>2. p \in Nat /\ v < p
    BY <1>4, <2>1
  <2> HIDE DEF p
  <2>3. v \in 0 .. p - 1
    BY <2>2
  <2>4. QED
    BY <2>3 DEF p
<1>6. QED
  BY <1>4, <1>5

\* and only one.
LEMMA BitsDetermine ==
    ASSUME NEW m \in Nat, NEW v \in Nat, NEW w \in Nat, v < 2 ^ m, w < 2 ^ m,
           \A n \in 0 .. m - 1 : BitSet(v, n) <=> BitSet(w, n)
    PROVE  v = w
<1> DEFINE Same2(k) ==
             \A x, y \in Nat :
                 (x < 2 ^ k /\ y < 2 ^ k /\ \A n \in 0 .. k - 1 : BitSet(x, n) <=> BitSet(y, n))
                 => x = y
           S == {k \in Nat : Same2(k)}
<1>1. 0 \in S
  <2>1. 2 ^ 0 = 1
    BY PowerPositive
  <2>2. \A x, y \in Nat : x < 2 ^ 0 /\ y < 2 ^ 0 => x = y
    BY <2>1
  <2>3. QED
    BY <2>2
<1>2. ASSUME NEW k \in Nat, k \in S
      PROVE  k + 1 \in S
  <2> SUFFICES ASSUME NEW x \in Nat, NEW y \in Nat, x < 2 ^ (k + 1), y < 2 ^ (k + 1),
                      \A n \in 0 .. k : BitSet(x, n) <=> BitSet(y, n)
               PROVE  x = y
    <3>1. (k + 1) - 1 = k /\ k + 1 \in Nat
      OBVIOUS
    <3>2. QED
      BY <3>1
  <2> DEFINE p == 2 ^ k
             Low(z) == z % p
             High(z) == z \div p
  <2>1. p \in Nat /\ p > 0 /\ 2 ^ (k + 1) = p + p
    BY PowerNext, PowerPositive
  <2>2. ASSUME NEW z \in Nat, z < 2 ^ (k + 1)
        PROVE  /\ Low(z) \in Nat /\ Low(z) < p /\ High(z) \in {0, 1} /\ High(z) \in Nat
               /\ z = Low(z) + p * High(z)
    <3>1. z \div p \in Int /\ z % p \in 0 .. p - 1 /\ z = p * (z \div p) + (z % p)
      BY <2>1, DivisionLemma
    <3> DEFINE l == Low(z)
               h == High(z)
    <3>2. h \in Int /\ l \in 0 .. p - 1 /\ z = p * h + l /\ z < p + p
      BY <2>1, <2>2, <3>1
    <3> HIDE DEF p, l, h
    <3>3. h <= 1
      <4>1. h >= 2 => p * h >= p * 2
        BY <2>1, <3>2
      <4>2. QED
        BY <2>1, <3>2, <4>1
    <3>4. h >= 0
      <4>1. h <= -1 => p * h <= p * (-1)
        BY <2>1, <3>2
      <4>2. QED
        BY <2>1, <3>2, <4>1
    <3>5. h \in {0, 1} /\ h \in Nat /\ l \in Nat /\ l < p /\ z = l + p * h
      BY <2>1, <3>2, <3>3, <3>4
    <3>6. QED
      BY <3>5 DEF l, h
  <2>3. ASSUME NEW z \in Nat, z < 2 ^ (k + 1)
        PROVE  /\ \A n \in 0 .. k - 1 : BitSet(z, n) <=> BitSet(Low(z), n)
               /\ BitSet(z, k) <=> High(z) = 1
    <3> DEFINE l == Low(z)
               h == High(z)
    <3>1. l \in Nat /\ l < 2 ^ k /\ h \in {0, 1} /\ h \in Nat /\ z = l + 2 ^ k * h
      BY <2>2, <2>3
    <3> HIDE DEF l, h
    <3>2. /\ \A n \in 0 .. k - 1 : BitSet(z, n) <=> BitSet(l, n)
          /\ BitSet(z, k) <=> h % 2 = 1
      BY <3>1, BitsBelow
    <3>3. h % 2 = 1 <=> h = 1
      BY <3>1
    <3>4. QED
      BY <3>2, <3>3 DEF l, h
  <2>4. k \in 0 .. k /\ \A n \in 0 .. k - 1 : n \in 0 .. k
    OBVIOUS
  <2>5. Low(x) = Low(y)
    <3>1. \A n \in 0 .. k - 1 : BitSet(Low(x), n) <=> BitSet(Low(y), n)
      BY <2>3, <2>4
    <3>2. Low(x) \in Nat /\ Low(y) \in Nat /\ Low(x) < 2 ^ k /\ Low(y) < 2 ^ k
      BY <2>2
    <3>3. Same2(k)
      BY <1>2
    <3>4. QED
      BY <3>1, <3>2, <3>3
  <2>6. High(x) = High(y)
    BY <2>2, <2>3, <2>4
  <2> HIDE DEF p, Low, High
  <2>7. QED
    BY <2>2, <2>5, <2>6
<1> HIDE DEF S
<1>3. m \in S
  BY <1>1, <1>2, Induction
<1>4. QED
  BY <1>3 DEF S

=============================================================================
