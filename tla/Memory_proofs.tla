---------------------------- MODULE Memory_proofs ----------------------------
(***************************************************************************)
(* Proofs about Memory: what is pushed stays where it is, and the          *)
(* instructions of the stack implement Stack, for bytes and words of any   *)
(* width, any memory and any program.                                      *)
(***************************************************************************)
EXTENDS Memory, Numbers_proofs, SequenceTheorems, TLAPS

Cells == 0 .. MemSize - 1

-----------------------------------------------------------------------------
(* Words and addresses.                                                    *)

LEMMA ZeroByte == 0 \in Byte
<1>1. 2 ^ ByteBits \in Nat /\ 2 ^ ByteBits > 0
  BY SizesAssumption, PowerPositive
<1>2. QED
  BY <1>1 DEF Byte

\* Bit n of a word: the bit of the byte that it lies in.
BitOf(word, n) == BitSet(word[n \div ByteBits], n % ByteBits)

\* An address has the bits of its word.
LEMMA WordBits ==
    ASSUME NEW a \in Word
    PROVE  /\ WordOf[a] \in Contents
           /\ \A n \in 0 .. ByteBits * WordBytes - 1 : BitSet(a, n) <=> BitOf(WordOf[a], n)
<1>1. ByteBits \in Nat /\ ByteBits > 0 /\ WordBytes \in Nat /\ a \in Nat
  BY SizesAssumption DEF Word
<1>2. WordOf[a] = [b \in Offsets |-> (a \div 2 ^ (ByteBits * b)) % 2 ^ ByteBits]
  BY DEF WordOf
<1>3. ASSUME NEW b \in Offsets
      PROVE  /\ WordOf[a][b] \in Byte
             /\ \A j \in 0 .. ByteBits - 1 : BitSet(WordOf[a][b], j) <=> BitSet(a, ByteBits * b + j)
  <2>1. b \in Nat /\ ByteBits * b \in Nat
    BY <1>1 DEF Offsets
  <2> DEFINE d == (a \div 2 ^ (ByteBits * b)) % 2 ^ ByteBits
  <2>2. /\ d \in Nat /\ d < 2 ^ ByteBits
        /\ \A j \in 0 .. ByteBits - 1 : BitSet(d, j) <=> BitSet(a, ByteBits * b + j)
    BY <1>1, <2>1, DigitBits
  <2>3. WordOf[a][b] = d
    BY <1>2
  <2> HIDE DEF d
  <2>4. 2 ^ ByteBits \in Nat
    BY <1>1, PowerPositive
  <2>5. QED
    BY <2>2, <2>3, <2>4 DEF Byte
<1>4. WordOf[a] \in Contents
  BY <1>2, <1>3 DEF Contents
<1>5. ASSUME NEW n \in 0 .. ByteBits * WordBytes - 1
      PROVE  BitSet(a, n) <=> BitOf(WordOf[a], n)
  <2> DEFINE b == n \div ByteBits
             j == n % ByteBits
  <2>1. n \in Nat /\ n < ByteBits * WordBytes
    BY <1>1
  <2>2. b \in Offsets
    BY <1>1, <2>1, QuotientBelowLemma DEF Offsets
  <2>3. j \in 0 .. ByteBits - 1 /\ n = ByteBits * b + j
    BY <1>1, <2>1, DivisionLemma
  <2> HIDE DEF b, j
  <2>4. BitSet(WordOf[a][b], j) <=> BitSet(a, n)
    BY <1>3, <2>2, <2>3
  <2>5. QED
    BY <2>4 DEF BitOf, b, j
<1>6. QED
  BY <1>4, <1>5

\* Two words with the same bits are one.
LEMMA BitsOfWord ==
    ASSUME NEW v \in Contents, NEW w \in Contents,
           \A n \in 0 .. ByteBits * WordBytes - 1 : BitOf(v, n) <=> BitOf(w, n)
    PROVE  v = w
<1>1. ByteBits \in Nat /\ ByteBits > 0 /\ WordBytes \in Nat /\ 2 ^ ByteBits \in Nat
  BY SizesAssumption, PowerPositive
<1>2. ASSUME NEW b \in Offsets
      PROVE  v[b] = w[b]
  <2>1. b \in Int /\ b < WordBytes /\ b >= 0
    BY <1>1 DEF Offsets
  <2>2. v[b] \in Nat /\ v[b] < 2 ^ ByteBits /\ w[b] \in Nat /\ w[b] < 2 ^ ByteBits
    BY <1>1 DEF Contents, Byte
  <2>3. ASSUME NEW j \in 0 .. ByteBits - 1
        PROVE  BitSet(v[b], j) <=> BitSet(w[b], j)
    <3> DEFINE n == ByteBits * b + j
    <3>1. n % ByteBits = j /\ n \div ByteBits = b
      BY <1>1, <2>1, UniqueLemma
    <3>2. n < ByteBits * WordBytes /\ ByteBits * b \in Int
      BY <1>1, <2>1, RowsLemma
    <3>3. ByteBits * b >= 0
      BY <1>1, <2>1
    <3>4. n \in 0 .. ByteBits * WordBytes - 1
      BY <1>1, <3>2, <3>3
    <3> HIDE DEF n
    <3>5. QED
      BY <3>1, <3>4 DEF BitOf
  <2>4. QED
    BY <1>1, <2>2, <2>3, BitsDetermine
<1>3. QED
  BY <1>2 DEF Contents

\* Addresses and words stand for each other, one to one.
LEMMA Notation ==
    /\ \A word \in Contents : Address[word] \in Word /\ WordOf[Address[word]] = word
    /\ \A a \in Word : WordOf[a] \in Contents /\ Address[WordOf[a]] = a
<1> DEFINE Width == ByteBits * WordBytes
<1>1. Width \in Nat /\ AddrSpace = 2 ^ Width /\ AddrSpace \in Nat
  BY SizesAssumption, AddrSpaceAssumption
<1> HIDE DEF Width
<1>2. ASSUME NEW word \in Contents
      PROVE  \E a \in Word : WordOf[a] = word
  <2>1. PICK a \in 0 .. 2 ^ Width - 1 :
                 \A n \in 0 .. Width - 1 :
                     BitSet(a, n) <=> n \in {k \in 0 .. Width - 1 : BitOf(word, k)}
    BY <1>1, BitsExist
  <2>2. a \in Word
    BY <1>1, <2>1 DEF Word
  <2>3. /\ WordOf[a] \in Contents
        /\ \A n \in 0 .. Width - 1 : BitSet(a, n) <=> BitOf(WordOf[a], n)
    BY <2>2, WordBits DEF Width
  <2>4. \A n \in 0 .. Width - 1 : BitOf(WordOf[a], n) <=> BitOf(word, n)
    BY <2>1, <2>3
  <2>5. WordOf[a] = word
    BY <2>3, <2>4, BitsOfWord DEF Width
  <2>6. QED
    BY <2>2, <2>5
<1>3. ASSUME NEW a \in Word, NEW c \in Word, WordOf[a] = WordOf[c]
      PROVE  a = c
  <2>1. a \in Nat /\ c \in Nat /\ a < 2 ^ Width /\ c < 2 ^ Width
    BY <1>1 DEF Word
  <2>2. /\ \A n \in 0 .. Width - 1 : BitSet(a, n) <=> BitOf(WordOf[a], n)
        /\ \A n \in 0 .. Width - 1 : BitSet(c, n) <=> BitOf(WordOf[c], n)
    BY WordBits DEF Width
  <2>3. \A n \in 0 .. Width - 1 : BitSet(a, n) <=> BitSet(c, n)
    BY <1>3, <2>2
  <2>4. QED
    BY <1>1, <2>1, <2>3, BitsDetermine
<1>4. ASSUME NEW word \in Contents
      PROVE  Address[word] \in Word /\ WordOf[Address[word]] = word
  <2>1. Address[word] = CHOOSE a \in Word : WordOf[a] = word
    BY DEF Address
  <2>2. QED
    BY <1>2, <2>1
<1>5. ASSUME NEW a \in Word
      PROVE  WordOf[a] \in Contents /\ Address[WordOf[a]] = a
  <2>1. WordOf[a] \in Contents
    BY WordBits
  <2>2. QED
    BY <1>3, <1>4, <2>1
<1>6. QED
  BY <1>4, <1>5

-----------------------------------------------------------------------------
(* Lists.                                                                  *)

\* Lists of one value or two.
LEMMA Listed ==
    ASSUME NEW set, NEW list \in Promise!OneOrTwo(set)
    PROVE  /\ Len(list) \in {1, 2} /\ DOMAIN list = 1 .. Len(list)
           /\ list[1] \in set /\ (Len(list) = 2 => list[2] \in set)
BY DEF Promise!OneOrTwo

-----------------------------------------------------------------------------
(* Ranges of addresses.                                                    *)

\* An access is of 1 to 2 * WordBytes bytes.
LEMMA AccessSize ==
    ASSUME NEW n \in Sizes, NEW count \in {1, 2}
    PROVE  /\ n \in 1 .. WordBytes
           /\ Bytes(n, count) \in 1 .. 2 * WordBytes
           /\ Bytes(n, 1) = n /\ Bytes(n, 2) = n + n
           /\ WordBytes \in Nat
BY SizesAssumption DEF Bytes

\* A range that get_memory finds does not wrap.
LEMMA NoWrap ==
    ASSUME NEW a \in Word, NEW n \in 1 .. 2 * WordBytes, InMemory(a, n)
    PROVE  a + n = Plus(a, n) /\ a + n <= MemSize
BY SizesAssumption, AddrSpaceAssumption DEF InMemory, Plus, Word

\* Nor does one that ends at the stack pointer.
LEMMA NoWrapBelow ==
    ASSUME NEW a \in Word, NEW n \in 1 .. 2 * WordBytes, InMemory(Minus(a, n), n)
    PROVE  Minus(a, n) = a - n /\ a - n >= 0 /\ a <= MemSize /\ Minus(a, n) \in Word
BY SizesAssumption, AddrSpaceAssumption DEF InMemory, Plus, Minus, Word

-----------------------------------------------------------------------------
(* Writes.                                                                 *)

\* A write puts the low bytes of a value where it says and nowhere else.
LEMMA Writing ==
    ASSUME NEW m \in [Cells -> Byte], NEW a \in Nat, NEW n \in 1 .. WordBytes,
           NEW word \in Contents, a + n <= MemSize
    PROVE  /\ Write(m, a, n, word) \in [Cells -> Byte]
           /\ \A b \in 0 .. n - 1 : Write(m, a, n, word)[a + b] = word[b]
           /\ \A x \in Cells : x < a \/ x >= a + n => Write(m, a, n, word)[x] = m[x]
<1>1. MemSize \in Nat /\ WordBytes \in Nat
  BY SizesAssumption
<1>2. ASSUME NEW x \in Cells, x \in a .. a + n - 1
      PROVE  word[x - a] \in Byte
  <2>1. x - a \in Offsets
    BY <1>1, <1>2 DEF Offsets, Cells
  <2> QED BY <2>1 DEF Contents
<1>3. Write(m, a, n, word) \in [Cells -> Byte]
  BY <1>2 DEF Write
<1>4. ASSUME NEW b \in 0 .. n - 1
      PROVE  Write(m, a, n, word)[a + b] = word[b]
  <2>1. a + b \in Cells /\ a + b \in a .. a + n - 1 /\ (a + b) - a = b
    BY <1>1 DEF Cells
  <2> QED BY <2>1 DEF Write
<1>5. ASSUME NEW x \in Cells, x < a \/ x >= a + n
      PROVE  Write(m, a, n, word)[x] = m[x]
  BY <1>1, <1>5 DEF Write, Cells
<1> QED BY <1>3, <1>4, <1>5

\* One value or two, at a.
Values1(vals, m, a, n) == \A b \in 0 .. n - 1 : m[a + b] = vals[1][b]
Values2(vals, m, a, n) == \A b \in 0 .. n - 1 : m[a + n + b] = vals[2][b]

LEMMA WritingAll ==
    ASSUME mem \in [Cells -> Byte], NEW a \in Nat, NEW n \in Sizes,
           NEW vals \in Promise!OneOrTwo(Contents), a + Bytes(n, Len(vals)) <= MemSize
    PROVE  /\ WriteAll(a, n, vals) \in [Cells -> Byte]
           /\ Values1(vals, WriteAll(a, n, vals), a, n)
           /\ Len(vals) = 2 => Values2(vals, WriteAll(a, n, vals), a, n)
           /\ \A x \in Cells :
                  x < a \/ x >= a + Bytes(n, Len(vals)) => WriteAll(a, n, vals)[x] = mem[x]
<1>1. /\ n \in 1 .. WordBytes /\ WordBytes \in Nat /\ MemSize \in Nat
      /\ Bytes(n, 1) = n /\ Bytes(n, 2) = n + n
  BY AccessSize, SizesAssumption
<1>0. Len(vals) \in {1, 2} /\ vals[1] \in Contents /\ (Len(vals) = 2 => vals[2] \in Contents)
  BY Listed
<1> DEFINE one == Write(mem, a, n, vals[1])
<1>2. vals[1] \in Contents /\ a + n <= MemSize
  <2>1. n <= Bytes(n, Len(vals)) /\ Bytes(n, Len(vals)) \in Nat
    BY <1>0, <1>1 DEF Bytes
  <2> QED BY <1>0, <1>1, <2>1
<1>3. /\ one \in [Cells -> Byte]
      /\ \A b \in 0 .. n - 1 : one[a + b] = vals[1][b]
      /\ \A x \in Cells : x < a \/ x >= a + n => one[x] = mem[x]
  BY <1>1, <1>2, Writing
<1>4. CASE Len(vals) = 1
  BY <1>1, <1>3, <1>4 DEF WriteAll, Values1
<1>5. CASE Len(vals) = 2
  <2> DEFINE two == Write(one, a + n, n, vals[2])
  <2>1. vals[2] \in Contents /\ a + n \in Nat /\ (a + n) + n <= MemSize
    BY <1>0, <1>1, <1>5
  <2> HIDE DEF one
  <2>2. /\ two \in [Cells -> Byte]
        /\ \A b \in 0 .. n - 1 : two[(a + n) + b] = vals[2][b]
        /\ \A x \in Cells : x < a + n \/ x >= (a + n) + n => two[x] = one[x]
    BY <1>1, <1>3, <2>1, Writing, Zenon
  <2>3. WriteAll(a, n, vals) = two
    BY <1>5 DEF WriteAll, one
  <2> HIDE DEF two
  <2>4. ASSUME NEW b \in 0 .. n - 1
        PROVE  two[a + b] = vals[1][b]
    <3>1. a + b \in Cells /\ a + b < a + n
      BY <1>1, <1>2 DEF Cells
    <3> QED BY <3>1, <2>2, <1>3
  <2>5. ASSUME NEW x \in Cells, x < a \/ x >= a + (n + n)
        PROVE  two[x] = mem[x]
    <3>1. (x < a + n \/ x >= (a + n) + n) /\ (x < a \/ x >= a + n)
      BY <1>1, <2>5 DEF Cells
    <3> QED BY <3>1, <2>2, <1>3
  <2> QED BY <1>1, <1>5, <2>2, <2>3, <2>4, <2>5 DEF Values1, Values2
<1> QED BY <1>0, <1>4, <1>5

\* Registers take values of memory.
LEMMA ReadingAll ==
    ASSUME mem \in [Cells -> Byte], NEW a \in Nat, NEW n \in Sizes, NEW count \in {1, 2},
           a + Bytes(n, count) <= MemSize
    PROVE  ReadAll(a, n, count) \in Promise!OneOrTwo(Contents) /\ Len(ReadAll(a, n, count)) = count
<1>1. n \in 1 .. WordBytes /\ WordBytes \in Nat /\ MemSize \in Nat /\ 0 \in Byte
      /\ Bytes(n, 1) = n /\ Bytes(n, 2) = n + n
  BY AccessSize, SizesAssumption, ZeroByte
<1>2. ASSUME NEW at \in Nat, at + n <= MemSize
      PROVE  Read(at, n) \in Contents
  <2>1. ASSUME NEW b \in Offsets, b < n
        PROVE  mem[at + b] \in Byte
    BY <1>1, <1>2, <2>1 DEF Offsets, Cells
  <2> QED BY <1>1, <2>1 DEF Read, Contents
<1>3. Read(a, n) \in Contents
  BY <1>1, <1>2
<1>4. count = 2 => Read(a + n, n) \in Contents
  <2>1. count = 2 => a + n \in Nat /\ (a + n) + n <= MemSize
    BY <1>1
  <2> QED BY <2>1, <1>2
<1> QED BY <1>3, <1>4 DEF ReadAll, Promise!OneOrTwo

LEMMA SettingOne ==
    ASSUME NEW old \in Contents, NEW n \in Sizes, NEW word \in Contents
    PROVE  Set(old, n, word) \in Contents
BY DEF Set, Promise!Set, Contents

LEMMA Receiving ==
    ASSUME NEW file \in [Regs -> Contents], NEW dsts \in Operands, NEW n \in Sizes,
           NEW vals \in Promise!OneOrTwo(Contents), Len(vals) = Len(dsts)
    PROVE  ReceivedAll(file, dsts, n, vals) \in [Regs -> Contents]
<1>1. ASSUME NEW f \in [Regs -> Contents], NEW r \in Regs \cup {"null"}, NEW word \in Contents
      PROVE  Promise!Received(f, r, n, word) \in [Regs -> Contents]
  <2>1. CASE r = "null"
    BY <2>1 DEF Promise!Received
  <2>2. CASE r # "null"
    <3>1. r \in Regs /\ f[r] \in Contents
      BY <2>2
    <3>2. Promise!Set(f[r], n, word) \in Contents
      BY <3>1, SettingOne DEF Set
    <3> QED BY <2>2, <3>1, <3>2 DEF Promise!Received
  <2> QED BY <2>1, <2>2
<1>2. /\ Len(dsts) \in {1, 2} /\ dsts[1] \in Regs \cup {"null"}
      /\ (Len(dsts) = 2 => dsts[2] \in Regs \cup {"null"})
  BY Listed DEF Operands, Promise!Operands
<1>3. vals[1] \in Contents /\ (Len(dsts) = 2 => vals[2] \in Contents)
  BY Listed
<1> QED BY <1>1, <1>2, <1>3 DEF ReceivedAll, Promise!ReceivedAll

-----------------------------------------------------------------------------
(* Frames.                                                                 *)

\* The values of a frame lie in so many bytes below its stack pointer.
LEMMA FrameSize ==
    ASSUME NEW f \in Frame
    PROVE  /\ f.n \in Sizes /\ f.sp \in Contents /\ f.vals \in Promise!OneOrTwo(Contents)
           /\ Address[f.sp] \in Word /\ AddrSpace \in Nat
           /\ Len(f.vals) \in {1, 2}
           /\ Bytes(f.n, Len(f.vals)) \in 1 .. 2 * WordBytes /\ WordBytes \in Nat
           /\ At(f) = Address[f.sp] - Bytes(f.n, Len(f.vals))
           /\ At(f) \in Int /\ At(f) < Address[f.sp]
<1>1. f.n \in Sizes /\ f.sp \in Contents /\ f.vals \in Promise!OneOrTwo(Contents)
  BY DEF Frame
<1>2. Len(f.vals) \in {1, 2}
  BY <1>1, Listed
<1>3. Bytes(f.n, Len(f.vals)) \in 1 .. 2 * WordBytes /\ WordBytes \in Nat
  BY <1>1, <1>2, AccessSize
<1>4. Address[f.sp] \in Word /\ AddrSpace \in Nat
  BY <1>1, Notation, AddrSpaceAssumption
<1> QED BY <1>1, <1>2, <1>3, <1>4 DEF At, Word

\* A frame stays intact while its bytes do.
LEMMA FrameKept ==
    ASSUME NEW m, NEW m2, NEW f \in Frame, Intact(m, f),
           \A x \in Cells : At(f) <= x /\ x < Address[f.sp] => m2[x] = m[x]
    PROVE  Intact(m2, f)
<1>0. /\ f.n \in Sizes /\ Len(f.vals) \in {1, 2} /\ Address[f.sp] \in Word /\ AddrSpace \in Nat
      /\ At(f) = Address[f.sp] - Bytes(f.n, Len(f.vals))
      /\ 0 <= At(f) /\ Address[f.sp] <= MemSize
  BY FrameSize DEF Intact
<1>4. /\ f.n \in 1 .. WordBytes /\ WordBytes \in Nat /\ MemSize \in Nat
      /\ Bytes(f.n, 1) = f.n /\ Bytes(f.n, 2) = f.n + f.n
  BY <1>0, AccessSize, SizesAssumption
<1> DEFINE top == Address[f.sp]
<1>1. /\ At(f) \in Nat /\ top \in Nat /\ f.n \in Nat /\ At(f) + f.n <= top
      /\ (Len(f.vals) = 2 => At(f) + f.n + f.n = top)
      /\ top <= MemSize /\ MemSize \in Nat
  <2>1. top \in Nat
    BY <1>0 DEF Word
  <2>2. CASE Len(f.vals) = 1
    BY <1>0, <1>4, <2>1, <2>2
  <2>3. CASE Len(f.vals) = 2
    BY <1>0, <1>4, <2>1, <2>3
  <2> QED BY <1>0, <2>2, <2>3
<1> HIDE DEF top
<1>2. ASSUME NEW b \in 0 .. f.n - 1
      PROVE  m2[At(f) + b] = f.vals[1][b]
  <2>1. At(f) + b \in Cells /\ At(f) <= At(f) + b /\ At(f) + b < top
    BY <1>1 DEF Cells
  <2>2. m[At(f) + b] = f.vals[1][b]
    BY DEF Intact, Holds
  <2> QED BY <2>1, <2>2 DEF top
<1>3. ASSUME Len(f.vals) = 2, NEW b \in 0 .. f.n - 1
      PROVE  m2[At(f) + f.n + b] = f.vals[2][b]
  <2>1. /\ At(f) + f.n + b \in Cells
        /\ At(f) <= At(f) + f.n + b /\ At(f) + f.n + b < top
    BY <1>1, <1>3 DEF Cells
  <2>2. m[At(f) + f.n + b] = f.vals[2][b]
    BY <1>3 DEF Intact, Holds
  <2> QED BY <2>1, <2>2 DEF top
<1> QED BY <1>0, <1>2, <1>3 DEF Intact, Holds

\* Frames do not lie below the stack pointer.
LEMMA AboveTop ==
    ASSUME NEW frames \in Seq(Frame), NEW top \in Int, Nested(frames, top),
           NEW j \in DOMAIN frames
    PROVE  frames[j] \in Frame /\ top <= At(frames[j])
<1> DEFINE last == Len(frames)
<1>1. last \in DOMAIN frames /\ frames[last] \in Frame /\ frames[j] \in Frame
      /\ j \in 1 .. last /\ last \in Nat
  OBVIOUS
<1>2. At(frames[last]) = top /\ top < Address[frames[last].sp]
  BY <1>1, FrameSize DEF Nested
<1>3. CASE j = last
  BY <1>1, <1>2, <1>3
<1>4. CASE j # last
  <2>1. j \in 1 .. last - 1
    BY <1>1, <1>4
  <2>2. Address[frames[last].sp] <= At(frames[j])
    BY <1>1, <2>1 DEF Nested
  <2>3. Address[frames[last].sp] \in Int /\ At(frames[j]) \in Int
    BY <1>1, FrameSize DEF Word
  <2> QED BY <1>1, <1>2, <2>2, <2>3
<1> QED BY <1>3, <1>4

\* A frame may be put at the end, right below.
LEMMA NestedOneMore ==
    ASSUME NEW frames \in Seq(Frame), NEW top \in Int, Nested(frames, top),
           NEW f \in Frame, Address[f.sp] = top
    PROVE  /\ Append(frames, f) \in Seq(Frame)
           /\ Nested(Append(frames, f), At(f))
<1> DEFINE more == Append(frames, f)
           last == Len(frames)
<1>1. /\ more \in Seq(Frame) /\ Len(more) = last + 1 /\ last \in Nat
      /\ DOMAIN more = 1 .. last + 1 /\ DOMAIN frames = 1 .. last
      /\ more[last + 1] = f /\ \A j \in 1 .. last : more[j] = frames[j]
  OBVIOUS
<1> HIDE DEF more, last
<1>2. ASSUME NEW j \in DOMAIN more
      PROVE  /\ \A k \in 1 .. j - 1 : Address[more[j].sp] <= At(more[k])
             /\ At(more[j]) = IF j = Len(more) THEN At(f) ELSE Address[more[j + 1].sp]
  <2>1. CASE j = last + 1
    <3>1. \A k \in 1 .. last : top <= At(frames[k])
      BY <1>1, AboveTop
    <3> QED BY <1>1, <2>1, <3>1
  <2>2. CASE j \in 1 .. last
    <3>1. /\ \A k \in 1 .. j - 1 : Address[frames[j].sp] <= At(frames[k])
          /\ At(frames[j]) = IF j = last THEN top ELSE Address[frames[j + 1].sp]
      BY <1>1, <2>2 DEF Nested, last
    <3>2. j # Len(more) /\ j \in Nat /\ more[j] = frames[j] /\ (j # last => more[j + 1] = frames[j + 1])
      BY <1>1, <2>2
    <3>3. \A k \in 1 .. j - 1 : more[k] = frames[k]
      BY <1>1, <2>2
    <3>4. j = last => Address[more[j + 1].sp] = top
      BY <1>1
    <3> QED BY <3>1, <3>2, <3>3, <3>4
  <2> QED BY <1>1, <2>1, <2>2
<1>3. Nested(more, At(f))
  BY <1>2 DEF Nested
<1> QED BY <1>1, <1>3 DEF more

\* The last frame may be taken away.
LEMMA NestedOneLess ==
    ASSUME NEW frames \in Seq(Frame), frames # <<>>, NEW top, Nested(frames, top)
    PROVE  /\ SubSeq(frames, 1, Len(frames) - 1) \in Seq(Frame)
           /\ Nested(SubSeq(frames, 1, Len(frames) - 1), Address[frames[Len(frames)].sp])
           /\ \A j \in DOMAIN SubSeq(frames, 1, Len(frames) - 1) :
                  /\ j \in DOMAIN frames
                  /\ SubSeq(frames, 1, Len(frames) - 1)[j] = frames[j]
<1> DEFINE less == SubSeq(frames, 1, Len(frames) - 1)
           last == Len(frames)
<1>1. /\ less \in Seq(Frame) /\ Len(less) = last - 1 /\ last \in Nat /\ last >= 1
      /\ DOMAIN less = 1 .. last - 1 /\ DOMAIN frames = 1 .. last
      /\ \A j \in 1 .. last - 1 : less[j] = frames[j]
  <2>1. last \in Nat /\ last >= 1 /\ DOMAIN frames = 1 .. last
        /\ \A j \in 1 .. last - 1 : frames[j] \in Frame
    OBVIOUS
  <2>2. /\ less \in Seq(Frame) /\ Len(less) = IF 1 <= last - 1 THEN last - 1 - 1 + 1 ELSE 0
        /\ \A j \in 1 .. last - 1 - 1 + 1 : less[j] = frames[1 + j - 1]
    BY <2>1, SubSeqProperties
  <2>3. \A j \in 1 .. last - 1 : 1 + j - 1 = j /\ j \in 1 .. last - 1 - 1 + 1
    BY <2>1
  <2> HIDE DEF less, last
  <2>4. Len(less) = last - 1
    BY <2>1, <2>2
  <2> QED BY <2>1, <2>2, <2>3, <2>4
<1> HIDE DEF less
<1>2. ASSUME NEW j \in DOMAIN less
      PROVE  /\ \A k \in 1 .. j - 1 : Address[less[j].sp] <= At(less[k])
             /\ At(less[j]) = IF j = Len(less) THEN Address[frames[last].sp]
                              ELSE Address[less[j + 1].sp]
  <2>1. j \in DOMAIN frames /\ j # last /\ less[j] = frames[j]
        /\ (j # Len(less) => less[j + 1] = frames[j + 1]) /\ (j = Len(less) => j + 1 = last)
    BY <1>1
  <2>2. /\ \A k \in 1 .. j - 1 : Address[frames[j].sp] <= At(frames[k])
        /\ At(frames[j]) = Address[frames[j + 1].sp]
    BY <2>1 DEF Nested
  <2>3. \A k \in 1 .. j - 1 : less[k] = frames[k]
    BY <1>1
  <2> QED BY <2>1, <2>2, <2>3
<1>3. Nested(less, Address[frames[last].sp])
  BY <1>2 DEF Nested
<1> QED BY <1>1, <1>3 DEF less

\* There is nothing to say of no frames.
LEMMA NoFrames ==
    ASSUME NEW top, NEW m
    PROVE  <<>> \in Seq(Frame) /\ Nested(<<>>, top) /\ \A j \in DOMAIN <<>> : Intact(m, <<>>[j])
BY DEF Nested

-----------------------------------------------------------------------------
(* Pushes and pops.                                                        *)

\* The low bytes of a value are a value, and are their own low bytes.
LEMMA LowBytes ==
    ASSUME NEW n \in Sizes, NEW word \in Contents
    PROVE  Low(word, n) \in Contents /\ Low(Low(word, n), n) = Low(word, n)
<1>1. 0 \in Byte
  BY SizesAssumption, ZeroByte
<1> QED BY <1>1 DEF Low, Promise!Low, Contents

\* An operand of a push has a value.
LEMMA OperandValue ==
    ASSUME regs \in [Regs -> Contents], NEW r \in Regs \cup {"null"}
    PROVE  ValueOf(r) \in Contents
<1>1. SP \in Regs /\ 0 \in Byte
  BY SizesAssumption, ZeroByte
<1>2. Promise!Zeros(regs[SP]) \in Contents
  BY <1>1 DEF Promise!Zeros, Contents
<1> QED BY <1>2 DEF ValueOf, Promise!ValueOf

\* What a push is to write.
Pushed(i) == [k \in DOMAIN i.srcs |-> Low(ValueOf(i.srcs[k]), i.n)]
PushedFrame(i) == [n |-> i.n, sp |-> regs[SP], vals |-> Pushed(i)]

LEMMA PushedValues ==
    ASSUME TypeOK, NEW i \in Instrs, i.op = "push"
    PROVE  /\ i.n \in Sizes /\ i.srcs \in Operands
           /\ regs[SP] \in Contents /\ StackTop \in Word
           /\ Pushed(i) \in Promise!OneOrTwo(Contents) /\ Len(Pushed(i)) = Len(i.srcs)
           /\ \A k \in DOMAIN Pushed(i) : Pushed(i)[k] = Low(Pushed(i)[k], i.n)
           /\ PushedFrame(i) \in Frame
<1>1. i.n \in Sizes /\ i.srcs \in Operands
  BY ProgramAssumption DEF IsInstr
<1>2. SP \in Regs /\ regs[SP] \in Contents /\ StackTop \in Word
  BY SizesAssumption, Notation DEF TypeOK, StackTop
<1>3. \A k \in DOMAIN i.srcs : i.srcs[k] \in Regs \cup {"null"}
  BY <1>1 DEF Operands, Promise!Operands, Promise!OneOrTwo
<1>4. \A k \in DOMAIN i.srcs : ValueOf(i.srcs[k]) \in Contents
  BY <1>3, OperandValue DEF TypeOK
<1>5. \A k \in DOMAIN i.srcs : /\ Low(ValueOf(i.srcs[k]), i.n) \in Contents
                               /\ Low(Low(ValueOf(i.srcs[k]), i.n), i.n) = Low(ValueOf(i.srcs[k]), i.n)
  BY <1>1, <1>4, LowBytes
<1>6. i.srcs \in [1 .. 1 -> Regs \cup {"null"}] \cup [1 .. 2 -> Regs \cup {"null"}]
  BY <1>1 DEF Operands, Promise!Operands, Promise!OneOrTwo
<1>7. Pushed(i) \in Promise!OneOrTwo(Contents)
  BY <1>5, <1>6 DEF Pushed, Promise!OneOrTwo
<1>8. Len(Pushed(i)) = Len(i.srcs)
  BY <1>6 DEF Pushed
<1>9. \A k \in DOMAIN Pushed(i) : Pushed(i)[k] = Low(Pushed(i)[k], i.n)
  BY <1>5 DEF Pushed
<1>10. PushedFrame(i) \in Frame
  BY <1>1, <1>2, <1>7 DEF PushedFrame, Frame
<1> QED BY <1>1, <1>2, <1>7, <1>8, <1>9, <1>10

\* A push either faults or puts an intact frame below the stack pointer, and
\* writes nowhere else.
PushDone(i) ==
    /\ mem' \in [Cells -> Byte]
    /\ \A x \in Cells : x < At(PushedFrame(i)) \/ x >= StackTop => mem'[x] = mem[x]
    /\ Intact(mem', PushedFrame(i))
    /\ At(PushedFrame(i)) \in Word
    /\ regs' = [regs EXCEPT ![SP] = WordOf[At(PushedFrame(i))]]
    /\ saved' = Append(saved, PushedFrame(i))
    /\ status' = status

LEMMA Pushing ==
    ASSUME TypeOK, NEW i \in Instrs, i.op = "push", Push(i)
    PROVE  UNCHANGED vars \/ PushDone(i)
<1> DEFINE count == Len(i.srcs)
           size == Bytes(i.n, count)
           sp == Minus(StackTop, size)
           vals == Pushed(i)
           f == PushedFrame(i)
<1>1. /\ i.n \in Sizes /\ StackTop \in Word /\ vals \in Promise!OneOrTwo(Contents)
      /\ Len(vals) = count /\ \A k \in DOMAIN vals : vals[k] = Low(vals[k], i.n)
  BY PushedValues
<1>2. count \in {1, 2}
  BY <1>1, Listed
<1>3. size \in 1 .. 2 * WordBytes /\ i.n \in 1 .. WordBytes
  BY <1>1, <1>2, AccessSize
<1>4. CASE ~InMemory(sp, size)
  BY <1>4 DEF Push, Fault
<1>5. CASE InMemory(sp, size)
  <2>1. /\ sp = StackTop - size /\ sp >= 0 /\ StackTop <= MemSize /\ sp \in Word
    BY <1>1, <1>3, <1>5, NoWrapBelow
  <2>2. StackTop \in Nat /\ sp \in Nat /\ sp + size = StackTop /\ size \in Nat
    BY <1>1, <1>3, <2>1, AddrSpaceAssumption, SizesAssumption DEF Word
  <2>3. mem \in [Cells -> Byte]
    BY DEF TypeOK, Cells
  <2>4. /\ WriteAll(sp, i.n, vals) \in [Cells -> Byte]
        /\ Values1(vals, WriteAll(sp, i.n, vals), sp, i.n)
        /\ count = 2 => Values2(vals, WriteAll(sp, i.n, vals), sp, i.n)
        /\ \A x \in Cells : x < sp \/ x >= sp + size => WriteAll(sp, i.n, vals)[x] = mem[x]
    <3> HIDE DEF sp, vals
    <3> QED BY <1>1, <2>1, <2>2, <2>3, WritingAll
  <2>5. At(f) = sp /\ Address[f.sp] = StackTop /\ f.n = i.n /\ f.vals = vals
    BY <1>1, <2>1 DEF At, PushedFrame, StackTop
  <2>6. /\ mem' = WriteAll(sp, i.n, vals)
        /\ regs' = [regs EXCEPT ![SP] = WordOf[sp]]
        /\ saved' = Append(saved, f)
        /\ status' = status
    BY <1>5 DEF Push, Pushed, PushedFrame
  <2> HIDE DEF f, vals, sp, size
  <2>7. Intact(mem', f)
    BY <1>1, <2>1, <2>4, <2>5, <2>6 DEF Intact, Holds, Values1, Values2
  <2>8. mem' \in [Cells -> Byte] /\ \A x \in Cells : x < sp \/ x >= StackTop => mem'[x] = mem[x]
    BY <2>2, <2>4, <2>6
  <2> QED BY <2>1, <2>5, <2>6, <2>7, <2>8 DEF PushDone, f
<1> QED BY <1>4, <1>5

\* A pop of what was pushed last does not fault and reads its values.
LEMMA ReadsBack ==
    ASSUME TypeOK, StackHolds, NEW n \in Sizes, NEW count \in {1, 2}, Matches(n, count)
    PROVE  LET last == saved[Len(saved)]
           IN  /\ InMemory(StackTop, Bytes(n, count))
               /\ ReadAll(StackTop, n, count) = last.vals
               /\ Plus(StackTop, Bytes(n, count)) = Address[last.sp]
<1> DEFINE last == saved[Len(saved)]
           size == Bytes(n, count)
<1>1. saved \in Seq(Frame) /\ saved # <<>>
  BY DEF TypeOK, Matches
<1>2. last \in Frame /\ Len(saved) \in DOMAIN saved
  BY <1>1
<1>3. last.n = n /\ Len(last.vals) = count
  BY DEF Matches
<1>4. Intact(mem, last) /\ At(last) = StackTop
  BY <1>2 DEF StackHolds, Nested
<1> HIDE DEF last
<1>5. /\ last.vals \in Promise!OneOrTwo(Contents) /\ last.sp \in Contents
      /\ Address[last.sp] \in Word /\ size \in 1 .. 2 * WordBytes
      /\ StackTop = Address[last.sp] - size
      /\ 0 <= StackTop /\ Address[last.sp] <= MemSize
  BY <1>2, <1>3, <1>4, FrameSize DEF Intact
<1>6. StackTop \in Nat /\ Plus(StackTop, size) = Address[last.sp] /\ InMemory(StackTop, size)
  BY <1>5, AddrSpaceAssumption, SizesAssumption DEF InMemory, Plus, Word
<1>7. ASSUME NEW a \in Nat, NEW word \in Contents, Holds(mem, a, n, word), word = Low(word, n)
      PROVE  Read(a, n) = word
  <2>1. n \in 1 .. WordBytes /\ WordBytes \in Nat
    BY AccessSize
  <2>2. \A b \in Offsets : b < n => mem[a + b] = word[b]
    BY <1>7, <2>1 DEF Holds, Offsets
  <2>3. \A b \in Offsets : ~(b < n) => word[b] = 0
    BY <1>7 DEF Low, Promise!Low, Contents
  <2>4. word = [b \in Offsets |-> word[b]]
    BY DEF Contents
  <2> QED BY <2>2, <2>3, <2>4 DEF Read
<1>8. last.vals[1] \in Contents /\ (count = 2 => last.vals[2] \in Contents)
      /\ 1 \in DOMAIN last.vals /\ (count = 2 => 2 \in DOMAIN last.vals)
  BY <1>3, <1>5, Listed
<1>9. Read(StackTop, n) = last.vals[1]
  BY <1>3, <1>4, <1>6, <1>7, <1>8 DEF Intact
<1>10. count = 2 => Read(StackTop + n, n) = last.vals[2]
  <2>1. n \in Nat
    BY AccessSize
  <2>2. StackTop + n \in Nat
    BY <1>6, <2>1
  <2> QED BY <1>3, <1>4, <2>2, <1>7, <1>8 DEF Intact
<1>11. last.vals = IF count = 1 THEN <<last.vals[1]>> ELSE <<last.vals[1], last.vals[2]>>
  BY <1>3, <1>5 DEF Promise!OneOrTwo
<1> QED BY <1>6, <1>9, <1>10, <1>11 DEF ReadAll, last

\* A pop faults, or loses track of the stack, or restores what was pushed.
PopDone(i) ==
    /\ regs' \in [Regs -> Contents]
    /\ mem' = mem /\ status' = status
    /\ \/ saved' = <<>> /\ ~Undoes(i)
       \/ /\ Undoes(i) /\ Promise!Restore(i.dsts)
          /\ regs'[SP] = saved[Len(saved)].sp

LEMMA Popping ==
    ASSUME TypeOK, StackHolds, NEW i \in Instrs, i.op = "pop", Pop(i)
    PROVE  \/ UNCHANGED vars /\ ~Undoes(i)
           \/ PopDone(i)
<1> DEFINE count == Len(i.dsts)
           size == Bytes(i.n, count)
           file == ReceivedAll(regs, i.dsts, i.n, ReadAll(StackTop, i.n, count))
           last == saved[Len(saved)]
<1>1. i.n \in Sizes /\ i.dsts \in Operands /\ count \in {1, 2}
  <2>1. i.n \in Sizes /\ i.dsts \in Operands
    BY ProgramAssumption DEF IsInstr
  <2> QED BY <2>1, Listed DEF Operands, Promise!Operands
<1>2. size \in 1 .. 2 * WordBytes
  BY <1>1, AccessSize
<1>3. SP \in Regs /\ regs \in [Regs -> Contents] /\ StackTop \in Word
      /\ mem \in [Cells -> Byte]
  BY SizesAssumption, Notation DEF TypeOK, StackTop, Cells
<1>4. CASE ~InMemory(StackTop, size)
  <2>1. UNCHANGED vars
    BY <1>4 DEF Pop, Fault
  <2>2. ~Undoes(i)
    BY <1>1, <1>4, ReadsBack DEF Undoes
  <2> QED BY <2>1, <2>2
<1>5. CASE InMemory(StackTop, size)
  <2>1. StackTop + size <= MemSize /\ StackTop \in Nat /\ Plus(StackTop, size) \in Word
    BY <1>2, <1>3, <1>5, NoWrap, SizesAssumption, AddrSpaceAssumption DEF Word, Plus
  <2>2. /\ ReadAll(StackTop, i.n, count) \in Promise!OneOrTwo(Contents)
        /\ Len(ReadAll(StackTop, i.n, count)) = count
    BY <1>1, <1>3, <2>1, ReadingAll
  <2>3. file \in [Regs -> Contents]
    BY <1>1, <1>3, <2>2, Receiving
  <2>4. /\ regs' = [file EXCEPT ![SP] = WordOf[Plus(StackTop, size)]]
        /\ saved' = IF Undoes(i) THEN SubSeq(saved, 1, Len(saved) - 1) ELSE <<>>
        /\ mem' = mem /\ status' = status
    BY <1>5 DEF Pop
  <2>5. WordOf[Plus(StackTop, size)] \in Contents
    BY <2>1, Notation
  <2>6. /\ regs' \in [Regs -> Contents]
        /\ regs'[SP] = WordOf[Plus(StackTop, size)]
    <3> HIDE DEF file
    <3> QED BY <1>3, <2>3, <2>4, <2>5
  <2>7. CASE ~Undoes(i)
    BY <2>4, <2>6, <2>7 DEF PopDone
  <2>8. CASE Undoes(i)
    <3>1. /\ ReadAll(StackTop, i.n, count) = last.vals
          /\ Plus(StackTop, size) = Address[last.sp]
      <4>1. Matches(i.n, count)
        BY <2>8 DEF Undoes
      <4> QED BY <1>1, <4>1, ReadsBack
    <3>2. saved # <<>> /\ last.n = i.n /\ Len(last.vals) = count
      BY <2>8 DEF Undoes, Matches
    <3>3. last \in Frame
      BY <3>2 DEF TypeOK
    <3>4. last.sp \in Contents
      BY <3>3 DEF Frame
    <3>5. WordOf[Plus(StackTop, size)] = last.sp
      BY <3>1, <3>4, Notation
    <3>6. regs' = [Promise!ReceivedAll(regs, i.dsts, last.n, last.vals) EXCEPT ![SP] = last.sp]
      BY <2>4, <3>1, <3>2, <3>5 DEF ReceivedAll
    <3>7. Promise!Restore(i.dsts)
      BY <2>4, <2>8, <3>2, <3>6 DEF Promise!Restore, Undoes
    <3> QED BY <2>4, <2>6, <2>8, <3>5, <3>7 DEF PopDone
  <2> QED BY <2>7, <2>8
<1> QED BY <1>4, <1>5

-----------------------------------------------------------------------------
(* The other instructions.                                                 *)

\* A load changes registers only, and forgets the stack if the stack pointer
\* is one of them.
LEMMA Loading ==
    ASSUME TypeOK, NEW i \in Instrs, i.op = "load", Load(i)
    PROVE  \/ UNCHANGED vars
           \/ regs' \in [Regs -> Contents] /\ saved' = Forget /\ mem' = mem /\ status' = status
<1> DEFINE a == Address[regs[i.a]]
           count == Len(i.dsts)
           size == Bytes(i.n, count)
<1>1. /\ i.n \in Sizes /\ i.a \in Regs
      /\ i.dsts \in Promise!OneOrTwo(Regs) /\ count \in {1, 2}
  <2>1. i.n \in Sizes /\ i.a \in Regs /\ i.dsts \in Promise!OneOrTwo(Regs)
    BY ProgramAssumption DEF IsInstr
  <2> QED BY <2>1, Listed
<1>2. size \in 1 .. 2 * WordBytes
  BY <1>1, AccessSize
<1>3. regs \in [Regs -> Contents] /\ a \in Word /\ mem \in [Cells -> Byte]
  BY <1>1, Notation DEF TypeOK, Cells
<1>4. CASE ~InMemory(a, size)
  BY <1>4 DEF Load, Fault
<1>5. CASE InMemory(a, size)
  <2>1. a + size <= MemSize /\ a \in Nat
    BY <1>2, <1>3, <1>5, NoWrap, AddrSpaceAssumption DEF Word
  <2>2. /\ ReadAll(a, i.n, count) \in Promise!OneOrTwo(Contents)
        /\ Len(ReadAll(a, i.n, count)) = count
    BY <1>1, <1>3, <2>1, ReadingAll
  <2>3. i.dsts \in Operands
    BY <1>1 DEF Operands, Promise!Operands, Promise!OneOrTwo
  <2>4. ReceivedAll(regs, i.dsts, i.n, ReadAll(a, i.n, count)) \in [Regs -> Contents]
    BY <1>1, <1>3, <2>2, <2>3, Receiving
  <2> QED BY <1>5, <2>4 DEF Load
<1> QED BY <1>4, <1>5

\* A store writes the bytes of its size at its address, if anything.
StoreDone(i) ==
    LET a == Address[regs[i.a]]
    IN  /\ mem' \in [Cells -> Byte]
        /\ a \in Nat /\ i.n \in Nat
        /\ \A x \in Cells : x < a \/ x >= a + i.n => mem'[x] = mem[x]
        /\ saved' = Spared(a, i.n)
        /\ regs' = regs
        /\ status' \in {status, "bounds"}

LEMMA Storing ==
    ASSUME TypeOK, NEW i \in Instrs, i.op = "store", Store(i) \/ StorePair(i)
    PROVE  UNCHANGED vars \/ StoreDone(i)
<1> DEFINE a == Address[regs[i.a]]
           word == regs[i.srcs[1]]
<1>1. /\ i.n \in Sizes /\ i.a \in Regs /\ i.srcs[1] \in Regs
  <2>1. i.n \in Sizes /\ i.a \in Regs /\ i.srcs \in Promise!OneOrTwo(Regs)
    BY ProgramAssumption DEF IsInstr
  <2> QED BY <2>1, Listed
<1>2. /\ i.n \in 1 .. WordBytes /\ i.n \in 1 .. 2 * WordBytes /\ WordBytes \in Nat
      /\ Bytes(i.n, 1) = i.n
  BY <1>1, AccessSize
<1>3. a \in Word /\ word \in Contents /\ mem \in [Cells -> Byte]
  BY <1>1, Notation DEF TypeOK, Cells
<1>4. CASE ~InMemory(a, i.n)
  BY <1>4 DEF Store, StorePair, Fault
<1>5. CASE InMemory(a, i.n)
  <2>1. a + i.n <= MemSize /\ a \in Nat /\ i.n \in Nat
    BY <1>2, <1>3, <1>5, NoWrap, AddrSpaceAssumption DEF Word
  <2>2. mem' = Write(mem, a, i.n, word)
    BY <1>5 DEF Store, StorePair, WriteAll
  <2>3. /\ mem' \in [Cells -> Byte]
        /\ \A x \in Cells : x < a \/ x >= a + i.n => mem'[x] = mem[x]
    BY <1>2, <1>3, <2>1, <2>2, Writing
  <2>4. saved' = Spared(a, i.n) /\ regs' = regs /\ status' \in {status, "bounds"}
    BY <1>5 DEF Store, StorePair
  <2> QED BY <2>1, <2>3, <2>4 DEF StoreDone
<1> QED BY <1>4, <1>5

-----------------------------------------------------------------------------
(* The invariant.                                                          *)

\* Nothing pushed is nothing to lose.
LEMMA EmptyStack ==
    ASSUME saved = <<>>
    PROVE  saved \in Seq(Frame) /\ StackHolds
BY NoFrames DEF StackHolds, Nested

\* A step of no push, pop or write to a frame keeps the stack.
LEMMA StackKept ==
    ASSUME TypeOK, StackHolds, regs'[SP] = regs[SP], saved' = saved,
           \A j \in DOMAIN saved, x \in Cells :
               At(saved[j]) <= x /\ x < Address[saved[j].sp] => mem'[x] = mem[x]
    PROVE  StackHolds'
<1>1. \A j \in DOMAIN saved : saved[j] \in Frame
  BY DEF TypeOK
<1>2. ASSUME NEW j \in DOMAIN saved
      PROVE  Intact(mem', saved[j])
  BY <1>1, FrameKept DEF StackHolds
<1> QED BY <1>2 DEF StackHolds, StackTop

LEMMA Initially == Init => IInv
<1> SUFFICES ASSUME Init PROVE IInv
  OBVIOUS
<1>1. 0 \in Byte
  BY SizesAssumption, ZeroByte
<1>2. saved \in Seq(Frame) /\ StackHolds
  BY EmptyStack DEF Init
<1> QED BY <1>1, <1>2 DEF Init, IInv, TypeOK, NothingYet, Contents

LEMMA PushKeeps ==
    ASSUME IInv, NEW i \in Instrs, i.op = "push", Running, PushDone(i)
    PROVE  IInv'
<1> DEFINE f == PushedFrame(i)
<1>1. f \in Frame /\ saved \in Seq(Frame) /\ SP \in Regs /\ MemSize \in Nat
      /\ StackTop = Address[f.sp] /\ StackTop \in Word /\ AddrSpace \in Nat
      /\ Nested(saved, StackTop)
  BY PushedValues, SizesAssumption, AddrSpaceAssumption
     DEF IInv, TypeOK, StackHolds, PushedFrame, StackTop
<1> HIDE DEF f
<1>2. /\ mem' \in [Cells -> Byte]
      /\ \A x \in Cells : x < At(f) \/ x >= StackTop => mem'[x] = mem[x]
      /\ Intact(mem', f) /\ At(f) \in Word
      /\ regs' = [regs EXCEPT ![SP] = WordOf[At(f)]]
      /\ saved' = Append(saved, f) /\ status' = status
  BY DEF PushDone, f
<1>3. WordOf[At(f)] \in Contents /\ Address[WordOf[At(f)]] = At(f)
  BY <1>2, Notation
<1>4. regs' \in [Regs -> Contents] /\ StackTop' = At(f)
  BY <1>1, <1>2, <1>3 DEF IInv, TypeOK, StackTop
<1>5. saved' \in Seq(Frame) /\ Nested(saved', StackTop')
  <2>1. StackTop \in Int
    BY <1>1 DEF Word
  <2> QED BY <1>1, <1>2, <1>4, <2>1, NestedOneMore
<1>6. ASSUME NEW j \in DOMAIN saved
      PROVE  Intact(mem', saved[j])
  <2>1. saved[j] \in Frame /\ StackTop <= At(saved[j])
    <3>1. StackTop \in Int
      BY <1>1 DEF Word
    <3> QED BY <1>1, <3>1, AboveTop
  <2>2. \A x \in Cells : At(saved[j]) <= x => mem'[x] = mem[x]
    <3>1. At(saved[j]) \in Int
      BY <2>1, FrameSize
    <3> QED BY <1>1, <1>2, <2>1, <3>1 DEF Cells, Word
  <2>3. Intact(mem, saved[j])
    BY DEF IInv, StackHolds
  <2> QED BY <2>1, <2>2, <2>3, FrameKept
<1>7. ASSUME NEW j \in DOMAIN saved'
      PROVE  Intact(mem', saved'[j])
  <2>1. \/ j \in DOMAIN saved /\ saved'[j] = saved[j]
        \/ saved'[j] = f
    BY <1>1, <1>2
  <2> QED BY <1>2, <1>6, <2>1
<1> QED BY <1>2, <1>4, <1>5, <1>7 DEF IInv, TypeOK, StackHolds, NothingYet, Running, Cells

LEMMA PopKeeps ==
    ASSUME IInv, NEW i \in Instrs, Running, PopDone(i)
    PROVE  IInv'
<1>1. /\ regs' \in [Regs -> Contents]
      /\ mem' = mem /\ status' = status
  BY DEF PopDone
<1>2. CASE saved' = <<>>
  <2>1. saved' \in Seq(Frame) /\ StackHolds'
    BY <1>2, NoFrames DEF StackHolds
  <2> QED BY <1>1, <1>2, <2>1 DEF IInv, TypeOK, NothingYet
<1>3. CASE /\ Promise!Restore(i.dsts)
           /\ regs'[SP] = saved[Len(saved)].sp
  <2>1. saved \in Seq(Frame) /\ saved # <<>> /\ Nested(saved, StackTop)
        /\ saved' = SubSeq(saved, 1, Len(saved) - 1)
    BY <1>3 DEF IInv, TypeOK, StackHolds, Promise!Restore
  <2>2. StackTop' = Address[saved[Len(saved)].sp]
    BY <1>3 DEF StackTop
  <2>3. /\ saved' \in Seq(Frame) /\ Nested(saved', StackTop')
        /\ \A j \in DOMAIN saved' : j \in DOMAIN saved /\ saved'[j] = saved[j]
    BY <2>1, <2>2, NestedOneLess
  <2>4. StackHolds'
    BY <1>1, <2>3 DEF IInv, StackHolds
  <2> QED BY <1>1, <2>3, <2>4 DEF IInv, TypeOK, NothingYet, Running
<1> QED BY <1>2, <1>3 DEF PopDone

LEMMA RegistersKeep ==
    ASSUME IInv, Running, regs' \in [Regs -> Contents], saved' = Forget,
           mem' = mem, status' = status
    PROVE  IInv'
<1>1. CASE regs'[SP] = regs[SP]
  <2>1. saved' = saved /\ StackHolds'
    BY <1>1, StackKept DEF Forget, IInv
  <2> QED BY <2>1 DEF IInv, TypeOK, NothingYet
<1>2. CASE regs'[SP] # regs[SP]
  <2>1. saved' = <<>>
    BY <1>2 DEF Forget
  <2>2. saved' \in Seq(Frame) /\ StackHolds'
    BY <2>1, NoFrames DEF StackHolds
  <2> QED BY <2>1, <2>2 DEF IInv, TypeOK, NothingYet
<1> QED BY <1>1, <1>2

LEMMA StoreKeeps ==
    ASSUME IInv, Running, NEW i \in Instrs, StoreDone(i)
    PROVE  IInv'
<1> DEFINE a == Address[regs[i.a]]
<1>1. /\ mem' \in [Cells -> Byte] /\ a \in Nat /\ i.n \in Nat
      /\ \A x \in Cells : x < a \/ x >= a + i.n => mem'[x] = mem[x]
      /\ saved' = Spared(a, i.n) /\ regs' = regs
      /\ status' \in {status, "bounds"}
  BY DEF StoreDone
<1>2. CASE saved' = <<>>
  <2>1. saved' \in Seq(Frame) /\ StackHolds'
    BY <1>2, NoFrames DEF StackHolds
  <2> QED BY <1>1, <1>2, <2>1 DEF IInv, TypeOK, NothingYet, Cells
<1>3. CASE saved' = saved /\ \A j \in DOMAIN saved : ~Overlaps(saved[j], a, i.n)
  <2>1. ASSUME NEW j \in DOMAIN saved, NEW x \in Cells,
               At(saved[j]) <= x, x < Address[saved[j].sp]
        PROVE  mem'[x] = mem[x]
    <3>1. saved[j] \in Frame
      BY DEF IInv, TypeOK
    <3>2. At(saved[j]) \in Int /\ Address[saved[j].sp] \in Int
      BY <3>1, FrameSize DEF Word
    <3>3. ~(a < Address[saved[j].sp] /\ At(saved[j]) < a + i.n)
      BY <1>3 DEF Overlaps
    <3>4. x \in Int
      BY SizesAssumption DEF Cells
    <3>5. x < a \/ x >= a + i.n
      BY <1>1, <2>1, <3>2, <3>3, <3>4
    <3> QED BY <1>1, <3>5
  <2>2. StackHolds'
    BY <1>1, <1>3, <2>1, StackKept DEF IInv
  <2> QED BY <1>1, <1>3, <2>2 DEF IInv, TypeOK, NothingYet, Cells, Running
<1> QED BY <1>1, <1>2, <1>3 DEF Spared

\* The image is loaded before anything is pushed.
LEMMA LoadFileKeeps ==
    ASSUME IInv, LoadFile
    PROVE  IInv'
<1>1. saved' = <<>> /\ regs' = regs
  BY DEF LoadFile, IInv, NothingYet
<1>2. saved' \in Seq(Frame) /\ StackHolds'
  BY <1>1, NoFrames DEF StackHolds
<1>3. MemSize \in Nat /\ mem \in [Cells -> Byte]
  BY SizesAssumption DEF IInv, TypeOK, Cells
<1>4. PICK image \in Images :
          IF Len(image) <= MemSize
          THEN /\ mem' = [x \in DOMAIN mem |-> IF x < Len(image) THEN image[x + 1] ELSE mem[x]]
               /\ status' = "running"
          ELSE mem' = mem /\ status' = "too_large"
  BY DEF LoadFile
<1>5. Len(image) \in Nat /\ image \in [1 .. Len(image) -> Byte]
  BY ProgramAssumption
<1>6. ASSUME NEW x \in Cells, x < Len(image)
      PROVE  image[x + 1] \in Byte
  <2>1. x + 1 \in 1 .. Len(image)
    BY <1>3, <1>5, <1>6 DEF Cells
  <2> QED BY <1>5, <2>1
<1>7. mem' \in [Cells -> Byte] /\ status' \in {"running", "too_large"}
  <2>1. CASE Len(image) <= MemSize
    BY <1>3, <1>4, <1>6, <2>1
  <2>2. CASE ~(Len(image) <= MemSize)
    BY <1>3, <1>4, <2>2
  <2> QED BY <2>1, <2>2
<1> QED BY <1>1, <1>2, <1>7 DEF IInv, TypeOK, NothingYet, Cells

LEMMA StutterKeeps == IInv /\ UNCHANGED vars => IInv'
BY DEF IInv, TypeOK, StackHolds, NothingYet, StackTop, vars

\* An instruction, case by case.
LEMMA Step ==
    ASSUME IInv, NEW i \in Instrs, Execute(i)
    PROVE  /\ Running
           /\ \/ UNCHANGED vars
              \/ i.op = "push" /\ PushDone(i)
              \/ i.op = "pop" /\ PopDone(i)
              \/ /\ i.op = "load" /\ regs' \in [Regs -> Contents]
                 /\ saved' = Forget /\ mem' = mem /\ status' = status
              \/ i.op = "store" /\ StoreDone(i)
<1>1. Running /\ TypeOK /\ StackHolds
  BY DEF Execute, IInv
<1>2. CASE i.op = "push" /\ Push(i)
  BY <1>1, <1>2, Pushing
<1>3. CASE i.op = "pop" /\ Pop(i)
  BY <1>1, <1>3, Popping
<1>4. CASE i.op = "load" /\ Load(i)
  BY <1>1, <1>4, Loading
<1>5. CASE i.op = "store" /\ (Store(i) \/ StorePair(i))
  BY <1>1, <1>5, Storing
<1> QED BY <1>1, <1>2, <1>3, <1>4, <1>5 DEF Execute

\* Elsewhere leaves registers with values.
LEMMA ElsewhereTypes ==
    ASSUME IInv, Elsewhere
    PROVE  Running /\ regs' \in [Regs -> Contents] /\ saved' = Forget /\ mem' = mem /\ status' = status
BY ProgramAssumption DEF Elsewhere, IInv, TypeOK

\* Types are kept, and what was pushed stays in memory for as long as saved
\* says.
THEOREM Invariance == Spec => []IInv
<1>1. Init => IInv
  BY Initially
<1>2. IInv /\ [Next]_vars => IInv'
  <2> SUFFICES ASSUME IInv, [Next]_vars PROVE IInv'
    OBVIOUS
  <2>1. CASE LoadFile
    BY <2>1, LoadFileKeeps
  <2>2. CASE LoadFails
    BY <2>2 DEF LoadFails, IInv, TypeOK, StackHolds, NothingYet, StackTop
  <2>3. CASE Elsewhere
    BY <2>3, ElsewhereTypes, RegistersKeep
  <2>4. ASSUME NEW i \in Instrs, Execute(i)
        PROVE  IInv'
    BY <2>4, Step, StutterKeeps, PushKeeps, PopKeeps, RegistersKeep, StoreKeeps
  <2>5. CASE UNCHANGED vars
    BY <2>5, StutterKeeps
  <2> QED BY <2>1, <2>2, <2>3, <2>4, <2>5 DEF Next
<1> QED BY <1>1, <1>2, PTL DEF Spec

\* What is pushed lies in memory, frame below frame, down to the stack
\* pointer, for every program and every memory.
THEOREM StackTheorem == Spec => []StackHolds
<1>1. IInv => StackHolds
  BY DEF IInv
<1> QED BY <1>1, Invariance, PTL

-----------------------------------------------------------------------------
(* Steps.                                                                  *)

\* A push or a store writes where it may, and nothing else writes.
LEMMA WritesWithin ==
    ASSUME IInv, NEW i \in Instrs, Execute(i), NEW x \in Cells, mem'[x] # mem[x]
    PROVE  Reaches(i, x)
<1>1. mem \in [Cells -> Byte] /\ x \in Int
  BY SizesAssumption DEF IInv, TypeOK, Cells
<1>2. \/ i.op = "push" /\ PushDone(i)
      \/ i.op = "store" /\ StoreDone(i)
  <2>1. mem' # mem
    OBVIOUS
  <2> QED BY <2>1, Step DEF PopDone, vars
<1>3. CASE i.op = "push" /\ PushDone(i)
  <2>1. TypeOK
    BY DEF IInv
  <2>2. /\ At(PushedFrame(i)) = StackTop - Bytes(i.n, Len(i.srcs)) /\ PushedFrame(i) \in Frame
    BY <1>3, <2>1, PushedValues DEF At, PushedFrame, StackTop
  <2>3. At(PushedFrame(i)) \in Int /\ StackTop \in Int
    BY <1>3, <2>1, <2>2, FrameSize, PushedValues DEF Word
  <2>4. ~(x < At(PushedFrame(i)) \/ x >= StackTop)
    BY <1>3 DEF PushDone
  <2> QED BY <1>1, <1>3, <2>2, <2>3, <2>4 DEF Reaches
<1>4. CASE i.op = "store" /\ StoreDone(i)
  BY <1>1, <1>4 DEF StoreDone, Reaches
<1> QED BY <1>2, <1>3, <1>4

\* No instruction writes outside of the bytes that it names.
THEOREM Containment == Spec => Contained
<1> DEFINE Within == Running /\ mem' # mem =>
                       \E i \in Instrs :
                           /\ Execute(i)
                           /\ \A x \in DOMAIN mem : mem'[x] # mem[x] => Reaches(i, x)
<1>1. IInv /\ [Next]_vars => [Within]_vars
  <2> SUFFICES ASSUME IInv, Next, Running, mem' # mem
               PROVE  \E i \in Instrs :
                          /\ Execute(i)
                          /\ \A x \in DOMAIN mem : mem'[x] # mem[x] => Reaches(i, x)
    OBVIOUS
  <2>1. DOMAIN mem = Cells
    BY DEF IInv, TypeOK, Cells
  <2>2. PICK i \in Instrs : Execute(i)
    BY DEF Next, LoadFile, LoadFails, Elsewhere, Running
  <2> QED BY <2>1, <2>2, WritesWithin
<1>2. QED
  BY <1>1, Invariance, PTL DEF Spec, Contained

\* A pop of what was pushed last restores it into the registers it names.
THEOREM OrderOfPops == Spec => PopsInOrder
<1> DEFINE Ordered == Running => \A i \in Instrs :
                         i.op = "pop" /\ Undoes(i) /\ Pop(i) => Promise!Restore(i.dsts)
<1>1. IInv /\ [Next]_vars => [Ordered]_vars
  BY Popping DEF IInv, PopDone
<1>2. QED
  BY <1>1, Invariance, PTL DEF Spec, PopsInOrder

-----------------------------------------------------------------------------
(* Refinement.                                                             *)

\* A push that does not fault saves what the registers held.
LEMMA PushSaves ==
    ASSUME IInv, NEW i \in Instrs, i.op = "push", PushDone(i)
    PROVE  i.n \in Sizes /\ i.srcs \in Operands /\ Promise!Save(i.n, i.srcs)
<1>1. i.n \in Sizes /\ i.srcs \in Operands
  BY PushedValues DEF IInv
<1>2. WordOf[At(PushedFrame(i))] \in Contents
  BY Notation DEF PushDone
<1>3. /\ regs' = [regs EXCEPT ![SP] = WordOf[At(PushedFrame(i))]]
      /\ saved' = Append(saved, PushedFrame(i))
  BY DEF PushDone
<1> QED BY <1>1, <1>2, <1>3
        DEF Promise!Save, PushedFrame, Pushed, Low, ValueOf, Promise!Low, Promise!ValueOf

\* A pop that does not fault restores what was pushed, or abandons the stack.
LEMMA PopRestores ==
    ASSUME IInv, NEW i \in Instrs, i.op = "pop", PopDone(i)
    PROVE  i.dsts \in Operands /\ (Promise!Restore(i.dsts) \/ Promise!Abandon)
BY ProgramAssumption DEF IsInstr, PopDone, Promise!Abandon

\* A step that forgets the stack when the stack pointer moves.
LEMMA ForgetWorks ==
    ASSUME regs' \in [Regs -> Contents], saved' = Forget
    PROVE  Promise!Work \/ Promise!Abandon
BY DEF Forget, Promise!Work, Promise!Abandon

LEMMA StoreWorks ==
    ASSUME IInv, NEW i \in Instrs, StoreDone(i)
    PROVE  Promise!Work \/ Promise!Abandon
BY DEF StoreDone, Spared, Promise!Work, Promise!Abandon, IInv, TypeOK

\* The instructions of the stack implement a stack, byte by byte in memory.
THEOREM Refinement == Spec => ImplementsStack
<1>1. Init => Promise!Init
  <2> SUFFICES ASSUME Init PROVE Promise!Init
    OBVIOUS
  <2>1. regs \in [Regs -> Contents]
    BY Initially DEF IInv, TypeOK
  <2> QED BY <2>1 DEF Init, Promise!Init
<1>2. IInv /\ [Next]_vars => [Promise!Next]_<<regs, saved>>
  <2> SUFFICES ASSUME IInv, [Next]_vars
               PROVE  Promise!Next \/ UNCHANGED <<regs, saved>>
    OBVIOUS
  <2>1. CASE LoadFile \/ LoadFails
    BY <2>1 DEF LoadFile, LoadFails
  <2>2. CASE Elsewhere
    BY <2>2, ElsewhereTypes, ForgetWorks DEF Promise!Next
  <2>3. ASSUME NEW i \in Instrs, Execute(i)
        PROVE  Promise!Next \/ UNCHANGED <<regs, saved>>
    <3>1. CASE UNCHANGED vars
      BY <3>1 DEF vars
    <3>2. CASE i.op = "push" /\ PushDone(i)
      BY <3>2, PushSaves DEF Promise!Next, Operands
    <3>3. CASE i.op = "pop" /\ PopDone(i)
      BY <3>3, PopRestores DEF Promise!Next, Operands
    <3>4. CASE regs' \in [Regs -> Contents] /\ saved' = Forget
      BY <3>4, ForgetWorks DEF Promise!Next
    <3>5. CASE i.op = "store" /\ StoreDone(i)
      BY <3>5, StoreWorks DEF Promise!Next
    <3> QED BY <2>3, <3>1, <3>2, <3>3, <3>4, <3>5, Step
  <2>4. CASE UNCHANGED vars
    BY <2>4 DEF vars
  <2> QED BY <2>1, <2>2, <2>3, <2>4 DEF Next
<1>3. QED
  BY <1>1, <1>2, Invariance, PTL DEF Spec, ImplementsStack, Promise!Spec, Promise!vars

=============================================================================
