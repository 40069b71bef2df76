---------------------------- MODULE Encoding_proofs ----------------------------
(***************************************************************************)
(* For every two tables that agree, every operand and every word: what is  *)
(* assembled is decoded again, as it was written, by one arm.              *)
(***************************************************************************)
EXTENDS Encoding, TLAPS

\* Taking a letter out of a word in which it was placed gives those bits of
\* its value that the layout has.
LEMMA ExtractPlace ==
    ASSUME NEW layout, NEW value, NEW x, x \notin FixedBits
    PROVE  Extract(layout, x, Place(layout, value))
               = {Rank(layout, i) : i \in PositionsOf(layout, x)} \cap value[x]
  <1>1. \A i \in PositionsOf(layout, x) :
            i \in Place(layout, value) <=> Rank(layout, i) \in value[x]
    BY DEF PositionsOf, Place
  <1> QED BY <1>1 DEF Extract

\* Tables that agree have each letter in the same places.
LEMMA SamePlaces ==
    ASSUME NEW row \in Encodings, NEW n \in DOMAIN Patterns,
           Agree(row, Patterns[n]),
           NEW x \in DOMAIN Patterns[n].params, x \notin DOMAIN row.implied
    PROVE  /\ x \notin FixedBits
           /\ x \in Letters(row.layout)
           /\ PositionsOf(row.layout, x) = PositionsOf(Patterns[n].layout, x)
           /\ \A i \in PositionsOf(row.layout, x) :
                  Rank(row.layout, i) = Rank(Patterns[n].layout, i)
  <1> DEFINE p == Patterns[n].layout
             q == row.layout
  <1>1. x \in Letters(p)
    BY TablesAssumption DEF PatternCompiles
  <1>2. \A i \in Positions : q[i] = x <=> p[i] = x
    <2> SUFFICES ASSUME NEW i \in Positions PROVE q[i] = x <=> p[i] = x
      OBVIOUS
    <2>1. IF p[i] \in DOMAIN row.implied
          THEN q[i] = IF Rank(p, i) \in row.implied[p[i]] THEN "1" ELSE "0"
          ELSE q[i] = p[i]
      BY DEF Agree
    <2>2. x # "0" /\ x # "1"
      BY <1>1 DEF Letters, FixedBits
    <2> QED BY <2>1, <2>2
  <1>3. PositionsOf(q, x) = PositionsOf(p, x)
    BY <1>2 DEF PositionsOf
  <1>4. ASSUME NEW i \in PositionsOf(q, x) PROVE Rank(q, i) = Rank(p, i)
    <2>1. i \in Positions /\ q[i] = x /\ p[i] = x
      BY <1>2 DEF PositionsOf
    <2>2. {j \in Positions : j < i /\ q[j] = q[i]} = {j \in Positions : j < i /\ p[j] = p[i]}
      BY <1>2, <2>1
    <2> QED BY <2>2 DEF Rank
  <1>5. x \in Letters(q) /\ x \notin FixedBits
    BY <1>1, <1>2 DEF Letters
  <1> QED BY <1>3, <1>4, <1>5

\* A row has no letters but those of the patterns it agrees with.
LEMMA LettersAgree ==
    ASSUME NEW row \in Encodings, NEW n \in DOMAIN Patterns, Agree(row, Patterns[n])
    PROVE  Letters(row.layout) \subseteq DOMAIN Patterns[n].params
  <1> SUFFICES ASSUME NEW i \in Positions, row.layout[i] \notin FixedBits
               PROVE  row.layout[i] \in DOMAIN Patterns[n].params
    BY DEF Letters
  <1>1. Patterns[n].layout[i] \notin DOMAIN row.implied
    BY DEF Agree, FixedBits
  <1>2. row.layout[i] = Patterns[n].layout[i]
    BY <1>1 DEF Agree
  <1> QED BY <1>2, TablesAssumption DEF PatternCompiles, Letters

\* The bits the emulator finds for a letter: those the pseudo-instruction
\* implies, or those of the value the assembler gave it.
LEMMA FieldFound ==
    ASSUME NEW row \in Encodings, NEW s, NEW n \in DOMAIN Patterns,
           Agree(row, Patterns[n]), word = Encode(row, s),
           NEW x \in DOMAIN Patterns[n].params
    PROVE  Field(Patterns[n], x) =
               IF x \in DOMAIN row.implied THEN row.implied[x]
               ELSE FieldValue(row, s, x) \cap 0 .. Patterns[n].params[x].width - 1
  <1> DEFINE p == Patterns[n].layout
             q == row.layout
             value == [y \in Letters(q) |-> FieldValue(row, s, y)]
             ranks == {Rank(p, i) : i \in PositionsOf(p, x)}
  <1>1. /\ word = Place(q, value)
        /\ Field(Patterns[n], x) = Extract(p, x, word)
    BY DEF Encode, Field
  <1>2. ranks = 0 .. Patterns[n].params[x].width - 1 /\ x \in Letters(p)
    BY TablesAssumption DEF WidthsFit, PatternCompiles
  <1>3. CASE x \in DOMAIN row.implied
    <2>1. \A i \in PositionsOf(p, x) : i \in word <=> Rank(p, i) \in row.implied[x]
      <3> SUFFICES ASSUME NEW i \in PositionsOf(p, x)
                   PROVE  i \in word <=> Rank(p, i) \in row.implied[x]
        OBVIOUS
      <3>1. i \in Positions /\ p[i] = x
        BY DEF PositionsOf
      <3>2. q[i] = IF Rank(p, i) \in row.implied[x] THEN "1" ELSE "0"
        BY <1>3, <3>1 DEF Agree
      <3> QED BY <1>1, <3>1, <3>2 DEF Place, FixedBits
    <2>2. Extract(p, x, word) = ranks \cap row.implied[x]
      BY <2>1 DEF Extract
    <2>3. row.implied[x] \subseteq 0 .. Patterns[n].params[x].width - 1
      BY <1>3 DEF Agree
    <2> QED BY <1>1, <1>2, <1>3, <2>2, <2>3
  <1>4. CASE x \notin DOMAIN row.implied
    <2>1. /\ x \notin FixedBits /\ x \in Letters(q)
          /\ PositionsOf(q, x) = PositionsOf(p, x)
          /\ \A i \in PositionsOf(q, x) : Rank(q, i) = Rank(p, i)
      BY <1>4, SamePlaces
    <2>2. Extract(p, x, word) = Extract(q, x, word)
      BY <2>1 DEF Extract
    <2>3. Extract(q, x, Place(q, value))
              = {Rank(q, i) : i \in PositionsOf(q, x)} \cap value[x]
      BY <2>1, ExtractPlace
    <2>4. {Rank(q, i) : i \in PositionsOf(q, x)} = ranks
      BY <2>1
    <2>5. value[x] = FieldValue(row, s, x)
      BY <2>1
    <2> QED BY <1>1, <1>2, <1>4, <2>2, <2>3, <2>4, <2>5
  <1> QED BY <1>3, <1>4

\* A word is matched by the patterns its row agrees with.
LEMMA AgreedMatches ==
    ASSUME NEW row \in Encodings, NEW s, NEW n \in DOMAIN Patterns,
           Agree(row, Patterns[n]), word = Encode(row, s)
    PROVE  Matches(Patterns[n], word)
  <1> SUFFICES ASSUME NEW i \in Positions, Patterns[n].layout[i] \in FixedBits
               PROVE  i \in word <=> Patterns[n].layout[i] = "1"
    BY DEF Matches
  <1>1. Patterns[n].layout[i] \notin DOMAIN row.implied
    BY TablesAssumption DEF Agree, PatternCompiles, Letters
  <1>2. row.layout[i] = Patterns[n].layout[i]
    BY <1>1 DEF Agree
  <1> QED BY <1>2 DEF Encode, Place

\* No word is matched by two patterns, because some bit tells any two apart.
LEMMA OneMatch ==
    ASSUME NEW w, NEW m \in DOMAIN Patterns, NEW n \in DOMAIN Patterns,
           Matches(Patterns[m], w), Matches(Patterns[n], w)
    PROVE  m = n
  <1> SUFFICES ASSUME m # n PROVE FALSE
    OBVIOUS
  <1>1. PICK i \in Positions :
            /\ Patterns[m].layout[i] \in FixedBits /\ Patterns[n].layout[i] \in FixedBits
            /\ Patterns[m].layout[i] # Patterns[n].layout[i]
    BY TablesAssumption DEF Apart
  <1>2. (i \in w <=> Patterns[m].layout[i] = "1") /\ (i \in w <=> Patterns[n].layout[i] = "1")
    BY <1>1 DEF Matches
  <1> QED BY <1>1, <1>2 DEF FixedBits

\* The only arm for a word that was assembled.
LEMMA TheArm ==
    ASSUME NEW row \in Encodings, NEW s, NEW n \in DOMAIN Patterns,
           Agree(row, Patterns[n]), word = Encode(row, s)
    PROVE  \A m \in Arms(word) : m = n
  BY AgreedMatches, OneMatch DEF Arms

\* What is read of the suffixes and the operands is what the grammar has there.
LEMMA ReadTyped ==
    ASSUME NEW row \in Encodings, NEW s, IsStatement(s), EncodesBy(row, s)
    PROVE  /\ Suffix(row, s, "size") \subseteq SUBSET WordSize
           /\ \A c \in Suffix(row, s, "condition") : c \subseteq Always /\ IsCondition(c)
           /\ row.cond = "required" => Suffix(row, s, "condition") # {}
           /\ \A x \in DOMAIN row.sized : SizesSeen(row, s, x) \subseteq SUBSET WordSize
           /\ \A k \in DOMAIN row.args : WrittenFor(row, s, k) \subseteq ValueBits
           /\ \A k \in DOMAIN row.args : row.args[k].type = "nullable" =>
                  \/ WrittenFor(row, s, k) = NullRegister
                  \/ WrittenFor(row, s, k) \subseteq 0 .. 3
  <1>1. \A k \in SuffixesRead(row, s) :
            s.suffixes[k].rule = Modifiers(row)[k] /\ IsSuffix(s.suffixes[k])
    BY DEF EncodesBy, SuffixesParse, IsStatement, SuffixesRead
  <1>2. Suffix(row, s, "size") \subseteq SUBSET WordSize
    BY <1>1 DEF Suffix, IsSuffix
  <1>3. \A c \in Suffix(row, s, "condition") : c \subseteq Always /\ IsCondition(c)
    BY <1>1 DEF Suffix, IsSuffix
  <1>4. row.cond = "required" => Suffix(row, s, "condition") # {}
    BY DEF EncodesBy, SuffixesParse
  <1>5. \A k \in DOMAIN s.operands : IsOperand(s.operands[k])
    BY DEF IsStatement
  <1>6. \A x \in DOMAIN row.sized : SizesSeen(row, s, x) \subseteq SUBSET WordSize
    BY <1>2, <1>5 DEF SizesSeen, IsOperand
  <1>7. ASSUME NEW k \in DOMAIN row.args PROVE WrittenFor(row, s, k) \subseteq ValueBits
    BY <1>5 DEF WrittenFor, IsOperand, ValueBits, NullRegister
  <1>8. ASSUME NEW k \in DOMAIN row.args, row.args[k].type = "nullable"
        PROVE  WrittenFor(row, s, k) = NullRegister \/ WrittenFor(row, s, k) \subseteq 0 .. 3
    <2>1. row.args[k].takes = {"register", "null"}
      BY <1>8, TablesAssumption DEF EncodingCompiles
    <2>2. k \in DOMAIN s.operands => s.operands[k].rule \in {"register", "null"}
      BY <2>1 DEF EncodesBy, OperandsParse
    <2> QED BY <1>5, <1>8, <2>2 DEF WrittenFor, IsOperand
  <1> QED BY <1>2, <1>3, <1>4, <1>6, <1>7, <1>8

\* Extending the sign of a truncated value twice is extending it once, and it
\* restores every value whose high bits were copies of its sign.
LEMMA Extension ==
    ASSUME NEW v \in SUBSET ValueBits, NEW width \in 1 .. 32,
           NEW got, got = SignExtended(SignExtended(v, width) \cap 0 .. width - 1, width)
    PROVE  /\ got \cap 0 .. width - 1 = v \cap 0 .. width - 1
           /\ FitsIn("rel", width, v) => got = v
  <1> DEFINE low == 0 .. width - 1
             high == width .. 63
  <1>1. width - 1 \in low /\ low \cap high = {} /\ ValueBits = low \cup high
    BY DEF ValueBits
  <1>2. SignExtended(v, width) \cap low = v \cap low
    BY <1>1 DEF SignExtended
  <1>3. got = (v \cap low) \cup (IF width - 1 \in v THEN high ELSE {})
    BY <1>1, <1>2 DEF SignExtended
  <1>4. got \cap low = v \cap low
    BY <1>1, <1>3
  <1>5. ASSUME FitsIn("rel", width, v) PROVE got = v
    <2>1. width - 1 .. 63 = high \cup {width - 1}
      OBVIOUS
    <2> HIDE DEF low, high
    <2>2. v \subseteq low \cup high
      BY <1>1
    <2>3. CASE width - 1 .. 63 \subseteq v
      <3>1. width - 1 \in v /\ high \subseteq v
        BY <2>1, <2>3, Zenon
      <3>2. got = (v \cap low) \cup high
        BY <1>3, <3>1, Zenon
      <3>3. QED
        BY <2>2, <3>1, <3>2
    <2>4. CASE width - 1 .. 63 \cap v = {}
      <3>1. width - 1 \notin v /\ high \cap v = {}
        BY <2>1, <2>4
      <3>2. got = v \cap low
        BY <1>3, <3>1
      <3>3. QED
        BY <2>2, <3>1, <3>2
    <2> QED BY <1>5, <2>3, <2>4 DEF FitsIn
  <1> QED BY <1>4, <1>5
\* An argument is accepted and delivered.
LEMMA ArgumentDelivered ==
    ASSUME NEW row \in Encodings, NEW s, IsStatement(s), EncodesBy(row, s),
           NEW x \in ArgumentNames(row), NEW param, param = TypeOf(row, x),
           NEW bits, bits = FieldValue(row, s, x) \cap 0 .. param.width - 1
    PROVE  /\ Accepts(param, bits)
           /\ x \notin DOMAIN row.implied => Means(row, s, x, Converted(param, bits))
  <1> DEFINE k == ArgumentNamed(row, x)
             arg == row.args[k]
             v == WrittenFor(row, s, k)
             got == Converted(param, bits)
  <1>1. k \in DOMAIN row.args
    BY DEF ArgumentNamed, ArgumentNames
  <1>2. arg \in Arg
    BY <1>1, TablesAssumption
  <1>3. param = [type |-> arg.type, width |-> arg.width]
    BY DEF TypeOf
  <1>4. bits = Truncated(arg, v) \cap 0 .. arg.width - 1
    BY <1>3 DEF FieldValue
  <1>5. arg.width \in 1 .. 32 /\ arg.type \in {"reg", "nullable", "imm", "rel", "bool"}
    BY <1>2 DEF Arg
  <1>6. v \in SUBSET ValueBits
    BY <1>1, ReadTyped
  <1>7. arg.type # "rel" => bits = v \cap 0 .. arg.width - 1
    BY <1>4, <1>5 DEF Truncated
  <1>8. Accepts(param, bits)
    <2>1. CASE arg.type = "nullable"
      <3>1. v = NullRegister \/ v \subseteq 0 .. 3
        BY <1>1, <2>1, ReadTyped
      <3>2. CASE v \subseteq 0 .. 3
        <4>1. 4 \notin bits
          BY <1>7, <2>1, <3>2
        <4> QED BY <1>3, <2>1, <4>1 DEF Accepts
      <3>3. CASE v = NullRegister
        <4>1. bits = NullRegister \/ 4 \notin bits
          BY <1>5, <1>7, <2>1, <3>3 DEF NullRegister
        <4> QED BY <1>3, <2>1, <4>1 DEF Accepts
      <3> QED BY <3>1, <3>2, <3>3
    <2>2. CASE arg.type # "nullable"
      BY <1>3, <1>5, <2>2 DEF Accepts
    <2> QED BY <2>1, <2>2
  <1>9. Delivered(arg, v, got)
    <2>1. CASE arg.type = "rel"
      <3>1. bits = SignExtended(v, arg.width) \cap 0 .. arg.width - 1
        BY <1>4, <2>1 DEF Truncated
      <3>2. got = SignExtended(bits, arg.width)
        BY <1>3, <2>1 DEF Converted
      <3>3. /\ got \cap 0 .. arg.width - 1 = v \cap 0 .. arg.width - 1
            /\ FitsIn("rel", arg.width, v) => got = v
        BY <1>5, <1>6, <3>1, <3>2, Extension
      <3> QED BY <2>1, <3>3 DEF Delivered
    <2>2. CASE arg.type # "rel"
      <3>1. got = v \cap 0 .. arg.width - 1
        BY <1>3, <1>7, <2>2 DEF Converted
      <3>2. FitsIn(arg.type, arg.width, v) => got = v
        BY <2>2, <3>1 DEF FitsIn
      <3> QED BY <3>1, <3>2 DEF Delivered
    <2> QED BY <2>1, <2>2
  <1> QED BY <1>8, <1>9 DEF Means

\* So are sizes and conditions.
LEMMA ModifierDelivered ==
    ASSUME NEW row \in Encodings, NEW s, IsStatement(s), EncodesBy(row, s),
           NEW x \in Letters(row.layout), x \notin ArgumentNames(row),
           NEW param, param = TypeOf(row, x),
           NEW bits, bits = FieldValue(row, s, x) \cap 0 .. param.width - 1
    PROVE  /\ Accepts(param, bits)
           /\ x \notin DOMAIN row.implied => Means(row, s, x, Converted(param, bits))
  <1>1. CASE x \in DOMAIN row.sized
    <2>1. param = [type |-> "size", width |-> 2]
      BY <1>1 DEF TypeOf
    <2>2. CommonSize(row, s, x) \subseteq WordSize
      BY <1>1, ReadTyped DEF CommonSize
    <2>3. FieldValue(row, s, x) = CommonSize(row, s, x)
      BY <1>1 DEF FieldValue
    <2>4. bits = CommonSize(row, s, x)
      BY <2>1, <2>2, <2>3 DEF WordSize
    <2> QED BY <1>1, <2>1, <2>4 DEF Accepts, Converted, Means
  <1>2. CASE x \notin DOMAIN row.sized
    <2> DEFINE seen == Suffix(row, s, "condition")
               c == Condition(row, s)
    <2>1. row.cond \in {"optional", "required"}
      BY <1>2, TablesAssumption DEF EncodingCompiles
    <2>2. /\ param.width = 4
          /\ param.type = IF row.cond = "optional" THEN "cond|null" ELSE "cond"
      BY <1>2 DEF TypeOf
    <2>3. \/ c \subseteq Always /\ IsCondition(c)
          \/ c = Always /\ row.cond = "optional"
      BY <2>1, ReadTyped DEF Condition
    <2>4. FieldValue(row, s, x) = c
      BY <1>2 DEF FieldValue
    <2>5. bits = c
      BY <2>2, <2>3, <2>4 DEF Always
    <2>6. Accepts(param, bits)
      BY <2>1, <2>2, <2>3, <2>5 DEF Accepts
    <2> QED BY <1>2, <2>1, <2>2, <2>5, <2>6 DEF Converted, Means
  <1> QED BY <1>1, <1>2

\* The arm that a row agrees with takes the word and finds in it what was written.
LEMMA Decoding ==
    ASSUME NEW row \in Encodings, NEW s, IsStatement(s), EncodesBy(row, s),
           word = Encode(row, s),
           NEW n \in DOMAIN Patterns, Agree(row, Patterns[n]),
           NEW x \in DOMAIN Patterns[n].params
    PROVE  /\ Accepts(Patterns[n].params[x], Field(Patterns[n], x))
           /\ Means(row, s, x, Converted(Patterns[n].params[x], Field(Patterns[n], x)))
  <1> DEFINE param == Patterns[n].params[x]
             bits == FieldValue(row, s, x) \cap 0 .. param.width - 1
  <1>1. Field(Patterns[n], x) = IF x \in DOMAIN row.implied THEN row.implied[x] ELSE bits
    BY FieldFound
  <1>2. CASE x \in DOMAIN row.implied
    <2>1. param.type # "rel" /\ Accepts(param, row.implied[x])
      BY <1>2 DEF Agree
    <2> QED BY <1>1, <1>2, <2>1 DEF Converted, Means
  <1>3. CASE x \notin DOMAIN row.implied
    <2>1. param = TypeOf(row, x)
      BY <1>3 DEF Agree
    <2>2. x \in Letters(row.layout)
      BY <1>3, SamePlaces
    <2>3. Accepts(param, bits) /\ Means(row, s, x, Converted(param, bits))
      <3>1. CASE x \in ArgumentNames(row)
        BY <1>3, <2>1, <3>1, ArgumentDelivered
      <3>2. CASE x \notin ArgumentNames(row)
        BY <1>3, <2>1, <2>2, <3>2, ModifierDelivered
      <3> QED BY <3>1, <3>2
    <2> QED BY <1>1, <1>3, <2>3
  <1> QED BY <1>2, <1>3
-----------------------------------------------------------------------------
(* The inductive invariant: what was written is what a row makes of the    *)
(* statement, and what was decoded is what an arm made of the word.        *)

Stages == {"parsed", "written", "rejected", "executed", "panicked", "invalid"}

Encoded ==
    \E row \in Encodings : EncodesBy(row, source) /\ word = Encode(row, source)

Decoded(n) ==
    decoded = [op |-> Patterns[n].op,
               operands |-> [x \in DOMAIN Patterns[n].params |->
                   Converted(Patterns[n].params[x], Field(Patterns[n], x))]]

IInv ==
    /\ stage \in Stages
    /\ source \in Statements \cup {Data}
    /\ source # Data /\ stage \notin {"parsed", "rejected"} => Encoded
    /\ stage = "executed" => \E n \in Arms(word) : Decoded(n)
    /\ AssembledRuns

\* A word that a statement was assembled into: its row, and its only arm.
LEMMA TheDecoding ==
    ASSUME IInv, source # Data, Encoded
    PROVE  \E row \in Encodings, n \in DOMAIN Patterns :
               /\ EncodesBy(row, source) /\ Agree(row, Patterns[n])
               /\ n \in Arms(word) /\ \A m \in Arms(word) : m = n
               /\ Convertible(Patterns[n])
               /\ \A x \in DOMAIN Patterns[n].params :
                      Means(row, source, x, Converted(Patterns[n].params[x], Field(Patterns[n], x)))
  <1>1. PICK row \in Encodings : EncodesBy(row, source) /\ word = Encode(row, source)
    BY DEF Encoded
  <1>2. PICK n \in DOMAIN Patterns : Agree(row, Patterns[n])
    BY TablesAssumption DEF TablesAgree
  <1>3. IsStatement(source)
    BY StatementsAssumption DEF IInv
  <1>4. \A m \in Arms(word) : m = n
    BY <1>1, <1>2, TheArm
  <1>5. n \in Arms(word)
    <2>1. Matches(Patterns[n], word)
      BY <1>1, <1>2, AgreedMatches
    <2>2. ASSUME NEW m \in 1 .. n - 1, Matches(Patterns[m], word) PROVE FALSE
      <3>1. m \in DOMAIN Patterns /\ m # n
        BY PatternsAssumption
      <3> QED BY <2>1, <2>2, <3>1, OneMatch
    <2> QED BY <2>1, <2>2 DEF Arms
  <1>6. \A x \in DOMAIN Patterns[n].params :
            /\ Accepts(Patterns[n].params[x], Field(Patterns[n], x))
            /\ Means(row, source, x, Converted(Patterns[n].params[x], Field(Patterns[n], x)))
    BY <1>1, <1>2, <1>3, Decoding
  <1> QED BY <1>1, <1>2, <1>4, <1>5, <1>6 DEF Convertible

\* Every assembled word is written, runs on an arm, and is decoded there.
THEOREM Invariance == Spec => []IInv
  <1>1. Init => IInv
    BY DEF Init, IInv, Stages, AssembledRuns
  <1>2. IInv /\ [Next]_vars => IInv'
    <2> SUFFICES ASSUME IInv, [Next]_vars PROVE IInv'
      OBVIOUS
    <2>1. CASE Assemble
      BY <2>1 DEF Assemble, IInv, Stages, AssembledRuns, Encoded
    <2>2. CASE Reject
      BY <2>2 DEF Reject, IInv, Stages, AssembledRuns
    <2>3. CASE Execute
      <3>1. PICK n \in Arms(word) : Decoded(n)'
        BY <2>3 DEF Execute, Decoded, Field
      <3>2. Arms(word)' = Arms(word) /\ Encoded' = Encoded
        BY <2>3 DEF Execute, Arms, Encoded
      <3> QED BY <2>3, <3>1, <3>2 DEF Execute, IInv, Stages, AssembledRuns
    <2>4. CASE Panic
      <3>1. source = Data
        <4> SUFFICES ASSUME source # Data PROVE FALSE
          OBVIOUS
        <4>1. Encoded
          BY <2>4 DEF Panic, IInv
        <4>2. \E n : Convertible(Patterns[n]) /\ \A m \in Arms(word) : m = n
          BY <4>1, TheDecoding
        <4> QED BY <2>4, <4>2 DEF Panic
      <3> QED BY <2>4, <3>1 DEF Panic, IInv, Stages, AssembledRuns
    <2>5. CASE Unmatched
      <3>1. source = Data
        <4> SUFFICES ASSUME source # Data PROVE FALSE
          OBVIOUS
        <4>1. Encoded
          BY <2>5 DEF Unmatched, IInv
        <4>2. \E n : n \in Arms(word)
          BY <4>1, TheDecoding
        <4> QED BY <2>5, <4>2 DEF Unmatched
      <3> QED BY <2>5, <3>1 DEF Unmatched, IInv, Stages, AssembledRuns
    <2>6. CASE UNCHANGED vars
      <3>1. \A n : Decoded(n)' = Decoded(n)
        BY <2>6 DEF vars, Decoded, Field
      <3> QED BY <2>6, <3>1 DEF vars, IInv, AssembledRuns, Encoded, Arms
    <2> QED BY <2>1, <2>2, <2>3, <2>4, <2>5, <2>6 DEF Next
  <1> QED BY <1>1, <1>2, PTL DEF Spec

\* No assembled instruction stops the emulator.
THEOREM Runs == Spec => []AssembledRuns
  <1>1. IInv => AssembledRuns
    BY DEF IInv
  <1> QED BY <1>1, Invariance, PTL

\* Any word has one arm at most, whether an instruction or data.
THEOREM Unambiguous == Spec => []OneArm
  <1>1. OneArm
    BY OneMatch DEF OneArm
  <1> QED BY <1>1, PTL

\* Every operand of a statement is one that the rows of its form have.
LEMMA OperandsWritten ==
    ASSUME NEW s, IsStatement(s), NEW row \in Encodings, row.form = s.form,
           NEW k \in DOMAIN s.operands
    PROVE  /\ k \in DOMAIN row.written
           /\ \/ s.operands[k].rule \in row.written[k]
              \/ s.operands[k].rule = "unresolved" /\ "immediate" \in row.written[k]
<1> DEFINE n == Len(s.operands)
           m == Len(row.written)
<1>1. n \in row.required .. m /\ DOMAIN s.operands = 1 .. n
  BY DEF IsStatement
<1>2. m \in Nat /\ DOMAIN row.written = 1 .. m
  BY TablesAssumption
<1> HIDE DEF n, m
<1>3. k \in 1 .. m
  BY <1>1, <1>2
<1>4. QED
  BY <1>2, <1>3 DEF IsStatement

\* What is executed is what was written.
THEOREM Faithful == Spec => []RoundTrip
  <1>1. IInv => RoundTrip
    <2> SUFFICES ASSUME IInv, stage = "executed", source # Data PROVE RoundTrip
      BY DEF RoundTrip
    <2>1. Encoded
      BY DEF IInv
    <2>2. PICK row \in Encodings, n \in DOMAIN Patterns :
              /\ EncodesBy(row, source) /\ Agree(row, Patterns[n])
              /\ n \in Arms(word) /\ \A m \in Arms(word) : m = n
              /\ Convertible(Patterns[n])
              /\ \A x \in DOMAIN Patterns[n].params :
                     Means(row, source, x, Converted(Patterns[n].params[x], Field(Patterns[n], x)))
      BY <2>1, TheDecoding
    <2>3. Decoded(n)
      BY <2>2 DEF IInv
    <2>4. row.form = source.form /\ decoded.op = row.op
      BY <2>2, <2>3 DEF EncodesBy, Agree, Decoded
    <2>5. \A x \in DOMAIN decoded.operands : Means(row, source, x, decoded.operands[x])
      BY <2>2, <2>3 DEF Decoded
    <2>6. ArgumentNames(row) \subseteq DOMAIN decoded.operands
      <3>1. ArgumentNames(row) \subseteq Letters(row.layout)
        BY TablesAssumption DEF EncodingCompiles
      <3>2. Letters(row.layout) \subseteq DOMAIN Patterns[n].params
        BY <2>2, LettersAgree
      <3> QED BY <2>3, <3>1, <3>2 DEF Decoded
    <2> QED BY <2>4, <2>5, <2>6 DEF RoundTrip
  <1> QED BY <1>1, Invariance, PTL

\* Every width written is a width of the operation.
THEOREM Widths == Spec => []WidthsAgree
  <1>1. IInv => WidthsAgree
    <2> SUFFICES ASSUME IInv, stage = "executed", source # Data,
                        NEW k \in DOMAIN source.operands, NEW m \in source.operands[k].sizes
                 PROVE  \E x \in DOMAIN decoded.operands \cap {"s", "t"} :
                            decoded.operands[x] = m
      BY DEF WidthsAgree
    <2>1. Encoded
      BY DEF IInv
    <2>2. PICK row \in Encodings, n \in DOMAIN Patterns :
              /\ EncodesBy(row, source) /\ Agree(row, Patterns[n])
              /\ n \in Arms(word) /\ \A j \in Arms(word) : j = n
              /\ Convertible(Patterns[n])
              /\ \A x \in DOMAIN Patterns[n].params :
                     Means(row, source, x, Converted(Patterns[n].params[x], Field(Patterns[n], x)))
      BY <2>1, TheDecoding
    <2>3. Decoded(n)
      BY <2>2 DEF IInv
    <2>4. IsStatement(source)
      BY StatementsAssumption DEF IInv
    <2>5. source.operands[k].rule = "register"
      BY <2>4 DEF IsStatement, IsOperand
    <2>6. k \in DOMAIN row.written /\ k \in DOMAIN row.args /\ "register" \in row.written[k]
      <3>1. k \in DOMAIN row.written /\ "register" \in row.written[k]
        BY <2>2, <2>4, <2>5, OperandsWritten DEF EncodesBy
      <3>2. k \in DOMAIN row.args
        BY <3>1, TablesAssumption DEF WidthsEncoded
      <3> QED BY <3>1, <3>2
    <2>7. PICK x \in DOMAIN row.sized \cap {"s", "t"} :
              x \in Letters(row.layout) /\ row.args[k].name \in row.sized[x]
      BY <2>6, TablesAssumption DEF WidthsEncoded
    <2>8. m \in SizesSeen(row, source, x)
      BY <2>6, <2>7 DEF SizesSeen
    <2>9. CommonSize(row, source, x) = m
      BY <2>2, <2>7, <2>8 DEF EncodesBy, SizesMatch, CommonSize
    <2>10. x \in DOMAIN Patterns[n].params
      BY <2>2, <2>7, LettersAgree
    <2>11. Means(row, source, x, decoded.operands[x]) /\ x \in DOMAIN decoded.operands
      BY <2>2, <2>3, <2>10 DEF Decoded
    <2>12. x \notin DOMAIN row.implied /\ x \notin ArgumentNames(row)
      BY <2>7, TablesAssumption DEF EncodingCompiles
    <2>13. decoded.operands[x] = m
      BY <2>7, <2>9, <2>11, <2>12 DEF Means
    <2> QED BY <2>7, <2>11, <2>13
  <1> QED BY <1>1, Invariance, PTL

-----------------------------------------------------------------------------
(* What is rejected.                                                       *)

\* Parsing looks at the shape of a statement only.
LEMMA ParsingByShape ==
    ASSUME NEW s, NEW row
    PROVE  Parses(row, s) <=> Parses(row, Shape(s))
<1> DEFINE t == Shape(s)
<1>1. /\ t.form = s.form
      /\ DOMAIN t.suffixes = DOMAIN s.suffixes /\ DOMAIN t.operands = DOMAIN s.operands
      /\ \A k \in DOMAIN s.suffixes : t.suffixes[k].rule = s.suffixes[k].rule
      /\ \A k \in DOMAIN s.operands : t.operands[k].rule = s.operands[k].rule
  BY DEF Shape, ShapeOf
<1> HIDE DEF t
<1>2. SuffixesRead(row, t) = SuffixesRead(row, s)
  BY <1>1 DEF SuffixesRead
<1>3. Suffix(row, t, "condition") # {} <=> Suffix(row, s, "condition") # {}
  BY <1>2 DEF Suffix
<1>4. SuffixesParse(row, t) <=> SuffixesParse(row, s)
  BY <1>1, <1>2, <1>3 DEF SuffixesParse, SuffixesRead
<1>5. OperandsParse(row, t) <=> OperandsParse(row, s)
  BY <1>1 DEF OperandsParse
<1>6. QED
  BY <1>1, <1>4, <1>5 DEF Parses, t

\* A statement whose numbers have values is of a shape that the grammar has for
\* its form.
LEMMA ShapeOfStatement ==
    ASSUME NEW s, IsStatement(s), \A k \in DOMAIN s.operands : s.operands[k].rule # "unresolved",
           NEW row \in Encodings, row.form = s.form
    PROVE  Shape(s) \in Shapes(row)
<1> DEFINE suffixes == [k \in DOMAIN s.suffixes |-> s.suffixes[k].rule]
           ops == [k \in DOMAIN s.operands |-> s.operands[k].rule]
           rules == UNION {row.written[k] : k \in DOMAIN row.written}
           n == Len(s.operands)
<1>1. /\ suffixes \in row.suffixes
      /\ n \in row.required .. Len(row.written) /\ DOMAIN s.operands = 1 .. n
      /\ \A k \in DOMAIN s.operands : s.operands[k].rule \in row.written[k]
  BY OperandsWritten DEF IsStatement
<1>2. DOMAIN s.operands \subseteq DOMAIN row.written
  BY OperandsWritten
<1>3. ops \in [1 .. n -> rules] /\ \A k \in DOMAIN ops : ops[k] \in row.written[k]
  BY <1>1, <1>2
<1> HIDE DEF ops, rules, n
<1>4. ops \in UNION {[1 .. m -> rules] : m \in row.required .. Len(row.written)}
  BY <1>1, <1>3
<1>5. ops \in OperandRules(row)
  BY <1>3, <1>4 DEF OperandRules, rules
<1>6. Shape(s) = ShapeOf(row.form, suffixes, ops)
  BY DEF Shape, ops
<1>7. QED
  BY <1>1, <1>5, <1>6 DEF Shapes

\* What is rejected fits no row.
Refused ==
    /\ stage \in {"parsed", "rejected"} => source \in Statements
    /\ stage = "rejected" => \A row \in Encodings : ~EncodesBy(row, source)

LEMMA Refusal == Spec => []Refused
<1>1. Init => Refused
  BY DEF Init, Refused
<1>2. IInv /\ Refused /\ [Next]_vars => Refused'
  <2> SUFFICES ASSUME IInv, Refused, [Next]_vars PROVE Refused'
    OBVIOUS
  <2>1. CASE Assemble
    BY <2>1 DEF Assemble, Refused
  <2>2. CASE Reject
    BY <2>2 DEF Reject, Refused
  <2>3. CASE Execute \/ Panic \/ Unmatched
    BY <2>3 DEF Execute, Panic, Unmatched, Refused
  <2>4. CASE UNCHANGED vars
    BY <2>4 DEF vars, Refused
  <2>5. QED
    BY <2>1, <2>2, <2>3, <2>4 DEF Next
<1>3. QED
  BY <1>1, <1>2, Invariance, PTL DEF Spec

\* A statement is turned down for widths that differ, for a number without a
\* value, or for a shape that no row takes, whatever its operands are.
THEOREM Causes == Spec => []RejectedForCause
<1>1. Refused => RejectedForCause
  <2> SUFFICES ASSUME Refused, stage = "rejected",
                      \A row \in Encodings : row.form = source.form => SizesMatch(row, source),
                      \A k \in DOMAIN source.operands : source.operands[k].rule # "unresolved"
               PROVE  Shape(source) \in Lost
    BY DEF RejectedForCause
  <2>1. IsStatement(source) /\ \A row \in Encodings : ~EncodesBy(row, source)
    BY StatementsAssumption DEF Refused
  <2>2. \A row \in Encodings : ~Parses(row, Shape(source))
    BY <2>1, ParsingByShape DEF EncodesBy, Parses
  <2>3. PICK row \in Encodings : row.form = source.form
    BY <2>1 DEF IsStatement
  <2>4. Shape(source) \in Shapes(row)
    BY <2>1, <2>3, ShapeOfStatement
  <2>5. QED
    BY <2>2, <2>4, LostAssumption
<1>2. QED
  BY Refusal, <1>1, PTL

=============================================================================
