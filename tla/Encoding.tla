------------------------------- MODULE Encoding -------------------------------
(***************************************************************************)
(* One instruction from its parsed text to its execution: the assembler    *)
(* reads its suffixes and operands and places their bits in a word, and    *)
(* the emulator finds the pattern that the word matches and takes them out *)
(* again. Two macros generate this code from two tables; here the tables   *)
(* are constants (Instructions has those of the code) and the macros are   *)
(* the actions. Numbers are sets of bit positions: a word is a subset of   *)
(* Positions, a register id, an immediate or a size a subset of ValueBits. *)
(***************************************************************************)
EXTENDS Integers, Sequences, FiniteSets

CONSTANTS
    Encodings,   \* rows of the assembler's table, one for each alternative
    Patterns,    \* the emulator's arms, in their order
    Statements,  \* parsed instructions
    Lost,        \* what the grammar lets through and no row takes, by its shape
    DataWords    \* words that no statement wrote

VARIABLES source, stage, word, decoded
vars == <<source, stage, word, decoded>>

Positions == 0 .. 31
ValueBits == 0 .. 63
FixedBits == {"0", "1"}

\* Registers and sizes that have a name: size codes 0 to 3 are {} to {0, 1}.
NullRegister == 0 .. 4
Always == 0 .. 3
WordSize == {0, 1}

-----------------------------------------------------------------------------
(* Fields. A letter of a layout takes its bits in order, lowest first.     *)

\* The next bit of the letter at position i, as both macros count them.
Rank(layout, i) == Cardinality({j \in Positions : j < i /\ layout[j] = layout[i]})

PositionsOf(layout, x) == {i \in Positions : layout[i] = x}
Letters(layout) == {layout[i] : i \in Positions} \ FixedBits

\* Bits of value in the places of their letters.
Place(layout, value) ==
    {i \in Positions :
        IF layout[i] \in FixedBits THEN layout[i] = "1"
        ELSE Rank(layout, i) \in value[layout[i]]}

Extract(layout, x, w) == {Rank(layout, i) : i \in PositionsOf(layout, x) \cap w}

SignExtended(value, width) ==
    (value \cap 0 .. width - 1) \cup (IF width - 1 \in value THEN width .. 63 ELSE {})

-----------------------------------------------------------------------------
(* The assembler.                                                          *)

\* truncate_immediate; registers and switches are taken as they are.
Truncated(arg, value) ==
    CASE arg.type = "imm" -> value \cap 0 .. arg.width - 1
      [] arg.type = "rel" -> SignExtended(value, arg.width)
      [] OTHER -> value

\* What the suffixes of the mnemonic are read as, in their order.
Modifiers(row) ==
    (IF row.cond = "absent" THEN <<>> ELSE <<"condition">>)
    \o (IF row.size = "absent" THEN <<>> ELSE <<"size">>)

SuffixesRead(row, s) == DOMAIN s.suffixes \cap DOMAIN Modifiers(row)

\* The suffix that is read as the condition or the size, if it is there.
Suffix(row, s, rule) ==
    {s.suffixes[k].value : k \in {k \in SuffixesRead(row, s) : Modifiers(row)[k] = rule}}

\* Parsing panics on a suffix that is not of the kind expected there.
SuffixesParse(row, s) ==
    /\ \A k \in SuffixesRead(row, s) : s.suffixes[k].rule = Modifiers(row)[k]
    /\ row.cond = "required" => Suffix(row, s, "condition") # {}

\* Each operand is of a rule that its consumer and this alternative take; one
\* that must be there is. A number that cannot be evaluated is of no such rule.
OperandsParse(row, s) ==
    \A k \in DOMAIN row.args :
        IF k \in DOMAIN s.operands THEN s.operands[k].rule \in row.args[k].takes
        ELSE row.args[k].optional \/ row.args[k].type = "nullable"

\* The sizes written on what the field x of sizes speaks for.
SizesSeen(row, s, x) ==
    Suffix(row, s, "size")
    \cup UNION {s.operands[k].sizes :
                    k \in {k \in DOMAIN row.args \cap DOMAIN s.operands :
                               row.args[k].name \in row.sized[x]}}

SizesMatchUnlessSuffixed(row, s) ==   \* mutant
    \A x \in DOMAIN row.sized :
        Suffix(row, s, "size") # {} \/ \A m, n \in SizesSeen(row, s, x) : m = n

\* common_register_size panics when they differ.
SizesMatch(row, s) ==
    \A x \in DOMAIN row.sized : \A m, n \in SizesSeen(row, s, x) : m = n

CommonSize(row, s, x) ==
    IF SizesSeen(row, s, x) = {} THEN WordSize
    ELSE CHOOSE m \in SizesSeen(row, s, x) : TRUE

Condition(row, s) ==
    IF Suffix(row, s, "condition") = {} THEN Always
    ELSE CHOOSE c \in Suffix(row, s, "condition") : TRUE

\* What is written for an argument: null or nothing for a nullable register is
\* the null register, and nothing for any other is its default, 0.
WrittenFor(row, s, k) ==
    IF k \notin DOMAIN s.operands
    THEN IF row.args[k].type = "nullable" THEN NullRegister ELSE {}
    ELSE IF s.operands[k].rule = "null" THEN NullRegister
         ELSE s.operands[k].value

ArgumentNamed(row, x) == CHOOSE k \in DOMAIN row.args : row.args[k].name = x
ArgumentNames(row) == {row.args[k].name : k \in DOMAIN row.args}

\* The value of each letter: an argument, the condition, or a size.
FieldValue(row, s, x) ==
    IF x \in ArgumentNames(row)
    THEN LET k == ArgumentNamed(row, x) IN Truncated(row.args[k], WrittenFor(row, s, k))
    ELSE IF x \in DOMAIN row.sized THEN CommonSize(row, s, x)
    ELSE Condition(row, s)

Encode(row, s) ==
    Place(row.layout, [x \in Letters(row.layout) |-> FieldValue(row, s, x)])

EncodesBy(row, s) ==
    /\ row.form = s.form
    /\ SuffixesParse(row, s)
    /\ OperandsParse(row, s)
    /\ SizesMatch(row, s)

Assemble ==
    /\ stage = "parsed"
    /\ \E row \in Encodings :
           /\ EncodesBy(row, source)
           /\ word' = Encode(row, source)
    /\ stage' = "written"
    /\ UNCHANGED <<source, decoded>>

RejectAtOnce ==   \* mutant: the first alternative that does not fit decides
    /\ stage = "parsed"
    /\ \E row \in Encodings : row.form = source.form /\ ~EncodesBy(row, source)
    /\ stage' = "rejected"
    /\ UNCHANGED <<source, word, decoded>>

\* A panic, or the exit of an evaluation that fails.
Reject ==
    /\ stage = "parsed"
    /\ \A row \in Encodings : ~EncodesBy(row, source)
    /\ stage' = "rejected"
    /\ UNCHANGED <<source, word, decoded>>

-----------------------------------------------------------------------------
(* The emulator.                                                           *)

MatchesOnes(pattern, w) ==   \* mutant
    \A i \in Positions : pattern.layout[i] = "1" => i \in w

Matches(pattern, w) ==
    \A i \in Positions :
        pattern.layout[i] \in FixedBits => (i \in w <=> pattern.layout[i] = "1")

\* The arm that is taken: the first that matches.
Arms(w) ==
    {n \in DOMAIN Patterns :
        Matches(Patterns[n], w) /\ \A m \in 1 .. n - 1 : ~Matches(Patterns[m], w)}

\* 0 to 9 are conditions.
IsCondition(bits) == 3 \notin bits \/ bits \subseteq {0, 3}

AcceptsConditions(param, bits) ==   \* mutant
    CASE param.type = "nullable" -> 4 \notin bits \/ bits = NullRegister
      [] param.type \in {"cond", "cond|null"} -> IsCondition(bits)
      [] OTHER -> TRUE

\* The values a parameter accepts; on any other the conversion panics.
Accepts(param, bits) ==
    CASE param.type = "nullable" -> 4 \notin bits \/ bits = NullRegister
      [] param.type = "cond" -> IsCondition(bits)
      [] param.type = "cond|null" -> IsCondition(bits) \/ bits = Always
      [] OTHER -> TRUE

ConvertedUnsigned(param, bits) == bits   \* mutant

Converted(param, bits) ==
    IF param.type = "rel" THEN SignExtended(bits, param.width) ELSE bits

Field(pattern, x) == Extract(pattern.layout, x, word)

Convertible(pattern) ==
    \A x \in DOMAIN pattern.params : Accepts(pattern.params[x], Field(pattern, x))

Execute ==
    /\ stage = "written"
    /\ \E n \in Arms(word) :
           /\ Convertible(Patterns[n])
           /\ decoded' = [op |-> Patterns[n].op,
                          operands |-> [x \in DOMAIN Patterns[n].params |->
                              Converted(Patterns[n].params[x], Field(Patterns[n], x))]]
    /\ stage' = "executed"
    /\ UNCHANGED <<source, word>>

Panic ==
    /\ stage = "written"
    /\ \E n \in Arms(word) : ~Convertible(Patterns[n])
    /\ stage' = "panicked"
    /\ UNCHANGED <<source, word, decoded>>

\* The default arm: an InvalidInstruction exception.
Unmatched ==
    /\ stage = "written"
    /\ Arms(word) = {}
    /\ stage' = "invalid"
    /\ UNCHANGED <<source, word, decoded>>

-----------------------------------------------------------------------------
Data == [form |-> "data", suffixes |-> <<>>, operands |-> <<>>]
Nothing == [op |-> "none", operands |-> <<>>]

Init ==
    /\ decoded = Nothing
    /\ \/ stage = "parsed" /\ source \in Statements /\ word = {}
       \/ stage = "written" /\ source = Data /\ word \in DataWords

Next == Assemble \/ Reject \/ Execute \/ Panic \/ Unmatched

Spec == Init /\ [][Next]_vars

-----------------------------------------------------------------------------
(* What the tables are. The first two are what the macros refuse to        *)
(* compile otherwise; the third is that the tables, written apart, agree.  *)

Arg ==
    [name : STRING, type : {"reg", "nullable", "imm", "rel", "bool"}, width : 1 .. 32,
     written : SUBSET STRING, takes : SUBSET STRING, optional : BOOLEAN]

\* Every letter of an assembler row is an argument, a size or the condition.
EncodingCompiles(row) ==
    /\ row.cond \in {"absent", "optional", "required"}
    /\ \A k \in DOMAIN row.args :
           row.args[k].type = "nullable" => row.args[k].takes = {"register", "null"}
    /\ \A j, k \in DOMAIN row.args : row.args[j].name = row.args[k].name => j = k
    /\ ArgumentNames(row) \subseteq Letters(row.layout)
    /\ ArgumentNames(row) \cup DOMAIN row.implied \subseteq STRING \ DOMAIN row.sized
    /\ Letters(row.layout) \subseteq
           ArgumentNames(row) \cup DOMAIN row.sized
           \cup (IF row.cond = "absent" THEN {} ELSE {"c"})

\* Every letter of a pattern has one parameter, and every parameter a letter.
PatternCompiles(pattern) == DOMAIN pattern.params = Letters(pattern.layout)

\* The bits a letter has in a layout are those its declared width has.
WidthsFit(pattern) ==
    \A x \in DOMAIN pattern.params :
        {Rank(pattern.layout, i) : i \in PositionsOf(pattern.layout, x)}
            = 0 .. pattern.params[x].width - 1

\* How the emulator must read letter x of an assembler row.
TypeOf(row, x) ==
    IF x \in ArgumentNames(row)
    THEN LET arg == row.args[ArgumentNamed(row, x)] IN [type |-> arg.type, width |-> arg.width]
    ELSE IF x \in DOMAIN row.sized THEN [type |-> "size", width |-> 2]
    ELSE [type |-> IF row.cond = "optional" THEN "cond|null" ELSE "cond", width |-> 4]

\* A row and a pattern for the same instruction have the same bits, save for
\* letters to which the row, a pseudo-instruction, gives a value itself.
Agree(row, pattern) ==
    /\ row.op = pattern.op
    /\ DOMAIN row.implied \subseteq DOMAIN pattern.params
    /\ \A i \in Positions :
           LET x == pattern.layout[i] IN
           IF x \in DOMAIN row.implied
           THEN row.layout[i] = IF Rank(pattern.layout, i) \in row.implied[x] THEN "1" ELSE "0"
           ELSE row.layout[i] = x
    /\ \A x \in DOMAIN pattern.params :
           IF x \in DOMAIN row.implied
           THEN /\ row.implied[x] \subseteq 0 .. pattern.params[x].width - 1
                /\ pattern.params[x].type # "rel"
                /\ Accepts(pattern.params[x], row.implied[x])
           ELSE pattern.params[x] = TypeOf(row, x)

TablesAgree == \A row \in Encodings : \E n \in DOMAIN Patterns : Agree(row, Patterns[n])

\* No word matches two patterns.
Apart(m, n) ==
    \E i \in Positions :
        /\ Patterns[m].layout[i] \in FixedBits /\ Patterns[n].layout[i] \in FixedBits
        /\ Patterns[m].layout[i] # Patterns[n].layout[i]

\* An argument that can be written with a width is in a field of widths.
WidthsEncoded(row) ==
    \A k \in DOMAIN row.written :
        "register" \in row.written[k] =>
            /\ k \in DOMAIN row.args
            /\ \E x \in DOMAIN row.sized \cap {"s", "t"} :
                   x \in Letters(row.layout) /\ row.args[k].name \in row.sized[x]

ASSUME PatternsAssumption == DOMAIN Patterns = 1 .. Len(Patterns) /\ Len(Patterns) \in Nat

ASSUME TablesAssumption ==
    /\ \A row \in Encodings : \A k \in DOMAIN row.args : row.args[k] \in Arg
    /\ \A row \in Encodings :
           Len(row.written) \in Nat /\ DOMAIN row.written = 1 .. Len(row.written)
    /\ \A row \in Encodings : EncodingCompiles(row) /\ WidthsEncoded(row)
    /\ \A n \in DOMAIN Patterns : PatternCompiles(Patterns[n]) /\ WidthsFit(Patterns[n])
    /\ TablesAgree
    /\ \A m, n \in DOMAIN Patterns : m # n => Apart(m, n)

\* Register ids and codes of sizes and conditions are those the grammar has;
\* a register may come with a size.
IsOperand(o) ==
    /\ o.value \subseteq ValueBits
    /\ o.rule \in {"register", "register_no_size"} => o.value \subseteq 0 .. 3
    /\ o.sizes \subseteq SUBSET WordSize
    /\ o.sizes # {} => o.rule = "register"

IsSuffix(x) ==
    IF x.rule = "size" THEN x.value \subseteq WordSize
    ELSE x.value \subseteq Always /\ IsCondition(x.value)

\* What the grammar lets through: the suffixes and operands of a form of the
\* instruction, where trailing operands may be optional.
IsStatement(s) ==
    /\ \A k \in DOMAIN s.suffixes : IsSuffix(s.suffixes[k])
    /\ \A k \in DOMAIN s.operands : IsOperand(s.operands[k])
    /\ \E row \in Encodings : row.form = s.form
    /\ \A row \in Encodings :
           row.form = s.form =>
               /\ [k \in DOMAIN s.suffixes |-> s.suffixes[k].rule] \in row.suffixes
               /\ Len(s.operands) \in row.required .. Len(row.written)
               /\ DOMAIN s.operands = 1 .. Len(s.operands)
               /\ \A k \in DOMAIN s.operands :
                      \/ s.operands[k].rule \in row.written[k]
                      \/ s.operands[k].rule = "unresolved" /\ "immediate" \in row.written[k]

ASSUME StatementsAssumption == \A s \in Statements : IsStatement(s)

\* The shape of a statement has the rules of its parts without their values;
\* those of a row are all that the grammar lets through.
ShapeOf(form, suffixes, operands) ==
    [form |-> form,
     suffixes |-> [k \in DOMAIN suffixes |-> [rule |-> suffixes[k], value |-> {}]],
     operands |-> [k \in DOMAIN operands |-> [rule |-> operands[k], value |-> {}, sizes |-> {}]]]

Shape(s) ==
    ShapeOf(s.form, [k \in DOMAIN s.suffixes |-> s.suffixes[k].rule],
                    [k \in DOMAIN s.operands |-> s.operands[k].rule])

OperandRules(row) ==
    LET rules == UNION {row.written[k] : k \in DOMAIN row.written}
    IN  {ops \in UNION {[1 .. n -> rules] : n \in row.required .. Len(row.written)} :
            \A k \in DOMAIN ops : ops[k] \in row.written[k]}

Shapes(row) ==
    {ShapeOf(row.form, suffixes, ops) : suffixes \in row.suffixes, ops \in OperandRules(row)}

Parses(row, s) == row.form = s.form /\ SuffixesParse(row, s) /\ OperandsParse(row, s)

\* Between them the alternatives of a form take whatever its grammar lets
\* through, but for what is lost.
ASSUME LostAssumption ==
    \A row \in Encodings : \A s \in Shapes(row) :
        s \in Lost <=> \A other \in Encodings : ~Parses(other, s)

-----------------------------------------------------------------------------
(* Properties.                                                             *)

FitsIn(type, width, value) ==
    IF type = "rel" THEN width - 1 .. 63 \subseteq value \/ width - 1 .. 63 \cap value = {}
    ELSE value \subseteq 0 .. width - 1

\* A value that fits its field arrives as it was written, sign included, and
\* one that does not loses its high bits and nothing else.
Delivered(arg, value, got) ==
    /\ got \cap 0 .. arg.width - 1 = value \cap 0 .. arg.width - 1
    /\ FitsIn(arg.type, arg.width, value) => got = value

\* What the emulator decodes for letter x is what the statement says.
Means(row, s, x, got) ==
    IF x \in DOMAIN row.implied THEN got = row.implied[x]
    ELSE IF x \in ArgumentNames(row)
    THEN LET k == ArgumentNamed(row, x) IN Delivered(row.args[k], WrittenFor(row, s, k), got)
    ELSE IF x \in DOMAIN row.sized
    THEN got = CommonSize(row, s, x)
    ELSE got = Condition(row, s)

\* The emulator executes the instruction that was written, on the operands,
\* the size and the condition that were written: the two tables and the two
\* macros, which share no code, are inverse to each other.
RoundTrip ==
    stage = "executed" /\ source # Data =>
        \E row \in Encodings :
            /\ row.form = source.form
            /\ decoded.op = row.op
            /\ ArgumentNames(row) \subseteq DOMAIN decoded.operands
            /\ \A x \in DOMAIN decoded.operands : Means(row, source, x, decoded.operands[x])

\* No statement is assembled into a word that stops the emulator: every word
\* of the assembler has an arm and only values its parameters accept.
AssembledRuns == source # Data => stage \notin {"panicked", "invalid"}

\* No word has two arms, whatever wrote it: the order of the arms is of no
\* consequence, and code reads the same as data.
OneArm ==
    \A m \in DOMAIN Patterns : Matches(Patterns[m], word) =>
        \A n \in DOMAIN Patterns : Matches(Patterns[n], word) => m = n

\* Every width written on an operand is a width the emulator works at: no
\* instruction silently mixes widths (spec/src/instructions.md:24-29). Only
\* mul has two, for what it reads and what it writes.
WidthsAgree ==
    stage = "executed" /\ source # Data =>
        \A k \in DOMAIN source.operands : \A m \in source.operands[k].sizes :
            \E x \in DOMAIN decoded.operands \cap {"s", "t"} : decoded.operands[x] = m

\* The assembler turns down what is wrong, and only that: widths that differ
\* and numbers without a value. All else that it turns down is of a shape that
\* it never takes.
RejectedForCause ==
    stage = "rejected" =>
        \/ \E row \in Encodings : row.form = source.form /\ ~SizesMatch(row, source)
        \/ \E k \in DOMAIN source.operands : source.operands[k].rule = "unresolved"
        \/ Shape(source) \in Lost

=============================================================================
