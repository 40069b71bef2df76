------------------------------ MODULE MCEncoding ------------------------------
(***************************************************************************)
(* The tables of the code, statements of every form of the grammar with a  *)
(* few operands of each kind, and words near each pattern.                 *)
(***************************************************************************)
EXTENDS Encoding, Instructions

\* Every arm of the emulator has an instruction of the assembler.
ASSUME EveryArmEncoded == \A n \in DOMAIN Patterns : \E row \in Encodings : Agree(row, Patterns[n])

-----------------------------------------------------------------------------
Operand(rule, value, sizes) == [rule |-> rule, value |-> value, sizes |-> sizes]

Byte == {}

\* 5, 10 and 15; flags and evtable; 0, -1, the highest bits of both signs of
\* the fields, and a number that is no multiple of 2.
Operands(rule) ==
    CASE rule = "register" ->
            {Operand(rule, {0, 2}, {}), Operand(rule, {1, 3}, {Byte}),
             Operand(rule, 0 .. 3, {WordSize})}
      [] rule = "register_no_size" -> {Operand(rule, {0, 2}, {}), Operand(rule, {1, 3}, {})}
      [] rule = "null" -> {Operand(rule, {}, {})}
      [] rule = "machine_register" -> {Operand(rule, {}, {}), Operand(rule, {1, 2}, {})}
      [] rule = "immediate" ->
            {Operand(rule, v, {}) :
                v \in {{}, ValueBits, 12 .. 63, {0, 2, 10, 15, 21}}}
            \cup {Operand("unresolved", {}, {})}

Suffixes(rule) ==
    {[rule |-> rule, value |-> v] : v \in IF rule = "size" THEN {Byte, WordSize}
                                          ELSE {{}, {0, 1, 2}}}

\* All sequences with the n-th element in f[n].
RECURSIVE Sequences(_, _)
Sequences(f, n) ==
    IF n = 0 THEN {<<>>}
    ELSE {Append(s, e) : s \in Sequences(f, n - 1), e \in f[n]}

\* Operands that may be left out: from the last, with bits that alternate.
Odd == {0}
Even == {1, 63}
Trailing(n) ==
    UNION {{[k \in 1 .. m |-> Operand("immediate", IF k % 2 = p THEN Odd ELSE Even, {})] :
               p \in {0, 1}} : m \in 0 .. n}

StatementsOf(row) ==
    LET first == [k \in 1 .. row.required |->
                    UNION {Operands(rule) : rule \in row.written[k]}] IN
    {[form |-> row.form, suffixes |-> suffixes, operands |-> ops \o rest] :
        suffixes \in UNION {Sequences([k \in DOMAIN rules |-> Suffixes(rules[k])], Len(rules)) :
                                rules \in row.suffixes},
        ops \in Sequences(first, row.required),
        rest \in Trailing(Len(row.written) - row.required)}

AllStatements == UNION {StatementsOf(row) : row \in AssemblerTable}

\* Each pattern with its fields empty or full, and with one bit turned.
Turned(w, i) == IF i \in w THEN w \ {i} ELSE w \cup {i}
NearPatterns ==
    UNION {LET empty == Place(p.layout, [x \in Letters(p.layout) |-> {}])
               full == Place(p.layout, [x \in Letters(p.layout) |-> ValueBits]) IN
           {empty, full} \cup {Turned(empty, i) : i \in Positions}
               \cup {Turned(full, i) : i \in Positions} :
           p \in {EmulatorTable[n] : n \in DOMAIN EmulatorTable}}

\* Two kinds of instruction are lost: the conditions of soc and sof cannot be
\* written, and a register as the target of a relative jump is of a rule that
\* its consumer does not know.
RegisterJump(s) ==
    s.form \in {"jmpr", "cjmpr", "callr"} /\ s.operands[1].rule = "register_no_size"

Unwritable ==
    {s \in UNION {Shapes(row) : row \in AssemblerTable} :
        s.form \in {"soc", "sof"} \/ RegisterJump(s)}

\* Names for the values of the constants, which TLC then evaluates once.
MCEncodings == AssemblerTable
MCPatterns == EmulatorTable
MCStatements == AllStatements
MCDataWords == NearPatterns
MCLost == Unwritable

-----------------------------------------------------------------------------
\* A relative jump may take its displacement from a register
\* (spec/src/instructions.md:888, `jmpr[.c] a:reg`).
RegisterJumpsAssemble == RegisterJump(source) /\ source.suffixes = <<>> => stage # "rejected"

=============================================================================
