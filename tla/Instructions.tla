----------------------------- MODULE Instructions -----------------------------
(***************************************************************************)
(* The two tables of instruction encodings, as they stand in the source:   *)
(* the assembler's, with what the grammar lets its operands be, and the    *)
(* emulator's. Bits are written as in the source, the highest first.       *)
(***************************************************************************)
EXTENDS Integers, Sequences, FiniteSets

None == [x \in {} |-> 0]

\* Position 0 is the last character.
LayoutOf(text) == [i \in 0 .. 31 |-> SubSeq(text, 32 - i, 32 - i)]

-----------------------------------------------------------------------------
(* Arguments of the assembler: their type and width, the rules the grammar *)
(* has for them, and the rules that the code which consumes them takes.    *)

Argument(x, type, width, written, takes, optional) ==
    [name |-> x, type |-> type, width |-> width,
     written |-> written, takes |-> takes, optional |-> optional]

Required(x, type, width, written, takes) == Argument(x, type, width, written, takes, FALSE)

\* parse_register takes a register with a size or without.
Reg(x) == Required(x, "reg", 4, {"register"}, {"register", "register_no_size"})
Base(x) == Required(x, "reg", 4, {"register_no_size"}, {"register", "register_no_size"})
\* parse_register_or_null; the grammar lets null be written for some only.
RegOrNull(x) == Required(x, "nullable", 5, {"register", "null"}, {"register", "null"})
NotNull(x) == Required(x, "nullable", 5, {"register"}, {"register", "null"})
Imm(x, width) == Required(x, "imm", width, {"immediate"}, {"immediate"})
Rel(x, width) == Required(x, "rel", width, {"immediate"}, {"immediate"})
Default(x, width) == Argument(x, "imm", width, {"immediate"}, {"immediate"}, TRUE)
Switch(x) == Argument(x, "bool", 1, {"immediate"}, {"immediate"}, TRUE)
MachineRegister(x, width) ==
    Required(x, "imm", width, {"machine_register", "immediate"}, {"machine_register", "immediate"})
\* parse_argument takes a register with or without a size suffix, but by that
\* rule only, not by the rule for registers that cannot have one.
RegNotImm(x) == Required(x, "reg", 4, {"register", "immediate"}, {"register"})
ImmNotReg(x, width) == Required(x, "imm", width, {"register", "immediate"}, {"immediate"})
JumpReg(x) == Required(x, "reg", 4, {"register_no_size", "immediate"}, {"register"})
JumpRel(x, width) ==
    Required(x, "rel", width, {"register_no_size", "immediate"}, {"immediate"})

WithReg == <<RegOrNull("d"), Reg("a"), Reg("b")>>
WithImm == <<RegOrNull("d"), Reg("a"), Imm("b", 11), Default("S", 3), Switch("A")>>

-----------------------------------------------------------------------------
(* Rows of the assembler: a form of the grammar, the operation it means,   *)
(* the modifiers it may or must have and those the grammar offers.         *)

Instruction(form, op, cond, size, suffixes, args, text) ==
    [form |-> form, op |-> op, cond |-> cond, size |-> size, suffixes |-> suffixes,
     args |-> args,
     written |-> [k \in DOMAIN args |-> args[k].written],
     required |-> Cardinality({k \in DOMAIN args : ~args[k].optional}),
     sized |-> IF size = "absent" THEN None
               ELSE [s |-> {args[k].name : k \in DOMAIN args}],
     implied |-> None,
     layout |-> LayoutOf(text)]

\* No modifier, [.s], [.c] and .c[.s].
Plain(form, args, text) == Instruction(form, form, "absent", "absent", {<<>>}, args, text)
Sized(form, op, args, text) ==
    Instruction(form, op, "absent", "optional", {<<>>, <<"size">>}, args, text)
Conditional(form, args, text) ==
    Instruction(form, form, "optional", "absent", {<<>>, <<"condition">>}, args, text)
Compared(form, args, text) ==
    Instruction(form, form, "required", "optional",
        {<<"condition">>, <<"condition", "size">>}, args, text)
\* The grammar has the condition as a number in place of a suffix.
Untestable(form, args, text) ==
    [Instruction(form, form, "required", "optional", {<<>>, <<"size">>}, args, text) EXCEPT
        !.written = @ \o <<{"immediate"}>>,
        !.required = Cardinality({k \in DOMAIN args : ~args[k].optional}) + 1]
\* Two sizes, taken from the operands only.
Product(form, args, text) ==
    [Plain(form, args, text) EXCEPT !.sized = [s |-> {"a", "b"}, t |-> {"d"}]]
\* A sub with a null destination that sets flags.
Comparison(form, args, text) ==
    [Sized(form, "sub", args, text) EXCEPT !.implied = [d |-> 0 .. 4, f |-> {0}]]

AssemblerTable ==
    {Sized("pushs", "pushs", <<NotNull("a")>>, "1101110000000000000000000ssaaaaa"),
     Sized("pushp", "pushp", <<NotNull("a"), NotNull("b")>>, "11011000000000000000ssaaaaabbbbb"),
     Sized("pops", "pops", <<NotNull("a")>>, "1101010000000000000000000ssaaaaa"),
     Sized("popp", "popp", <<NotNull("a"), NotNull("b")>>, "11010000000000000000ssaaaaabbbbb"),
     Sized("lds", "lds", <<Reg("d"), Base("a")>>, "1100110000000000000000ssddddaaaa"),
     Sized("ldp", "ldp", <<Reg("d"), Reg("e"), Base("a")>>, "110010000000000000ssddddeeeeaaaa"),
     Sized("sts", "sts", <<Base("a"), Reg("b")>>, "1100010000000000000000ssaaaabbbb"),
     Sized("stp", "stp", <<Base("a"), Reg("b"), Reg("c")>>, "110000000000000000ssaaaabbbbcccc"),
     Plain("ldi", <<Base("d"), Imm("a", 16), Default("b", 6), Default("c", 2)>>,
         "1110ccaaaaaaaaaaaaaaaabbbbbbdddd"),
     Plain("ldr", <<Base("d"), Rel("a", 22)>>, "001100ddddaaaaaaaaaaaaaaaaaaaaaa"),
     Sized("copy", "copy", <<Reg("d"), Reg("S")>>, "1010100000000000000000ssddddSSSS"),
     Sized("add_reg", "add", WithReg \o <<Switch("c"), Switch("f")>>,
         "101001000000000sscfdddddaaaabbbb"),
     Sized("add_imm", "add", WithImm \o <<Switch("c"), Switch("f")>>,
         "1011sscfdddddaaaaASSSbbbbbbbbbbb"),
     Sized("sub_reg", "sub", WithReg \o <<Switch("B"), Switch("f")>>,
         "101000000000000ssBfdddddaaaabbbb"),
     Sized("sub_imm", "sub", WithImm \o <<Switch("B"), Switch("f")>>,
         "1001ssBfdddddaaaaASSSbbbbbbbbbbb"),
     Product("mul", <<Reg("d"), Reg("a"), Reg("b"), Switch("S"), Switch("f")>>,
         "10001100000000ssttSfddddaaaabbbb"),
     Sized("div", "div", <<Reg("d"), Reg("r"), Reg("a"), Reg("b"), Switch("S"), Switch("f")>>,
         "100010000000ssSfddddrrrraaaabbbb"),
     Sized("and_reg", "and", WithReg \o <<Switch("f")>>, "1010110000000000ssfdddddaaaabbbb"),
     Sized("and_imm", "and", WithImm \o <<Switch("f")>>, "10000AssfdddddaaaabbbbbbbbbbbSSS"),
     Sized("or_reg", "or", WithReg \o <<Switch("f")>>, "0100000000000000ssfdddddaaaabbbb"),
     Sized("or_imm", "or", WithImm \o <<Switch("f")>>, "01111AssfdddddaaaabbbbbbbbbbbSSS"),
     Sized("xor_reg", "xor", WithReg \o <<Switch("f")>>, "0011100000000000ssfdddddaaaabbbb"),
     Sized("xor_imm", "xor", WithImm \o <<Switch("f")>>, "01110AssfdddddaaaabbbbbbbbbbbSSS"),
     Sized("shl", "shl", <<RegOrNull("d"), Reg("a"), RegNotImm("b"), Switch("f")>>,
         "0110100000000000ssfdddddaaaabbbb"),
     Sized("shl", "shl", <<RegOrNull("d"), Reg("a"), ImmNotReg("b", 7), Switch("f")>>,
         "0110110000000ssfdddddaaaabbbbbbb"),
     Sized("shr", "shr", <<RegOrNull("d"), Reg("a"), RegNotImm("b"), Switch("A"), Switch("f")>>,
         "011000000000000ssAfdddddaaaabbbb"),
     Sized("shr", "shr", <<RegOrNull("d"), Reg("a"), ImmNotReg("b", 7), Switch("A"), Switch("f")>>,
         "011001000000ssAfdddddaaaabbbbbbb"),
     Sized("rot", "rot", <<RegOrNull("d"), Reg("a"), RegNotImm("b"), Switch("f")>>,
         "0101100000000000ssfdddddaaaabbbb"),
     Sized("rot", "rot", <<RegOrNull("d"), Reg("a"), ImmNotReg("b", 7), Switch("f")>>,
         "0101110000000ssfdddddaaaabbbbbbb"),
     Sized("neg", "neg", <<Reg("d"), Reg("a"), Switch("f")>>, "010101000000000000000ssfddddaaaa"),
     Sized("bswap", "bswap", <<Reg("d"), Reg("a"), Switch("f")>>, "010100000000000000000ssfddddaaaa"),
     Untestable("soc", <<Reg("d"), Reg("a"), Reg("b"), Switch("B")>>,
         "1111000000000ccccBssddddaaaabbbb"),
     Untestable("sof", <<Reg("d")>>, "1111010000000000000000ccccssdddd"),
     Conditional("jmpa", <<Base("a")>>, "010011000000000000000000ccccaaaa"),
     Conditional("jmpr", <<JumpReg("a")>>, "010010000000000000000000ccccaaaa"),
     Conditional("jmpr", <<JumpRel("a", 22)>>, "010001ccccaaaaaaaaaaaaaaaaaaaaaa"),
     Compared("cjmpa", <<Base("a"), Reg("b"), Reg("C")>>, "00111100000000ccccssaaaabbbbCCCC"),
     Compared("cjmpr", <<JumpReg("a"), Reg("b"), Reg("C")>>, "00110100000000ccccssaaaabbbbCCCC"),
     Compared("cjmpr", <<JumpRel("a", 13), Reg("b"), Reg("C")>>, "11111ccccssbbbbCCCCaaaaaaaaaaaaa"),
     Conditional("calla", <<Base("a")>>, "001010000000000000000000ccccaaaa"),
     Conditional("callr", <<JumpReg("a")>>, "001001000000000000000000ccccaaaa"),
     Conditional("callr", <<JumpRel("a", 22)>>, "001000ccccaaaaaaaaaaaaaaaaaaaaaa"),
     Plain("ret", <<>>, "00011100000000000000000000000000"),
     Plain("eret", <<>>, "00011000000000000000000000000000"),
     Plain("udf", <<>>, "00000000000000000000000000000000"),
     Plain("dbg", <<>>, "00001000000000000000000000000000"),
     Plain("exc", <<Imm("a", 16)>>, "0000110000000000aaaaaaaaaaaaaaaa"),
     Plain("nop", <<>>, "00000100000000000000000000000000"),
     Plain("ldm", <<Base("d"), MachineRegister("a", 22)>>, "000100ddddaaaaaaaaaaaaaaaaaaaaaa"),
     Plain("stm", <<MachineRegister("d", 22), Base("a")>>, "000101aaaadddddddddddddddddddddd"),
     Comparison("pseudo_cmp_reg", <<Reg("a"), Reg("b"), Switch("B")>>,
         "101000000000000ssB111111aaaabbbb"),
     Comparison("pseudo_cmp_imm", <<Reg("a"), Imm("b", 11), Default("S", 3), Switch("A"), Switch("B")>>,
         "1001ssB111111aaaaASSSbbbbbbbbbbb")}

-----------------------------------------------------------------------------
(* Patterns of the emulator and the types of their parameters.             *)

Param(type, width) == [type |-> type, width |-> width]
SizeCode == Param("size", 2)
Register == Param("reg", 4)
RegisterOrNull == Param("nullable", 5)
Boolean == Param("bool", 1)
Cond == Param("cond", 4)
CondOrNull == Param("cond|null", 4)
Immediate(width) == Param("imm", width)
Relative(width) == Param("rel", width)

Pattern(op, text, params) == [op |-> op, layout |-> LayoutOf(text), params |-> params]

EmulatorTable ==
    <<Pattern("pushs", "1101110000000000000000000ssaaaaa", [s |-> SizeCode, a |-> RegisterOrNull]),
      Pattern("pushp", "11011000000000000000ssaaaaabbbbb",
          [s |-> SizeCode, a |-> RegisterOrNull, b |-> RegisterOrNull]),
      Pattern("pops", "1101010000000000000000000ssaaaaa", [s |-> SizeCode, a |-> RegisterOrNull]),
      Pattern("popp", "11010000000000000000ssaaaaabbbbb",
          [s |-> SizeCode, a |-> RegisterOrNull, b |-> RegisterOrNull]),
      Pattern("lds", "1100110000000000000000ssddddaaaa",
          [s |-> SizeCode, d |-> Register, a |-> Register]),
      Pattern("ldp", "110010000000000000ssddddeeeeaaaa",
          [s |-> SizeCode, d |-> Register, e |-> Register, a |-> Register]),
      Pattern("sts", "1100010000000000000000ssaaaabbbb",
          [s |-> SizeCode, a |-> Register, b |-> Register]),
      Pattern("stp", "110000000000000000ssaaaabbbbcccc",
          [s |-> SizeCode, a |-> Register, b |-> Register, c |-> Register]),
      Pattern("ldi", "1110ccaaaaaaaaaaaaaaaabbbbbbdddd",
          [d |-> Register, a |-> Immediate(16), b |-> Immediate(6), c |-> Immediate(2)]),
      Pattern("ldr", "001100ddddaaaaaaaaaaaaaaaaaaaaaa", [d |-> Register, a |-> Relative(22)]),
      Pattern("copy", "1010100000000000000000ssddddSSSS",
          [s |-> SizeCode, d |-> Register, S |-> Register]),
      Pattern("add", "101001000000000sscfdddddaaaabbbb",
          [s |-> SizeCode, d |-> RegisterOrNull, a |-> Register, b |-> Register, c |-> Boolean,
           f |-> Boolean]),
      Pattern("add", "1011sscfdddddaaaaASSSbbbbbbbbbbb",
          [s |-> SizeCode, d |-> RegisterOrNull, a |-> Register, b |-> Immediate(11),
           S |-> Immediate(3), A |-> Boolean, c |-> Boolean, f |-> Boolean]),
      Pattern("sub", "101000000000000ssBfdddddaaaabbbb",
          [s |-> SizeCode, d |-> RegisterOrNull, a |-> Register, b |-> Register, B |-> Boolean,
           f |-> Boolean]),
      Pattern("sub", "1001ssBfdddddaaaaASSSbbbbbbbbbbb",
          [s |-> SizeCode, d |-> RegisterOrNull, a |-> Register, b |-> Immediate(11),
           S |-> Immediate(3), A |-> Boolean, B |-> Boolean, f |-> Boolean]),
      Pattern("mul", "10001100000000ssttSfddddaaaabbbb",
          [s |-> SizeCode, t |-> SizeCode, d |-> Register, a |-> Register, b |-> Register,
           S |-> Boolean, f |-> Boolean]),
      Pattern("div", "100010000000ssSfddddrrrraaaabbbb",
          [s |-> SizeCode, d |-> Register, r |-> Register, a |-> Register, b |-> Register,
           S |-> Boolean, f |-> Boolean]),
      Pattern("and", "1010110000000000ssfdddddaaaabbbb",
          [s |-> SizeCode, d |-> RegisterOrNull, a |-> Register, b |-> Register, f |-> Boolean]),
      Pattern("and", "10000AssfdddddaaaabbbbbbbbbbbSSS",
          [s |-> SizeCode, d |-> RegisterOrNull, a |-> Register, b |-> Immediate(11),
           S |-> Immediate(3), A |-> Boolean, f |-> Boolean]),
      Pattern("or", "0100000000000000ssfdddddaaaabbbb",
          [s |-> SizeCode, d |-> RegisterOrNull, a |-> Register, b |-> Register, f |-> Boolean]),
      Pattern("or", "01111AssfdddddaaaabbbbbbbbbbbSSS",
          [s |-> SizeCode, d |-> RegisterOrNull, a |-> Register, b |-> Immediate(11),
           S |-> Immediate(3), A |-> Boolean, f |-> Boolean]),
      Pattern("xor", "0011100000000000ssfdddddaaaabbbb",
          [s |-> SizeCode, d |-> RegisterOrNull, a |-> Register, b |-> Register, f |-> Boolean]),
      Pattern("xor", "01110AssfdddddaaaabbbbbbbbbbbSSS",
          [s |-> SizeCode, d |-> RegisterOrNull, a |-> Register, b |-> Immediate(11),
           S |-> Immediate(3), A |-> Boolean, f |-> Boolean]),
      Pattern("shl", "0110100000000000ssfdddddaaaabbbb",
          [s |-> SizeCode, d |-> RegisterOrNull, a |-> Register, b |-> Register, f |-> Boolean]),
      Pattern("shl", "0110110000000ssfdddddaaaabbbbbbb",
          [s |-> SizeCode, d |-> RegisterOrNull, a |-> Register, b |-> Immediate(7), f |-> Boolean]),
      Pattern("shr", "011000000000000ssAfdddddaaaabbbb",
          [s |-> SizeCode, d |-> RegisterOrNull, a |-> Register, b |-> Register, A |-> Boolean,
           f |-> Boolean]),
      Pattern("shr", "011001000000ssAfdddddaaaabbbbbbb",
          [s |-> SizeCode, d |-> RegisterOrNull, a |-> Register, b |-> Immediate(7), A |-> Boolean,
           f |-> Boolean]),
      Pattern("rot", "0101100000000000ssfdddddaaaabbbb",
          [s |-> SizeCode, d |-> RegisterOrNull, a |-> Register, b |-> Register, f |-> Boolean]),
      Pattern("rot", "0101110000000ssfdddddaaaabbbbbbb",
          [s |-> SizeCode, d |-> RegisterOrNull, a |-> Register, b |-> Immediate(7), f |-> Boolean]),
      Pattern("neg", "010101000000000000000ssfddddaaaa",
          [s |-> SizeCode, d |-> Register, a |-> Register, f |-> Boolean]),
      Pattern("bswap", "010100000000000000000ssfddddaaaa",
          [s |-> SizeCode, d |-> Register, a |-> Register, f |-> Boolean]),
      Pattern("soc", "1111000000000ccccBssddddaaaabbbb",
          [s |-> SizeCode, d |-> Register, a |-> Register, b |-> Register, c |-> Cond, B |-> Boolean]),
      Pattern("sof", "1111010000000000000000ccccssdddd", [s |-> SizeCode, d |-> Register, c |-> Cond]),
      Pattern("jmpa", "010011000000000000000000ccccaaaa", [c |-> CondOrNull, a |-> Register]),
      Pattern("jmpr", "010010000000000000000000ccccaaaa", [c |-> CondOrNull, a |-> Register]),
      Pattern("jmpr", "010001ccccaaaaaaaaaaaaaaaaaaaaaa", [c |-> CondOrNull, a |-> Relative(22)]),
      Pattern("cjmpa", "00111100000000ccccssaaaabbbbCCCC",
          [c |-> Cond, s |-> SizeCode, a |-> Register, b |-> Register, C |-> Register]),
      Pattern("cjmpr", "00110100000000ccccssaaaabbbbCCCC",
          [c |-> Cond, s |-> SizeCode, a |-> Register, b |-> Register, C |-> Register]),
      Pattern("cjmpr", "11111ccccssbbbbCCCCaaaaaaaaaaaaa",
          [c |-> Cond, s |-> SizeCode, a |-> Relative(13), b |-> Register, C |-> Register]),
      Pattern("calla", "001010000000000000000000ccccaaaa", [c |-> CondOrNull, a |-> Register]),
      Pattern("callr", "001001000000000000000000ccccaaaa", [c |-> CondOrNull, a |-> Register]),
      Pattern("callr", "001000ccccaaaaaaaaaaaaaaaaaaaaaa", [c |-> CondOrNull, a |-> Relative(22)]),
      Pattern("ret", "00011100000000000000000000000000", None),
      Pattern("eret", "00011000000000000000000000000000", None),
      Pattern("udf", "00000000000000000000000000000000", None),
      Pattern("dbg", "00001000000000000000000000000000", None),
      Pattern("exc", "0000110000000000aaaaaaaaaaaaaaaa", [a |-> Immediate(16)]),
      Pattern("nop", "00000100000000000000000000000000", None),
      Pattern("ldm", "000100ddddaaaaaaaaaaaaaaaaaaaaaa", [d |-> Register, a |-> Immediate(22)]),
      Pattern("stm", "000101aaaadddddddddddddddddddddd", [d |-> Immediate(22), a |-> Register])>>

=============================================================================
