----------------------------- MODULE MCAssembler -----------------------------
(***************************************************************************)
(* Small programs for TLC.                                                 *)
(***************************************************************************)
EXTENDS Assembler

CONSTANT MaxItems   \* length of the programs

Here == [kind |-> "here"]
Num(v) == [kind |-> "int", val |-> v]
Name(n) == [kind |-> "name", name |-> n]
Only(p) == [op |-> "none", l |-> p, r |-> p]
Op(o, l, r) == [op |-> o, l |-> l, r |-> r]

Label(n) == [kind |-> "label", name |-> n]
Def(n, e) == [kind |-> "def", name |-> n, expr |-> e]
Addr(e) == [kind |-> "addr", expr |-> e]
Instr(args) == [kind |-> "instr", fate |-> "encoded", args |-> args]
Arg(form, span, e) == [form |-> form, span |-> span, expr |-> e]
Write(size, span, vals) == [kind |-> "write", size |-> size, span |-> span, vals |-> vals]

Jump(e) == Instr(<<Arg("relative", 4, e)>>)

\* Labels, instructions that refer to them, and data that misalign both.
LayoutItems ==
    {Label("a"), Label("b"),
     Instr(<<>>), Jump(Only(Name("a"))),
     Instr(<<Arg("bytes", 16, Only(Name("b"))), Arg("immediate", 4, Only(Here))>>),
     Write(1, 4, <<Only(Num(1))>>), Write(2, 16, <<Only(Name("a")), Only(Name("b"))>>),
     Addr(Only(Num(6))), Addr(Only(Num(AddrSpace - 3))), Addr(Op("add", Here, Name("b")))}

\* Definitions, alone and in place of others, and what can fail.
FailingItems ==
    {Label("a"), Def("a", Only(Num(8))), Def("b", Op("sub", Here, Name("a"))),
     Instr(<<>>), Jump(Op("rem", Num(12), Name("b"))),
     [kind |-> "instr", fate |-> "unknown", args |-> <<>>],
     [kind |-> "instr", fate |-> "rejected", args |-> <<Arg("immediate", 4, Only(Name("a")))>>],
     Write(1, 4, <<Only(Num(1)), Op("div", Num(12), Name("b")), Only(Here)>>),
     Addr(Op("mul", Name("b"), Num(2))), Addr(Only(Num(AddrSpace - 3)))}

ProgramsOf(items) == UNION {[1 .. n -> items] : n \in 0 .. MaxItems}

MCPrograms == ProgramsOf(LayoutItems) \cup ProgramsOf(FailingItems)

\* What can fail is assembled by a debug build, the rest by a release build.
MCDebugPrograms == Seq(FailingItems)
=============================================================================
