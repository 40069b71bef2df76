------------------------------ MODULE Assembler ------------------------------
(***************************************************************************)
(* The two passes of src/acca-as over a parsed program.  The first assigns *)
(* an address to every label, the second evaluates the operands with those *)
(* addresses and writes the image.  The parser's output is a parameter: a  *)
(* program is a sequence of items, one per label, instruction or directive.*)
(* An instruction is known by its position, its fixed bits are left out.   *)
(***************************************************************************)
EXTENDS Words, Sequences

CONSTANTS
    Names,           \* identifiers of labels and definitions
    Programs,        \* sequences of items that may be assembled
    DebugPrograms    \* those that a debug build assembles: overflows panic there,
                     \* and wrap in the release build that assembles the others

\* A name without an address.
Unset == -1

\* An expression is a primary, or an operation on two of them.
IsPrimary(p) ==
    \/ p.kind = "int" /\ p.val \in Word
    \/ p.kind = "name" /\ p.name \in Names
    \/ p.kind = "here"
IsExpr(e) ==
    /\ e.op \in {"none", "add", "sub", "mul", "div", "rem"}
    /\ IsPrimary(e.l) /\ IsPrimary(e.r)

\* The number of values a field of an instruction can hold: a power of two, so
\* small that the address space is a multiple of it even in instructions.
IsFieldSpan(span) == span \in Nat \ {0} /\ span % 2 = 0 /\ AddrSpace % (4 * span) = 0

\* An instruction is written with immediate operands; "unknown" ones have no
\* encoding, and "rejected" ones panic once their operands are evaluated
\* (Encoding's Reject: registers of different sizes, the conditions of soc and
\* sof, relative jumps to registers).  span is the number of values an
\* operand's field, or each value of a .write, can hold; no source is so long
\* that the values of a .write fill more than the address space.
IsItem(i) ==
    \/ i.kind = "label" /\ i.name \in Names
    \/ /\ i.kind = "instr"
       /\ i.fate \in {"encoded", "unknown", "rejected"}
       /\ \A k \in DOMAIN i.args :
             /\ i.args[k].form \in {"immediate", "relative", "bytes"}
             /\ IsFieldSpan(i.args[k].span)
             /\ IsExpr(i.args[k].expr)
    \/ i.kind = "addr" /\ IsExpr(i.expr)
    \/ /\ i.kind = "write"
       /\ i.size \in {1, 2, 4, 8} /\ i.span \in 1 .. AddrSpace
       /\ Len(i.vals) \in Nat /\ DOMAIN i.vals = 1 .. Len(i.vals)
       /\ i.size * Len(i.vals) <= AddrSpace
       /\ \A k \in DOMAIN i.vals : IsExpr(i.vals[k])
    \/ i.kind = "def" /\ i.name \in Names /\ IsExpr(i.expr)

ASSUME ProgramsAssumption ==
    \A prog \in Programs :
        /\ Len(prog) \in Nat /\ DOMAIN prog = 1 .. Len(prog)
        /\ \A p \in DOMAIN prog : IsItem(prog[p])

VARIABLES
    program,       \* the parsed source
    pass,          \* 1 while addresses are determined, 2 while bytes are written
    pos,           \* the item in turn
    addr,          \* the current address
    label_addrs,   \* value of every name, or Unset
    output,        \* the file: offset -> the byte of an item, with its operands
    placed,        \* history: where each pass put the items
    status         \* "assembling", "done", or why the process ended

vars == <<program, pass, pos, addr, label_addrs, output, placed, status>>

-----------------------------------------------------------------------------
(* Expressions: evaluate_immediate with the names known so far, and here   *)
(* for $.                                                                  *)

NamesIn(e) ==
    {p.name : p \in {q \in {e.l, e.r} : q.kind = "name" /\ (e.op # "none" \/ q = e.l)}}

Primary(p, names, here) ==
    CASE p.kind = "int" -> p.val
      [] p.kind = "name" -> names[p.name]
      [] p.kind = "here" -> here

Unwrapped(n) == n   \* mutant
Wrap(n) == n % AddrSpace

Value(e, names, here) ==
    LET l == Primary(e.l, names, here)
        r == Primary(e.r, names, here)
    IN  CASE e.op = "none" -> l
          [] e.op = "add" -> Plus(l, r)
          [] e.op = "sub" -> Minus(l, r)
          [] e.op = "mul" -> Wrap(l * r)
          [] e.op = "div" -> l \div r
          [] e.op = "rem" -> l % r

\* What ends the process while e is evaluated: exit(1) for an unknown label
\* and a division by zero, a panic for a remainder by zero.
Failure(e, names, here) ==
    IF \E n \in NamesIn(e) : names[n] = Unset THEN "unknown_label"
    ELSE IF e.op = "div" /\ Primary(e.r, names, here) = 0 THEN "division"
    ELSE IF e.op = "rem" /\ Primary(e.r, names, here) = 0 THEN "remainder"
    ELSE "none"

\* The operands of an instruction at address at, whose end the relative forms
\* count from: "relative" in instructions, "bytes" (ldr) in bytes.
ArgFailure(arg, names, at) ==
    IF Failure(arg.expr, names, at) # "none" THEN Failure(arg.expr, names, at)
    ELSE IF arg.form = "relative" /\ ~Aligned(Value(arg.expr, names, at)) THEN "misaligned"
    ELSE "none"

\* Mutant: counts from the start of the instruction.
FieldFromStart(arg, names, at) ==
    LET value == Value(arg.expr, names, at)
    IN  CASE arg.form = "immediate" -> value % arg.span
          [] arg.form = "relative" -> Minus(value \div 4, at \div 4) % arg.span
          [] arg.form = "bytes" -> Minus(value, at) % arg.span
Field(arg, names, at) ==
    LET value == Value(arg.expr, names, at)
        end == Plus(at, 4)
    IN  CASE arg.form = "immediate" -> value % arg.span
          [] arg.form = "relative" -> Minus(value \div 4, end \div 4) % arg.span
          [] arg.form = "bytes" -> Minus(value, end) % arg.span

-----------------------------------------------------------------------------
(* The current item, and the ways its turn ends.                           *)

Working(p, kind) ==
    /\ status = "assembling" /\ pass = p
    /\ pos \in DOMAIN program /\ program[pos].kind = kind

Stop(why) ==
    /\ status' = why
    /\ UNCHANGED <<program, pass, pos, addr, label_addrs, placed>>
Fail(why) == Stop(why) /\ UNCHANGED output

\* The item is placed at at, and the next one comes at to.
Advance(at, to) ==
    /\ placed' = [placed EXCEPT ![pass] = [@ EXCEPT ![pos] = at]]
    /\ addr' = to
    /\ pos' = pos + 1
    /\ UNCHANGED <<program, pass, status>>

Overflows(n) == program \in DebugPrograms /\ n >= AddrSpace

\* (a + 3) & !3
AlignUp(a) == Plus(a, 3) - (Plus(a, 3) % 4)

InstrOverflows == Overflows(addr + 3) \/ Overflows(AlignUp(addr) + 4)

\* Mutant: looks at the next item only, a label of the same instruction
\* perhaps.
AlignedByNextItem(p) == p \in DOMAIN program /\ program[p].kind = "instr"

\* The labels from position p on, if any, are those of an instruction.
FollowedByInstr(p) ==
    \E q \in DOMAIN program :
        /\ p <= q /\ program[q].kind = "instr"
        /\ \A r \in p .. q - 1 : program[r].kind = "label"

-----------------------------------------------------------------------------
(* The first pass determines all addresses.                                *)

\* The code gathers a run of labels and aligns the address once; taking the
\* labels of a run one by one is the same, as aligning again changes nothing.
\* A name that is already a label or a definition is a duplicate.
AssignLabel ==
    /\ Working(1, "label")
    /\ LET name == program[pos].name
           here == IF FollowedByInstr(pos + 1) THEN AlignUp(addr) ELSE addr
           overflow == FollowedByInstr(pos + 1) /\ Overflows(addr + 3)
       IN  \/ overflow /\ Fail("arithmetic")
           \/ ~overflow /\ label_addrs[name] # Unset /\ Fail("duplicate_label")
           \/ /\ ~overflow /\ label_addrs[name] = Unset
              /\ label_addrs' = [label_addrs EXCEPT ![name] = here]
              /\ Advance(here, here)
              /\ UNCHANGED output

\* Mutant: no alignment.
MeasureUnaligned ==
    /\ Working(1, "instr")
    /\ Advance(addr, Plus(addr, 4))
    /\ UNCHANGED <<label_addrs, output>>
MeasureInstr ==
    /\ Working(1, "instr")
    /\ \/ InstrOverflows /\ Fail("arithmetic")
       \/ /\ ~InstrOverflows
          /\ Advance(AlignUp(addr), Plus(AlignUp(addr), 4))
          /\ UNCHANGED <<label_addrs, output>>

MeasureWrite ==
    /\ Working(1, "write")
    /\ LET end == addr + program[pos].size * Len(program[pos].vals)
       IN  \/ Overflows(end) /\ Fail("arithmetic")
           \/ /\ ~Overflows(end)
              /\ Advance(addr, Wrap(end))
              /\ UNCHANGED <<label_addrs, output>>

\* .def replaces an earlier value of the name without a word.
Define ==
    /\ Working(1, "def")
    /\ LET e == program[pos].expr
           failure == Failure(e, label_addrs, addr)
       IN  \/ failure # "none" /\ Fail(failure)
           \/ /\ failure = "none"
              /\ label_addrs' = [label_addrs EXCEPT ![program[pos].name] = Value(e, label_addrs, addr)]
              /\ Advance(addr, addr)
              /\ UNCHANGED output

\* .addr, which both passes evaluate with the names known by then.
SetAddress ==
    /\ \E p \in {1, 2} : Working(p, "addr")
    /\ LET e == program[pos].expr
           failure == Failure(e, label_addrs, addr)
       IN  \/ failure # "none" /\ Fail(failure)
           \/ /\ failure = "none"
              /\ Advance(addr, Value(e, label_addrs, addr))
              /\ UNCHANGED <<label_addrs, output>>

\* Mutant: the address is not reset.
StartSecondPassThere ==
    /\ status = "assembling" /\ pass = 1 /\ pos \notin DOMAIN program
    /\ pass' = 2 /\ pos' = 1
    /\ UNCHANGED <<program, addr, label_addrs, output, placed, status>>

\* Between the passes the output file is created, which may fail.
StartSecondPass ==
    /\ status = "assembling" /\ pass = 1 /\ pos \notin DOMAIN program
    /\ \/ Fail("create_failed")
       \/ /\ pass' = 2 /\ pos' = 1 /\ addr' = 0
          /\ UNCHANGED <<program, label_addrs, output, placed, status>>

-----------------------------------------------------------------------------
(* The second pass writes the image.                                       *)

\* Mutant: the loop stays at the item.
SkipNothing == (Working(2, "label") \/ Working(2, "def")) /\ UNCHANGED vars

\* Labels and definitions have done their work.
Skip ==
    /\ Working(2, "label") \/ Working(2, "def")
    /\ Advance(addr, addr)
    /\ UNCHANGED <<label_addrs, output>>

\* Mutant: writes behind the instruction.
OverwriteBehind(at, bytes) ==
    [a \in DOMAIN output \cup {Wrap(at + 4 + k) : k \in DOMAIN bytes} |->
        IF a \in DOMAIN output THEN output[a] ELSE bytes[0]]

\* The file once the bytes (a function from 0) are written at offset at.
Overwrite(at, bytes) ==
    LET covered == {Wrap(at + k) : k \in DOMAIN bytes}
        Index(a) == CHOOSE k \in DOMAIN bytes : Wrap(at + k) = a
    IN  [a \in DOMAIN output \cup covered |->
            IF a \in covered THEN bytes[Index(a)] ELSE output[a]]

\* The values of a .write are evaluated, with $ where the directive starts,
\* and written one by one: those before a failure are in the file.
WriteData ==
    /\ Working(2, "write")
    /\ LET vals == program[pos].vals
           size == program[pos].size
           end == addr + size * Len(vals)
           ValFailure(k) ==
               IF Failure(vals[k], label_addrs, addr) # "none"
               THEN Failure(vals[k], label_addrs, addr)
               ELSE IF Overflows(addr + size * (k - 1)) THEN "arithmetic" ELSE "none"
           Field1(v) == Value(v, label_addrs, addr) % program[pos].span
           Bytes(n) ==
               [k \in 0 .. n - 1 |->
                   [item |-> pos, byte |-> k, fields |-> <<Field1(vals[k \div size + 1])>>]]
       IN  \E m \in 0 .. Len(vals) :
              /\ \A k \in 1 .. m : ValFailure(k) = "none"
              /\ output' = Overwrite(addr, Bytes(size * m))
              /\ \/ m = Len(vals) /\ Overflows(end) /\ Stop("arithmetic")
                 \/ /\ m = Len(vals) /\ ~Overflows(end)
                    /\ Advance(addr, Wrap(end)) /\ UNCHANGED label_addrs
                 \/ /\ m < Len(vals)
                    /\ Stop(IF ValFailure(m + 1) # "none" THEN ValFailure(m + 1) ELSE "write_failed")

\* An instruction evaluates its operands in order, then writes four bytes.
EmitInstr ==
    /\ Working(2, "instr")
    /\ LET at == AlignUp(addr)
           args == program[pos].args
           failing == {k \in DOMAIN args : ArgFailure(args[k], label_addrs, at) # "none"}
           fields == [k \in DOMAIN args |-> Field(args[k], label_addrs, at)]
           bytes == [k \in 0 .. 3 |-> [item |-> pos, byte |-> k, fields |-> fields]]
       IN  \/ InstrOverflows /\ Fail("arithmetic")
           \/ ~InstrOverflows /\ program[pos].fate = "unknown" /\ Fail("unknown_instruction")
           \/ /\ ~InstrOverflows /\ program[pos].fate # "unknown"
              /\ \E k \in failing :
                    /\ \A j \in failing : k <= j
                    /\ Fail(ArgFailure(args[k], label_addrs, at))
           \/ /\ ~InstrOverflows /\ program[pos].fate = "rejected" /\ failing = {}
              /\ Fail("rejected")
           \/ /\ ~InstrOverflows /\ program[pos].fate = "encoded" /\ failing = {}
              /\ \/ Fail("write_failed")
                 \/ /\ output' = Overwrite(at, bytes)
                    /\ Advance(at, Plus(at, 4)) /\ UNCHANGED label_addrs

Finish ==
    /\ status = "assembling" /\ pass = 2 /\ pos \notin DOMAIN program
    /\ Fail("done")

\* The process is gone.
Ended == status # "assembling" /\ UNCHANGED vars

-----------------------------------------------------------------------------

Init ==
    /\ program \in Programs
    /\ pass = 1 /\ pos = 1 /\ addr = 0
    /\ label_addrs = [n \in Names |-> Unset]
    /\ output = [a \in {} |-> 0]
    /\ placed = [p \in {1, 2} |-> [i \in DOMAIN program |-> Unset]]
    /\ status = "assembling"

Next ==
    \/ AssignLabel \/ MeasureInstr \/ MeasureWrite \/ Define \/ SetAddress
    \/ StartSecondPass
    \/ Skip \/ WriteData \/ EmitInstr \/ Finish
    \/ Ended

Spec == Init /\ [][Next]_vars

\* Both loops are sequential code that waits for nothing but the file.
FairSpec == Spec /\ WF_vars(Next)

-----------------------------------------------------------------------------
(* Properties.                                                             *)

TypeOK ==
    /\ program \in Programs
    /\ pass \in {1, 2}
    /\ pos \in 1 .. Len(program) + 1
    /\ addr \in Word
    /\ label_addrs \in [Names -> Word \cup {Unset}]
    /\ DOMAIN output \subseteq Word
    /\ placed \in [{1, 2} -> [DOMAIN program -> Word \cup {Unset}]]

Defines(p, name) == program[p].kind \in {"label", "def"} /\ program[p].name = name

\* Duplicate labels are refused, but .def may replace a label or a definition.
DefinedOnce(name) ==
    \A p, q \in DOMAIN program : Defines(p, name) /\ Defines(q, name) => p = q

\* No .addr reads a name with two definitions.
Settled ==
    \A p \in DOMAIN program :
        program[p].kind = "addr" => \A name \in NamesIn(program[p].expr) : DefinedOnce(name)

\* The passes agree on the address of every instruction and datum, although
\* one aligns at labels and the other does not, and although one knows fewer
\* names than the other, and earlier values of those that .def replaces.  Only
\* an .addr that reads such a name can part them.
PassesAgree ==
    Settled =>
        \A p \in DOMAIN program :
            (program[p].kind \in {"instr", "write", "addr"} /\ placed[2][p] # Unset)
            => placed[1][p] = placed[2][p]

\* A label that no .def replaces has the address of the instruction or datum
\* that follows it (after other labels, if any).
LabelsPointAtItems ==
    Settled =>
        \A p, q \in DOMAIN program :
            (/\ p < q /\ placed[2][q] # Unset
             /\ program[p].kind = "label" => DefinedOnce(program[p].name)
             /\ program[q].kind \in {"instr", "write"}
             /\ \A r \in p .. q - 1 : program[r].kind = "label")
            => label_addrs[program[p].name] = placed[2][q]

\* A signed displacement from one word to another that a field of span values
\* can hold.
Reaches(from, to, span) ==
    Minus(to, from) < span \div 2 \/ Minus(to, from) >= AddrSpace - span \div 2

\* The emulator's relative jump or load, executed at the address an
\* instruction was written to, goes to the address its operand stands for,
\* provided the displacement fits its field.
BranchesLand ==
    \A at \in DOMAIN output :
        LET p == output[at].item
            end == Plus(at, 4)
        IN  (program[p].kind = "instr" /\ output[at].byte = 0) =>
                \A k \in DOMAIN program[p].args :
                    LET arg == program[p].args[k]
                        target == Value(arg.expr, label_addrs, at)
                        disp == SignExtend(output[at].fields[k], arg.span)
                    IN  /\ arg.form = "relative" /\ Reaches(end, target, 4 * arg.span)
                           => Plus(end, Quad(disp)) = target
                        /\ arg.form = "bytes" /\ Reaches(end, target, arg.span)
                           => Plus(end, disp) = target

Extent(i) ==
    CASE i.kind = "instr" -> 4
      [] i.kind = "write" -> i.size * Len(i.vals)
      [] OTHER -> 0

\* A finished image has every byte of every item where the item was placed,
\* unless a later item is there, and no other byte.
ImageComplete ==
    status = "done" =>
        /\ \A p \in DOMAIN program : \A b \in 0 .. Extent(program[p]) - 1 :
              LET a == Wrap(placed[2][p] + b)
              IN  /\ a \in DOMAIN output
                  /\ \/ output[a].item = p /\ output[a].byte = b
                     \/ output[a].item > p
        /\ \A a \in DOMAIN output :
              Wrap(placed[2][output[a].item] + output[a].byte) = a

\* Unless an .addr reads a name with two definitions, whatever can go wrong
\* with the layout does so before the output file is touched: in the second
\* pass no .addr fails and no address overflows.
LayoutFailsEarly ==
    (Settled /\ pass = 2 /\ status \notin {"assembling", "done"}) =>
        status # "arithmetic" /\ program[pos].kind \in {"instr", "write"}

\* The inductive invariant of the layout, of programs whose addresses are
\* settled.  Determined: the first pass placed the items before pos; it put
\* each where the one before it ends, with every name of an .addr known and
\* stable, and without overflow.
Arrival(p) ==
    IF p = 1 THEN 0
    ELSE LET i == program[p - 1]
             at == placed[1][p - 1]
         IN  CASE i.kind = "instr" -> Plus(at, 4)
               [] i.kind = "write" -> Wrap(at + i.size * Len(i.vals))
               [] i.kind = "addr" -> Value(i.expr, label_addrs, at)
               [] i.kind \in {"label", "def"} -> at

AlignedFor(p) == program[p].kind = "instr" \/ (program[p].kind = "label" /\ FollowedByInstr(p + 1))

Determined(p) ==
    LET i == program[p]
        at == placed[1][p]
    IN  /\ IF AlignedFor(p)
           THEN at = AlignUp(Arrival(p)) /\ ~Overflows(Arrival(p) + 3)
           ELSE at = Arrival(p)
        /\ i.kind = "instr" => ~Overflows(at + 4)
        /\ i.kind = "write" => ~Overflows(at + i.size * Len(i.vals))
        /\ i.kind = "addr" => Failure(i.expr, label_addrs, at) = "none"

\* Labelled: a label that is not replaced is the address it was placed at.
Labelled ==
    \A p \in DOMAIN program :
        (program[p].kind = "label" /\ DefinedOnce(program[p].name) /\ placed[1][p] # Unset)
        => label_addrs[program[p].name] = placed[1][p]

\* RunsTogether: the labels of a run have the address of the item behind it.
RunsTogether ==
    \A p, q \in DOMAIN program :
        (p < q /\ placed[1][q] # Unset /\ \A r \in p .. q - 1 : program[r].kind = "label")
        => placed[1][p] = placed[1][q]

\* InStep: the passes reach an item at the same address, but for the
\* alignment that the first one did at a label.
InStep ==
    \/ Arrival(pos) = addr
    \/ pos \in DOMAIN program /\ AlignedFor(pos) /\ Arrival(pos) = AlignUp(addr) /\ ~Overflows(addr + 3)

\* The items each pass has visited.
Visited ==
    \A p \in DOMAIN program :
        /\ placed[1][p] # Unset <=> (pass = 2 \/ p < pos)
        /\ placed[2][p] # Unset <=> (pass = 2 /\ p < pos)

\* In the first pass a name is known from an earlier item.
NamesKnown ==
    pass = 1 =>
        \A n \in Names :
            label_addrs[n] # Unset => \E p \in DOMAIN program : p < pos /\ Defines(p, n)

Layout ==
    /\ Visited
    /\ NamesKnown
    /\ \A p \in DOMAIN program : placed[1][p] # Unset => Determined(p)
    /\ RunsTogether
    /\ Labelled
    /\ IF pass = 1 THEN addr = Arrival(pos) ELSE InStep

LayoutInv ==
    /\ TypeOK
    /\ Settled => Layout
    /\ PassesAgree
    /\ LayoutFailsEarly

\* The inductive invariant of the file, of every program.  Attributed: each
\* byte is one of an item that was written, where the item was placed, except
\* that a .write that failed has placed nothing.
Attributed ==
    status \in {"assembling", "done"} =>
        \A a \in DOMAIN output :
            LET o == output[a]
            IN  /\ pass = 2 /\ o.item < pos
                /\ o.byte \in 0 .. Extent(program[o.item]) - 1
                /\ Wrap(placed[2][o.item] + o.byte) = a

\* Preserved: the bytes of an item stay until a later item is put over them.
Preserved ==
    (pass = 2 /\ status \in {"assembling", "done"}) =>
        \A p \in DOMAIN program : p < pos =>
            \A b \in 0 .. Extent(program[p]) - 1 :
                LET a == Wrap(placed[2][p] + b)
                IN  /\ a \in DOMAIN output
                    /\ \/ output[a].item = p /\ output[a].byte = b
                       \/ output[a].item > p

\* Encoded: an instruction starts on a boundary and holds its operands as they
\* are at its address.
Encoded ==
    \A a \in DOMAIN output :
        LET o == output[a]
        IN  /\ pass = 2 /\ o.item \in DOMAIN program
            /\ (program[o.item].kind = "instr" /\ o.byte = 0) =>
                  /\ Aligned(a)
                  /\ \A k \in DOMAIN program[o.item].args :
                        LET arg == program[o.item].args[k]
                        IN  /\ ArgFailure(arg, label_addrs, a) = "none"
                            /\ o.fields[k] = Field(arg, label_addrs, a)

ImageInv ==
    /\ Attributed /\ Preserved /\ Encoded
    /\ status = "done" => pass = 2 /\ pos \notin DOMAIN program

IInv == LayoutInv /\ ImageInv

\* Every program is assembled or refused.
Termination == <>(status # "assembling")

=============================================================================
