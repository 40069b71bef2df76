# A verification project for Acca

Acca is a toy 64-bit CPU architecture with an emulator (`acca-emu`) and an
assembler (`acca-as`), both in Rust. This directory holds TLA+ specifications
translated from that code, TLC configurations that check them on small
instances, and TLAPS proofs of what holds for every program and every memory
size. `PROJECT.json` indexes it: components, runs, the source lines behind each
definition, hazards, findings and theorems.

## 1. The system

### Components, their state and operations

| Component | Source | State | Operations |
| --- | --- | --- | --- |
| Emulator core | `acca-emu/src/vm.rs` `execute_one`, `run` | memory, 16 core registers, flags, instruction pointer | one arm per instruction; fetch; the default arm |
| Exceptions and privilege | `vm.rs` `take_exception`, `eret`, `exc`, `ldm`, `stm`; `util.rs` `check_access` | `elr esp eflags einfo eaddr evtable ectable` and a validated copy of the configuration table | take, return, read and write a machine register |
| Loads, stores, stack | `vm.rs` `lds ldp sts stp pushs pushp pops popp`, `get_memory` | memory, `rsp` | read and write 1, 2, 4 or 8 bytes, singly or in pairs |
| ALU | `vm.rs` `ldi` to `sof`; `util.rs` `Register`, `Size`, `CPUFlags` | core registers, C Z O S | sized arithmetic, logic, shifts, comparison |
| Decoder macro | `acca-emu-proc-macro` | none | first pattern whose fixed bits match; converts the fields |
| Image loader, CLI | `acca-emu/src/main.rs` | memory before startup | 32 MiB, image at address 0, run for ever |
| Assembler passes | `acca-as/src/main.rs` `main` | label addresses, current address, output file | pass 1 assigns addresses, pass 2 writes bytes |
| Expressions, operands | `acca-as/src/main.rs` `evaluate_immediate`, `parse_*` | none | evaluate with the labels known so far, relative displacement, truncation |
| Encoding macros | `acca-as-proc-macro` | none | parse operands in order, place fields |
| Grammar | `acca-as/src/grammar.pest` | none | PEG, parsed by a library |
| Editor extension, LLVM examples, specification text | `acca-assembly-support`, `llvm-examples`, `spec` | none | data and prose |

The emulator is a single thread: one instruction, or one exception, per turn of
`run`. The parts interact by direct calls (`execute_one` calls `take_exception`
and returns, or falls through to the increment of the instruction pointer) and
through the binary image, which the assembler writes and the emulator reads;
the two agree on encodings only because two hand-written tables, read by two
macros that share no code, do.

### What is hard

There are no threads, no messages and no persistence. What is hard to test is
*sequence* and *edge*: exceptions that nest, that strike in the middle of an
instruction, or whose handler reconfigures the machine; a frame of machine
registers that the next exception replaces; a cached table that outlives the
memory it was read from; arithmetic at the ends of the address space, where
ranges wrap; a host panic in place of a guest exception; an assembler whose two
passes must agree on every address. `hazards` in `PROJECT.json` lists each one
at its line with the properties that watch it.

## 2. The modules

    Encoding, Instructions ---- MCEncoding
       \-- Encoding_proofs

    Words ---- Memory (INSTANCE Stack) ---- MCMemory
       |          \-- Memory_proofs
       |------ Machine ---- MachineTraps (INSTANCE Traps) ---- MachineHistory ---- MCMachine
       |          \-- Machine_proofs -- Exceptions_proofs
       |------ Assembler ---- MCAssembler
       |          \-- Assembler_proofs
       \------ Alu (INSTANCE Arithmetic) ---- MCAlu
                  \-- Alu_proofs -- Arithmetic_proofs

`Words.tla` has the operators on addresses that all parts share: `Plus` and
`Minus` wrap at `AddrSpace`, which stands for 2^64. `Numbers_proofs` has
the lemmas about them, and those about powers of two, remainders and bits that
the proofs of `Memory`, `Assembler` and `Alu` rest on; all proof modules but
`Encoding_proofs` extend it.

### Machine: the emulator core

`Machine.tla` has one action per handler of `execute_one` (the six jumps and
calls share `Jump`, the single and pair forms of each memory operation share
an action, and the data-processing arms share `Compute`), `FetchFault` for the
failed fetch, and `Unmatched` for the default arm. The guest program is the
constant `Program`, from address to a set of decoded instructions, so that a
state machine over one constant stands for all programs that put any of these
instructions there; addresses outside it hold zeros, which encode `udf`.

| Variable | Code |
| --- | --- |
| `ip`, `flags`, `regs` | `instruction_pointer`, `flags`, `register_file` |
| `elr esp eflags einfo eaddr` | the fields of the same name |
| `evtable`, `ectable_addr`, `ectable` | `evtable_addr`, `ectable_addr`, and the copy `ectable` |
| `trap` | the exception `take_exception` prints, or `NoTrap` |
| `status` | `"running"`, or the panic that ended the process |

Data are abstracted, control is not. What an instruction computes or loads is
any value its record allows; its address arithmetic, its faults with their
`einfo` and `eaddr`, what it writes and the order of its checks are those of
the code. Arithmetic wraps at `AddrSpace`, with the field layouts of `einfo`
and of the flags kept. Rust panics are final states, because the process is
gone. `OverflowChecks` distinguishes a debug build, where arithmetic overflow
panics, from a release build, where it wraps.

### Traps, MachineTraps, MachineHistory

`Traps.tla` is what a kernel is promised: a context, a saved context and a
vector base, changed only by an instruction that stays in its mode (`Run`), an
exception that saves the whole context (`Trap`), a return that restores all of
it (`Return`) and privileged single-register writes (`Configure`).
`MachineTraps.tla` maps the machine to it and names the refinement
`ImplementsTraps`. `MachineHistory.tla` adds a history variable, the context
the last exception interrupted, and states that `eret` resumes exactly that.

### Memory and Stack: bytes

`Memory.tla` has the bytes themselves, where `Machine` has only the control of
the instructions on them: the image that `main` loads, and every form of push,
pop, load and store with the values it moves. A register is the sequence of its
bytes, the lowest first, and `Address` is the number they stand for; `Read` and
`Write` are those of `Size`, `Set` keeps the bytes above the size. A faulting
access changes nothing here (what its exception does to `rsp` is one of the
steps `Elsewhere`, which stands for all other instructions and for the entry of
handlers).

| Variable | Code |
| --- | --- |
| `mem` | `memory` |
| `regs` | `register_file` |
| `status` | `"loading"` before `run`, `"running"`, or how the process ended |
| `saved` | history: the pushes that a pop may still undo |

`Stack.tla` is the promise, and has no memory: `Save` remembers the values and
the stack pointer, `Restore` gives back both, `Work` leaves the stack alone, and
`Abandon` is a program that loses track of it, by moving the stack pointer
otherwise, by a pop of another size or into the stack pointer, or by a store to
what it saved. `saved` is emptied exactly then (`Forget`, `Undoes`, `Spared`), so
the refinement says that in every other case the bytes below the old stack
pointer come back. Pops into `rsp` are no part of the promise: the manual has
them keep the value they load, the code overwrites it, and
`memory_pop_stack_pointer` shows that they differ.

### Assembler: the two passes

`Assembler.tla` is `main` of `acca-as`: a sequence of items (labels,
instructions, data, `.addr`, `.def`) that the first pass measures and the
second one writes. An expression is a name, `$`, a number or one operation on
two of those; an operand is a displacement in words, one in bytes, or a number,
truncated to its field as the code does. One action handles one item in one
pass, and either moves on or stops with the failure the code reports or panics
with. The fixed bits of an instruction and the parsing of its mnemonic are
`fate`: it is encoded, unknown, or rejected. `DebugPrograms` are those that a
debug build assembles, whose overflows panic. `write_failed` and `create_failed`
are what the file system may do at any write.

| Variable | Code |
| --- | --- |
| `program`, `pos`, `pass` | the parsed pairs and the loops over them |
| `addr`, `label_addrs` | `addr`, `label_addrs` |
| `output` | the output file, by offset |
| `status` | `"assembling"`, `"done"`, or how it stopped |
| `placed` | history: where each pass placed each item |

### Alu and Arithmetic: what instructions compute

`Alu.tla` is the data-processing arms of `execute_one`, exact to the bit, for
bytes of `ByteBits` bits and words of `WordSize` bytes: registers are written
by `Set`, which keeps the bits above the size, and condition bits are the
formulas of the code over most significant bits. `Arithmetic.tla` is what the
emulator promises, on integers and without a bit operation: a sum, a
quotient and remainder of the right sign, digits for logic, a multiplication
modulo `Limit - 1` for rotations, an order for comparisons. `Alu` is checked to
implement it (`ImplementsArithmetic`), and `Arithmetic_proofs` shows that the
promise leaves nothing open.

`Arithmetic` is the manual except where the code is not; passing
`ImplementsArithmetic` does not mean that the manual holds there. Its header
lists the differences. Two have runs that confront the code with the manual:
an arithmetic `shr` of less than a word (`alu_shift`) and the scale of the
immediates of `add` and `sub` (`alu_immediate`). The others have none: the
immediates of `and`, `or` and `xor` with a factor of 6 or 7 are shifted by more
than a word, which panics a debug build, where `instructions.md:556-559`
truncates them; `mul` takes destinations narrower than its operands, which
`instructions.md:467-469` forbids; the immediates of `and`, `or` and `xor` may
have their sign extended, where the manual's text has zeros only; the sign bit of an unsigned
`mul` or `div` is the top bit of the result, as the manual's formula has it, and
not 0, as its sentence does; and a division by zero or of the least integer by
-1, in either build, and a product or negation that does not fit, in a debug
build, panic the host, of which the manual says nothing.

### Encoding and Instructions: from text to execution

`Encoding.tla` follows one instruction through both programs: `Assemble` reads
its suffixes and operands, takes one size from all that are written, truncates
the numbers and places the bits of each letter in a word, or `Reject` stops the
assembler; then `Execute` takes the first arm whose fixed bits match, takes the
bits of each letter out again and converts them, or `Panic` stops the emulator
on a value that a parameter does not accept, or `Unmatched` raises the
exception of the default arm. Words that no statement wrote (`DataWords`) are
decoded as well. The tables are constants, as they are input to the macros; a
number is the set of its bit positions, so that no width needs arithmetic.

| Variable | Code |
| --- | --- |
| `source` | the `pairs` of one instruction in `acca-as` |
| `word` | `encoded`, as it is written to the image and fetched from memory |
| `decoded` | the arm taken and its parameters |
| `stage` | how far it has come: parsed, written, executed, or how it stopped |

`Instructions.tla` has the two tables with the bit strings of the source: 52
rows of the assembler, each with what the grammar lets its operands be and what
the code that consumes them takes, and 50 patterns of the emulator. What the
macros refuse to compile otherwise, and that the tables agree, are assumptions
(`TablesAssumption`) that TLC evaluates on the real tables: the proofs then
hold for these and for any others that satisfy them. `Lost` is what the grammar
lets through and no alternative of its form takes, by the rules of its parts:
all of `soc` and `sof`, whose conditions cannot be written, and the relative
jumps to a register. `LostAssumption` checks that these shapes are lost and that
no others are.

## 3. The runs

Passing runs:

| Run | Question | Properties |
| --- | --- | --- |
| `machine_guests` | can a PL1 program escape, are interrupted programs resumed, exceptions precise, faults and accesses real, stacks as configured, what can misalign `ip`, and what ends the host? (debug build) | `NoUnreachable` `UserConfined` `EretResumes` `HandlerEntry` `PreciseExceptions` `OnlyRetMisaligns` `FaultIsReal` `AccessIsReal` `HandlerOnItsStack` `HostSurvives` |
| `machine_kernel` | can privileged writes corrupt what exceptions rely on? (release build) | `TypeOK` `CachedTableValid` `ImplementsTraps` `LockupIsFinal` |
| `memory` | are pushes and pops a stack, whatever happens to memory in between, and does every write stay where it belongs? | `StackHolds` `ImplementsStack` `PopsInOrder` `Contained` |
| `assembler` | do the passes agree on every address, does the image hold what was written, where branches expect it, does every program end, and does a bad layout end before the output is touched? (both builds) | `TypeOK` `IInv` `PassesAgree` `LabelsPointAtItems` `BranchesLand` `ImageComplete` `LayoutFailsEarly` `Termination` |
| `alu` | does every instruction compute what `Arithmetic` says? (debug build) | `TypeOK` `ImplementsArithmetic` |
| `encoding` | does the emulator execute what was written, for every form of the grammar? | `RoundTrip` `AssembledRuns` `OneArm` `WidthsAgree` `RejectedForCause` |

Runs that show where the code and its manual (or its intent) part:

| Run | What the code does |
| --- | --- |
| `machine_vector_slot` | an encoding no pattern matches enters its handler at slot + 4 |
| `machine_store_pair` | `stp` panics the emulator |
| `memory_pop_stack_pointer` | a value popped into `rsp` is overwritten by the increment, the manual says the increment is skipped |
| `alu_shift` | an arithmetic `shr` of less than a word shifts in zeros |
| `alu_immediate` | immediates of `add` and `sub` are shifted by 11 times the factor, the manual says by as many bits |
| `encoding_register_jump` | `jmpr`, `cjmpr` and `callr` with a register panic the assembler |

The passing properties say nothing of these cases, or say what the code does and
so in a comment: `HandlerOnItsStack` asks for the handler to be on its stack, at
either end; `Restore` is about pops that leave `rsp` to itself; `PassesAgree` and
its companions are about programs in which no `.addr` reads a name with two
definitions (`Settled`); a panic violates no safety property but those that
name `status`, among which `HostSurvives` lists the instructions that may.

More differences were met and have no run, besides those of `Arithmetic` above:

- a relative jump by a register of 2^61 or more, taken or not, panics a debug
  build (`vm.rs:814`; a case of `Breaks`);
- a `.def` that replaces a name is in force for all of the second pass, so an
  `.addr` that reads the name in between places what follows at two addresses
  (`main.rs:689`, against the comment at `main.rs:623`, "first, determine all
  addresses"), and branches miss it;
- an exception that switches stacks loads `stack_pointer + stack_size`
  (`vm.rs:1029`), `exceptions.md:90-92` says `stack_pointer`;
- PL1 cannot write the condition bits of `flags` (`util.rs:460`),
  `registers.md:147` says it may;
- a nullable register field of 16 to 30 or a condition field of 10 to 14 reaches
  `unreachable!()` (`DecodePanic`);
- the grammar offers no way to write the conditions of `soc` and `sof`, nor `l`
  and `nl`, nor `null` for a push or a pop, though the tables encode them (the
  first is part of `Lost`).

### Bounds

*Machine.* `AddrSpace` is 8192, the least for which the widest `einfo` (a fault
on the 384-byte table) is a word; wrapping happens at its end as at 2^64.
`MemSize` is 1156, which ends right behind the user programs so that pops reach
the end of memory. A boot sequence from 0x400 on installs a configuration table
(or fails to: one address is too high, one candidate table has a reserved bit),
writes `elr`, `eflags` and `esp`, and enters a user program with an `eret`. Two
user instructions in a loop suffice for any sequence, since the loop picks anew
each time. There are two boot sequences and three user programs, and the first
instruction picks. In `machine_guests` the second sequence moves `evtable` to a
vector table whose handlers nest, and starts the program that tries every
privileged instruction; the first one starts one of two others, under plain
handlers: one executes up to two instructions on memory and then traps, so that
`rsp` stays finite, and one loops over jumps, calls and returns. The other runs
take the first sequence only, with a program of their own. Values for registers
are picked to be aligned, misaligned, unmapped, or valid flags. No bound is put
on the length of a behaviour: the state spaces are finite.

`LockupIsFinal` needs a vector table without handlers: one candidate for
`evtable`, 48, puts every slot between those of the handlers, and a jump leads
straight into one.

`FaultIsReal` and `AccessIsReal` count the bytes of an access as they lie, without
wrapping, and so do not rest on the range check that they are about. Both occur
at the limits: a push of 16 bytes at `rsp` 8 begins below address 0, loads, pops
and fetches cross the end of memory, and a fetch at `AddrSpace - 2` would wrap.

*Memory.* Bytes of one bit, words of three bytes, so an address space of 8 of
which 6 are memory: accesses of 1, 2 and 3 bytes, single and in pairs, fit, end
exactly at the end, reach beyond it, and wrap. The stack pointer is any word,
and up to six frames nest. Between instructions any register becomes 0, a small
value, the first address behind memory, or the last word, whose bytes are all
ones. Images are empty, as large as memory, and one byte larger.

*Assembler.* Programs of up to four items out of ten kinds, over two names, in
an address space of 64 with fields of 4 and 16 values. There are two selections
of ten: labels, instructions, data and `.addr` for a release build, where
addresses wrap; and definitions, expressions that fail and instructions without
encoding for a debug build, where they panic (`DebugPrograms`). Four items hold a
label run, an instruction, misaligned data and a jump back, or a label that a
`.def` replaces after another definition has used it and an `.addr` that reads
that one; 61 (`AddrSpace - 3`) puts an item at the top of the space; field spans
are reached and exceeded by displacements of both signs.

*Confrontations.* The runs that expect a violation take the bounds of their
module, with one or two instructions where those are a choice.

*Alu.* Bytes of two bits, words of two bytes, immediates of two bits: every
content of two registers and of the condition bits is reached, so each
instruction is checked on every operand, sign, carry and size; shift amounts
are 0, less than, equal to and more than each width. Sizes 1 and 2 are the two
cases of the code, less than a word and a word.

*Encoding.* The tables are the real ones, in full. Statements are every form of
the grammar with and without its suffixes; each required operand is a register
with a size, with another or with none, or one of five numbers: 0, -1, a
negative one whose low bits are clear, one with the top bit of every field, and
one that cannot be evaluated; optional operands are left out from the last, and
alternate 1 and an even number. Data words are each pattern with its fields
empty and full, and those with one bit turned, which is where a mask that lacks
a bit shows.

### Fairness

The machine, the memory, the ALU and the encodings run without fairness: every
property is safety. A guest program need not do anything in particular, so the
code promises no liveness; `LockupIsFinal` says where nothing can happen any more.
The assembler is a sequential loop that nothing else can stop, so
`WF_vars(Next)` is what it means that the process runs; `Termination` rests on
nothing else.

## 4. The proofs

Every theorem is for all values of the constants under the named assumptions:
the address space is a positive multiple of 8 (large enough for the fields of
`einfo` in `Machine`, and two to the bits of a word in `Memory` and `Alu`),
programs are well-formed in the sense of `WellFormed`, `IsItem` and `IsInstr`,
and sizes are numbers of bytes up to a word. Of instruction fields `IsFieldSpan`
asks that their values divide those of an address, of a `.write` that its data
fit the address space.

*Numbers_proofs.* The provers take no predicate as a parameter, so induction is
stated over sets (`Induction`: a set with 0 and the successors of its members
has all of `Nat`), from the least member of its complement. The provers know
nothing of exponents either; that powers of two double comes from the number of
subsets (`SubsetsCount`, `PowerNext`), and sums of exponents by induction
(`PowerSum`). On these rest quotients, remainders and congruence, and bits: below
a power of two there is one number for every set of bits, and one only
(`BitsExist`, `BitsDetermine`), and a digit has the bits that lie where it does
(`DigitBits`).

*Machine_proofs.* `StepKinds` sorts the steps of all instructions, whatever the
program, into five kinds: a completed instruction, an exception, a return, a
machine-register write, a panic. The inductive invariant `IInv` is `TypeOK`,
`CachedTableValid`, `NoUnreachable` and the alignment of `evtable`; the last is
what makes the vector slots aligned, which `Alignment` needs. `Invariance`
proves it kind by kind; `TypeCorrect`, `CachedTableAlwaysValid`, `UnreachableArms` and `Confinement`
follow. `PanicCauses` goes through the handlers once more, for what can end the
process: `Breaks` lists the instructions that can, and nothing else does, in
either build; `Survival` is what that says of a program without them.

*Exceptions_proofs.* From `IInv` and `StepKinds`: `Precision`, `Entry`,
`Stacks`, `Faults`, `Accesses`, `Alignment`, and `Refinement`, that each kind of step is a
step of `Traps` or a stutter. `Faults` and `Accesses` rest on `RangeLemma`: the
check that `get_memory` makes on a wrapped end is the one on the sum that does
not wrap, because memory is smaller than the address space. `Lockup` needs one more invariant, `Entering`
(after an exception the machine is in a slot of the vector table, on the stack
that the entry asks for), and that slots are apart (`SlotsApart`). `Resumption`
is about the history: the frame stays what the last exception saved until a
machine-register write changes it, so an `eret` with an unchanged frame restores
the context that was interrupted. `Confinement` is about what a PL1 program
writes, `Unobserved` about what it reads: with a second instance of `Machine`
that differs in the frame only, each step in PL1, of any instruction, is a step of
both, and the exception it may end in leaves the same frame in both. It rests
on `check_access`, which lets PL1 read the flags and nothing else.

*Memory_proofs.* For bytes and words of any width, any memory and any program:
`Invariance`, `StackTheorem`, `Containment`, `OrderOfPops` and `Refinement`.
`IInv` says that each frame in `saved` is `Intact` in memory and that frames are
`Nested`, one right below the other down to the stack pointer. Nesting is what
makes it inductive: a push writes below the stack pointer and so below every
frame (`AboveTop`), a store either spares all frames or empties `saved`, and a
pop that matches finds its values where the last frame has them (`ReadsBack`).
That words and addresses stand for each other one to one is the lemma
`Notation`: a word and its address have the same bits.

*Assembler_proofs.* The passes agree because of what the first one leaves
behind: each item is `Determined`, that is, it lies where the one before it
ends, every `.addr` was evaluated with names that keep their values, and
nothing overflowed. A second pass that is `InStep` (at the address of the item,
or at the address before the alignment that the first pass did at a label)
then places it where the first did. `Layout` collects this, with `RunsTogether`
for the labels of an item and `Labelled` for those that no `.def` replaces;
`LayoutInv` has it for every program in which no `.addr` reads a name with two
definitions, and `Agreement`, `Labels` and `EarlyFailure` follow. The file has an invariant of its
own, `ImageInv`, for all programs: each byte is one of an item where the item was
placed (`Attributed`), each byte of an item that was written is there unless a
later item is (`Preserved`), and the fields of an instruction are those of its
operands at its address, with names that no longer change (`Encoded`). `IInv` is
both, and gives `Completeness` and `Branches`; the latter takes that a
displacement which a field can hold is what the emulator extends the field to,
and that adding it to the end of the instruction undoes the subtraction round
the address space. `Progress` is the part of termination that is safety: every
step lowers a natural number, which starts at 2 n + 2 for n items.

*Alu_proofs.* One theorem for each instruction (`AddExact` to `LdiExact`): for
bytes, words and immediates of any width, a step of `Alu` from a state of the
right type is a step of `Arithmetic`, and keeps the type. `StepExact` collects
them, and with it `TypeCorrect` is inductive and `Implementation` is the
refinement of `ImplementsArithmetic`, for both builds. The arguments differ.
Sums, differences and products are congruent modulo the span of a size (sign
extension, wrapping at the word and the two additions with carry all keep it),
and then the condition bits: with operands below `2 * H` and a result that is
the sum or difference taken once round, the formulas over `>= H` say overflow,
borrow and order (`AdditionLemma`, `SubtractionLemma`). Quotients are determined
by the sign and the size of the remainder. Logic and swaps are promised by digits, so their results are compared bit by
bit, and that a number with these bits exists is `BitsExist`. A rotation is two
parts of a number that change places, which is a multiplication modulo the span
less one (`RotationLemma`). Shifts split on the amount: none, within the size,
at its end, beyond it.

*Arithmetic_proofs.* A promise that is too weak is implemented by anything, so
`PromiseDetermines` asks how strong this one is: two processors that are alike,
each with a step that `Arithmetic` allows for the same instruction, are alike
after it. `Alike` is all of their state, and the second one is another instance
of `Arithmetic`, not of `Alu`. Results given by a formula are the same at once
(`KeepsDetermines`: a register is the value of a size and what is above it). The
others are given by what holds of them: there is one quotient with a remainder
smaller than the divisor and of the sign of the dividend (`QuotientUnique`), one
number for the bits of a logic operation (`BitsUnique`) and for the bytes of a
swap (`BytesUnique`), and one that is turned back to the operand of a rotation
(`RotationUnique`: turned on all the way round, it is itself modulo the span less
one, and zero tells the two that are left apart). The theorem failed at first
for two instructions, a quotient that does not fit, for which both a panic and
a wrapped result were promised, and `sof`, for which either bit was; the promise
is exact now and `Alu` still implements it. `Agreement` is the same for whole
executions, from `Spec`: the emulator and any implementation of the promise that
starts in its first state and is given the same instructions stay alike for
ever. It asks that no register is named `null`, which stands for none, and that
the registers of the other one hold words.

*Encoding_proofs.* For any tables that agree letter by letter (`Agree`) and any
patterns that are pairwise `Apart`: taking a letter out of what was placed
gives the placed bits up to the width (`ExtractPlace`, `SamePlaces`), a word of
a row matches the pattern that agrees with it and no other (`AgreedMatches`,
`OneMatch`), and truncation on one side is undone by sign extension on the
other (`Extension`, `ArgumentDelivered`). `IInv` says that a word is what some
row made of the statement and that what was decoded is what its one pattern
made of the word; `Faithful`, `Runs`, `Unambiguous` and `Widths` follow.
`Causes` is about what is turned down: parsing looks at the shape of a statement
only (`ParsingByShape`), and a statement of the grammar whose numbers have values
has one of the shapes that `LostAssumption` speaks of (`ShapeOfStatement`).

Only model-checked: `Termination` (liveness is out of the prover's reach; that
steps run out is `Progress`, that one is always enabled is TLC's part), and that
the tables of the source satisfy the assumptions on tables. All other properties
of the passing runs are theorems.

## 5. What is not modelled

The link from bytes to instructions: `Memory` has the bytes but not what they
encode, and in `Machine` a load returns any value of a set, an address holds any
instruction of `Program[a]`, and a table in memory is any of `TablesInMemory`.
For a program that changes itself these sets are those of everything it might
write. The theorems about `Machine` are for all such sets, the whole word and
all instructions at all addresses included, so they hold of such programs too;
only `Survival` then asks of every instruction what it might otherwise ask of
few. What the runs check is programs that do not change. What macros parse at compile time, beyond the conditions they enforce.
Parsing (literals, white space, mnemonics), deeper expressions and the bitwise
operators of the assembler. Mapping memory, printing. The editor
extension and the LLVM examples have no behaviour.

## 6. Plan

1. `Machine` composed with `Memory` and `Encoding`, so that what a program
   stores is what it loads and executes, and not just something it might have
   stored.
2. Expressions of any depth and the operators that are missing.
3. Proofs: that in every state of the assembler but the last a step is possible,
   as a case analysis of the guards; lemmas for whatever 1 and 2 add.
