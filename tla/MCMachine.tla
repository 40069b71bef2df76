------------------------------ MODULE MCMachine ------------------------------
(***************************************************************************)
(* Guest programs for TLC: a boot loader, user programs, and handlers in   *)
(* the vector table at address 0.  Addresses, offsets and field widths are *)
(* those of the emulator; its memory is 1156 bytes instead of 32 MiB.      *)
(***************************************************************************)
EXTENDS MachineHistory, Sequences, TLC

CONSTANTS FirstStep,      \* the first instruction, which picks a boot sequence
          UserCode,       \* instructions of the first user program
          UserEntries,    \* user programs that the first boot sequence starts,
          UserFlags,      \* flags it tries for them
          UserSP          \* and stack pointers

\* Instructions.
Op(op) == [op |-> op]
Ldi(r, vals) == [op |-> "compute", dsts |-> {r}, vals |-> vals, ccs |-> {}]
AluOp(dsts, vals, ccs) == [op |-> "compute", dsts |-> dsts, vals |-> vals, ccs |-> ccs]
LoadOp(k, n, a, dsts, vals) ==
    [op |-> "load", k |-> k, n |-> n, a |-> a, dsts |-> dsts, vals |-> vals]
StoreOp(k, n, a) == [op |-> "store", k |-> k, n |-> n, a |-> a]
PushOp(k, n) == [op |-> "push", k |-> k, n |-> n]
PopOp(k, n, dsts, vals) ==
    [op |-> "pop", k |-> k, n |-> n, dsts |-> dsts, vals |-> vals]
JumpOp(mode, cond, link, a) ==
    [op |-> "jump", mode |-> mode, cond |-> cond, link |-> link, a |-> a]
JumpImm(cond, link, rel) ==
    [op |-> "jump", mode |-> "immediate", cond |-> cond, link |-> link, rel |-> rel]
ExcOp(val) == [op |-> "exc", val |-> val]
LdmOp(m, r) == [op |-> "ldm", m |-> m, r |-> r]
StmOp(m, r) == [op |-> "stm", m |-> m, r |-> r]
AllMregs(Make(_, _), r) == {Make(m, r) : m \in MachineRegisters \cup {"none"}}

\* Configuration tables: PL1 exceptions switch stacks; every exception
\* switches to a stack that wraps; a reserved bit in the last entry only.
Entry(fl, base, size) ==
    [flags |-> fl, stack_pointer |-> base, stack_size |-> size]
Table(entry) == [pl \in {0, 1} |-> [id \in Ids |-> entry]]
KernelStacks == [Table(Entry(0, 0, 0)) EXCEPT ![1] = [id \in Ids |-> Entry(1, 768, 64)]]
WrappingStacks == Table(Entry(1, AddrSpace - 8, 16))
ReservedBit == [Table(Entry(1, 768, 64)) EXCEPT ![1][7] = Entry(2, 0, 0)]

\* Where the boot sequences and the user programs start, and the vector table
\* that the second one sets: between the slots of the one at address 0.
FirstBoot == StartAddr + 4
SecondBoot == FirstBoot + 40
UserEntry == SecondBoot + 48
MemoryEntry == UserEntry + 16
ControlEntry == MemoryEntry + 12
Vectors == 8

\* The immediate of a jump from one address to another.
Distance(from, to) == Minus(to \div 4, (from + 4) \div 4)

\* Parts of the programs: everything an unprivileged program may try that
\* leaves the core registers alone, and the rest by purpose.
Trapping == {Op("udf"), Op("unmatched"), Op("dbg"), ExcOp(0), ExcOp(1), Op("eret")}
Accesses == AllMregs(LdmOp, 1) \cup AllMregs(StmOp, 1)
Stacking == {PushOp(2, 8), PopOp(2, 8, {1, 13}, {MemSize - 16})}
Addressing == {LoadOp(1, 8, 1, {2}, {0}), LoadOp(2, 8, 1, {2, 15}, {0}), StoreOp(1, 8, 1)}
Jumping == {JumpOp(mode, cond, link, 1) :
               mode \in {"absolute", "relative"}, cond \in {"compare"}, link \in BOOLEAN}
           \cup {JumpImm(cond, link, rel) : cond \in {"l", "null"}, link \in BOOLEAN,
                                            rel \in {0, AddrSpace - 2}}
           \cup {Op("ret")}
Computing == {AluOp({1}, {1, 48, MemSize - 4, AddrSpace - 2}, {0, 8}), AluOp({1, 15}, {ControlEntry}, {}), Op("nop")}
Panicking == {Op("reserved"), Op("panics"), StoreOp(2, 8, 1)}

UserPrivilege == Trapping \cup Accesses \cup {Ldi(1, {1, Vectors, 48})}
UserMemory == Stacking \cup Addressing \cup Panicking \cup {Ldi(1, {MemSize - 4})}
UserControl == Jumping \cup Computing \cup {Op("dbg")}
\* From the first user program to where the handler of udf would be if the
\* vector table were at 48, where there is no handler.
IntoSlot == JumpImm("null", FALSE, Distance(UserEntry, 48 + 32))
KernelPrivilege == {Op("unmatched"), Op("eret"), LdmOp("vm_console", 1),
                    Ldi(1, {1, 48}), JumpOp("relative", "null", FALSE, 1), IntoSlot}
                   \cup AllMregs(StmOp, 1)

\* One instruction each, for the runs that confront the code with its manuals.
OnlyUnmatched == {Op("unmatched")}
OnlyStorePair == {StoreOp(2, 8, 1)}
OnlyRelativeJump == {Ldi(1, {AddrSpace - 1, AddrSpace \div 4}), JumpOp("relative", "null", FALSE, 1)}
OnlyFlags == {Ldi(1, {40}), StmOp("flags", 1)}

\* The third instruction of a loop.
Again == {JumpImm("null", FALSE, Distance(8, 0))}

Returning == {Op("eret")}
Handler == {Op("eret"), ExcOp(1)}
NestingHandler == Handler \cup {LdmOp("esp", 2), StmOp("elr", 2), StmOp("evtable", 1)}

SwitchingTables == {KernelStacks, ReservedBit}
AllTables == {KernelStacks, WrappingStacks, ReservedBit}

\* The boot code installs a configuration table and enters a user program
\* at its first word in whatever mode its flags ask for.
Boot(entries, fl, sps) == <<
    Ldi(0, {512, 1000}), StmOp("ectable", 0),
    Ldi(0, entries), StmOp("elr", 0),
    Ldi(0, fl), StmOp("eflags", 0),
    Ldi(0, sps), StmOp("esp", 0),
    Ldi(0, {0}),
    Op("eret") >>
SecondBootCode ==
    <<Ldi(0, {Vectors}), StmOp("evtable", 0)>> \o Boot({UserEntry}, {32, 64}, {8, 800})

OnlyUser == {UserEntry}
Executing == {MemoryEntry, ControlEntry}
BothEnds == {8, MemSize - 8}

ToFirst == {Op("nop")}
ToEither == ToFirst \cup {JumpImm("null", FALSE, Distance(StartAddr, SecondBoot))}

Block(at, code) ==
    [a \in {at + 4 * (i - 1) : i \in DOMAIN code} |-> code[(a - at) \div 4 + 1]]
Straight(at, instrs) == Block(at, [i \in DOMAIN instrs |-> {instrs[i]}])
VectorTable(at, code) ==
    [a \in {at + 256 * pl + 32 * id : pl \in {0, 1}, id \in Ids} |-> code]
    @@ [a \in {at + 256 * pl + 32 * id + 4 : pl \in {0, 1}, id \in Ids} |-> Returning]

\* The first user program loops, with an eret behind it for jumps that leave
\* it.  Of the other two, one executes up to two instructions on memory and
\* then traps for ever, and one loops over jumps, calls and returns.
MCProgram ==
    StartAddr :> FirstStep
    @@ Straight(FirstBoot, Boot(UserEntries, UserFlags, UserSP))
    @@ Straight(SecondBoot, SecondBootCode)
    @@ Block(UserEntry, <<UserCode, UserCode, Again, Returning>>)
    @@ Block(MemoryEntry, <<UserMemory, UserMemory, {Op("udf")}>>)
    @@ Block(ControlEntry, <<UserControl, UserControl, Again>>)
    @@ VectorTable(0, Handler)
    @@ VectorTable(Vectors, NestingHandler)

=============================================================================
