------------------------------- MODULE Machine -------------------------------
(***************************************************************************)
(* The Acca virtual machine of src/acca-emu: the fetch-execute loop of     *)
(* vm.rs, its exceptions, privilege levels, machine registers and control  *)
(* flow.  The guest program is a parameter: Program maps an address of the *)
(* loaded image to the decoded instructions that may be found there.  What *)
(* an instruction computes or loads is one of the values its record        *)
(* allows; module Alu has the exact arithmetic.                            *)
(***************************************************************************)
EXTENDS Words

CONSTANTS
    MemSize,         \* bytes of VM memory, mapped from address 0
    Program,         \* address -> instructions that may be fetched from it
    TablesInMemory,  \* configuration tables that memory may hold
    OverflowChecks   \* arithmetic overflow panics (a debug build) or wraps

Regs == 0 .. 15
SP == 13
LR == 15
StartAddr == 1024
TableBytes == 384

\* Exception::id; NoTrap marks a step that raised none.
Ids == 0 .. 7
InvalidInstruction == 1
Debug == 2
User == 3
InvalidOperation == 4
InstructionLoadError == 5
DataLoadError == 6
NoTrap == -1

Conditions == {"c", "nc", "z", "nz", "o", "no", "s", "ns", "l", "nl", "null"}
MachineRegisters ==
    {"flags", "elr", "esp", "eflags", "einfo", "eaddr", "evtable", "ectable",
     "vm_console"}

Flags == [cc : 0 .. 15, exc : BOOLEAN, pl : {0, 1}]
ConfigurationEntry == [flags : Word, stack_pointer : Word, stack_size : Word]
ConfigurationTable == [{0, 1} -> [Ids -> ConfigurationEntry]]

\* Decoded instructions, each a record with an op and the fields it needs:
\* registers a (read), r (read or written) and dsts (written); the operand
\* size n in bytes, for k values; vals and ccs, what may be computed or
\* loaded; a condition, where "compare" is the outcome of a comparison and
\* "null" always holds.
WellFormed(i) ==
    /\ i.op \in {"load", "pop", "compute"} => i.dsts \subseteq Regs /\ i.vals \subseteq Word
    /\ i.op = "compute" => i.ccs \subseteq 0 .. 15
    /\ i.op \in {"load", "store", "push", "pop"} => i.n \in {1, 2, 4, 8} /\ i.k \in {1, 2}
    /\ i.op \in {"load", "store"} => i.a \in Regs
    /\ i.op = "jump" =>
          /\ i.cond \in Conditions \cup {"compare"}
          /\ i.link \in BOOLEAN
          /\ i.mode \in {"absolute", "relative", "immediate"}
          /\ IF i.mode = "immediate" THEN i.rel \in Word ELSE i.a \in Regs
    /\ i.op = "exc" => i.val \in Nat /\ 8 * i.val + 3 < AddrSpace
    /\ i.op \in {"ldm", "stm"} => i.m \in MachineRegisters \cup {"none"} /\ i.r \in Regs

\* A word holds 64 bits, so AddrSpace is far beyond 8192: enough for einfo to
\* describe the widest access, which is that of stm ectable.
ASSUME WidthAssumption == AddrSpace >= 8192
ASSUME MemSizeAssumption == MemSize \in Word
ASSUME ProgramAssumption == \A a \in DOMAIN Program : \A i \in Program[a] : WellFormed(i)
ASSUME TablesAssumption == TablesInMemory \subseteq ConfigurationTable
ASSUME OverflowChecksAssumption == OverflowChecks \in BOOLEAN

VARIABLES
    ip,            \* instruction pointer
    flags,         \* CPU flags
    regs,          \* core registers
    elr, esp, eflags, einfo, eaddr,   \* machine registers an exception fills
    evtable,       \* address of the exception vector table
    ectable_addr,  \* where the configuration table was read from
    ectable,       \* the copy of it made then
    trap,          \* exception printed by the last step, or NoTrap
    status         \* "running", or what made the emulator panic

core == <<ip, flags, regs>>
frame == <<elr, esp, eflags, einfo, eaddr>>
tables == <<evtable, ectable_addr, ectable>>
vars == <<core, frame, tables, trap, status>>

-----------------------------------------------------------------------------
(* Address arithmetic.                                                     *)

\* Mutant: multiplied as u64, so that no jump goes backwards.
QuadOverflowsUnsigned(v) == 4 * v >= AddrSpace

\* (v as i64) * 4 does not fit 64 bits.
QuadOverflows(v) == 8 * v >= AddrSpace /\ 8 * v < 7 * AddrSpace

\* Mutant: a range that wraps is taken for its end.
InMemoryEnd(a, n) == Plus(a, n) <= MemSize

\* memory.get(a..a+n): a range that wraps is backwards, and so rejected.
InMemory(a, n) == a <= Plus(a, n) /\ Plus(a, n) <= MemSize

-----------------------------------------------------------------------------
(* Flags.                                                                  *)

NewFlags == [cc |-> 0, exc |-> FALSE, pl |-> 0]
ValidFlags(w) == w < 64
FlagsOf(w) ==
    [cc |-> w % 16, exc |-> (w \div 16) % 2 = 1, pl |-> (w \div 32) % 2]
FlagsWord(f) == f.cc + (IF f.exc THEN 16 ELSE 0) + 32 * f.pl

TestCondition(f, cond) ==
    LET C == f.cc % 2 = 1
        Z == (f.cc \div 2) % 2 = 1
        O == (f.cc \div 4) % 2 = 1
        S == f.cc \div 8 = 1
    IN  cond \in {"null",
                  IF C THEN "c" ELSE "nc", IF Z THEN "z" ELSE "nz",
                  IF O THEN "o" ELSE "no", IF S THEN "s" ELSE "ns",
                  IF S # O THEN "l" ELSE "nl"}

-----------------------------------------------------------------------------
(* Exceptions.                                                             *)

NoEntry == [flags |-> 0, stack_pointer |-> 0, stack_size |-> 0]
UsesStack(entry) == entry.flags % 2 = 1
EntryValid(entry) == entry.flags \in {0, 1}
TableValid(t) == \A pl \in {0, 1}, id \in Ids : EntryValid(t[pl][id])

Exception(id) == [id |-> id, info |-> id, addr |-> 0]
UserException(val) == [id |-> User, info |-> User + 8 * val, addr |-> 0]
\* Mutant: the size overlaps the write bit.
DataErrorOverlap(addr, write, n) ==
    [id |-> DataLoadError,
     info |-> DataLoadError + (IF write THEN 8 ELSE 0) + 8 * n,
     addr |-> addr]
DataError(addr, write, n) ==
    [id |-> DataLoadError,
     info |-> DataLoadError + (IF write THEN 8 ELSE 0) + 16 * n,
     addr |-> addr]

VectorSlot(pl, id) == Plus(evtable, 256 * pl + 32 * id)

\* Mutant: a stack pointer above the stack counts as on it.
HandlerSPAbove(entry, rsp) ==
    IF UsesStack(entry) /\ rsp < entry.stack_pointer
    THEN Plus(entry.stack_pointer, entry.stack_size) ELSE rsp

\* The stack pointer a handler starts with: the top of the configured stack,
\* unless the entry asks for no switch or rsp is already on that stack.
HandlerSP(entry, rsp) ==
    LET base == entry.stack_pointer
        top == Plus(entry.stack_pointer, entry.stack_size)
    IN  IF UsesStack(entry) /\ (rsp < base \/ rsp > top) THEN top ELSE rsp

\* take_exception(e) while the instruction pointer is at, after which the
\* caller advances the instruction pointer by another skip bytes.
TakeException(e, at, skip) ==
    /\ eflags' = flags
    /\ elr' = at
    /\ flags' = [flags EXCEPT !.exc = FALSE, !.pl = 0]
    /\ esp' = regs[SP]
    /\ einfo' = e.info
    /\ eaddr' = e.addr
    /\ regs' = [regs EXCEPT ![SP] = HandlerSP(ectable[flags.pl][e.id], regs[SP])]
    /\ ip' = Plus(VectorSlot(flags.pl, e.id), skip)
    /\ trap' = e.id
    /\ UNCHANGED <<tables, status>>

Raise(e) == TakeException(e, ip, 0)

\* A Rust panic: the process, and the machine with it, is gone.
Panic(why) ==
    /\ status' = why
    /\ trap' = NoTrap
    /\ UNCHANGED <<core, frame, tables>>

\* The instruction completes and execution goes on at dest.
Retire(dest) ==
    /\ ip' = dest
    /\ trap' = NoTrap
    /\ UNCHANGED status

-----------------------------------------------------------------------------
(* Fetch and decode.                                                       *)

Running == status = "running"

\* The instructions that may be at ip.  Memory beyond the image is zero,
\* which encodes udf.
Fetched == IF ip \in DOMAIN Program THEN Program[ip] ELSE {[op |-> "udf"]}

FetchFault ==
    /\ Running
    /\ ~InMemory(ip, 4)
    /\ Raise(Exception(InstructionLoadError))

\* Mutant: like the default arm, udf runs on into the increment of ip.
UdfRunsOn(i) == i.op = "udf" /\ TakeException(Exception(InvalidInstruction), ip, 4)
Udf(i) == i.op = "udf" /\ Raise(Exception(InvalidInstruction))

\* No pattern matches: the default arm raises the exception but, unlike every
\* other arm that does, runs on into the increment of ip.
Unmatched(i) ==
    /\ i.op = "unmatched"
    /\ TakeException(Exception(InvalidInstruction), ip, 4)

\* A register field of 16..30 or a condition field of 10..14 matches its
\* pattern, and then decoding it panics.
DecodePanic(i) == i.op = "reserved" /\ Panic("decode")

-----------------------------------------------------------------------------
(* Data processing, loads and stores.                                      *)

WriteRegs(dsts, vals) ==
    [r \in Regs |-> IF r \in dsts THEN vals[r] ELSE regs[r]]

Compute(i) ==
    /\ i.op = "compute"
    /\ \E vals \in [i.dsts -> i.vals] : regs' = WriteRegs(i.dsts, vals)
    /\ \E cc \in {flags.cc} \cup i.ccs : flags' = [flags EXCEPT !.cc = cc]
    /\ Retire(Plus(ip, 4))
    /\ UNCHANGED <<frame, tables>>

\* div by zero or of MIN by -1, and, with overflow checks, mul, neg and
\* immediates shifted by 66 bits or more.
ComputePanic(i) == i.op = "panics" /\ Panic("arithmetic")

\* lds, ldp.
Load(i) ==
    /\ i.op = "load"
    /\ LET addr == regs[i.a]
           size == i.k * i.n
       IN  \/ /\ InMemory(addr, size)
              /\ \E vals \in [i.dsts -> i.vals] : regs' = WriteRegs(i.dsts, vals)
              /\ Retire(Plus(ip, 4))
              /\ UNCHANGED <<flags, frame, tables>>
           \/ /\ ~InMemory(addr, size)
              /\ Raise(DataError(addr, FALSE, size))

\* sts, stp.  Both borrow the bytes of one value; stp splits them after that
\* value and writes the second one through the empty rest.
Store(i) ==
    /\ i.op = "store"
    /\ LET addr == regs[i.a]
       IN  \/ /\ InMemory(addr, i.n) /\ i.k = 1
              /\ Retire(Plus(ip, 4))
              /\ UNCHANGED <<flags, regs, frame, tables>>
           \/ /\ InMemory(addr, i.n) /\ i.k = 2
              /\ Panic("bounds")
           \/ /\ ~InMemory(addr, i.n)
              /\ Raise(DataError(addr, TRUE, i.n))

\* pushs, pushp.
Push(i) ==
    /\ i.op = "push"
    /\ LET size == i.k * i.n
           top == Minus(regs[SP], size)
       IN  \/ /\ InMemory(top, size)
              /\ regs' = [regs EXCEPT ![SP] = top]
              /\ Retire(Plus(ip, 4))
              /\ UNCHANGED <<flags, frame, tables>>
           \/ /\ ~InMemory(top, size)
              /\ Raise(DataError(top, TRUE, size))

\* pops, popp.  The increment overwrites a value popped into rsp.
Pop(i) ==
    /\ i.op = "pop"
    /\ LET addr == regs[SP]
           size == i.k * i.n
       IN  \/ /\ InMemory(addr, size)
              /\ \E vals \in [i.dsts -> i.vals] :
                    regs' = [WriteRegs(i.dsts, vals) EXCEPT ![SP] = Plus(addr, size)]
              /\ Retire(Plus(ip, 4))
              /\ UNCHANGED <<flags, frame, tables>>
           \/ /\ ~InMemory(addr, size)
              /\ Raise(DataError(addr, FALSE, size))

-----------------------------------------------------------------------------
(* Control flow.                                                           *)

\* Mutant: no alignment check.
GoToAnywhere(dest, link) ==
    /\ Retire(dest)
    /\ regs' = IF link THEN [regs EXCEPT ![LR] = Plus(ip, 4)] ELSE regs
    /\ UNCHANGED <<flags, frame, tables>>

\* do_jump!, after which a call (and only a call) links.
GoTo(dest, link) ==
    \/ /\ Aligned(dest)
       /\ Retire(dest)
       /\ regs' = IF link THEN [regs EXCEPT ![LR] = Plus(ip, 4)] ELSE regs
       /\ UNCHANGED <<flags, frame, tables>>
    \/ /\ ~Aligned(dest)
       /\ Raise(Exception(InvalidOperation))

Destination(i) ==
    CASE i.mode = "absolute" -> regs[i.a]
      [] i.mode = "relative" -> Plus(Plus(ip, 4), Quad(regs[i.a]))
      [] i.mode = "immediate" -> Plus(Plus(ip, 4), Quad(i.rel))

\* jmpa, jmpr, cjmpa, cjmpr, calla, callr.  A relative destination in a
\* register is multiplied before the condition is tested; the product with an
\* immediate of at most 22 bits fits.
Jump(i) ==
    /\ i.op = "jump"
    /\ \/ /\ i.mode = "relative" /\ OverflowChecks /\ QuadOverflows(regs[i.a])
          /\ Panic("arithmetic")
       \/ /\ ~(i.mode = "relative" /\ OverflowChecks /\ QuadOverflows(regs[i.a]))
          /\ \E taken \in BOOLEAN :
                /\ i.cond # "compare" => taken = TestCondition(flags, i.cond)
                /\ \/ taken /\ GoTo(Destination(i), i.link)
                   \/ /\ ~taken
                      /\ Retire(Plus(ip, 4))
                      /\ UNCHANGED <<flags, regs, frame, tables>>

\* Unlike the jumps, ret does not look at the alignment of its destination.
Ret(i) ==
    /\ i.op = "ret"
    /\ Retire(regs[LR])
    /\ UNCHANGED <<flags, regs, frame, tables>>

Eret(i) ==
    /\ i.op = "eret"
    /\ \/ /\ flags.pl # 0
          /\ Raise(Exception(InvalidOperation))
       \/ /\ flags.pl = 0
          /\ Retire(elr)
          /\ flags' = eflags
          /\ regs' = [regs EXCEPT ![SP] = esp]
          /\ UNCHANGED <<frame, tables>>

\* Mutants: dbg runs on into the increment of ip; exc does not step over
\* itself, or does so twice.
DbgRunsOn(i) == i.op = "dbg" /\ TakeException(Exception(Debug), ip, 4)
ExcAgain(i) == i.op = "exc" /\ TakeException(UserException(i.val), ip, 0)
ExcSkips(i) == i.op = "exc" /\ TakeException(UserException(i.val), Plus(ip, 8), 0)

Dbg(i) == i.op = "dbg" /\ Raise(Exception(Debug))

\* exc steps over itself before it raises.
Exc(i) ==
    i.op = "exc" /\ TakeException(UserException(i.val), Plus(ip, 4), 0)

Nop(i) ==
    /\ i.op = "nop"
    /\ Retire(Plus(ip, 4))
    /\ UNCHANGED <<flags, regs, frame, tables>>

-----------------------------------------------------------------------------
(* Machine registers.                                                      *)

\* Mutants: vm_console may be read; the current privilege level is ignored.
CheckAccessConsole(m, pl, write) ==
    CASE m = "flags" -> ~write \/ pl = 0
      [] m \in {"einfo", "eaddr"} -> ~write /\ pl = 0
      [] m = "vm_console" -> TRUE
      [] OTHER -> pl = 0
CheckAccess(m, pl, write) ==
    CASE m = "flags" -> ~write \/ pl = 0
      [] m \in {"elr", "esp", "eflags", "evtable", "ectable"} -> pl = 0
      [] m \in {"einfo", "eaddr"} -> ~write /\ pl = 0
      [] m = "vm_console" -> write

AccessibleInPL0(m, write) == m # "none" /\ CheckAccess(m, 0, write)

\* ldm and stm first look the register up ("none" stands for an identifier
\* that no machine register has) and check the access.
Accessible(m, write) == m # "none" /\ CheckAccess(m, flags.pl, write)

Readable(m) ==
    CASE m = "flags" -> FlagsWord(flags)
      [] m = "elr" -> elr
      [] m = "esp" -> esp
      [] m = "eflags" -> FlagsWord(eflags)
      [] m = "einfo" -> einfo
      [] m = "eaddr" -> eaddr
      [] m = "evtable" -> evtable
      [] m = "ectable" -> ectable_addr

Ldm(i) ==
    /\ i.op = "ldm"
    /\ \/ /\ ~Accessible(i.m, FALSE)
          /\ Raise(Exception(InvalidOperation))
       \/ /\ Accessible(i.m, FALSE) /\ i.m # "vm_console"
          /\ regs' = [regs EXCEPT ![i.r] = Readable(i.m)]
          /\ Retire(Plus(ip, 4))
          /\ UNCHANGED <<flags, frame, tables>>
       \/ /\ Accessible(i.m, FALSE) /\ i.m = "vm_console"
          /\ Panic("unreachable")

\* Mutant: the copy is made before the entries are checked.
StmEctableEarly(src) ==
    /\ InMemory(src, TableBytes)
    /\ ectable' \in TablesInMemory
    /\ ectable_addr' = src
    /\ Retire(Plus(ip, 4))
    /\ UNCHANGED <<flags, regs, frame, evtable>>

\* The table at src is copied only when all of it is in memory and every
\* entry of it is valid.
StmEctable(src) ==
    \/ /\ ~InMemory(src, TableBytes)
       /\ Raise(DataError(src, FALSE, TableBytes))
    \/ /\ InMemory(src, TableBytes)
       /\ \E t \in TablesInMemory :
             \/ /\ ~TableValid(t)
                /\ Raise(Exception(InvalidOperation))
             \/ /\ TableValid(t)
                /\ ectable' = t
                /\ ectable_addr' = src
                /\ Retire(Plus(ip, 4))
                /\ UNCHANGED <<flags, regs, frame, evtable>>

\* The values that a machine register accepts.
Accepts(m, src) ==
    /\ m \in {"flags", "eflags"} => ValidFlags(src)
    /\ m \in {"elr", "evtable"} => Aligned(src)

StmValue(m, src) ==
    \/ /\ ~Accepts(m, src)
       /\ Raise(Exception(InvalidOperation))
    \/ /\ Accepts(m, src)
       /\ flags' = IF m = "flags" THEN FlagsOf(src) ELSE flags
       /\ elr' = IF m = "elr" THEN src ELSE elr
       /\ esp' = IF m = "esp" THEN src ELSE esp
       /\ eflags' = IF m = "eflags" THEN FlagsOf(src) ELSE eflags
       /\ evtable' = IF m = "evtable" THEN src ELSE evtable
       /\ Retire(Plus(ip, 4))
       /\ UNCHANGED <<regs, einfo, eaddr, ectable_addr, ectable>>

Stm(i) ==
    /\ i.op = "stm"
    /\ \/ /\ ~Accessible(i.m, TRUE)
          /\ Raise(Exception(InvalidOperation))
       \/ /\ Accessible(i.m, TRUE) /\ i.m = "ectable"
          /\ StmEctable(regs[i.r])
       \/ /\ Accessible(i.m, TRUE) /\ i.m \notin {"ectable", "einfo", "eaddr"}
          /\ StmValue(i.m, regs[i.r])
       \/ /\ Accessible(i.m, TRUE) /\ i.m \in {"einfo", "eaddr"}
          /\ Panic("unreachable")

-----------------------------------------------------------------------------

Init ==
    /\ ip = StartAddr
    /\ flags = NewFlags
    /\ regs = [r \in Regs |-> 0]
    /\ elr = 0 /\ esp = 0 /\ eflags = NewFlags /\ einfo = 0 /\ eaddr = 0
    /\ evtable = 0 /\ ectable_addr = 0
    /\ ectable = [pl \in {0, 1} |-> [id \in Ids |-> NoEntry]]
    /\ trap = NoTrap
    /\ status = "running"

\* A panicked emulator stays so.
Halted == ~Running /\ UNCHANGED vars

Execute(i) ==
    \/ Udf(i) \/ Unmatched(i) \/ DecodePanic(i)
    \/ Compute(i) \/ ComputePanic(i) \/ Load(i) \/ Store(i) \/ Push(i) \/ Pop(i)
    \/ Jump(i) \/ Ret(i) \/ Eret(i) \/ Dbg(i) \/ Exc(i) \/ Nop(i)
    \/ Ldm(i) \/ Stm(i)

execute_one ==
    /\ Running /\ InMemory(ip, 4)
    /\ \E i \in Fetched : Execute(i)

Next == FetchFault \/ execute_one \/ Halted

Spec == Init /\ [][Next]_vars

-----------------------------------------------------------------------------
(* Properties.                                                             *)

TypeOK ==
    /\ ip \in Word /\ elr \in Word /\ esp \in Word
    /\ einfo \in Word /\ eaddr \in Word
    /\ evtable \in Word /\ ectable_addr \in Word
    /\ flags \in Flags /\ eflags \in Flags
    /\ regs \in [Regs -> Word]
    /\ ectable \in ConfigurationTable
    /\ trap \in Ids \cup {NoTrap}
    /\ status \in {"running", "decode", "arithmetic", "bounds", "unreachable"}

\* The entries take_exception trusts have been validated: stm checks a table
\* before it installs the copy, never after.
CachedTableValid == TableValid(ectable)

\* check_access denies every access for which the matches of ldm and stm
\* have no arm, so their unreachable!() arms are unreachable.
NoUnreachable == status # "unreachable"

\* The inductive invariant: with the above, that the vector table starts on an
\* instruction boundary, so that handlers do.
IInv ==
    /\ TypeOK
    /\ CachedTableValid
    /\ NoUnreachable
    /\ Aligned(evtable)

\* A PL1 program changes no table, and touches neither the E and PL bits nor
\* the saved frame except by taking an exception.
UserConfined ==
    [][flags.pl = 1 =>
          /\ UNCHANGED tables
          /\ trap' = NoTrap =>
                /\ UNCHANGED frame
                /\ flags'.pl = 1 /\ flags'.exc = flags.exc]_vars

\* An instruction that raises leaves no trace of itself: every register but
\* rsp keeps its value, the frame has the state before the instruction, and
\* only exc resumes after itself.
PreciseExceptions ==
    [][trap' # NoTrap =>
          /\ eflags' = flags
          /\ esp' = regs[SP]
          /\ elr' = IF trap' = User THEN Plus(ip, 4) ELSE ip
          /\ \A r \in Regs \ {SP} : regs'[r] = regs[r]
          /\ UNCHANGED <<tables, status>>]_vars

\* A handler starts in PL0 with E clear, at the slot of its exception and of
\* the interrupted privilege level, or (the default arm of decode) 4 bytes
\* into the slot for invalid instructions.
HandlerEntry ==
    [][trap' # NoTrap =>
          /\ flags'.pl = 0 /\ ~flags'.exc
          /\ LET slot == VectorSlot(flags.pl, trap')
             IN  \/ ip' = slot
                 \/ trap' = InvalidInstruction /\ ip' = Plus(slot, 4)]_vars

\* With a configured stack that does not wrap round the address space, the
\* handler runs on that stack; with none, on the interrupted one.
HandlerOnItsStack ==
    [][trap' # NoTrap =>
          LET entry == ectable[flags.pl][trap']
              base == entry.stack_pointer
              top == base + entry.stack_size
          IN  IF ~UsesStack(entry)
              THEN regs'[SP] = regs[SP]
              ELSE top < AddrSpace => base <= regs'[SP] /\ regs'[SP] <= top]_vars

\* A data load error reports bytes that really are not all in memory: the
\* address and the size in eaddr and einfo are those of the failed access.
\* They are counted as they lie here, whatever the sum of the two wraps to;
\* and so are those of an instruction that cannot be fetched.
FaultIsReal ==
    [][/\ trap' = DataLoadError => eaddr' + einfo' \div 16 > MemSize
       /\ trap' = InstructionLoadError => ip + 4 > MemSize]_vars

\* The first byte that an instruction accesses, and how many there are.
AccessesMemory(i) ==
    i.op \in {"load", "store", "push", "pop"} \/ (i.op = "stm" /\ i.m = "ectable")
AccessSize(i) == IF i.op = "stm" THEN TableBytes ELSE i.k * i.n
FirstByte(i) ==
    CASE i.op \in {"load", "store"} -> regs[i.a]
      [] i.op = "push" -> regs[SP] - AccessSize(i)
      [] i.op = "pop" -> regs[SP]
      [] i.op = "stm" -> regs[i.r]

\* Conversely, what is fetched and what a completed instruction has read or
\* written was memory, every byte of it, counted as it lies: get_memory takes
\* no range that begins in memory, or wraps into it, and is not all there.
AccessIsReal ==
    [][Running =>
          /\ trap' # InstructionLoadError => ip + 4 <= MemSize
          /\ \A i \in Fetched :
                AccessesMemory(i) /\ Execute(i) /\ trap' = NoTrap /\ Running' =>
                    0 <= FirstByte(i) /\ FirstByte(i) + AccessSize(i) <= MemSize]_vars

\* The instruction makes the emulator panic: a field that decoding does not
\* expect, arithmetic of the host, the second half of an stp, or, in a debug
\* build, a displacement that has no signed word for four times its value.
Breaks(i) ==
    \/ i.op \in {"reserved", "panics"}
    \/ i.op = "store" /\ i.k = 2 /\ InMemory(regs[i.a], i.n)
    \/ /\ OverflowChecks /\ i.op = "jump" /\ i.mode = "relative"
       /\ LET v == regs[i.a]
              n == IF 2 * v < AddrSpace THEN v ELSE v - AddrSpace
          IN  8 * n < -AddrSpace \/ 8 * n >= AddrSpace

\* The host process survives everything else: no exception, access, machine
\* register or privilege level, and no jump in reach, ends it.
HostSurvives ==
    [][status' # status => \E i \in Fetched : Breaks(i)]_vars

\* Once ip and elr are aligned, only a ret to a misaligned rlr misaligns ip.
OnlyRetMisaligns ==
    [][Aligned(ip) /\ Aligned(elr) =>
          /\ Aligned(elr')
          /\ Aligned(ip') \/ (ip' = regs[LR] /\ trap' = NoTrap)]_vars

\* The handler of an exception raises that exception again: there is no
\* memory at its slot, or nothing but udf.  So it is at startup, when evtable
\* is 0, for a program without handlers.
LockedUp ==
    /\ Running /\ flags.pl = 0
    /\ \/ ip = VectorSlot(0, InstructionLoadError) /\ ~InMemory(ip, 4)
       \/ /\ ip = VectorSlot(0, InvalidInstruction) /\ InMemory(ip, 4)
          /\ Fetched = {[op |-> "udf"]}

\* No step leads out of it: the machine neither panics nor moves on to what
\* lies behind the slot, and, on its handler's stack, it stands still.
LockupIsFinal ==
    [][LockedUp => LockedUp' /\ (trap # NoTrap => UNCHANGED core)]_vars

-----------------------------------------------------------------------------
(* What the architecture documents say and the emulator does not do.       *)

\* exceptions.md: the processor jumps to the corresponding vector entry.
EntersVectorSlot ==
    [][trap' # NoTrap => ip' = VectorSlot(flags.pl, trap')]_vars

\* instructions.md: stp stores a pair of values.
StoresPairs == status # "bounds"

=============================================================================
