--------------------------- MODULE Machine_proofs ---------------------------
(***************************************************************************)
(* What holds of the machine for every program, memory size and address    *)
(* space.  StepKinds sorts the steps of all instructions into five kinds;  *)
(* every theorem is then an argument about those five.                     *)
(***************************************************************************)
EXTENDS Machine, Numbers_proofs

-----------------------------------------------------------------------------
(* The five kinds of steps.                                                *)

Raisable == [id : 1 .. 6, info : Word, addr : Word]

\* An exception is taken: after the instruction for exc, before it for the
\* others.
Raises ==
    \E e \in Raisable, skip \in {0, 4} :
       /\ TakeException(e, IF e.id = User THEN Plus(ip, 4) ELSE ip, skip)
       /\ skip = 4 => e.id = InvalidInstruction
       /\ e.id = DataLoadError => ~InMemory(e.addr, e.info \div 16)
       /\ e.id = InstructionLoadError => ~InMemory(ip, 4)

\* An instruction completes without touching the machine registers; only ret
\* goes to a misaligned address.
Completes ==
    /\ ip' \in Word
    /\ Aligned(ip) => Aligned(ip') \/ ip' = regs[LR]
    /\ regs' \in [Regs -> Word]
    /\ \E cc \in 0 .. 15 : flags' = [flags EXCEPT !.cc = cc]
    /\ trap' = NoTrap
    /\ UNCHANGED <<frame, tables, status>>

\* eret.
Returns ==
    /\ flags.pl = 0
    /\ ip' = elr /\ flags' = eflags /\ regs' = [regs EXCEPT ![SP] = esp]
    /\ trap' = NoTrap
    /\ UNCHANGED <<frame, tables, status>>

\* stm writes one machine register, in PL0.
Configures ==
    /\ flags.pl = 0
    /\ ip' = Plus(ip, 4) /\ trap' = NoTrap
    /\ \/ flags' \in Flags /\ UNCHANGED <<frame, tables>>
       \/ elr' \in Word /\ Aligned(elr') /\ UNCHANGED <<flags, esp, eflags, einfo, eaddr, tables>>
       \/ esp' \in Word /\ UNCHANGED <<flags, elr, eflags, einfo, eaddr, tables>>
       \/ eflags' \in Flags /\ UNCHANGED <<flags, elr, esp, einfo, eaddr, tables>>
       \/ evtable' \in Word /\ Aligned(evtable') /\ UNCHANGED <<flags, frame, ectable_addr, ectable>>
       \/ /\ ectable' \in ConfigurationTable /\ TableValid(ectable')
          /\ ectable_addr' \in Word
          /\ UNCHANGED <<flags, frame, evtable>>
    /\ UNCHANGED <<regs, status>>

Panics == \E why \in {"decode", "arithmetic", "bounds"} : Panic(why)

-----------------------------------------------------------------------------
(* Operators.                                                              *)

\* A number is a multiple of four exactly when its remainder says so; small
\* constants are words.
LEMMA SmallWords ==
    /\ 0 .. 8191 \subseteq Word
    /\ Aligned(4) /\ Aligned(StartAddr) /\ Aligned(0)
BY AddrSpaceAssumption, WidthAssumption DEF Word, Aligned, StartAddr

\* A valid flags word decodes to flags.
LEMMA FlagsOfLemma ==
    ASSUME NEW w \in Word
    PROVE  FlagsOf(w) \in Flags
<1>1. w % 16 \in 0 .. 15 /\ (w \div 32) % 2 \in {0, 1}
  BY AddrSpaceAssumption DEF Word
<1>2. QED
  BY <1>1 DEF FlagsOf, Flags

\* Flags encode to a word.
LEMMA FlagsWordLemma ==
    ASSUME NEW f \in Flags
    PROVE  FlagsWord(f) \in Word
BY AddrSpaceAssumption, WidthAssumption DEF FlagsWord, Flags, Word

\* The slots of the vector table are words, and aligned if the table is.
LEMMA VectorSlotLemma ==
    ASSUME evtable \in Word, NEW pl \in {0, 1}, NEW id \in Ids
    PROVE  /\ VectorSlot(pl, id) \in Word
           /\ Aligned(evtable) => Aligned(VectorSlot(pl, id))
<1>1. 256 * pl + 32 * id \in Word /\ Aligned(256 * pl + 32 * id)
  BY AddrSpaceAssumption, WidthAssumption DEF Word, Ids, Aligned
<1>2. QED
  BY <1>1, PlusLemma DEF VectorSlot

\* Registers written with words hold words.
LEMMA WriteRegsLemma ==
    ASSUME TypeOK, NEW dsts \in SUBSET Regs, NEW words \in SUBSET Word,
           NEW vals \in [dsts -> words]
    PROVE  WriteRegs(dsts, vals) \in [Regs -> Word]
BY DEF WriteRegs, TypeOK

-----------------------------------------------------------------------------
(* Sorting the steps.                                                      *)

\* Raising an exception without data is a Raises step.
LEMMA RaiseLemma ==
    ASSUME TypeOK, NEW id \in {1, 2, 4, 5}, Raise(Exception(id)),
           id = InstructionLoadError => ~InMemory(ip, 4)
    PROVE  Raises
<1>1. Exception(id) \in Raisable
  BY SmallWords DEF Exception, Raisable
<1>2. Exception(id).id = id /\ id # User /\ id # DataLoadError
  BY DEF Exception, User, DataLoadError
<1>3. TakeException(Exception(id), ip, 0)
  BY DEF Raise
<1>4. QED
  BY <1>1, <1>2, <1>3 DEF Raises

\* Sizes of accesses: k values of n bytes, and the configuration table.
Widths == {1, 2, 4, 8, 16, TableBytes}
SizeIn(info) == info \div 16

\* The information of a data load error, from which the size can be read back.
LEMMA InfoLemma ==
    ASSUME NEW n \in Widths, NEW w \in {0, 8}, NEW info, info = 6 + w + 16 * n
    PROVE  SizeIn(info) = n
<1>1. n \in 0 .. 384
  BY DEF Widths, TableBytes
<1>2. QED
  BY <1>1 DEF SizeIn

\* So is a data load error for an access that is not in memory.
LEMMA DataErrorLemma ==
    ASSUME NEW addr \in Word, NEW write \in BOOLEAN, NEW n \in Widths,
           ~InMemory(addr, n), Raise(DataError(addr, write, n))
    PROVE  Raises
<1> DEFINE e == DataError(addr, write, n)
<1>1. \E w \in {0, 8} : e.info = 6 + w + 16 * n
  BY DEF DataError, DataLoadError
<1>2. e \in Raisable
  <2>1. (IF write THEN 8 ELSE 0) \in {0, 8}
    OBVIOUS
  <2>2. ASSUME NEW w \in {0, 8}
        PROVE  [id |-> 6, info |-> 6 + w + 16 * n, addr |-> addr] \in Raisable
    BY SmallWords DEF Raisable, Widths, TableBytes
  <2>3. QED
    BY <2>1, <2>2 DEF DataError, DataLoadError
<1>3. e.id # User /\ e.id # InstructionLoadError /\ e.addr = addr
  BY DEF DataError, DataLoadError, InstructionLoadError, User
<1>4. TakeException(e, ip, 0)
  BY DEF Raise
<1> HIDE DEF e
<1>5. SizeIn(e.info) = n
  <2>1. PICK w \in {0, 8} : e.info = 6 + w + 16 * n
    BY <1>1
  <2>2. QED
    BY <2>1, InfoLemma, Zenon
<1>6. ~InMemory(e.addr, SizeIn(e.info))
  BY <1>3, <1>5, Zenon
<1>7. QED
  BY <1>2, <1>3, <1>4, <1>6 DEF Raises, SizeIn

\* An instruction that changes at most registers and goes to the next one is
\* a Completes step.
LEMMA CompletesLemma ==
    ASSUME TypeOK, NEW dest \in Word, Retire(dest),
           Aligned(ip) => Aligned(dest) \/ dest = regs[LR],
           regs' \in [Regs -> Word], UNCHANGED <<flags, frame, tables>>
    PROVE  Completes
<1>1. flags' = [flags EXCEPT !.cc = flags.cc] /\ flags.cc \in 0 .. 15
  BY DEF TypeOK, Flags
<1>2. QED
  BY <1>1 DEF Completes, Retire

\* The next instruction is at a word, aligned if this one is.
LEMMA NextLemma ==
    ASSUME TypeOK
    PROVE  /\ Plus(ip, 4) \in Word
           /\ Aligned(ip) => Aligned(Plus(ip, 4))
BY PlusLemma, SmallWords DEF TypeOK

\* The instructions at ip are well formed.
LEMMA FetchedLemma ==
    ASSUME NEW i \in Fetched
    PROVE  WellFormed(i)
BY ProgramAssumption DEF Fetched, WellFormed

\* Where a jump goes is a word; a jump that is taken completes at an aligned
\* address or raises.
LEMMA GoToLemma ==
    ASSUME TypeOK, NEW dest \in Word, NEW link \in BOOLEAN, GoTo(dest, link)
    PROVE  Completes \/ Raises
<1>1. CASE Aligned(dest) /\ Retire(dest)
           /\ regs' = (IF link THEN [regs EXCEPT ![LR] = Plus(ip, 4)] ELSE regs)
           /\ UNCHANGED <<flags, frame, tables>>
  <2>1. regs' \in [Regs -> Word]
    BY <1>1, NextLemma DEF TypeOK
  <2>2. QED
    BY <1>1, <2>1, CompletesLemma
<1>2. CASE Raise(Exception(InvalidOperation))
  BY <1>2, RaiseLemma DEF InvalidOperation, InstructionLoadError
<1>3. QED
  BY <1>1, <1>2 DEF GoTo

LEMMA DestinationLemma ==
    ASSUME TypeOK, NEW i, WellFormed(i), i.op = "jump"
    PROVE  Destination(i) \in Word
<1>1. \A v \in Word : Plus(Plus(ip, 4), Quad(v)) \in Word
  BY NextLemma, QuadLemma, PlusLemma
<1>2. CASE i.mode = "immediate"
  BY <1>1, <1>2 DEF Destination, WellFormed
<1>3. CASE i.mode = "relative"
  BY <1>1, <1>3 DEF Destination, WellFormed, TypeOK
<1>4. CASE i.mode = "absolute"
  BY <1>4 DEF Destination, WellFormed, TypeOK
<1>5. QED
  BY <1>2, <1>3, <1>4 DEF WellFormed

\* What ldm reads is a word.
LEMMA ReadableLemma ==
    ASSUME TypeOK, NEW m \in MachineRegisters \ {"vm_console"}
    PROVE  Readable(m) \in Word
<1>1. FlagsWord(flags) \in Word /\ FlagsWord(eflags) \in Word
  BY FlagsWordLemma DEF TypeOK
<1>2. QED
  BY <1>1 DEF Readable, MachineRegisters, TypeOK

\* Loads and stores.
LEMMA MemoryKinds ==
    ASSUME TypeOK, NEW i, WellFormed(i),
           Load(i) \/ Store(i) \/ Push(i) \/ Pop(i)
    PROVE  Completes \/ Raises \/ Panics
<1> DEFINE size == i.k * i.n
<1>1. i.op \in {"load", "store", "push", "pop"}
  BY DEF Load, Store, Push, Pop
<1>2. i.n \in {1, 2, 4, 8} /\ i.k \in {1, 2}
  BY <1>1 DEF WellFormed
<1>3. size \in Widths /\ i.n \in Widths
  BY <1>2 DEF Widths
<1>w. size \in Word
  BY <1>2, SmallWords
<1>4. regs[SP] \in Word /\ SP \in Regs
  BY DEF SP, Regs, TypeOK
<1> HIDE DEF size
<1>5. CASE Load(i)
  <2>1. i.dsts \subseteq Regs /\ i.vals \subseteq Word /\ regs[i.a] \in Word
    BY <1>5 DEF Load, WellFormed, TypeOK
  <2>2. CASE Retire(Plus(ip, 4)) /\ UNCHANGED <<flags, frame, tables>>
             /\ \E vals \in [i.dsts -> i.vals] : regs' = WriteRegs(i.dsts, vals)
    <3>1. regs' \in [Regs -> Word]
      BY <2>1, <2>2, WriteRegsLemma
    <3>2. QED
      BY <2>2, <3>1, NextLemma, CompletesLemma
  <2>3. CASE ~InMemory(regs[i.a], size) /\ Raise(DataError(regs[i.a], FALSE, size))
    BY <1>3, <2>1, <2>3, DataErrorLemma
  <2>4. QED
    BY <1>5, <2>2, <2>3 DEF Load, size
<1>6. CASE Store(i)
  <2>1. regs[i.a] \in Word
    BY <1>6 DEF Store, WellFormed, TypeOK
  <2>2. CASE Retire(Plus(ip, 4)) /\ UNCHANGED <<flags, regs, frame, tables>>
    BY <2>2, NextLemma, CompletesLemma DEF TypeOK
  <2>3. CASE ~InMemory(regs[i.a], i.n) /\ Raise(DataError(regs[i.a], TRUE, i.n))
    BY <1>3, <2>1, <2>3, DataErrorLemma
  <2>4. CASE Panic("bounds")
    BY <2>4 DEF Panics
  <2>5. QED
    BY <1>6, <2>2, <2>3, <2>4 DEF Store
<1>7. CASE Push(i)
  <2> DEFINE top == Minus(regs[SP], size)
  <2>1. top \in Word
    BY <1>w, <1>4, MinusLemma
  <2> HIDE DEF top
  <2>2. CASE regs' = [regs EXCEPT ![SP] = top] /\ Retire(Plus(ip, 4))
             /\ UNCHANGED <<flags, frame, tables>>
    <3>1. regs' \in [Regs -> Word]
      BY <2>1, <2>2 DEF TypeOK
    <3>2. QED
      BY <2>2, <3>1, NextLemma, CompletesLemma
  <2>3. CASE ~InMemory(top, size) /\ Raise(DataError(top, TRUE, size))
    BY <1>3, <2>1, <2>3, DataErrorLemma
  <2>4. QED
    BY <1>7, <2>2, <2>3 DEF Push, size, top
<1>8. CASE Pop(i)
  <2>1. i.dsts \subseteq Regs /\ i.vals \subseteq Word
    BY <1>8 DEF Pop, WellFormed
  <2>2. Plus(regs[SP], size) \in Word
    BY <1>w, <1>4, PlusLemma
  <2>3. CASE Retire(Plus(ip, 4)) /\ UNCHANGED <<flags, frame, tables>>
             /\ \E vals \in [i.dsts -> i.vals] :
                   regs' = [WriteRegs(i.dsts, vals) EXCEPT ![SP] = Plus(regs[SP], size)]
    <3>1. regs' \in [Regs -> Word]
      <4>1. PICK vals \in [i.dsts -> i.vals] :
               regs' = [WriteRegs(i.dsts, vals) EXCEPT ![SP] = Plus(regs[SP], size)]
        BY <2>3
      <4>2. WriteRegs(i.dsts, vals) \in [Regs -> Word]
        BY <2>1, WriteRegsLemma
      <4>3. QED
        BY <2>2, <4>1, <4>2
    <3>2. QED
      BY <2>3, <3>1, NextLemma, CompletesLemma
  <2>4. CASE ~InMemory(regs[SP], size) /\ Raise(DataError(regs[SP], FALSE, size))
    BY <1>3, <1>4, <2>4, DataErrorLemma
  <2>5. QED
    BY <1>8, <2>3, <2>4 DEF Pop, size
<1>9. QED
  BY <1>5, <1>6, <1>7, <1>8

\* Jumps, calls and returns.
LEMMA ControlKinds ==
    ASSUME TypeOK, NEW i, WellFormed(i),
           Jump(i) \/ Ret(i) \/ Eret(i) \/ Dbg(i) \/ Exc(i) \/ Nop(i)
    PROVE  Completes \/ Raises \/ Returns \/ Panics
<1>1. CASE Jump(i)
  <2>1. i.op = "jump" /\ i.link \in BOOLEAN /\ Destination(i) \in Word
    BY <1>1, DestinationLemma DEF Jump, WellFormed
  <2>2. CASE Panic("arithmetic")
    BY <2>2 DEF Panics
  <2>3. CASE GoTo(Destination(i), i.link)
    BY <2>1, <2>3, GoToLemma
  <2>4. CASE Retire(Plus(ip, 4)) /\ UNCHANGED <<flags, regs, frame, tables>>
    BY <2>4, NextLemma, CompletesLemma DEF TypeOK
  <2>5. QED
    BY <1>1, <2>2, <2>3, <2>4 DEF Jump
<1>2. CASE Ret(i)
  <2>1. regs[LR] \in Word
    BY DEF TypeOK, LR, Regs
  <2>2. QED
    BY <1>2, <2>1, CompletesLemma DEF Ret, TypeOK
<1>3. CASE Eret(i)
  <2>1. CASE Raise(Exception(InvalidOperation))
    BY <2>1, RaiseLemma DEF InvalidOperation, InstructionLoadError
  <2>2. CASE ~Raise(Exception(InvalidOperation))
    BY <1>3, <2>2 DEF Eret, Returns, Retire
  <2>3. QED
    BY <2>1, <2>2
<1>4. CASE Dbg(i)
  BY <1>4, RaiseLemma DEF Dbg, Debug, InstructionLoadError
<1>5. CASE Exc(i)
  <2> DEFINE e == UserException(i.val)
  <2>1. e \in Raisable
    <3>1. i.val \in Nat /\ 8 * i.val + 3 < AddrSpace
      BY <1>5 DEF Exc, WellFormed
    <3>2. 3 + 8 * i.val \in Word /\ 0 \in Word
      BY <3>1, AddrSpaceAssumption DEF Word
    <3> QED
      BY <3>2 DEF UserException, User, Raisable
  <2>2. e.id = User /\ e.id # DataLoadError /\ e.id # InstructionLoadError
    BY DEF UserException, User, DataLoadError, InstructionLoadError
  <2>3. TakeException(e, Plus(ip, 4), 0)
    BY <1>5 DEF Exc
  <2> HIDE DEF e
  <2>4. QED
    BY <2>1, <2>2, <2>3 DEF Raises
<1>6. CASE Nop(i)
  BY <1>6, NextLemma, CompletesLemma DEF Nop, TypeOK
<1>7. QED
  BY <1>1, <1>2, <1>3, <1>4, <1>5, <1>6

\* ldm and stm.
LEMMA MachineRegisterKinds ==
    ASSUME TypeOK, NEW i, WellFormed(i), Ldm(i) \/ Stm(i)
    PROVE  Completes \/ Raises \/ Configures
<1>1. i.m \in MachineRegisters \cup {"none"} /\ i.r \in Regs /\ regs[i.r] \in Word
  BY DEF Ldm, Stm, WellFormed, TypeOK
<1>2. CASE Raise(Exception(InvalidOperation))
  BY <1>2, RaiseLemma DEF InvalidOperation, InstructionLoadError
<1>3. CASE Ldm(i) /\ ~Raise(Exception(InvalidOperation))
  <2>1. i.m \in MachineRegisters /\ i.m # "vm_console"
    BY <1>1, <1>3 DEF Ldm, Accessible, CheckAccess, MachineRegisters
  <2>2. regs' = [regs EXCEPT ![i.r] = Readable(i.m)] /\ Retire(Plus(ip, 4))
        /\ UNCHANGED <<flags, frame, tables>>
    BY <1>3, <2>1 DEF Ldm
  <2>3. regs' \in [Regs -> Word]
    BY <1>1, <2>1, <2>2, ReadableLemma DEF TypeOK
  <2>4. QED
    BY <2>2, <2>3, NextLemma, CompletesLemma
<1>4. CASE Stm(i) /\ ~Raise(Exception(InvalidOperation))
  <2> DEFINE src == regs[i.r]
  <2>1. Accessible(i.m, TRUE) /\ i.m \in MachineRegisters \ {"einfo", "eaddr"}
    BY <1>1, <1>4 DEF Stm, Accessible, CheckAccess, MachineRegisters
  <2>2. i.m # "vm_console" => flags.pl = 0
    BY <2>1 DEF Accessible, CheckAccess, MachineRegisters
  <2>3. CASE i.m = "ectable"
    <3>1. StmEctable(src)
      BY <1>4, <2>1, <2>3 DEF Stm
    <3>2. CASE ~InMemory(src, TableBytes) /\ Raise(DataError(src, FALSE, TableBytes))
      BY <1>1, <3>2, DataErrorLemma DEF Widths
    <3>3. CASE ~(~InMemory(src, TableBytes) /\ Raise(DataError(src, FALSE, TableBytes)))
      BY <1>1, <1>4, <2>2, <2>3, <3>1, <3>3, TablesAssumption
      DEF StmEctable, Configures, Retire
    <3>4. QED
      BY <3>2, <3>3
  <2>4. CASE i.m # "ectable"
    <3>1. StmValue(i.m, src)
      BY <1>4, <2>1, <2>4 DEF Stm
    <3>2. Accepts(i.m, src) /\ Retire(Plus(ip, 4)) /\ UNCHANGED <<regs, einfo, eaddr, ectable_addr, ectable>>
      BY <1>4, <3>1 DEF StmValue
    <3>3. FlagsOf(src) \in Flags
      BY <1>1, FlagsOfLemma
    <3>4. CASE i.m = "vm_console"
      <4>1. UNCHANGED <<flags, frame, tables>>
        BY <1>4, <3>1, <3>4 DEF StmValue, frame, tables
      <4>2. QED
        BY <3>2, <4>1, NextLemma, CompletesLemma DEF TypeOK
    <3>5. CASE i.m = "flags"
      BY <1>4, <2>2, <3>1, <3>2, <3>3, <3>5 DEF StmValue, Configures, Retire, frame, tables
    <3>6. CASE i.m = "elr"
      BY <1>1, <1>4, <2>2, <3>1, <3>2, <3>6 DEF StmValue, Accepts, Configures, Retire, frame, tables
    <3>7. CASE i.m = "esp"
      BY <1>1, <1>4, <2>2, <3>1, <3>2, <3>7 DEF StmValue, Configures, Retire, frame, tables
    <3>8. CASE i.m = "eflags"
      BY <1>4, <2>2, <3>1, <3>2, <3>3, <3>8 DEF StmValue, Configures, Retire, frame, tables
    <3>9. CASE i.m = "evtable"
      BY <1>1, <1>4, <2>2, <3>1, <3>2, <3>9 DEF StmValue, Accepts, Configures, Retire, frame, tables
    <3>10. QED
      BY <2>1, <2>4, <3>4, <3>5, <3>6, <3>7, <3>8, <3>9 DEF MachineRegisters
  <2>5. QED
    BY <2>3, <2>4
<1>5. QED
  BY <1>2, <1>3, <1>4

\* Every step is of one of the five kinds, or of a panicked emulator.
THEOREM StepKinds ==
    ASSUME TypeOK, Next
    PROVE  Raises \/ Completes \/ Returns \/ Configures \/ Panics \/ Halted
<1>1. CASE FetchFault
  BY <1>1, RaiseLemma DEF FetchFault, InstructionLoadError
<1>2. CASE Halted
  BY <1>2
<1>3. CASE execute_one
  <2>1. PICK i \in Fetched : Execute(i)
    BY <1>3 DEF execute_one
  <2>2. WellFormed(i)
    BY FetchedLemma
  <2>3. CASE Udf(i)
    BY <2>3, RaiseLemma DEF Udf, InvalidInstruction, InstructionLoadError
  <2>4. CASE Unmatched(i)
    <3> DEFINE e == Exception(InvalidInstruction)
    <3>1. e \in Raisable
      BY SmallWords DEF Exception, InvalidInstruction, Raisable
    <3>2. /\ e.id = InvalidInstruction /\ e.id # User
          /\ e.id # DataLoadError /\ e.id # InstructionLoadError
      BY DEF Exception, InvalidInstruction, User, DataLoadError, InstructionLoadError
    <3>3. TakeException(e, ip, 4)
      BY <2>4 DEF Unmatched
    <3> HIDE DEF e
    <3>4. QED
      BY <3>1, <3>2, <3>3 DEF Raises
  <2>5. CASE DecodePanic(i) \/ ComputePanic(i)
    BY <2>5 DEF DecodePanic, ComputePanic, Panics
  <2>6. CASE Compute(i)
    <3>1. i.dsts \subseteq Regs /\ i.vals \subseteq Word /\ i.ccs \subseteq 0 .. 15
      BY <2>2, <2>6 DEF Compute, WellFormed
    <3>2. regs' \in [Regs -> Word]
      BY <2>6, <3>1, WriteRegsLemma DEF Compute
    <3>3. \E cc \in 0 .. 15 : flags' = [flags EXCEPT !.cc = cc]
      BY <2>6, <3>1 DEF Compute, TypeOK, Flags
    <3>4. QED
      BY <2>6, <3>2, <3>3, NextLemma DEF Compute, Retire, Completes
  <2>7. CASE Load(i) \/ Store(i) \/ Push(i) \/ Pop(i)
    BY <2>2, <2>7, MemoryKinds
  <2>8. CASE Jump(i) \/ Ret(i) \/ Eret(i) \/ Dbg(i) \/ Exc(i) \/ Nop(i)
    BY <2>2, <2>8, ControlKinds
  <2>9. CASE Ldm(i) \/ Stm(i)
    BY <2>2, <2>9, MachineRegisterKinds
  <2>10. QED
    BY <2>1, <2>3, <2>4, <2>5, <2>6, <2>7, <2>8, <2>9 DEF Execute
<1>4. QED
  BY <1>1, <1>2, <1>3 DEF Next

-----------------------------------------------------------------------------
(* Invariants.                                                             *)

\* The initial state satisfies the inductive invariant.
LEMMA InitIInv == Init => IInv
<1> SUFFICES ASSUME Init PROVE IInv
  OBVIOUS
<1>1. 0 \in Word /\ StartAddr \in Word /\ Aligned(0)
  BY AddrSpaceAssumption, WidthAssumption DEF Word, StartAddr, Aligned
<1>2. NewFlags \in Flags
  BY DEF NewFlags, Flags
<1>3. NoEntry \in ConfigurationEntry /\ EntryValid(NoEntry)
  BY <1>1 DEF NoEntry, ConfigurationEntry, EntryValid
<1>4. ectable \in ConfigurationTable /\ TableValid(ectable)
  BY <1>3 DEF Init, ConfigurationTable, TableValid
<1>5. TypeOK
  BY <1>1, <1>2, <1>4 DEF Init, TypeOK
<1>6. QED
  BY <1>1, <1>4, <1>5 DEF Init, IInv, CachedTableValid, NoUnreachable

\* An exception leaves every register a word.
LEMMA RaisesType ==
    ASSUME TypeOK, Raises
    PROVE  TypeOK'
<1>1. PICK e \in Raisable, skip \in {0, 4} :
         TakeException(e, IF e.id = User THEN Plus(ip, 4) ELSE ip, skip)
  BY DEF Raises
<1> DEFINE entry == ectable[flags.pl][e.id]
<1>2. flags.pl \in {0, 1} /\ e.id \in Ids
  BY DEF TypeOK, Flags, Raisable, Ids
<1>3. entry \in ConfigurationEntry
  BY <1>2 DEF TypeOK, ConfigurationTable
<1>4. regs[SP] \in Word
  BY DEF TypeOK, SP, Regs
<1> HIDE DEF entry
<1>5. HandlerSP(entry, regs[SP]) \in Word
  BY <1>3, <1>4, PlusLemma DEF HandlerSP, ConfigurationEntry
<1>6. Plus(VectorSlot(flags.pl, e.id), skip) \in Word
  <2>1. VectorSlot(flags.pl, e.id) \in Word
    BY <1>2, VectorSlotLemma DEF TypeOK
  <2>2. skip \in Word
    BY SmallWords
  <2>3. QED
    BY <2>1, <2>2, PlusLemma
<1>7. ip' \in Word /\ regs' \in [Regs -> Word]
  BY <1>1, <1>5, <1>6 DEF TakeException, TypeOK, entry
<1>8. elr' \in Word
  BY <1>1, NextLemma DEF TakeException, TypeOK
<1>9. esp' \in Word /\ einfo' \in Word /\ eaddr' \in Word
  BY <1>1, <1>4 DEF TakeException, Raisable
<1>10. flags' \in Flags /\ eflags' \in Flags
  BY <1>1 DEF TakeException, TypeOK, Flags
<1>11. trap' \in Ids /\ UNCHANGED <<tables, status>>
  BY <1>1, <1>2 DEF TakeException
<1>12. QED
  BY <1>7, <1>8, <1>9, <1>10, <1>11 DEF TypeOK, tables

\* Every step preserves the inductive invariant.
LEMMA NextIInv == IInv /\ [Next]_vars => IInv'
<1> SUFFICES ASSUME IInv, [Next]_vars PROVE IInv'
  OBVIOUS
<1> USE DEF IInv, CachedTableValid, NoUnreachable
<1>1. CASE Raises
  <2>1. UNCHANGED <<tables, status>>
    BY <1>1 DEF Raises, TakeException
  <2>2. QED
    BY <1>1, <2>1, RaisesType DEF tables
<1>2. CASE Completes
  <2>1. flags' \in Flags
    BY <1>2 DEF Completes, TypeOK, Flags
  <2>2. QED
    BY <1>2, <2>1 DEF Completes, TypeOK, frame, tables
<1>3. CASE Returns
  <2>1. regs' \in [Regs -> Word]
    BY <1>3 DEF Returns, TypeOK
  <2>2. QED
    BY <1>3, <2>1 DEF Returns, TypeOK, frame, tables
<1>4. CASE Configures
  <2>1. ip' \in Word
    BY <1>4, NextLemma DEF Configures
  <2>2. QED
    BY <1>4, <2>1 DEF Configures, TypeOK, frame, tables
<1>5. CASE Panics
  BY <1>5 DEF Panics, Panic, TypeOK, core, frame, tables
<1>6. CASE UNCHANGED vars
  BY <1>6 DEF vars, TypeOK, core, frame, tables
<1>7. QED
  BY <1>1, <1>2, <1>3, <1>4, <1>5, <1>6, StepKinds DEF Halted

\* The machine keeps the inductive invariant.
THEOREM Invariance == Spec => []IInv
BY InitIInv, NextIInv, PTL DEF Spec

\* Every register holds what its type allows: addresses never leave the
\* address space, whatever wraps.
THEOREM TypeCorrect == Spec => []TypeOK
<1>1. IInv => TypeOK
  BY DEF IInv
<1>2. QED
  BY <1>1, Invariance, PTL

\* take_exception never sees a configuration entry with reserved bits.
THEOREM CachedTableAlwaysValid == Spec => []CachedTableValid
<1>1. IInv => CachedTableValid
  BY DEF IInv
<1>2. QED
  BY <1>1, Invariance, PTL

\* The unreachable!() arms of ldm and stm are unreachable.
THEOREM UnreachableArms == Spec => []NoUnreachable
<1>1. IInv => NoUnreachable
  BY DEF IInv
<1>2. QED
  BY <1>1, Invariance, PTL

-----------------------------------------------------------------------------
(* What a step may never do.                                               *)

\* In PL1 nothing but an exception reaches the machine registers, the E and
\* PL bits, or the tables.
THEOREM Confinement == Spec => UserConfined
<1> DEFINE Confined ==
      flags.pl = 1 =>
          /\ UNCHANGED tables
          /\ trap' = NoTrap =>
                /\ UNCHANGED frame
                /\ flags'.pl = 1 /\ flags'.exc = flags.exc
<1>1. ASSUME IInv, Next PROVE Confined
  <2> USE DEF IInv, NoTrap
  <2>1. CASE Raises
    BY <2>1 DEF Raises, TakeException, Raisable
  <2>2. CASE Completes
    BY <2>2 DEF Completes, TypeOK, Flags
  <2>3. CASE Returns \/ Configures
    BY <2>3 DEF Returns, Configures
  <2>4. CASE Panics
    BY <2>4 DEF Panics, Panic, core
  <2>5. CASE Halted
    BY <2>5 DEF Halted, vars, core, frame, tables
  <2>6. QED
    BY <1>1, <2>1, <2>2, <2>3, <2>4, <2>5, StepKinds
<1>2. QED
  BY <1>1, Invariance, PTL DEF Spec, UserConfined

\* Only a Raises step prints an exception, or else nothing runs any more.
LEMMA OnlyRaisesTrap ==
    ASSUME IInv, Next, trap' # NoTrap
    PROVE  Raises \/ Halted
BY StepKinds DEF IInv, Completes, Returns, Configures, Panics, Panic

-----------------------------------------------------------------------------
(* What can end the emulator.                                              *)

\* Everything but Panic keeps the status.
LEMMA OnlyPanics ==
    ASSUME TypeOK, NEW i, WellFormed(i), Execute(i), status' # status
    PROVE  Breaks(i)
<1>1. \A e, at, skip : ~TakeException(e, at, skip)
  BY DEF TakeException
<1>2. \A dest : ~Retire(dest)
  BY DEF Retire
<1>3. CASE DecodePanic(i) \/ ComputePanic(i)
  BY <1>3 DEF DecodePanic, ComputePanic, Breaks
<1>4. CASE Load(i) \/ Push(i) \/ Pop(i)
  BY <1>1, <1>2, <1>4 DEF Load, Push, Pop, Raise
<1>5. CASE Store(i)
  BY <1>1, <1>2, <1>5 DEF Store, Raise, Breaks
<1>6. CASE Jump(i)
  <2>1. i.mode = "relative" /\ OverflowChecks /\ QuadOverflows(regs[i.a])
    BY <1>1, <1>2, <1>6 DEF Jump, GoTo, Raise
  <2>2. regs[i.a] \in Word
    BY <1>6, <2>1 DEF Jump, WellFormed, TypeOK
  <2> QED
    BY <1>6, <2>1, <2>2, AddrSpaceAssumption DEF Jump, QuadOverflows, Breaks, Word
<1>7. CASE Ldm(i) \/ Stm(i)
  <2>1. Completes \/ Raises \/ Configures
    BY <1>7, MachineRegisterKinds
  <2> QED
    BY <1>1, <2>1 DEF Completes, Raises, Configures
<1>8. CASE Udf(i) \/ Unmatched(i) \/ Dbg(i) \/ Exc(i)
  BY <1>1, <1>8 DEF Udf, Unmatched, Dbg, Exc, Raise
<1>9. CASE Compute(i) \/ Ret(i) \/ Eret(i) \/ Nop(i)
  BY <1>1, <1>2, <1>9 DEF Compute, Ret, Eret, Nop, Raise
<1> QED
  BY <1>3, <1>4, <1>5, <1>6, <1>7, <1>8, <1>9 DEF Execute

\* The emulator panics only at an instruction that breaks it: no exception,
\* access, machine register or privilege level does.
THEOREM PanicCauses == Spec => HostSurvives
<1>1. ASSUME IInv, [Next]_vars, status' # status
      PROVE  \E i \in Fetched : Breaks(i)
  <2>1. CASE FetchFault
    BY <1>1, <2>1 DEF FetchFault, Raise, TakeException
  <2>2. CASE execute_one
    BY <1>1, <2>2, OnlyPanics, FetchedLemma DEF execute_one, IInv
  <2>3. CASE Halted \/ UNCHANGED vars
    BY <1>1, <2>3 DEF Halted, vars
  <2> QED
    BY <1>1, <2>1, <2>2, <2>3 DEF Next
<1> QED
  BY <1>1, Invariance, PTL DEF Spec, HostSurvives

\* A program that stores no pairs, and in a debug build jumps no distance that
\* it holds in a register, and whose other instructions decode and compute,
\* never ends the emulator, whatever it does to tables, stacks and modes.
THEOREM Survival ==
    ASSUME \A a \in DOMAIN Program : \A i \in Program[a] :
              /\ i.op \notin {"reserved", "panics"}
              /\ i.op = "store" => i.k = 1
              /\ OverflowChecks /\ i.op = "jump" => i.mode # "relative"
    PROVE  Spec => []Running
<1>1. \A i \in Fetched : ~Breaks(i)
  BY DEF Fetched, Breaks
<1>2. Init => Running
  BY DEF Init, Running
<1>3. ASSUME Running, [status' # status => \E i \in Fetched : Breaks(i)]_vars
      PROVE  Running'
  BY <1>1, <1>3 DEF Running, vars
<1> QED
  BY <1>2, <1>3, PanicCauses, PTL DEF Spec, HostSurvives

=============================================================================
