-------------------------- MODULE Exceptions_proofs --------------------------
(***************************************************************************)
(* What a kernel may rely on when it handles exceptions, proved from the   *)
(* kinds of steps and the inductive invariant of Machine_proofs: what an   *)
(* exception saves, where and on which stack its handler starts, that the  *)
(* machine implements the abstract exception architecture of Traps, that   *)
(* an exception return resumes what the exception interrupted, and that    *)
(* what an exception saved is hidden from programs in PL1.                 *)
(***************************************************************************)
EXTENDS MachineHistory, Machine_proofs

-----------------------------------------------------------------------------
(* One exception.                                                          *)

\* The exception of a step, with what take_exception was called with.
LEMMA RaisedLemma ==
    ASSUME IInv, [Next]_vars, trap' # NoTrap, vars' # vars
    PROVE  \E e \in Raisable, skip \in {0, 4} :
              /\ TakeException(e, IF e.id = User THEN Plus(ip, 4) ELSE ip, skip)
              /\ skip = 4 => e.id = InvalidInstruction
              /\ e.id = DataLoadError => ~InMemory(e.addr, e.info \div 16)
              /\ e.id = InstructionLoadError => ~InMemory(ip, 4)
              /\ trap' = e.id
BY OnlyRaisesTrap DEF Raises, TakeException, Halted

\* Adding nothing changes nothing.
LEMMA PlusZero ==
    ASSUME NEW a \in Word
    PROVE  Plus(a, 0) = a
BY AddrSpaceAssumption, WidthAssumption DEF Plus, Word

\* An instruction that raises leaves no trace of itself.
THEOREM Precision == Spec => PreciseExceptions
<1> DEFINE Precise ==
      trap' # NoTrap =>
          /\ eflags' = flags
          /\ esp' = regs[SP]
          /\ elr' = IF trap' = User THEN Plus(ip, 4) ELSE ip
          /\ \A r \in Regs \ {SP} : regs'[r] = regs[r]
          /\ UNCHANGED <<tables, status>>
<1>1. ASSUME IInv, [Next]_vars PROVE [Precise]_vars
  <2> SUFFICES ASSUME trap' # NoTrap, vars' # vars PROVE Precise
    OBVIOUS
  <2>1. PICK e \in Raisable, skip \in {0, 4} :
           /\ TakeException(e, IF e.id = User THEN Plus(ip, 4) ELSE ip, skip)
           /\ trap' = e.id
    BY <1>1, RaisedLemma
  <2>2. regs \in [Regs -> Word]
    BY <1>1 DEF IInv, TypeOK
  <2>3. QED
    BY <2>1, <2>2 DEF TakeException
<1>2. QED
  BY <1>1, Invariance, PTL DEF Spec, PreciseExceptions

\* Handlers start with full privilege, masked, in the slot of their exception.
THEOREM Entry == Spec => HandlerEntry
<1> DEFINE Entered ==
      trap' # NoTrap =>
          /\ flags'.pl = 0 /\ ~flags'.exc
          /\ LET slot == VectorSlot(flags.pl, trap')
             IN  \/ ip' = slot
                 \/ trap' = InvalidInstruction /\ ip' = Plus(slot, 4)
<1>1. ASSUME IInv, [Next]_vars PROVE [Entered]_vars
  <2> SUFFICES ASSUME trap' # NoTrap, vars' # vars PROVE Entered
    OBVIOUS
  <2>1. PICK e \in Raisable, skip \in {0, 4} :
           /\ TakeException(e, IF e.id = User THEN Plus(ip, 4) ELSE ip, skip)
           /\ skip = 4 => e.id = InvalidInstruction
           /\ trap' = e.id
    BY <1>1, RaisedLemma
  <2>2. flags \in Flags /\ e.id \in Ids
    BY <1>1 DEF IInv, TypeOK, Raisable, Ids
  <2>3. flags'.pl = 0 /\ ~flags'.exc
    BY <2>1, <2>2 DEF TakeException, Flags
  <2>4. ip' = Plus(VectorSlot(flags.pl, trap'), skip)
    BY <2>1 DEF TakeException
  <2>5. VectorSlot(flags.pl, trap') \in Word
    BY <1>1, <2>1, <2>2, VectorSlotLemma DEF Flags, IInv, TypeOK
  <2>6. skip = 0 => ip' = VectorSlot(flags.pl, trap')
    BY <2>4, <2>5, PlusZero
  <2>7. QED
    BY <2>1, <2>3, <2>4, <2>6
<1>2. QED
  BY <1>1, Invariance, PTL DEF Spec, HandlerEntry

\* A stack pointer handed to a handler lies on the stack its entry describes.
LEMMA HandlerSPLemma ==
    ASSUME NEW entry \in ConfigurationEntry, NEW rsp \in Word
    PROVE  IF ~UsesStack(entry)
           THEN HandlerSP(entry, rsp) = rsp
           ELSE entry.stack_pointer + entry.stack_size < AddrSpace =>
                   /\ entry.stack_pointer <= HandlerSP(entry, rsp)
                   /\ HandlerSP(entry, rsp) <= entry.stack_pointer + entry.stack_size
<1>1. entry.stack_pointer \in Word /\ entry.stack_size \in Word
  BY DEF ConfigurationEntry
<1>2. QED
  BY <1>1, AddrSpaceAssumption, WidthAssumption DEF HandlerSP, Plus, Word

\* Handlers run on the stack that was configured for them.
THEOREM Stacks == Spec => HandlerOnItsStack
<1> DEFINE OnItsStack ==
      trap' # NoTrap =>
          LET entry == ectable[flags.pl][trap']
              base == entry.stack_pointer
              top == base + entry.stack_size
          IN  IF ~UsesStack(entry)
              THEN regs'[SP] = regs[SP]
              ELSE top < AddrSpace => base <= regs'[SP] /\ regs'[SP] <= top
<1>1. ASSUME IInv, [Next]_vars PROVE [OnItsStack]_vars
  <2> SUFFICES ASSUME trap' # NoTrap, vars' # vars PROVE OnItsStack
    OBVIOUS
  <2> DEFINE entry == ectable[flags.pl][trap']
  <2>1. PICK e \in Raisable, skip \in {0, 4} :
           /\ TakeException(e, IF e.id = User THEN Plus(ip, 4) ELSE ip, skip)
           /\ trap' = e.id
    BY <1>1, RaisedLemma
  <2>2. regs \in [Regs -> Word] /\ SP \in Regs
    BY <1>1 DEF IInv, TypeOK, SP, Regs
  <2>3. entry \in ConfigurationEntry
    BY <1>1, <2>1 DEF IInv, TypeOK, ConfigurationTable, Flags, Raisable, Ids
  <2>4. regs'[SP] = HandlerSP(entry, regs[SP])
    BY <2>1, <2>2 DEF TakeException
  <2>5. regs[SP] \in Word
    BY <2>2
  <2>6. QED
    BY <2>3, <2>4, <2>5, HandlerSPLemma
<1>2. QED
  BY <1>1, Invariance, PTL DEF Spec, HandlerOnItsStack

\* get_memory takes a range exactly when all of it, as it lies, is memory: one
\* that wraps ends below its start.
LEMMA RangeLemma ==
    ASSUME NEW a \in Word, NEW n \in Word
    PROVE  InMemory(a, n) <=> a + n <= MemSize
BY AddrSpaceAssumption, MemSizeAssumption DEF InMemory, Plus, Word

\* So a range that ends at a stack pointer does not begin below address 0.
LEMMA RangeBelowLemma ==
    ASSUME NEW a \in Word, NEW n \in Word, InMemory(Minus(a, n), n)
    PROVE  0 <= a - n /\ a <= MemSize
BY AddrSpaceAssumption, MemSizeAssumption DEF InMemory, Plus, Minus, Word

\* No exception is raised for bytes that are all in memory.
THEOREM Faults == Spec => FaultIsReal
<1> DEFINE Real == /\ trap' = DataLoadError => eaddr' + einfo' \div 16 > MemSize
                   /\ trap' = InstructionLoadError => ip + 4 > MemSize
<1>1. ASSUME IInv, [Next]_vars PROVE [Real]_vars
  <2> SUFFICES ASSUME trap' # NoTrap, vars' # vars PROVE Real
    BY DEF DataLoadError, InstructionLoadError, NoTrap
  <2>1. PICK e \in Raisable, skip \in {0, 4} :
           /\ TakeException(e, IF e.id = User THEN Plus(ip, 4) ELSE ip, skip)
           /\ e.id = DataLoadError => ~InMemory(e.addr, e.info \div 16)
           /\ e.id = InstructionLoadError => ~InMemory(ip, 4)
           /\ trap' = e.id
    BY <1>1, RaisedLemma, Zenon
  <2>2. eaddr' = e.addr /\ einfo' = e.info
    BY <2>1 DEF TakeException
  <2>3. e.addr \in Word /\ e.info \div 16 \in Word
    BY AddrSpaceAssumption DEF Raisable, Word
  <2>4. ip \in Word /\ 4 \in Word
    BY <1>1, SmallWords DEF IInv, TypeOK
  <2>5. MemSize \in Int /\ e.addr + e.info \div 16 \in Int /\ ip + 4 \in Int
    BY <2>3, <2>4, MemSizeAssumption DEF Word
  <2>6. QED
    BY <2>1, <2>2, <2>3, <2>4, <2>5, RangeLemma
<1>2. QED
  BY <1>1, Invariance, PTL DEF Spec, FaultIsReal

\* An instruction of memory that completes found its bytes there.
LEMMA CompletedAccess ==
    ASSUME IInv, NEW i \in Fetched, AccessesMemory(i), Execute(i), trap' = NoTrap, Running'
    PROVE  0 <= FirstByte(i) /\ FirstByte(i) + AccessSize(i) <= MemSize
<1>1. WellFormed(i)
  BY FetchedLemma
<1>2. regs \in [Regs -> Word] /\ SP \in Regs /\ regs[SP] \in Word
  BY DEF IInv, TypeOK, SP, Regs
<1>3. \A id : \A info, addr, at, skip : ~TakeException([id |-> id, info |-> info, addr |-> addr], at, skip) \/ id = NoTrap
  BY DEF TakeException
<1>4. /\ \A addr, write, n : ~Raise(DataError(addr, write, n))
      /\ ~Raise(Exception(InvalidOperation))
  BY <1>3 DEF Raise, DataError, DataLoadError, Exception, InvalidOperation, NoTrap
<1>5. \A why \in {"bounds", "unreachable"} : ~Panic(why)
  BY DEF Panic, Running
<1>6. CASE i.op \in {"load", "store", "push", "pop"}
  <2>1. i.n \in {1, 2, 4, 8} /\ i.k \in {1, 2} /\ i.op # "stm"
    BY <1>1, <1>6 DEF WellFormed
  <2>2. i.k * i.n \in Word
    BY <2>1, SmallWords
  <2>3. AccessSize(i) = i.k * i.n
    BY <2>1 DEF AccessSize
  <2>4. Load(i) \/ Store(i) \/ Push(i) \/ Pop(i)
    BY <1>6 DEF Execute, Udf, Unmatched, DecodePanic, Compute, ComputePanic,
                Jump, Ret, Eret, Dbg, Exc, Nop, Ldm, Stm
  <2>5. CASE Load(i)
    <3>1. i.op = "load" /\ InMemory(regs[i.a], i.k * i.n)
      BY <1>4, <2>5 DEF Load
    <3>2. regs[i.a] \in Word
      BY <1>1, <1>2, <3>1 DEF WellFormed
    <3>3. regs[i.a] + i.k * i.n <= MemSize /\ 0 <= regs[i.a]
      BY <2>2, <3>1, <3>2, RangeLemma DEF Word
    <3> QED BY <2>3, <3>1, <3>3 DEF FirstByte
  <2>6. CASE Store(i)
    <3>1. i.op = "store" /\ InMemory(regs[i.a], i.n) /\ i.k = 1
      BY <1>4, <1>5, <2>6 DEF Store
    <3>2. regs[i.a] \in Word /\ i.k * i.n = i.n
      BY <1>1, <1>2, <2>1, <3>1 DEF WellFormed
    <3>3. regs[i.a] + i.k * i.n <= MemSize /\ 0 <= regs[i.a]
      BY <2>2, <3>1, <3>2, RangeLemma DEF Word
    <3> QED BY <2>3, <3>1, <3>3 DEF FirstByte
  <2>7. CASE Push(i)
    <3>1. i.op = "push" /\ InMemory(Minus(regs[SP], i.k * i.n), i.k * i.n)
      BY <1>4, <2>7 DEF Push
    <3>2. 0 <= regs[SP] - i.k * i.n /\ regs[SP] <= MemSize
      BY <1>2, <2>2, <3>1, RangeBelowLemma
    <3>3. FirstByte(i) = regs[SP] - i.k * i.n
      BY <2>3, <3>1 DEF FirstByte
    <3>4. (regs[SP] - i.k * i.n) + i.k * i.n = regs[SP]
      BY <1>2, <2>2 DEF Word
    <3> QED BY <2>3, <3>2, <3>3, <3>4
  <2>8. CASE Pop(i)
    <3>1. i.op = "pop" /\ InMemory(regs[SP], i.k * i.n)
      BY <1>4, <2>8 DEF Pop
    <3>2. regs[SP] + i.k * i.n <= MemSize /\ 0 <= regs[SP]
      BY <1>2, <2>2, <3>1, RangeLemma DEF Word
    <3> QED BY <2>3, <3>1, <3>2 DEF FirstByte
  <2> QED BY <2>4, <2>5, <2>6, <2>7, <2>8
<1>7. CASE i.op = "stm" /\ i.m = "ectable"
  <2>1. Stm(i)
    BY <1>7 DEF Execute, Udf, Unmatched, DecodePanic, Compute, ComputePanic, Load, Store,
                Push, Pop, Jump, Ret, Eret, Dbg, Exc, Nop, Ldm
  <2>2. StmEctable(regs[i.r])
    BY <1>4, <1>7, <2>1 DEF Stm
  <2>3. InMemory(regs[i.r], TableBytes)
    BY <1>4, <2>2 DEF StmEctable
  <2>4. regs[i.r] \in Word /\ TableBytes \in Word
    BY <1>1, <1>2, <1>7, SmallWords DEF WellFormed, TableBytes
  <2>5. regs[i.r] + TableBytes <= MemSize /\ 0 <= regs[i.r]
    BY <2>3, <2>4, RangeLemma DEF Word
  <2> QED BY <1>7, <2>5 DEF FirstByte, AccessSize
<1> QED BY <1>6, <1>7 DEF AccessesMemory

\* What is fetched, and what an instruction that completes reads or writes, is
\* all in memory, for every memory size and every address.
THEOREM Accesses == Spec => AccessIsReal
<1> DEFINE Real ==
      Running =>
          /\ trap' # InstructionLoadError => ip + 4 <= MemSize
          /\ \A i \in Fetched :
                AccessesMemory(i) /\ Execute(i) /\ trap' = NoTrap /\ Running' =>
                    0 <= FirstByte(i) /\ FirstByte(i) + AccessSize(i) <= MemSize
<1>1. ASSUME IInv, [Next]_vars PROVE [Real]_vars
  <2> SUFFICES ASSUME Next, Running PROVE Real
    BY <1>1
  <2>1. ASSUME trap' # InstructionLoadError PROVE ip + 4 <= MemSize
    <3>1. InMemory(ip, 4)
      BY <2>1 DEF Next, FetchFault, execute_one, Halted, Raise, TakeException, Exception
    <3>2. ip \in Word /\ 4 \in Word
      BY <1>1, SmallWords DEF IInv, TypeOK
    <3> QED BY <3>1, <3>2, RangeLemma
  <2>2. ASSUME NEW i \in Fetched, AccessesMemory(i), Execute(i), trap' = NoTrap, Running'
        PROVE  0 <= FirstByte(i) /\ FirstByte(i) + AccessSize(i) <= MemSize
    BY <1>1, <2>2, CompletedAccess
  <2> QED BY <2>1, <2>2
<1>2. QED
  BY <1>1, Invariance, PTL DEF Spec, AccessIsReal

\* Instruction pointers stay on instruction boundaries, ret excepted.
THEOREM Alignment == Spec => OnlyRetMisaligns
<1> DEFINE Keeps ==
      Aligned(ip) /\ Aligned(elr) =>
          /\ Aligned(elr')
          /\ Aligned(ip') \/ (ip' = regs[LR] /\ trap' = NoTrap)
<1>1. ASSUME IInv, [Next]_vars PROVE [Keeps]_vars
  <2> SUFFICES ASSUME Aligned(ip), Aligned(elr), vars' # vars
               PROVE  /\ Aligned(elr')
                      /\ Aligned(ip') \/ (ip' = regs[LR] /\ trap' = NoTrap)
    OBVIOUS
  <2> USE <1>1
  <2>1. Aligned(Plus(ip, 4))
    <3>1. ip \in Word
      BY Zenon DEF IInv, TypeOK
    <3>2. 4 \in Word /\ Aligned(4)
      BY SmallWords
    <3> QED
      BY <3>1, <3>2, PlusLemma, Zenon
  <2>2. CASE Raises
    <3>1. PICK e \in Raisable, skip \in {0, 4} :
             TakeException(e, IF e.id = User THEN Plus(ip, 4) ELSE ip, skip)
      BY <2>2 DEF Raises
    <3>2. VectorSlot(flags.pl, e.id) \in Word /\ Aligned(VectorSlot(flags.pl, e.id))
      BY VectorSlotLemma DEF IInv, TypeOK, Flags, Raisable, Ids
    <3>3. skip \in Word /\ Aligned(skip)
      BY SmallWords
    <3>4. Aligned(ip')
      BY <3>1, <3>2, <3>3, PlusLemma DEF TakeException
    <3>5. Aligned(elr')
      BY <2>1, <3>1 DEF TakeException
    <3>6. QED
      BY <3>4, <3>5
  <2>3. CASE Completes
    BY <2>3 DEF Completes, frame
  <2>4. CASE Returns
    BY <2>4 DEF Returns, frame
  <2>5. CASE Configures
    BY <2>1, <2>5 DEF Configures, frame
  <2>6. CASE Panics
    BY <2>6 DEF Panics, Panic, core, frame
  <2>7. QED
    BY <2>2, <2>3, <2>4, <2>5, <2>6, StepKinds DEF IInv, Halted
<1>2. QED
  BY <1>1, Invariance, PTL DEF Spec, OnlyRetMisaligns

-----------------------------------------------------------------------------
(* The machine implements the abstract exception architecture.             *)

\* What the machine keeps of a context is one.
LEMMA ContextLemma ==
    ASSUME NEW a \in Word, NEW f \in Flags, NEW s \in Word
    PROVE  [ip |-> a, flags |-> f, sp |-> s] \in Arch!Context
BY DEF Arch!Context

\* Taking an exception is a trap.
LEMMA RaisesArch ==
    ASSUME IInv, Raises
    PROVE  Arch!Trap
<1> DEFINE ctx == [ip |-> ip, flags |-> flags, sp |-> regs[SP]]
           now == [ip |-> ip', flags |-> flags', sp |-> regs'[SP]]
<1>1. PICK e \in Raisable, skip \in {0, 4} :
         TakeException(e, IF e.id = User THEN Plus(ip, 4) ELSE ip, skip)
  BY DEF Raises
<1>2. \E resume \in {0, 4} : elr' = Plus(ip, resume)
  <2>1. ip = Plus(ip, 0)
    BY PlusZero DEF IInv, TypeOK
  <2>2. elr' \in {Plus(ip, 0), Plus(ip, 4)}
    BY <1>1, <2>1 DEF TakeException
  <2>3. QED
    BY <2>2
<1>3. eflags' = flags /\ esp' = regs[SP] /\ evtable' = evtable
  BY <1>1 DEF TakeException, tables
<1>4. ip' = Plus(Plus(evtable, 256 * flags.pl + 32 * e.id), skip)
  BY <1>1 DEF TakeException, VectorSlot
<1>5. now \in Arch!Context
  <2>1. TypeOK'
    BY RaisesType DEF IInv
  <2>2. ip' \in Word /\ flags' \in Flags /\ regs'[SP] \in Word
    BY <2>1 DEF TypeOK, SP, Regs
  <2>3. QED
    BY <2>2, ContextLemma
<1>6. flags' = [flags EXCEPT !.exc = FALSE, !.pl = 0]
  BY <1>1 DEF TakeException
<1>7. \E id \in 1 .. 6, s \in {0, 4} :
         ip' = Plus(Plus(evtable, 256 * flags.pl + 32 * id), s)
  BY <1>4 DEF Raisable
<1>8. QED
  BY <1>2, <1>3, <1>5, <1>6, <1>7 DEF Arch!Trap

\* Every step is a step of the abstract architecture or changes nothing of it.
LEMMA StepArch ==
    ASSUME IInv, [Next]_vars
    PROVE  [Arch!Next]_(Arch!tvars)
<1> DEFINE ctx == [ip |-> ip, flags |-> flags, sp |-> regs[SP]]
           now == [ip |-> ip', flags |-> flags', sp |-> regs'[SP]]
<1>1. CASE Raises
  BY <1>1, RaisesArch DEF Arch!Next
<1>2. CASE Completes
  <2>1. flags' \in Flags /\ flags'.pl = flags.pl /\ flags'.exc = flags.exc
    BY <1>2 DEF Completes, IInv, TypeOK, Flags
  <2>2. ip' \in Word /\ regs'[SP] \in Word
    BY <1>2 DEF Completes, SP, Regs
  <2>3. now \in Arch!Context
    BY <2>1, <2>2, ContextLemma
  <2>4. UNCHANGED <<elr, eflags, esp, evtable>>
    BY <1>2 DEF Completes, frame, tables
  <2>5. Arch!Run
    BY <2>1, <2>3, <2>4 DEF Arch!Run
  <2>6. QED
    BY <2>5 DEF Arch!Next
<1>3. CASE Returns
  <2>1. regs'[SP] = esp
    BY <1>3 DEF Returns, IInv, TypeOK, SP, Regs
  <2>2. Arch!Return
    BY <1>3, <2>1 DEF Returns, Arch!Return, Arch!Privileged, frame, tables
  <2>3. QED
    BY <2>2 DEF Arch!Next
<1>4. CASE Configures
  <2>1. flags.pl = 0 /\ ip' = Plus(ip, 4) /\ regs'[SP] = regs[SP]
    BY <1>4 DEF Configures
  <2>2. elr' \in Word /\ eflags' \in Flags /\ esp' \in Word /\ evtable' \in Word
    BY <1>4 DEF Configures, IInv, TypeOK, frame, tables
  <2>3. [ip |-> elr', flags |-> eflags', sp |-> esp'] \in Arch!Context
    BY <2>2, ContextLemma
  <2>4. CASE flags' \in Flags /\ UNCHANGED <<frame, tables>>
    <3>1. Arch!SetFlags
      BY <2>1, <2>4 DEF Arch!SetFlags, frame, tables
    <3>2. QED
      BY <2>1, <3>1 DEF Arch!Next, Arch!Configure, Arch!Privileged
  <2>5. CASE /\ UNCHANGED <<flags, evtable>>
             /\ \/ UNCHANGED <<eflags, esp>>
                \/ UNCHANGED <<elr, eflags>>
                \/ UNCHANGED <<elr, esp>>
    BY <2>1, <2>3, <2>5 DEF Arch!Next, Arch!Configure, Arch!Privileged, Arch!SetSaved
  <2>6. CASE UNCHANGED <<flags, frame>>
    BY <2>1, <2>2, <2>6 DEF Arch!Next, Arch!Configure, Arch!Privileged, Arch!SetVectors, frame
  <2>7. QED
    BY <1>4, <2>4, <2>5, <2>6 DEF Configures, frame, tables
<1>5. CASE Panics \/ UNCHANGED vars
  BY <1>5 DEF Panics, Panic, vars, core, frame, tables, Arch!tvars
<1>6. QED
  BY <1>1, <1>2, <1>3, <1>4, <1>5, StepKinds DEF IInv, Halted

\* The machine implements the exception architecture: no program can observe
\* a partly saved or partly restored context, or change its mode but by an
\* exception, a return, or a privileged write.
THEOREM Refinement == Spec => ImplementsTraps
<1>1. Init => Arch!Init
  <2> SUFFICES ASSUME Init PROVE Arch!Init
    OBVIOUS
  <2>1. TypeOK
    BY InitIInv DEF IInv
  <2>2. regs[SP] \in Word
    BY <2>1 DEF TypeOK, SP, Regs
  <2>3. QED
    BY <2>1, <2>2, ContextLemma DEF TypeOK, Arch!Init
<1>2. IInv /\ [Next]_vars => [Arch!Next]_(Arch!tvars)
  BY StepArch
<1>3. QED
  BY <1>1, <1>2, Invariance, PTL DEF Spec, ImplementsTraps, Arch!Spec

-----------------------------------------------------------------------------
(* Exceptions without handlers.                                            *)

\* A step that raises leaves the machine in a slot, in PL0, with the stack
\* pointer that its table entry asks for, and the next step finds it there.
Entering ==
    trap # NoTrap =>
        /\ trap \in Ids /\ eflags.pl \in {0, 1}
        /\ flags.pl = 0 /\ flags.exc = FALSE
        /\ \E skip \in {0, 4} : ip = Plus(VectorSlot(eflags.pl, trap), skip)
        /\ \E rsp \in Word : regs[SP] = HandlerSP(ectable[eflags.pl][trap], rsp)

LEMMA EnteringInvariant == Spec => []Entering
<1>1. Init => Entering
  BY DEF Init, Entering, NoTrap
<1>2. ASSUME IInv, Entering, [Next]_vars
      PROVE  Entering'
  <2>1. CASE trap' = NoTrap
    BY <2>1 DEF Entering
  <2>2. CASE UNCHANGED vars
    BY <1>2, <2>2 DEF Entering, VectorSlot, vars, core, frame, tables
  <2>3. CASE trap' # NoTrap /\ vars' # vars
    <3>1. PICK e \in Raisable, skip \in {0, 4} :
             TakeException(e, IF e.id = User THEN Plus(ip, 4) ELSE ip, skip)
      BY <1>2, <2>3, RaisedLemma
    <3>2. flags \in Flags /\ regs \in [Regs -> Word] /\ SP \in Regs /\ e.id \in Ids
      BY <1>2 DEF IInv, TypeOK, SP, Regs, Raisable, Ids
    <3>3. trap' = e.id /\ eflags' = flags /\ ectable' = ectable /\ evtable' = evtable
      BY <3>1 DEF TakeException, tables
    <3>4. flags'.pl = 0 /\ flags'.exc = FALSE
      BY <3>1, <3>2 DEF TakeException, Flags
    <3>5. ip' = Plus(VectorSlot(eflags.pl, trap)', skip)
      BY <3>1, <3>3 DEF TakeException, VectorSlot
    <3>6. regs'[SP] = HandlerSP(ectable'[eflags'.pl][trap'], regs[SP]) /\ regs[SP] \in Word
      BY <3>1, <3>2, <3>3 DEF TakeException
    <3>7. flags.pl \in {0, 1}
      BY <3>2 DEF Flags
    <3> QED BY <3>2, <3>3, <3>4, <3>5, <3>6, <3>7 DEF Entering
  <2> QED BY <2>1, <2>2, <2>3
<1> QED BY <1>1, <1>2, Invariance, PTL DEF Spec

\* No two exceptions share an instruction of the vector table.
LEMMA SlotsApart ==
    ASSUME evtable \in Word, NEW pl \in {0, 1}, NEW id \in Ids, NEW pl2 \in {0, 1}, NEW id2 \in Ids,
           NEW skip \in {0, 4}, Plus(VectorSlot(pl, id), skip) = VectorSlot(pl2, id2)
    PROVE  pl = pl2 /\ id = id2
<1> DEFINE x == 256 * pl + 32 * id
           y == 256 * pl2 + 32 * id2
<1>1. x \in 0 .. 480 /\ y \in 0 .. 480 /\ AddrSpace \in Nat /\ AddrSpace >= 8192
  BY AddrSpaceAssumption, WidthAssumption DEF Ids
<1>2. x + skip = y
  <2>1. Plus(Plus(evtable, x), skip) = Plus(evtable, y)
    BY DEF VectorSlot
  <2> HIDE DEF x, y
  <2> QED BY <1>1, <2>1 DEF Plus, Word
<1> QED BY <1>2 DEF Ids

\* A stack that was switched is not switched again.
LEMMA SwitchesOnce ==
    ASSUME NEW entry, NEW rsp
    PROVE  HandlerSP(entry, HandlerSP(entry, rsp)) = HandlerSP(entry, rsp)
BY DEF HandlerSP

\* In a lock-up the exception is raised again.
LEMMA LockedUpRaises ==
    ASSUME IInv, LockedUp, Next
    PROVE  \E id \in {InvalidInstruction, InstructionLoadError} :
               ip = VectorSlot(0, id) /\ Raise(Exception(id))
<1>1. ~Halted
  BY DEF Halted, LockedUp
<1>2. CASE ~InMemory(ip, 4)
  BY <1>1, <1>2 DEF Next, FetchFault, execute_one, LockedUp
<1>3. CASE InMemory(ip, 4)
  <2>1. execute_one /\ Fetched = {[op |-> "udf"]} /\ ip = VectorSlot(0, InvalidInstruction)
    BY <1>1, <1>3 DEF Next, FetchFault, LockedUp
  <2>2. PICK i \in {[op |-> "udf"]} : Execute(i)
    BY <2>1 DEF execute_one
  <2>3. i.op = "udf"
    OBVIOUS
  <2>4. Udf(i)
    BY <2>2, <2>3 DEF Execute, Unmatched, DecodePanic, Compute, ComputePanic, Load, Store,
                      Push, Pop, Jump, Ret, Eret, Dbg, Exc, Nop, Ldm, Stm
  <2> QED BY <2>1, <2>4 DEF Udf
<1> QED BY <1>2, <1>3

\* An exception whose handler raises it again is the end: the machine stands
\* still, whatever the program and wherever its tables.
THEOREM Lockup == Spec => LockupIsFinal
<1> DEFINE Final == LockedUp => LockedUp' /\ (trap # NoTrap => UNCHANGED core)
<1>1. ASSUME IInv, Entering, [Next]_vars
      PROVE  [Final]_vars
  <2> SUFFICES ASSUME LockedUp, Next PROVE LockedUp' /\ (trap # NoTrap => UNCHANGED core)
    BY <1>1
  <2>1. PICK id \in {InvalidInstruction, InstructionLoadError} :
            ip = VectorSlot(0, id) /\ Raise(Exception(id))
    BY <1>1, LockedUpRaises
  <2>2. Exception(id).id = id
    BY DEF Exception
  <2>3. flags \in Flags /\ flags.pl = 0 /\ evtable \in Word /\ ip \in Word /\ Running
        /\ regs \in [Regs -> Word] /\ id \in Ids
    BY <1>1 DEF IInv, TypeOK, LockedUp, InvalidInstruction, InstructionLoadError, Ids
  <2>4. /\ flags' = [flags EXCEPT !.exc = FALSE, !.pl = 0]
        /\ regs' = [regs EXCEPT ![SP] = HandlerSP(ectable[0][id], regs[SP])]
        /\ ip' = Plus(ip, 0)
        /\ evtable' = evtable /\ status' = status
    BY <2>1, <2>2, <2>3 DEF Raise, TakeException, tables
  <2>5. ip' = ip /\ flags'.pl = 0
    BY <2>3, <2>4, PlusZero DEF Flags
  <2>6. LockedUp'
    BY <2>3, <2>4, <2>5 DEF LockedUp, VectorSlot, Running, Fetched
  <2>7. ASSUME trap # NoTrap PROVE UNCHANGED core
    <3>1. PICK skip \in {0, 4} : ip = Plus(VectorSlot(eflags.pl, trap), skip)
      BY <1>1, <2>7 DEF Entering
    <3>2. eflags.pl = 0 /\ trap = id
      BY <1>1, <2>1, <2>3, <2>7, <3>1, SlotsApart DEF Entering
    <3>3. HandlerSP(ectable[0][id], regs[SP]) = regs[SP]
      BY <1>1, <2>7, <3>2, SwitchesOnce DEF Entering
    <3>4. regs' = regs
      BY <2>3, <2>4, <3>3
    <3>5. flags' = flags
      BY <1>1, <2>3, <2>4, <2>7 DEF Entering, Flags
    <3> QED BY <2>5, <3>4, <3>5 DEF core
  <2> QED BY <2>6, <2>7
<1>2. QED
  BY <1>1, Invariance, EnteringInvariant, PTL DEF Spec, LockupIsFinal

-----------------------------------------------------------------------------
(* An exception return resumes what the exception interrupted.  The        *)
(* argument needs the machine's invariant and one more: the frame holds    *)
(* the interrupted context until some instruction replaces part of it.     *)

FrameKept ==
    /\ Running \/ trap = NoTrap
    /\ interrupted \in [ip : Word, flags : Flags, sp : Word, kept : BOOLEAN]
    /\ interrupted.kept =>
          elr = interrupted.ip /\ eflags = interrupted.flags /\ esp = interrupted.sp

\* The history follows the machine without constraining it.
LEMMA HistoryFollows == HSpec => Spec
<1>1. HInit => Init
  BY DEF HInit
<1>2. [HNext]_hvars => [Next]_vars
  BY DEF HNext, hvars
<1>3. QED
  BY <1>1, <1>2, PTL DEF HSpec, Spec

\* The frame and the history change together.
LEMMA FrameKeptStep ==
    ASSUME IInv, FrameKept, [HNext]_hvars
    PROVE  FrameKept'
<1>1. CASE UNCHANGED hvars
  BY <1>1 DEF FrameKept, hvars, vars, frame, Running
<1>2. CASE HNext /\ trap' # NoTrap
  <2> DEFINE resume == IF trap' = User THEN Plus(ip, 4) ELSE ip
  <2>1. Raises
    BY <1>2, OnlyRaisesTrap DEF HNext, Halted, FrameKept, vars
  <2>2. interrupted' = [ip |-> resume, flags |-> flags, sp |-> regs[SP], kept |-> TRUE]
    BY <1>2 DEF HNext
  <2>3. eflags' = flags /\ esp' = regs[SP] /\ elr' = resume
    BY <2>1 DEF Raises, TakeException
  <2>4. resume \in Word /\ flags \in Flags /\ regs[SP] \in Word
    BY NextLemma DEF IInv, TypeOK, SP, Regs
  <2>5. Running'
    <3>1. Running
      BY <1>2 DEF HNext, Next, FetchFault, execute_one, Halted, FrameKept, vars
    <3>2. status' = status
      BY <2>1 DEF Raises, TakeException
    <3>3. QED
      BY <3>1, <3>2 DEF Running
  <2> HIDE DEF resume
  <2>6. QED
    BY <2>2, <2>3, <2>4, <2>5 DEF FrameKept
<1>3. CASE HNext /\ trap' = NoTrap
  <2> DEFINE same == UNCHANGED <<elr, esp, eflags>>
  <2>1. interrupted' = [interrupted EXCEPT !.kept = (interrupted.kept /\ same)]
    BY <1>3 DEF HNext
  <2>2. (interrupted.kept /\ same) \in BOOLEAN
    BY DEF FrameKept
  <2>3. /\ interrupted' \in [ip : Word, flags : Flags, sp : Word, kept : BOOLEAN]
        /\ interrupted'.ip = interrupted.ip
        /\ interrupted'.flags = interrupted.flags
        /\ interrupted'.sp = interrupted.sp
        /\ interrupted'.kept => interrupted.kept /\ same
    BY <2>1, <2>2 DEF FrameKept
  <2>4. QED
    BY <1>3, <2>3 DEF FrameKept
<1>4. QED
  BY <1>1, <1>2, <1>3

\* An eret whose frame nothing has replaced resumes the interrupted program
\* with the instruction pointer, flags and stack pointer it had.
THEOREM Resumption == HSpec => EretResumes
<1> DEFINE Resumes ==
      ((\E i \in Fetched : Eret(i)) /\ trap' = NoTrap /\ interrupted.kept) =>
          /\ ip' = interrupted.ip
          /\ flags' = interrupted.flags
          /\ regs'[SP] = interrupted.sp
<1>1. HInit => FrameKept
  <2>1. 0 \in Word /\ NewFlags \in Flags
    BY SmallWords DEF NewFlags, Flags
  <2>2. QED
    BY <2>1 DEF HInit, Init, FrameKept, Running
<1>2. IInv /\ FrameKept /\ [HNext]_hvars => FrameKept'
  BY FrameKeptStep
<1>3. ASSUME IInv, FrameKept, [HNext]_hvars PROVE [Resumes]_hvars
  <2> SUFFICES ASSUME NEW i \in Fetched, Eret(i), trap' = NoTrap, interrupted.kept
               PROVE  Resumes
    OBVIOUS
  <2>1. ~Raise(Exception(InvalidOperation))
    BY DEF Raise, TakeException, Exception, InvalidOperation, NoTrap
  <2>2. ip' = elr /\ flags' = eflags /\ regs' = [regs EXCEPT ![SP] = esp]
    BY <2>1 DEF Eret, Retire
  <2>3. regs'[SP] = esp
    BY <1>3, <2>2 DEF IInv, TypeOK, SP, Regs
  <2>4. QED
    BY <1>3, <2>2, <2>3 DEF FrameKept
<1>4. QED
  BY <1>1, <1>2, <1>3, HistoryFollows, Invariance, PTL DEF HSpec, EretResumes

-----------------------------------------------------------------------------
(* What a PL1 program can see of the frame.                                *)

\* The same machine with another frame,
VARIABLES elr2, esp2, eflags2, einfo2, eaddr2
F == INSTANCE Machine WITH
         elr <- elr2, esp <- esp2, eflags <- eflags2, einfo <- einfo2, eaddr <- eaddr2

frame2 == <<elr2, esp2, eflags2, einfo2, eaddr2>>

\* which the exceptions of the first replace, and nothing else.
Follows == frame2' = IF trap' = NoTrap THEN frame2 ELSE frame'

LEMMA SameArithmetic ==
    ASSUME NEW a, NEW b
    PROVE  /\ F!Plus(a, b) = Plus(a, b) /\ F!Minus(a, b) = Minus(a, b)
           /\ F!Quad(a) = Quad(a) /\ F!QuadOverflows(a) = QuadOverflows(a)
           /\ F!Aligned(a) = Aligned(a) /\ F!InMemory(a, b) = InMemory(a, b)
<1>1. F!Plus(a, b) = Plus(a, b) /\ F!Minus(a, b) = Minus(a, b)
  BY DEF F!Plus, Plus, F!Minus, Minus
<1>2. F!Plus(a, a) = Plus(a, a)
  BY DEF F!Plus, Plus
<1>3. F!Plus(Plus(a, a), Plus(a, a)) = Plus(Plus(a, a), Plus(a, a))
  BY DEF F!Plus, Plus
<1>4. F!Quad(a) = Quad(a) /\ F!QuadOverflows(a) = QuadOverflows(a)
  BY <1>2, <1>3 DEF F!Quad, Quad, F!QuadOverflows, QuadOverflows
<1>5. F!Aligned(a) = Aligned(a) /\ F!InMemory(a, b) = InMemory(a, b)
  BY <1>1 DEF F!Aligned, Aligned, F!InMemory, InMemory
<1> QED
  BY <1>1, <1>4, <1>5

LEMMA SameChecks ==
    ASSUME NEW m, NEW a
    PROVE  /\ F!Accessible(m, a) = Accessible(m, a) /\ F!Accepts(m, a) = Accepts(m, a)
           /\ F!FlagsOf(a) = FlagsOf(a) /\ F!FlagsWord(a) = FlagsWord(a)
           /\ F!TableValid(a) = TableValid(a) /\ F!TestCondition(a, m) = TestCondition(a, m)
           /\ F!WriteRegs(m, a) = WriteRegs(m, a)
<1>1. F!Accessible(m, a) = Accessible(m, a)
  BY DEF F!Accessible, Accessible, F!CheckAccess, CheckAccess
<1>2. F!Accepts(m, a) = Accepts(m, a)
  BY DEF F!Accepts, Accepts, F!ValidFlags, ValidFlags, F!Aligned, Aligned
<1>3. F!FlagsOf(a) = FlagsOf(a) /\ F!FlagsWord(a) = FlagsWord(a)
  BY DEF F!FlagsOf, FlagsOf, F!FlagsWord, FlagsWord
<1>4. F!TableValid(a) = TableValid(a)
  BY DEF F!TableValid, TableValid, F!EntryValid, EntryValid, F!Ids, Ids
<1>5. F!TestCondition(a, m) = TestCondition(a, m)
  BY DEF F!TestCondition, TestCondition
<1>6. F!WriteRegs(m, a) = WriteRegs(m, a)
  BY DEF F!WriteRegs, WriteRegs, F!Regs, Regs
<1> QED
  BY <1>1, <1>2, <1>3, <1>4, <1>5, <1>6

LEMMA SameExceptions ==
    ASSUME NEW id, NEW a, NEW w, NEW n
    PROVE  /\ F!Exception(id) = Exception(id) /\ F!UserException(a) = UserException(a)
           /\ F!DataError(a, w, n) = DataError(a, w, n)
BY DEF F!Exception, Exception, F!UserException, UserException, F!User, User,
       F!DataError, DataError, F!DataLoadError, DataLoadError

\* An exception leaves the same frame behind, whichever it replaces;
LEMMA SameTaken ==
    ASSUME NEW e, NEW at, NEW skip, TakeException(e, at, skip), e.id # NoTrap, Follows
    PROVE  F!TakeException(e, at, skip)
<1>1. /\ elr2' = at /\ esp2' = regs[SP] /\ eflags2' = flags
      /\ einfo2' = e.info /\ eaddr2' = e.addr
  BY DEF TakeException, Follows, frame, frame2
<1>2. F!VectorSlot(flags.pl, e.id) = VectorSlot(flags.pl, e.id)
  BY SameArithmetic DEF F!VectorSlot, VectorSlot
<1>3. /\ F!SP = SP
      /\ F!HandlerSP(ectable[flags.pl][e.id], regs[SP])
         = HandlerSP(ectable[flags.pl][e.id], regs[SP])
  BY SameArithmetic DEF F!HandlerSP, HandlerSP, F!UsesStack, UsesStack, F!SP, SP
<1>4. F!Plus(VectorSlot(flags.pl, e.id), skip) = Plus(VectorSlot(flags.pl, e.id), skip)
  BY SameArithmetic
<1> QED
  BY <1>1, <1>2, <1>3, <1>4 DEF TakeException, F!TakeException, tables, F!tables

\* and steps that raise none keep both.
LEMMA SameKept ==
    ASSUME Follows, trap' = NoTrap, frame' = frame
    PROVE  /\ F!frame' = F!frame
           /\ \A why : Panic(why) => F!Panic(why)
           /\ \A dest : Retire(dest) => F!Retire(dest)
<1>1. F!frame' = F!frame
  BY DEF Follows, frame2, F!frame
<1>2. \A why : Panic(why) => F!Panic(why)
  BY <1>1 DEF Panic, F!Panic, F!NoTrap, NoTrap, core, F!core, tables, F!tables
<1>3. \A dest : Retire(dest) => F!Retire(dest)
  BY DEF Retire, F!Retire, F!NoTrap, NoTrap
<1> QED
  BY <1>1, <1>2, <1>3

\* The instructions in their turn: those that compute or only move on,
LEMMA SameComputed ==
    ASSUME Follows, NEW i,
           Compute(i) \/ ComputePanic(i) \/ DecodePanic(i) \/ Ret(i) \/ Nop(i)
    PROVE  F!Compute(i) \/ F!ComputePanic(i) \/ F!DecodePanic(i) \/ F!Ret(i) \/ F!Nop(i)
<1>1. trap' = NoTrap /\ frame' = frame
  BY DEF Compute, ComputePanic, DecodePanic, Ret, Nop, Retire, Panic, frame
<1>2. /\ F!frame' = F!frame
      /\ \A why : Panic(why) => F!Panic(why)
      /\ \A dest : Retire(dest) => F!Retire(dest)
  BY <1>1, SameKept
<1>3. F!Plus(ip, 4) = Plus(ip, 4) /\ \A m, a : F!WriteRegs(m, a) = WriteRegs(m, a)
  BY SameArithmetic, SameChecks
<1>4. CASE Compute(i)
  BY <1>2, <1>3, <1>4 DEF Compute, F!Compute, tables, F!tables
<1>5. CASE ComputePanic(i) \/ DecodePanic(i)
  BY <1>2, <1>5 DEF ComputePanic, F!ComputePanic, DecodePanic, F!DecodePanic
<1>6. CASE Ret(i) \/ Nop(i)
  BY <1>2, <1>3, <1>6 DEF Ret, F!Ret, Nop, F!Nop, tables, F!tables, LR, F!LR
<1> QED
  BY <1>4, <1>5, <1>6

\* those that raise an exception whatever the state,
LEMMA SameRaised ==
    ASSUME Follows, flags.pl = 1, NEW i,
           Udf(i) \/ Unmatched(i) \/ Dbg(i) \/ Exc(i) \/ Eret(i)
    PROVE  F!Udf(i) \/ F!Unmatched(i) \/ F!Dbg(i) \/ F!Exc(i) \/ F!Eret(i)
<1>1. \A e, at, skip : TakeException(e, at, skip) /\ e.id # NoTrap
                       => F!TakeException(e, at, skip)
  BY SameTaken
<1>2. /\ F!Plus(ip, 4) = Plus(ip, 4)
      /\ \A id : F!Exception(id) = Exception(id)
      /\ \A val : F!UserException(val) = UserException(val)
  BY SameArithmetic, SameExceptions
<1>3. /\ \A id \in Ids : Exception(id).id # NoTrap
      /\ \A val : UserException(val).id # NoTrap
  BY DEF Exception, UserException, NoTrap, Ids, User
<1>4. CASE Udf(i) \/ Unmatched(i) \/ Dbg(i)
  BY <1>1, <1>2, <1>3, <1>4
  DEF Udf, F!Udf, Unmatched, F!Unmatched, Dbg, F!Dbg, Raise, F!Raise, Ids,
      InvalidInstruction, F!InvalidInstruction, Debug, F!Debug
<1>5. CASE Exc(i)
  BY <1>1, <1>2, <1>3, <1>5 DEF Exc, F!Exc
<1>6. CASE Eret(i)
  BY <1>1, <1>2, <1>3, <1>6
  DEF Eret, F!Eret, Raise, F!Raise, InvalidOperation, F!InvalidOperation, Ids
<1> QED
  BY <1>4, <1>5, <1>6

\* those that address memory,
LEMMA SameAccesses ==
    ASSUME Follows, NEW i, Load(i) \/ Store(i) \/ Push(i) \/ Pop(i)
    PROVE  F!Load(i) \/ F!Store(i) \/ F!Push(i) \/ F!Pop(i)
<1>1. ASSUME NEW addr, NEW w, NEW n, Raise(DataError(addr, w, n))
      PROVE  F!Raise(F!DataError(addr, w, n))
  <2>1. DataError(addr, w, n).id # NoTrap
    BY DEF DataError, DataLoadError, NoTrap
  <2>2. F!DataError(addr, w, n) = DataError(addr, w, n)
    BY SameExceptions
  <2> QED
    BY <1>1, <2>1, <2>2, SameTaken DEF Raise, F!Raise
<1>2. ASSUME Retire(Plus(ip, 4)), UNCHANGED <<frame, tables>>
      PROVE  F!Retire(F!Plus(ip, 4)) /\ F!frame' = F!frame /\ F!tables' = F!tables
  BY <1>2, SameKept, SameArithmetic DEF Retire, tables, F!tables
<1>3. ASSUME Panic("bounds")
      PROVE  F!Panic("bounds")
  BY <1>3, SameKept DEF Panic
<1>4. /\ \A a, b : F!InMemory(a, b) = InMemory(a, b)
      /\ \A a, b : F!Plus(a, b) = Plus(a, b) /\ F!Minus(a, b) = Minus(a, b)
      /\ \A m, a : F!WriteRegs(m, a) = WriteRegs(m, a)
  BY SameArithmetic, SameChecks
<1>5. CASE Load(i)
  BY <1>1, <1>2, <1>4, <1>5 DEF Load, F!Load
<1>6. CASE Store(i)
  BY <1>1, <1>2, <1>3, <1>4, <1>6 DEF Store, F!Store
<1>7. CASE Push(i)
  BY <1>1, <1>2, <1>4, <1>7 DEF Push, F!Push, SP, F!SP
<1>8. CASE Pop(i)
  BY <1>1, <1>2, <1>4, <1>8 DEF Pop, F!Pop, SP, F!SP
<1> QED
  BY <1>5, <1>6, <1>7, <1>8

\* jumps,
LEMMA SameJump ==
    ASSUME Follows, NEW i, Jump(i)
    PROVE  F!Jump(i)
<1>1. /\ \A dest : F!Aligned(dest) = Aligned(dest)
      /\ F!Plus(ip, 4) = Plus(ip, 4) /\ F!QuadOverflows(regs[i.a]) = QuadOverflows(regs[i.a])
      /\ F!TestCondition(flags, i.cond) = TestCondition(flags, i.cond)
  BY SameArithmetic, SameChecks
<1>2. F!Destination(i) = Destination(i)
  <2>1. \A a, b : F!Plus(a, b) = Plus(a, b) /\ F!Quad(a) = Quad(a)
    BY SameArithmetic
  <2> QED
    BY <2>1 DEF Destination, F!Destination
<1>3. ASSUME NEW dest, Retire(dest), UNCHANGED <<frame, tables>>
      PROVE  F!Retire(dest) /\ F!frame' = F!frame /\ F!tables' = F!tables
  BY <1>3, SameKept DEF Retire, tables, F!tables
<1>4. ASSUME Panic("arithmetic")
      PROVE  F!Panic("arithmetic")
  BY <1>4, SameKept DEF Panic
<1>5. ASSUME Raise(Exception(InvalidOperation))
      PROVE  F!Raise(F!Exception(F!InvalidOperation))
  <2>1. Exception(InvalidOperation).id # NoTrap
    BY DEF Exception, InvalidOperation, NoTrap
  <2>2. F!Exception(F!InvalidOperation) = Exception(InvalidOperation)
    BY SameExceptions DEF F!InvalidOperation, InvalidOperation
  <2> QED
    BY <1>5, <2>1, <2>2, SameTaken DEF Raise, F!Raise
<1>6. ASSUME NEW dest, GoTo(dest, i.link)
      PROVE  F!GoTo(dest, i.link)
  BY <1>1, <1>3, <1>5, <1>6 DEF GoTo, F!GoTo, LR, F!LR
<1> QED
  BY <1>1, <1>2, <1>3, <1>4, <1>6 DEF Jump, F!Jump

\* and machine registers, of which PL1 may read only the flags.
LEMMA SameRegisters ==
    ASSUME Follows, flags.pl = 1, NEW i, WellFormed(i), Ldm(i) \/ Stm(i)
    PROVE  F!Ldm(i) \/ F!Stm(i)
<1>1. \A w : F!Accessible(i.m, w) = Accessible(i.m, w)
  BY SameChecks
<1>2. /\ Accessible(i.m, FALSE) => i.m = "flags"
      /\ Accessible(i.m, TRUE) => i.m = "vm_console"
  <2>1. i.m \in MachineRegisters \cup {"none"}
    BY DEF Ldm, Stm, WellFormed
  <2>2. ASSUME Accessible(i.m, FALSE)
        PROVE  i.m # "flags" => flags.pl = 0
    BY <2>1, <2>2 DEF Accessible, CheckAccess, MachineRegisters
  <2>3. ASSUME Accessible(i.m, TRUE)
        PROVE  i.m # "vm_console" => flags.pl = 0
    BY <2>1, <2>3 DEF Accessible, CheckAccess, MachineRegisters
  <2>4. flags.pl # 0
    OBVIOUS
  <2> QED
    BY <2>2, <2>3, <2>4, Zenon
<1>3. ASSUME Raise(Exception(InvalidOperation))
      PROVE  F!Raise(F!Exception(F!InvalidOperation))
  <2>1. Exception(InvalidOperation).id # NoTrap
    BY DEF Exception, InvalidOperation, NoTrap
  <2>2. F!Exception(F!InvalidOperation) = Exception(InvalidOperation)
    BY SameExceptions DEF F!InvalidOperation, InvalidOperation
  <2> QED
    BY <1>3, <2>1, <2>2, SameTaken DEF Raise, F!Raise
<1>4. ASSUME Retire(Plus(ip, 4)), UNCHANGED <<frame, tables>>
      PROVE  /\ F!Retire(F!Plus(ip, 4)) /\ F!frame' = F!frame /\ F!tables' = F!tables
             /\ UNCHANGED <<elr2, esp2, eflags2, einfo2, eaddr2>>
  <2>1. F!Retire(F!Plus(ip, 4)) /\ F!frame' = F!frame
    BY <1>4, SameKept, SameArithmetic DEF Retire
  <2> QED
    BY <1>4, <2>1 DEF F!frame, tables, F!tables
<1>5. CASE Ldm(i)
  <2>1. F!Readable("flags") = Readable("flags")
    BY SameChecks DEF Readable, F!Readable
  <2>2. CASE ~Accessible(i.m, FALSE)
    BY <1>1, <1>3, <1>5, <2>2 DEF Ldm, F!Ldm
  <2>3. CASE Accessible(i.m, FALSE)
    BY <1>1, <1>2, <1>4, <1>5, <2>1, <2>3 DEF Ldm, F!Ldm
  <2> QED
    BY <2>2, <2>3
<1>6. CASE Stm(i)
  <2>1. CASE ~Accessible(i.m, TRUE)
    BY <1>1, <1>3, <1>6, <2>1 DEF Stm, F!Stm
  <2>2. CASE Accessible(i.m, TRUE)
    <3>1. i.op = "stm" /\ i.m = "vm_console" /\ StmValue(i.m, regs[i.r])
      BY <1>2, <1>6, <2>2 DEF Stm
    <3>2. Accepts(i.m, regs[i.r]) /\ F!Accepts(i.m, regs[i.r])
      BY <3>1, SameChecks DEF Accepts
    <3>3. /\ Retire(Plus(ip, 4)) /\ UNCHANGED <<frame, tables>>
          /\ UNCHANGED <<flags, regs>>
      BY <3>1, <3>2 DEF StmValue, frame, tables
    <3>4. F!StmValue(i.m, regs[i.r])
      BY <1>4, <3>1, <3>2, <3>3 DEF F!StmValue, F!tables
    <3> QED
      BY <1>1, <2>2, <3>1, <3>4 DEF F!Stm
  <2> QED
    BY <2>1, <2>2
<1> QED
  BY <1>5, <1>6

\* Nothing that a PL1 program does depends on what the last exception left in
\* elr, esp, eflags, einfo and eaddr: any step it takes, and the exception it
\* raises in it, is one with any other contents of them.
THEOREM Unobserved ==
    ASSUME Running, flags.pl = 1, Next, Follows
    PROVE  F!Next
<1>1. F!Running /\ F!InMemory(ip, 4) = InMemory(ip, 4) /\ F!Fetched = Fetched
  BY SameArithmetic DEF Running, F!Running, Fetched, F!Fetched
<1>2. CASE FetchFault
  <2>1. Exception(InstructionLoadError).id # NoTrap
    BY DEF Exception, InstructionLoadError, NoTrap
  <2>2. F!Exception(F!InstructionLoadError) = Exception(InstructionLoadError)
    BY SameExceptions DEF F!InstructionLoadError, InstructionLoadError
  <2>3. F!FetchFault
    BY <1>1, <1>2, <2>1, <2>2, SameTaken DEF FetchFault, F!FetchFault, Raise, F!Raise
  <2> QED
    BY <2>3 DEF F!Next
<1>3. CASE execute_one
  <2>1. PICK i \in Fetched : Execute(i)
    BY <1>3 DEF execute_one
  <2>2. F!Execute(i)
    BY <2>1, FetchedLemma,
       SameComputed, SameRaised, SameAccesses, SameJump, SameRegisters
    DEF Execute, F!Execute
  <2>3. F!execute_one
    BY <1>1, <1>3, <2>2 DEF execute_one, F!execute_one
  <2> QED
    BY <2>3 DEF F!Next
<1> QED
  BY <1>2, <1>3 DEF Next, Halted

=============================================================================
