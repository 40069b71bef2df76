-------------------------------- MODULE Memory --------------------------------
(***************************************************************************)
(* The memory of the emulator, byte by byte: the image loaded into it, and *)
(* every instruction that reads or writes it. A register is the sequence   *)
(* of its bytes, the lowest first, as memory has them. What Machine has of *)
(* these instructions is their control (exceptions, modes and einfo); here *)
(* are the values.                                                         *)
(***************************************************************************)
EXTENDS Words, Sequences

CONSTANTS ByteBits,    \* bits of a byte (8)
          WordBytes,   \* bytes of a word (8)
          Sizes,       \* bytes of the sizes (1, 2, 4, 8)
          MemSize,     \* bytes of memory (32 MiB)
          Regs,        \* ids of the registers a program uses
          SP,          \* and among them the stack pointer's (13)
          Instrs,      \* the instructions it may execute, decoded
          Values,      \* what other instructions leave in a register
          Images       \* contents of the file given on the command line

VARIABLES mem, regs,
          status,      \* "loading", "running", or why the process ended
          saved        \* history: what was pushed and can still be popped
vars == <<mem, regs, status, saved>>

Byte == 0 .. 2 ^ ByteBits - 1
Offsets == 0 .. WordBytes - 1
Contents == [Offsets -> Byte]

\* An address as a word and back: byte b is the digit that has b bytes below it.
WordOf == [a \in Word |-> [b \in Offsets |-> (a \div 2 ^ (ByteBits * b)) % 2 ^ ByteBits]]
Address == [word \in Contents |-> CHOOSE a \in Word : WordOf[a] = word]

\* Operations that the promise has too.
Promise == INSTANCE Stack
Operands == Promise!Operands
Low(word, n) == Promise!Low(word, n)
Set(old, n, word) == Promise!Set(old, n, word)
ReceivedAll(file, dsts, n, vals) == Promise!ReceivedAll(file, dsts, n, vals)
ValueOf(r) == Promise!ValueOf(r)

\* An instruction moves one value or two, and only the stack takes null.
IsInstr(i) ==
    /\ i.n \in Sizes
    /\ \/ i.op = "push" /\ i.srcs \in Operands
       \/ i.op = "pop" /\ i.dsts \in Operands
       \/ i.op = "load" /\ i.dsts \in Promise!OneOrTwo(Regs) /\ i.a \in Regs
       \/ i.op = "store" /\ i.srcs \in Promise!OneOrTwo(Regs) /\ i.a \in Regs

ASSUME SizesAssumption ==
    /\ ByteBits \in Nat \ {0} /\ WordBytes \in Nat \ {0}
    /\ AddrSpace = 2 ^ (ByteBits * WordBytes)
    /\ Sizes \subseteq 1 .. WordBytes
    /\ MemSize \in Nat /\ MemSize <= AddrSpace
    /\ 2 * WordBytes < AddrSpace
    /\ SP \in Regs /\ "null" \notin Regs

ASSUME ProgramAssumption ==
    /\ \A i \in Instrs : IsInstr(i)
    /\ Values \subseteq Contents
    /\ \A image \in Images : Len(image) \in Nat /\ image \in [1 .. Len(image) -> Byte]

-----------------------------------------------------------------------------
(* Access to memory.                                                       *)

Running == status = "running"

\* Bytes of one value or of two.
Bytes(n, count) == IF count = 1 THEN n ELSE 2 * n

\* get_memory(a .. a + n), whose end wraps.
InMemory(a, n) == a <= Plus(a, n) /\ Plus(a, n) <= MemSize

\* Size::read, without sign extension, and Size::write.
Read(a, n) == [b \in Offsets |-> IF b < n THEN mem[a + b] ELSE 0]

WriteWord(m, a, n, word) ==   \* mutant: a word whatever the size
    [x \in DOMAIN m |-> IF x \in a .. a + WordBytes - 1 THEN word[x - a] ELSE m[x]]

Write(m, a, n, word) ==
    [x \in DOMAIN m |-> IF x \in a .. a + n - 1 THEN word[x - a] ELSE m[x]]

ReadHighFirst(a, n, count) ==   \* mutant
    IF count = 1 THEN <<Read(a, n)>> ELSE <<Read(a + n, n), Read(a, n)>>

\* The two halves of a pair lie one behind the other.
ReadAll(a, n, count) ==
    IF count = 1 THEN <<Read(a, n)>> ELSE <<Read(a, n), Read(a + n, n)>>
WriteAll(a, n, vals) ==
    LET one == Write(mem, a, n, vals[1])
    IN  IF Len(vals) = 1 THEN one ELSE Write(one, a + n, n, vals[2])

\* DataLoadError (what the exception does is Machine's DataError): no byte is
\* written and no register changes.
Fault == UNCHANGED vars

-----------------------------------------------------------------------------
(* The history: saved has what Stack says.                                 *)

\* Where the values of a frame start.
At(frame) == Address[frame.sp] - Bytes(frame.n, Len(frame.vals))

Overlaps(frame, a, n) == a < Address[frame.sp] /\ At(frame) < a + n

\* A pop of as many values of the same size as were pushed last.
Matches(n, count) ==
    saved # <<>> /\ LET last == saved[Len(saved)] IN last.n = n /\ Len(last.vals) = count

\* The pop i is one of these, and leaves the stack pointer to itself.
Undoes(i) == Matches(i.n, Len(i.dsts)) /\ SP \notin {i.dsts[k] : k \in DOMAIN i.dsts}

\* saved after a write.
Spared(a, n) == IF \E j \in DOMAIN saved : Overlaps(saved[j], a, n) THEN <<>> ELSE saved

\* saved after a step that moves the stack pointer only by mistake.
Forget == IF regs'[SP] = regs[SP] THEN saved ELSE <<>>

-----------------------------------------------------------------------------
(* The instructions.                                                       *)

StackTop == Address[regs[SP]]

PushesOneValue(i) ==   \* mutant
    LET sp == Minus(StackTop, i.n)
        vals == [k \in DOMAIN i.srcs |-> Low(ValueOf(i.srcs[k]), i.n)]
    IN  IF InMemory(sp, Bytes(i.n, Len(i.srcs)))
        THEN /\ mem' = WriteAll(sp, i.n, vals)
             /\ regs' = [regs EXCEPT ![SP] = WordOf[sp]]
             /\ saved' = Append(saved, [n |-> i.n, sp |-> regs[SP], vals |-> vals])
             /\ UNCHANGED status
        ELSE Fault

\* The values are read before the stack pointer moves.
Push(i) ==
    LET sp == Minus(StackTop, Bytes(i.n, Len(i.srcs)))
        vals == [k \in DOMAIN i.srcs |-> Low(ValueOf(i.srcs[k]), i.n)]
    IN  IF InMemory(sp, Bytes(i.n, Len(i.srcs)))
        THEN /\ mem' = WriteAll(sp, i.n, vals)
             /\ regs' = [regs EXCEPT ![SP] = WordOf[sp]]
             /\ saved' = Append(saved, [n |-> i.n, sp |-> regs[SP], vals |-> vals])
             /\ UNCHANGED status
        ELSE Fault

PopsOneValue(i) ==   \* mutant
    LET count == Len(i.dsts)
        old == StackTop
    IN  IF InMemory(old, Bytes(i.n, count))
        THEN /\ regs' = [ReceivedAll(regs, i.dsts, i.n, ReadAll(old, i.n, count))
                           EXCEPT ![SP] = WordOf[Plus(old, i.n)]]
             /\ saved' = IF Undoes(i) THEN SubSeq(saved, 1, Len(saved) - 1) ELSE <<>>
             /\ UNCHANGED <<mem, status>>
        ELSE Fault

\* The stack pointer is written last, over whatever was popped into it.
Pop(i) ==
    LET count == Len(i.dsts)
        old == StackTop
    IN  IF InMemory(old, Bytes(i.n, count))
        THEN /\ regs' = [ReceivedAll(regs, i.dsts, i.n, ReadAll(old, i.n, count))
                           EXCEPT ![SP] = WordOf[Plus(old, Bytes(i.n, count))]]
             /\ saved' = IF Undoes(i) THEN SubSeq(saved, 1, Len(saved) - 1) ELSE <<>>
             /\ UNCHANGED <<mem, status>>
        ELSE Fault

\* lds and ldp; the address is read before a register changes.
Load(i) ==
    LET a == Address[regs[i.a]]
        count == Len(i.dsts)
    IN  IF InMemory(a, Bytes(i.n, count))
        THEN /\ regs' = ReceivedAll(regs, i.dsts, i.n, ReadAll(a, i.n, count))
             /\ saved' = Forget
             /\ UNCHANGED <<mem, status>>
        ELSE Fault

\* sts.
Store(i) ==
    LET a == Address[regs[i.a]]
    IN  /\ Len(i.srcs) = 1
        /\ IF InMemory(a, i.n)
           THEN /\ mem' = WriteAll(a, i.n, <<regs[i.srcs[1]]>>)
                /\ saved' = Spared(a, i.n)
                /\ UNCHANGED <<regs, status>>
           ELSE Fault

\* stp: borrows the bytes of one value only, writes the first one, and panics
\* when it writes the second into what is left.
StorePair(i) ==
    LET a == Address[regs[i.a]]
    IN  /\ Len(i.srcs) = 2
        /\ IF InMemory(a, i.n)
           THEN /\ mem' = Write(mem, a, i.n, regs[i.srcs[1]])
                /\ status' = "bounds"
                /\ saved' = Spared(a, i.n)
                /\ UNCHANGED regs
           ELSE Fault

\* Any other instruction, or the entry of a handler with a stack of its own,
\* writes registers and no memory.
Elsewhere ==
    /\ Running
    /\ \E r \in Regs, word \in Values : regs' = [regs EXCEPT ![r] = word]
    /\ saved' = Forget
    /\ UNCHANGED <<mem, status>>

Execute(i) ==
    /\ Running
    /\ \/ i.op = "push" /\ Push(i)
       \/ i.op = "pop" /\ Pop(i)
       \/ i.op = "load" /\ Load(i)
       \/ i.op = "store" /\ (Store(i) \/ StorePair(i))

-----------------------------------------------------------------------------
(* Startup.                                                                *)

\* load_file: the image at address 0; a file larger than memory panics.
LoadFile ==
    /\ status = "loading"
    /\ \E image \in Images :
           IF Len(image) <= MemSize
           THEN /\ mem' = [x \in DOMAIN mem |-> IF x < Len(image) THEN image[x + 1] ELSE mem[x]]
                /\ status' = "running"
           ELSE mem' = mem /\ status' = "too_large"
    /\ UNCHANGED <<regs, saved>>

\* The file cannot be opened or read.
LoadFails ==
    /\ status = "loading"
    /\ status' = "exit"
    /\ UNCHANGED <<mem, regs, saved>>

Init ==
    /\ mem = [x \in 0 .. MemSize - 1 |-> 0]
    /\ regs = [r \in Regs |-> [b \in Offsets |-> 0]]
    /\ status = "loading"
    /\ saved = <<>>

Next == LoadFile \/ LoadFails \/ Elsewhere \/ \E i \in Instrs : Execute(i)

Spec == Init /\ [][Next]_vars

-----------------------------------------------------------------------------
(* Properties.                                                             *)

\* Types.
Frame == [n : Sizes, sp : Contents, vals : Promise!OneOrTwo(Contents)]

TypeOK ==
    /\ mem \in [0 .. MemSize - 1 -> Byte]
    /\ regs \in [Regs -> Contents]
    /\ status \in {"loading", "running", "too_large", "exit", "bounds"}
    /\ saved \in Seq(Frame)

\* In memory m the n bytes of word lie at a, and the values of a frame below
\* the stack pointer it has.
Holds(m, a, n, word) == \A b \in 0 .. n - 1 : m[a + b] = word[b]

Intact(m, f) ==
    /\ 0 <= At(f) /\ Address[f.sp] <= MemSize
    /\ Holds(m, At(f), f.n, f.vals[1])
    /\ Len(f.vals) = 2 => Holds(m, At(f) + f.n, f.n, f.vals[2])
    /\ \A k \in DOMAIN f.vals : f.vals[k] = Low(f.vals[k], f.n)

\* Each frame lies right below the one before it, down to top.
Nested(frames, top) ==
    \A j \in DOMAIN frames :
        /\ \A k \in 1 .. j - 1 : Address[frames[j].sp] <= At(frames[k])
        /\ At(frames[j]) = IF j = Len(frames) THEN top ELSE Address[frames[j + 1].sp]

\* What was pushed and neither popped nor abandoned lies in memory, each value
\* at its size and each push below the one before it, down to the stack
\* pointer: nested calls and handlers, whatever they push, keep their caller's.
StackHolds ==
    /\ Nested(saved, StackTop)
    /\ \A j \in DOMAIN saved : Intact(mem, saved[j])

\* Nothing is pushed before there is an image to push it.
NothingYet == status = "loading" => saved = <<>>

IInv == TypeOK /\ StackHolds /\ NothingYet

\* A pop gets back, from memory, what the last push of its size and number
\* saved, and moves the stack pointer to where it was: pushs, pushp, pops and
\* popp are a stack, as spec/src/instructions.md:104-196 has it, whatever the
\* program does with memory in between. It says nothing of pops into the stack
\* pointer, where the code and these pages differ (PopKeepsLoaded).
ImplementsStack == Promise!Spec

\* And each value goes into the register that stands where the pushed one
\* stood: a popp undoes the pushp of the same operands, not of swapped ones,
\* unless one of them is the stack pointer.
PopsInOrder ==
    [][Running => \A i \in Instrs :
          i.op = "pop" /\ Undoes(i) /\ Pop(i) => Promise!Restore(i.dsts)]_vars

\* Where an instruction may write.
Reaches(i, x) ==
    \/ i.op = "push" /\ x < StackTop /\ x >= StackTop - Bytes(i.n, Len(i.srcs))
    \/ LET a == Address[regs[i.a]] IN i.op = "store" /\ x >= a /\ x < a + i.n

\* No instruction writes outside of the bytes of its size that its address
\* names, and a step that faults or is no store writes nothing at all.
Contained ==
    [][Running /\ mem' # mem =>
          \E i \in Instrs :
              /\ Execute(i)
              /\ \A x \in DOMAIN mem : mem'[x] # mem[x] => Reaches(i, x)]_vars

-----------------------------------------------------------------------------
(* What the manual says and the emulator does not do.                      *)

\* instructions.md: a pop into the stack pointer loads its new value, the second
\* one of two, and the increment is skipped.
PopKeepsLoaded ==
    [][Running /\ regs' # regs =>
          \A i \in Instrs :
              i.op = "pop" /\ SP \in {i.dsts[k] : k \in DOMAIN i.dsts} /\ Pop(i) =>
                  regs' = ReceivedAll(regs, i.dsts, i.n, ReadAll(StackTop, i.n, Len(i.dsts)))]_vars

=============================================================================
