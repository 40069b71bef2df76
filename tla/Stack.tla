-------------------------------- MODULE Stack --------------------------------
(***************************************************************************)
(* What pushes and pops promise a program: values come back in the reverse *)
(* order, each at its size, and the stack pointer with them, for as long   *)
(* as the program neither moves the stack pointer otherwise nor writes     *)
(* over what it saved. There is no memory here.                            *)
(***************************************************************************)
EXTENDS Integers, Sequences

CONSTANTS Regs,      \* registers
          SP,        \* the stack pointer, one of them
          Sizes,     \* bytes of a value
          Contents   \* what a register holds: bytes, the lowest first

VARIABLES regs,      \* values of the registers
          saved      \* what was pushed: a size, one or two values, the old SP
vars == <<regs, saved>>

\* One or two of a set, and the operands a push or a pop may have.
OneOrTwo(set) == [1 .. 1 -> set] \cup [1 .. 2 -> set]
Operands == OneOrTwo(Regs \cup {"null"})

\* The n lowest bytes of a value, and those put into a register.
Low(word, n) == [b \in DOMAIN word |-> IF b < n THEN word[b] ELSE 0]
Set(old, n, word) == [b \in DOMAIN old |-> IF b < n THEN word[b] ELSE old[b]]

Zeros(word) == [b \in DOMAIN word |-> 0]
ValueOf(r) == IF r = "null" THEN Zeros(regs[SP]) ELSE regs[r]

\* Values go into registers in order: the last one stays.
Received(file, r, n, word) ==
    IF r = "null" THEN file ELSE [file EXCEPT ![r] = Set(@, n, word)]
ReceivedAll(file, dsts, n, vals) ==
    LET one == Received(file, dsts[1], n, vals[1])
    IN  IF Len(dsts) = 1 THEN one ELSE Received(one, dsts[2], n, vals[2])

\* Only the stack pointer moves, and what is saved is what the registers held
\* before it did.
Save(n, srcs) ==
    /\ regs' \in {[regs EXCEPT ![SP] = sp] : sp \in Contents}
    /\ saved' = Append(saved, [n |-> n, sp |-> regs[SP],
                               vals |-> [k \in DOMAIN srcs |-> Low(ValueOf(srcs[k]), n)]])

\* The values come back, and the stack pointer. What a pop into the stack
\* pointer leaves there is not promised here: the instruction set has it keep
\* what it loaded (spec/src/instructions.md:166-167, 188-192).
Restore(dsts) ==
    /\ saved # <<>>
    /\ SP \notin {dsts[k] : k \in DOMAIN dsts}
    /\ LET last == saved[Len(saved)]
       IN  /\ Len(dsts) = Len(last.vals)
           /\ regs' = [ReceivedAll(regs, dsts, last.n, last.vals) EXCEPT ![SP] = last.sp]
    /\ saved' = SubSeq(saved, 1, Len(saved) - 1)

\* Anything else that leaves the stack alone.
Work ==
    /\ regs' \in [Regs -> Contents]
    /\ regs'[SP] = regs[SP]
    /\ saved' = saved

\* The program moves the stack pointer itself, if only by a pop into it, pops
\* what it did not push, or writes over what it saved.
Abandon ==
    /\ regs' \in [Regs -> Contents]
    /\ saved' = <<>>

Init == regs \in [Regs -> Contents] /\ saved = <<>>

Next ==
    \/ Work
    \/ Abandon
    \/ \E dsts \in Operands : Restore(dsts)
    \/ \E n \in Sizes, srcs \in Operands : Save(n, srcs)

Spec == Init /\ [][Next]_vars
=============================================================================
