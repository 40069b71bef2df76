--------------------------- MODULE Assembler_proofs ---------------------------
(***************************************************************************)
(* What holds of the two passes for every program, of any length.  As for  *)
(* the machine, StepKinds first sorts the steps; the theorems are about    *)
(* the kinds.                                                              *)
(***************************************************************************)
EXTENDS Assembler, Numbers_proofs

-----------------------------------------------------------------------------
(* The kinds of steps.                                                     *)

\* The process ends; while the second pass is at work, not over the layout.
Stops ==
    /\ status = "assembling"
    /\ \E why :
        /\ Stop(why) /\ why # "assembling" /\ DOMAIN output' \subseteq Word
        /\ (Settled /\ pass = 2 /\ why # "done") =>
              why # "arithmetic" /\ program[pos].kind \in {"instr", "write"}

StartsSecondPass ==
    /\ status = "assembling" /\ pass = 1 /\ pos \notin DOMAIN program
    /\ pass' = 2 /\ pos' = 1 /\ addr' = 0
    /\ UNCHANGED <<program, label_addrs, output, placed, status>>

\* Where the next item comes if the current one is at at.
Follows(at, to) ==
    LET i == program[pos]
    IN  /\ i.kind = "instr" => to = Plus(at, 4)
        /\ i.kind = "write" => to = Wrap(at + i.size * Len(i.vals))
        /\ i.kind = "addr" => to = Value(i.expr, label_addrs, at)
        /\ i.kind \in {"label", "def"} => to = at

\* The first pass places an item.
Moves1(at, to) ==
    LET i == program[pos]
    IN  /\ status = "assembling" /\ pass = 1 /\ pos \in DOMAIN program
        /\ Advance(at, to) /\ Follows(at, to) /\ UNCHANGED output
        /\ IF AlignedFor(pos) THEN at = AlignUp(addr) /\ ~Overflows(addr + 3) ELSE at = addr
        /\ i.kind = "instr" => ~Overflows(at + 4)
        /\ i.kind = "write" => ~Overflows(at + i.size * Len(i.vals))
        /\ i.kind = "addr" => Failure(i.expr, label_addrs, at) = "none"
        /\ i.kind = "label" =>
              label_addrs[i.name] = Unset /\ label_addrs' = [label_addrs EXCEPT ![i.name] = at]
        /\ i.kind = "def" =>
              \E v \in Word : label_addrs' = [label_addrs EXCEPT ![i.name] = v]
        /\ i.kind \notin {"label", "def"} => UNCHANGED label_addrs

\* The second pass writes an item, or passes over it.
Moves2(at, to) ==
    /\ status = "assembling" /\ pass = 2 /\ pos \in DOMAIN program
    /\ Advance(at, to) /\ Follows(at, to) /\ UNCHANGED label_addrs
    /\ DOMAIN output' \subseteq Word
    /\ at = IF program[pos].kind = "instr" THEN AlignUp(addr) ELSE addr

-----------------------------------------------------------------------------
(* Operators.                                                              *)

\* Aligning a word gives an aligned word, and aligning it again changes
\* nothing.
LEMMA AlignUpLemma ==
    ASSUME NEW a \in Word
    PROVE  /\ AlignUp(a) \in Word
           /\ AlignUp(AlignUp(a)) = AlignUp(a)
BY AddrSpaceAssumption DEF AlignUp, Plus, Word

\* A wrapped integer is a word.
LEMMA WrapLemma ==
    ASSUME NEW n \in Int
    PROVE  Wrap(n) \in Word
BY AddrSpaceAssumption DEF Wrap, Word

\* Quotients and remainders of words are words.
LEMMA QuotientLemma ==
    ASSUME NEW l \in Word, NEW r \in Word, r # 0
    PROVE  l \div r \in Word /\ l % r \in Word
<1>1. l \in Nat /\ r \in Nat /\ r > 0
  BY AddrSpaceAssumption DEF Word
<1>2. l % r \in 0 .. r - 1
  BY <1>1
<1>3. l \div r \in Nat /\ l \div r <= l
  BY <1>1
<1>4. QED
  BY <1>1, <1>2, <1>3, AddrSpaceAssumption DEF Word

\* An expression that can be evaluated has a word for its value.
LEMMA ValueLemma ==
    ASSUME NEW e, IsExpr(e),
           NEW names \in [Names -> Word \cup {Unset}], NEW here \in Word,
           Failure(e, names, here) = "none"
    PROVE  Value(e, names, here) \in Word
<1> DEFINE l == Primary(e.l, names, here)
           r == Primary(e.r, names, here)
<1>1. \A n \in NamesIn(e) : names[n] # Unset
  BY DEF Failure
<1>2. l \in Word
  BY <1>1 DEF IsExpr, IsPrimary, Primary, NamesIn
<1>3. e.op # "none" => r \in Word
  BY <1>1 DEF IsExpr, IsPrimary, Primary, NamesIn
<1>4. e.op \in {"div", "rem"} => r # 0
  BY DEF Failure
<1> HIDE DEF l, r
<1>5. CASE e.op = "none"
  BY <1>2, <1>5 DEF Value, l
<1>6. CASE e.op = "add"
  <2>1. Value(e, names, here) = Plus(l, r)
    BY <1>6 DEF Value, l, r
  <2>2. QED
    BY <2>1, <1>2, <1>3, <1>6, PlusLemma
<1>7. CASE e.op = "sub"
  <2>1. Value(e, names, here) = Minus(l, r)
    BY <1>7 DEF Value, l, r
  <2>2. QED
    BY <2>1, <1>2, <1>3, <1>7, MinusLemma
<1>8. CASE e.op = "mul"
  <2>1. Value(e, names, here) = Wrap(l * r)
    BY <1>8 DEF Value, l, r
  <2>2. l * r \in Int
    BY <1>2, <1>3, <1>8, AddrSpaceAssumption DEF Word
  <2>3. QED
    BY <2>1, <2>2, WrapLemma
<1>9. CASE e.op \in {"div", "rem"}
  <2>1. Value(e, names, here) \in {l \div r, l % r}
    BY <1>9 DEF Value, l, r
  <2>2. QED
    BY <2>1, <1>2, <1>3, <1>4, <1>9, QuotientLemma
<1>10. QED
  BY <1>5, <1>6, <1>7, <1>8, <1>9 DEF IsExpr

\* Learning more names changes neither the value of an expression that could
\* be evaluated, nor that it could.
LEMMA StableLemma ==
    ASSUME NEW e, IsExpr(e), NEW here,
           NEW names \in [Names -> Word \cup {Unset}],
           NEW more \in [Names -> Word \cup {Unset}],
           \A n \in NamesIn(e) : names[n] # Unset => more[n] = names[n],
           Failure(e, names, here) = "none"
    PROVE  /\ Failure(e, more, here) = "none"
           /\ Value(e, more, here) = Value(e, names, here)
<1>1. \A n \in NamesIn(e) : names[n] # Unset
  BY DEF Failure
<1>2. NamesIn(e) \subseteq Names
  BY DEF NamesIn, IsExpr, IsPrimary
<1>3. \A n \in NamesIn(e) : more[n] = names[n] /\ more[n] # Unset
  BY <1>1, <1>2
<1>4. Primary(e.l, more, here) = Primary(e.l, names, here)
  BY <1>3 DEF IsExpr, IsPrimary, Primary, NamesIn
<1>5. e.op # "none" => Primary(e.r, more, here) = Primary(e.r, names, here)
  BY <1>3 DEF IsExpr, IsPrimary, Primary, NamesIn
<1>6. Failure(e, more, here) = "none"
  BY <1>3, <1>5 DEF Failure
<1>7. Value(e, more, here) = Value(e, names, here)
  BY <1>4, <1>5 DEF Value, IsExpr
<1>8. QED
  BY <1>6, <1>7

\* The program is a sequence of items.
LEMMA ProgramLemma ==
    ASSUME TypeOK
    PROVE  /\ Len(program) \in Nat /\ DOMAIN program = 1 .. Len(program)
           /\ \A p \in DOMAIN program : IsItem(program[p])
BY ProgramsAssumption DEF TypeOK

\* A file of addressable bytes remains one.
LEMMA OverwriteLemma ==
    ASSUME DOMAIN output \subseteq Word, NEW at \in Word, NEW bytes, DOMAIN bytes \subseteq Int
    PROVE  DOMAIN Overwrite(at, bytes) \subseteq Word
<1> DEFINE covered == {Wrap(at + k) : k \in DOMAIN bytes}
<1>1. covered \subseteq Word
  <2> SUFFICES ASSUME NEW k \in DOMAIN bytes PROVE Wrap(at + k) \in Word
    OBVIOUS
  <2>1. at + k \in Int
    BY AddrSpaceAssumption DEF Word
  <2>2. QED
    BY <2>1, WrapLemma
<1>2. DOMAIN Overwrite(at, bytes) = DOMAIN output \cup covered
  BY DEF Overwrite
<1>3. QED
  BY <1>1, <1>2

\* An instruction behind a run of labels is behind the rest of the run.
LEMMA FollowedLemma ==
    ASSUME TypeOK, NEW p \in Nat \ {0}, FollowedByInstr(p)
    PROVE  p \in DOMAIN program /\ AlignedFor(p)
<1>1. PICK q \in DOMAIN program :
        /\ p <= q /\ program[q].kind = "instr"
        /\ \A r \in p .. q - 1 : program[r].kind = "label"
  BY DEF FollowedByInstr
<1>2. p <= Len(program) /\ q \in Nat
  BY <1>1, ProgramLemma
<1>3. CASE p = q
  BY <1>1, <1>3 DEF AlignedFor
<1>4. CASE p < q
  <2>1. program[p].kind = "label"
    BY <1>1, <1>2, <1>4
  <2>2. FollowedByInstr(p + 1)
    BY <1>1, <1>2, <1>4 DEF FollowedByInstr
  <2>3. QED
    BY <2>1, <2>2, <1>2, ProgramLemma DEF AlignedFor
<1>5. QED
  BY <1>1, <1>2, <1>3, <1>4

-----------------------------------------------------------------------------
(* Steps.                                                                  *)

\* In step with the first pass, the second one knows the address, the names
\* and the room that the first one found for the item in turn.
LEMMA InStepLemma ==
    ASSUME LayoutInv, Settled, pass = 2, pos \in DOMAIN program
    PROVE  LET i == program[pos]
               at == IF i.kind = "instr" THEN AlignUp(addr) ELSE addr
           IN  /\ i.kind \notin {"label"} => placed[1][pos] = at
               /\ i.kind = "instr" => ~Overflows(addr + 3) /\ ~Overflows(at + 4)
               /\ i.kind = "write" => ~Overflows(at + i.size * Len(i.vals))
               /\ i.kind = "addr" => Failure(i.expr, label_addrs, at) = "none"
<1>1. Determined(pos) /\ InStep /\ addr \in Word
  BY DEF LayoutInv, TypeOK, Layout, Visited
<1>2. CASE program[pos].kind = "instr"
  <2>1. AlignedFor(pos)
    BY <1>2 DEF AlignedFor
  <2>2. placed[1][pos] = AlignUp(addr) /\ ~Overflows(addr + 3)
    BY <1>1, <2>1, AlignUpLemma DEF Determined, InStep
  <2>3. QED
    BY <1>1, <1>2, <2>2 DEF Determined
<1>3. CASE program[pos].kind \notin {"instr", "label"}
  <2>1. ~AlignedFor(pos)
    BY <1>3 DEF AlignedFor
  <2>2. placed[1][pos] = addr
    BY <1>1, <2>1 DEF Determined, InStep
  <2>3. QED
    BY <1>1, <1>3, <2>2 DEF Determined
<1>4. QED
  BY <1>2, <1>3

\* A step of the assembler ends the process, places an item, starts the
\* second pass, or does nothing.
THEOREM StepKinds ==
    ASSUME LayoutInv, Next
    PROVE  \/ Stops \/ StartsSecondPass
           \/ \E at, to \in Word : Moves1(at, to) \/ Moves2(at, to)
           \/ UNCHANGED vars
<1> USE ProgramLemma
<1>1. TypeOK
  BY DEF LayoutInv
<1>2. pos \in DOMAIN program => IsItem(program[pos])
  BY <1>1
<1>3. addr \in Word /\ DOMAIN output \subseteq Word /\ label_addrs \in [Names -> Word \cup {Unset}]
  BY <1>1 DEF TypeOK
<1>4. ASSUME NEW why, Fail(why), pass = 1 \/ why = "done", status = "assembling", why # "assembling"
      PROVE  Stops
  BY <1>3, <1>4 DEF Fail, Stops
<1>5. AlignUp(addr) \in Word /\ Plus(AlignUp(addr), 4) \in Word
  <2>1. 4 \in Word
    BY AddrSpaceAssumption DEF Word
  <2>2. QED
    BY <1>3, <2>1, AlignUpLemma, PlusLemma
<1>6. ASSUME program[pos].kind = "write", pos \in DOMAIN program
      PROVE  Wrap(addr + program[pos].size * Len(program[pos].vals)) \in Word
  <2>1. addr + program[pos].size * Len(program[pos].vals) \in Int
    BY <1>2, <1>3, <1>6, AddrSpaceAssumption DEF IsItem, Word
  <2>2. QED
    BY <2>1, WrapLemma
<1>7. ASSUME NEW e, NEW names, NEW at
      PROVE  Failure(e, names, at) # "assembling"
  BY DEF Failure
<1>a. CASE AssignLabel
  <2> DEFINE name == program[pos].name
             here == IF FollowedByInstr(pos + 1) THEN AlignUp(addr) ELSE addr
  <2>1. program[pos].kind = "label" /\ pass = 1 /\ pos \in DOMAIN program /\ status = "assembling"
    BY <1>a DEF AssignLabel, Working
  <2>2. here \in Word
    BY <1>3, <1>5
  <2>3. AlignedFor(pos) <=> FollowedByInstr(pos + 1)
    BY <2>1 DEF AlignedFor
  <2>4. \/ Fail("arithmetic") \/ Fail("duplicate_label")
        \/ /\ FollowedByInstr(pos + 1) => ~Overflows(addr + 3)
           /\ label_addrs[name] = Unset
           /\ label_addrs' = [label_addrs EXCEPT ![name] = here]
           /\ Advance(here, here)
           /\ UNCHANGED output
    BY <1>a DEF AssignLabel
  <2>5. Stops \/ Moves1(here, here)
    BY <1>4, <2>1, <2>3, <2>4 DEF Moves1, Follows
  <2>6. QED
    BY <2>2, <2>5
<1>b. CASE MeasureInstr
  <2>1. program[pos].kind = "instr" /\ pass = 1 /\ pos \in DOMAIN program /\ status = "assembling"
    BY <1>b DEF MeasureInstr, Working
  <2>2. AlignedFor(pos)
    BY <2>1 DEF AlignedFor
  <2>3. Stops \/ Moves1(AlignUp(addr), Plus(AlignUp(addr), 4))
    BY <1>4, <1>b, <2>1, <2>2 DEF MeasureInstr, InstrOverflows, Moves1, Follows
  <2>4. QED
    BY <1>5, <2>3
<1>c. CASE MeasureWrite
  <2>1. program[pos].kind = "write" /\ pass = 1 /\ pos \in DOMAIN program /\ status = "assembling"
    BY <1>c DEF MeasureWrite, Working
  <2>2. ~AlignedFor(pos)
    BY <2>1 DEF AlignedFor
  <2>3. Stops \/ Moves1(addr, Wrap(addr + program[pos].size * Len(program[pos].vals)))
    BY <1>4, <1>c, <2>1, <2>2 DEF MeasureWrite, Moves1, Follows
  <2>4. QED
    BY <1>3, <1>6, <2>1, <2>3
<1>d. CASE Define
  <2> DEFINE e == program[pos].expr
             failure == Failure(e, label_addrs, addr)
  <2>1. program[pos].kind = "def" /\ pass = 1 /\ pos \in DOMAIN program /\ status = "assembling"
    BY <1>d DEF Define, Working
  <2>2. ~AlignedFor(pos)
    BY <2>1 DEF AlignedFor
  <2>3. IsExpr(e)
    BY <1>2, <2>1 DEF IsItem
  <2>4. CASE failure # "none"
    BY <1>4, <1>7, <1>d, <2>1, <2>3, <2>4 DEF Define
  <2>5. CASE failure = "none"
    <3>1. Value(e, label_addrs, addr) \in Word
      BY <1>3, <2>3, <2>5, ValueLemma
    <3>2. Moves1(addr, addr)
      BY <1>d, <2>1, <2>2, <2>5, <3>1 DEF Define, Moves1, Follows
    <3>3. QED
      BY <1>3, <3>2
  <2>6. QED
    BY <2>4, <2>5
<1>e. CASE SetAddress
  <2> DEFINE e == program[pos].expr
             failure == Failure(e, label_addrs, addr)
  <2>1. program[pos].kind = "addr" /\ pass \in {1, 2} /\ pos \in DOMAIN program /\ status = "assembling"
    BY <1>e DEF SetAddress, Working
  <2>2. ~AlignedFor(pos)
    BY <2>1 DEF AlignedFor
  <2>3. IsExpr(e)
    BY <1>2, <2>1 DEF IsItem
  <2>4. CASE failure # "none"
    <3>1. Fail(failure)
      BY <1>e, <2>4 DEF SetAddress
    <3>2. ~(Settled /\ pass = 2)
      BY <2>1, <2>4, InStepLemma
    <3>3. QED
      BY <1>3, <1>7, <2>1, <2>3, <3>1, <3>2 DEF Stops, Fail
  <2>5. CASE failure = "none"
    <3>1. Value(e, label_addrs, addr) \in Word
      BY <1>3, <2>3, <2>5, ValueLemma
    <3>2. \/ Moves1(addr, Value(e, label_addrs, addr))
          \/ Moves2(addr, Value(e, label_addrs, addr))
      BY <1>3, <1>e, <2>1, <2>2, <2>5 DEF SetAddress, Moves1, Moves2, Follows
    <3>3. QED
      BY <1>3, <3>1, <3>2
  <2>6. QED
    BY <2>4, <2>5
<1>f. CASE StartSecondPass
  BY <1>4, <1>f DEF StartSecondPass, StartsSecondPass
<1>g. CASE Skip
  <2>1. /\ program[pos].kind \in {"label", "def"}
        /\ pass = 2 /\ pos \in DOMAIN program /\ status = "assembling"
    BY <1>g DEF Skip, Working
  <2>2. Moves2(addr, addr)
    BY <1>3, <1>g, <2>1 DEF Skip, Moves2, Follows
  <2>3. QED
    BY <1>3, <2>2
<1>h. CASE WriteData
  <2> DEFINE vals == program[pos].vals
             size == program[pos].size
             end == addr + size * Len(vals)
             ValFailure(k) ==
                 IF Failure(vals[k], label_addrs, addr) # "none"
                 THEN Failure(vals[k], label_addrs, addr)
                 ELSE IF Overflows(addr + size * (k - 1)) THEN "arithmetic" ELSE "none"
  <2>1. program[pos].kind = "write" /\ pass = 2 /\ pos \in DOMAIN program /\ status = "assembling"
    BY <1>h DEF WriteData, Working
  <2>2. Wrap(end) \in Word
    BY <1>6, <2>1
  <2>3. size \in {1, 2, 4, 8} /\ Len(vals) \in Nat
    BY <1>2, <2>1 DEF IsItem
  <2>4. PICK m \in 0 .. Len(vals) :
          /\ \E bytes : DOMAIN bytes = 0 .. size * m - 1 /\ output' = Overwrite(addr, bytes)
          /\ \/ Overflows(end) /\ Stop("arithmetic")
             \/ Advance(addr, Wrap(end)) /\ UNCHANGED label_addrs
             \/ /\ m < Len(vals)
                /\ Stop(IF ValFailure(m + 1) # "none" THEN ValFailure(m + 1) ELSE "write_failed")
    BY <1>h DEF WriteData
  <2>5. DOMAIN output' \subseteq Word
    <3>1. PICK bytes : DOMAIN bytes = 0 .. size * m - 1 /\ output' = Overwrite(addr, bytes)
      BY <2>4
    <3>2. DOMAIN bytes \subseteq Int
      BY <3>1, <2>3
    <3>3. QED
      BY <1>3, <3>1, <3>2, OverwriteLemma
  <2>6. Settled => ~Overflows(end)
    BY <2>1, InStepLemma
  <2>7. CASE Overflows(end) /\ Stop("arithmetic")
    BY <2>1, <2>5, <2>6, <2>7 DEF Stops
  <2>8. CASE Advance(addr, Wrap(end)) /\ UNCHANGED label_addrs
    <3>1. Moves2(addr, Wrap(end))
      BY <2>1, <2>5, <2>8 DEF Moves2, Follows
    <3>2. QED
      BY <1>3, <2>2, <3>1
  <2>9. ASSUME m < Len(vals),
               Stop(IF ValFailure(m + 1) # "none" THEN ValFailure(m + 1) ELSE "write_failed")
        PROVE  Stops
    <3>1. addr + size * m <= end
      <4> DEFINE n == Len(vals)
                 low == size * m
                 high == size * n
      <4>1. addr \in Int /\ m \in Nat /\ n \in Nat /\ m <= n
        BY <1>3, <2>3, <2>9, AddrSpaceAssumption DEF Word
      <4> HIDE DEF n
      <4>2. low \in Int /\ high \in Int /\ low <= high
        <5>1. CASE size = 1
          BY <4>1, <5>1
        <5>2. CASE size = 2
          BY <4>1, <5>2
        <5>3. CASE size = 4
          BY <4>1, <5>3
        <5>4. CASE size = 8
          BY <4>1, <5>4
        <5>5. QED
          BY <2>3, <5>1, <5>2, <5>3, <5>4
      <4> HIDE DEF low, high
      <4>3. addr + low <= addr + high
        BY <4>1, <4>2
      <4>4. QED
        BY <4>3 DEF low, high, n
    <3>2. Settled => ~Overflows(addr + size * (m + 1 - 1))
      <4>1. m + 1 - 1 = m
        BY <2>3
      <4>2. addr \in Int /\ m \in Int /\ size \in Int /\ Len(vals) \in Int
        BY <1>3, <2>3, AddrSpaceAssumption DEF Word
      <4>3. size * (m + 1 - 1) = size * m /\ size * m \in Int /\ end \in Int
        BY <2>3, <4>1, <4>2
      <4> DEFINE start == addr + size * (m + 1 - 1)
      <4>4. start \in Int /\ start <= end
        BY <3>1, <4>2, <4>3
      <4> HIDE DEF end, start
      <4>5. ASSUME Settled, Overflows(start)
            PROVE  FALSE
        <5>1. start >= AddrSpace /\ program \in DebugPrograms
          BY <4>5 DEF Overflows
        <5>2. Overflows(end)
          BY <4>3, <4>4, <5>1, AddrSpaceAssumption DEF Overflows
        <5>3. QED
          BY <2>6, <4>5, <5>2
      <4>6. QED
        BY <4>5 DEF start
    <3>3. Failure(vals[m + 1], label_addrs, addr) # "arithmetic"
      BY DEF Failure
    <3>4. (Settled => ValFailure(m + 1) # "arithmetic") /\ ValFailure(m + 1) # "assembling"
      BY <1>7, <3>2, <3>3
    <3>5. PICK why : Stop(why) /\ (Settled => why # "arithmetic") /\ why # "assembling"
      BY <2>9, <3>4
    <3>6. QED
      BY <2>1, <2>5, <3>5 DEF Stops
  <2>10. QED
    BY <2>4, <2>7, <2>8, <2>9
<1>i. CASE EmitInstr
  <2> DEFINE at == AlignUp(addr)
  <2>1. program[pos].kind = "instr" /\ pass = 2 /\ pos \in DOMAIN program /\ status = "assembling"
    BY <1>i DEF EmitInstr, Working
  <2>2. Settled => ~InstrOverflows
    BY <2>1, InStepLemma DEF InstrOverflows
  <2>3. ASSUME NEW why, Fail(why), Settled => why # "arithmetic", why # "assembling"
        PROVE  Stops
    BY <1>3, <2>1, <2>3 DEF Stops, Fail
  <2>4. ASSUME NEW arg
        PROVE  ArgFailure(arg, label_addrs, at) \notin {"arithmetic", "assembling"}
    BY DEF ArgFailure, Failure
  <2>5. \/ \E why : Fail(why) /\ (why = "arithmetic" => InstrOverflows) /\ why # "assembling"
        \/ /\ Advance(at, Plus(at, 4)) /\ UNCHANGED label_addrs
           /\ \E bytes : DOMAIN bytes = 0 .. 3 /\ output' = Overwrite(at, bytes)
    <3> DEFINE args == program[pos].args
               failing == {k \in DOMAIN args : ArgFailure(args[k], label_addrs, at) # "none"}
               fields == [k \in DOMAIN args |-> Field(args[k], label_addrs, at)]
               bytes == [k \in 0 .. 3 |-> [item |-> pos, byte |-> k, fields |-> fields]]
    <3>1. \/ InstrOverflows /\ Fail("arithmetic")
          \/ Fail("unknown_instruction") \/ Fail("rejected") \/ Fail("write_failed")
          \/ \E k \in failing : Fail(ArgFailure(args[k], label_addrs, at))
          \/ output' = Overwrite(at, bytes) /\ Advance(at, Plus(at, 4)) /\ UNCHANGED label_addrs
      BY <1>i DEF EmitInstr
    <3>2. DOMAIN bytes = 0 .. 3
      OBVIOUS
    <3>3. QED
      BY <2>4, <3>1, <3>2
  <2>6. CASE \E why : Fail(why) /\ (why = "arithmetic" => InstrOverflows) /\ why # "assembling"
    BY <2>2, <2>3, <2>6
  <2>7. CASE /\ Advance(at, Plus(at, 4)) /\ UNCHANGED label_addrs
             /\ \E bytes : DOMAIN bytes = 0 .. 3 /\ output' = Overwrite(at, bytes)
    <3>1. PICK bytes : DOMAIN bytes = 0 .. 3 /\ output' = Overwrite(at, bytes)
      BY <2>7
    <3>2. DOMAIN output' \subseteq Word
      BY <1>3, <1>5, <3>1, OverwriteLemma
    <3>3. Moves2(at, Plus(at, 4))
      BY <2>1, <2>7, <3>2 DEF Moves2, Follows
    <3>4. QED
      BY <1>5, <3>3
  <2>8. QED
    BY <2>5, <2>6, <2>7
<1>j. CASE Finish
  BY <1>4, <1>j DEF Finish
<1>k. QED
  BY <1>a, <1>b, <1>c, <1>d, <1>e, <1>f, <1>g, <1>h, <1>i, <1>j DEF Next, Ended

-----------------------------------------------------------------------------
(* The invariant.                                                          *)

LEMMA InitLemma == Init => LayoutInv
<1> SUFFICES ASSUME Init PROVE LayoutInv
  OBVIOUS
<1>1. Len(program) \in Nat /\ DOMAIN program = 1 .. Len(program)
  BY ProgramsAssumption DEF Init
<1>2. TypeOK
  BY <1>1, AddrSpaceAssumption DEF Init, TypeOK, Word
<1>3. \A p \in DOMAIN program : placed[1][p] = Unset /\ placed[2][p] = Unset
  BY DEF Init
<1>4. Layout
  BY <1>1, <1>3 DEF Init, Layout, Visited, NamesKnown, RunsTogether, Labelled, Arrival
<1>5. PassesAgree /\ LayoutFailsEarly
  BY <1>3 DEF Init, PassesAgree, LayoutFailsEarly
<1>6. QED
  BY <1>2, <1>4, <1>5 DEF LayoutInv

\* The layout depends on nothing else.
LEMMA UnchangedLemma ==
    ASSUME UNCHANGED <<program, pass, pos, addr, label_addrs, placed>>, Layout
    PROVE  Layout'
<1>1. \A p : Arrival(p)' = Arrival(p)
  BY DEF Arrival
<1>2. \A p : AlignedFor(p)' <=> AlignedFor(p)
  BY DEF AlignedFor, FollowedByInstr
<1>3. \A p : Determined(p)' <=> Determined(p)
  BY <1>1, <1>2 DEF Determined, Overflows
<1>4. Arrival(pos)' = Arrival(pos)
  BY <1>1
<1>5. InStep' <=> InStep
  BY <1>2, <1>4 DEF InStep, Overflows
<1>6. QED
  BY <1>3, <1>4, <1>5 DEF Layout, Visited, NamesKnown, Defines, DefinedOnce, Labelled, RunsTogether

\* The end of the process leaves the layout as it is.
LEMMA StopsLemma ==
    ASSUME LayoutInv, Stops
    PROVE  LayoutInv'
<1>1. TypeOK'
  BY DEF Stops, Stop, LayoutInv, TypeOK
<1>2. UNCHANGED <<program, pass, pos, addr, label_addrs, placed>>
  BY DEF Stops, Stop
<1>3. Settled' <=> Settled
  BY <1>2 DEF Settled, DefinedOnce, Defines
<1>4. Layout => Layout'
  BY <1>2, UnchangedLemma
<1>5. PassesAgree'
  BY <1>2, <1>3 DEF LayoutInv, PassesAgree
<1>6. LayoutFailsEarly'
  BY <1>2, <1>3 DEF Stops, Stop, LayoutFailsEarly
<1>7. QED
  BY <1>1, <1>3, <1>4, <1>5, <1>6 DEF LayoutInv

\* What a step learns of names and items does not change what was determined
\* before.
LEMMA DeterminedStable ==
    ASSUME TypeOK, TypeOK', program' = program, Settled,
           \A n \in Names : DefinedOnce(n) /\ label_addrs[n] # Unset => label_addrs'[n] = label_addrs[n],
           NEW p \in DOMAIN program,
           p > 1 => Determined(p - 1) /\ placed'[1][p - 1] = placed[1][p - 1]
    PROVE  /\ Arrival(p)' = Arrival(p)
           /\ Determined(p) /\ placed'[1][p] = placed[1][p] => Determined(p)'
<1>1. /\ Len(program) \in Nat /\ DOMAIN program = 1 .. Len(program)
      /\ \A q \in DOMAIN program : IsItem(program[q])
  BY ProgramLemma
<1>2. /\ label_addrs \in [Names -> Word \cup {Unset}]
      /\ label_addrs' \in [Names -> Word \cup {Unset}]
  BY DEF TypeOK
<1>3. ASSUME NEW q \in DOMAIN program, program[q].kind = "addr", Determined(q)
      PROVE  LET e == program[q].expr
                 at == placed[1][q]
             IN  /\ Failure(e, label_addrs', at) = "none"
                 /\ Value(e, label_addrs', at) = Value(e, label_addrs, at)
  <2>1. IsExpr(program[q].expr)
    BY <1>1, <1>3 DEF IsItem
  <2>2. Failure(program[q].expr, label_addrs, placed[1][q]) = "none"
    BY <1>3 DEF Determined
  <2>3. NamesIn(program[q].expr) \subseteq Names
    BY <2>1 DEF NamesIn, IsExpr, IsPrimary
  <2>4. \A n \in NamesIn(program[q].expr) : DefinedOnce(n)
    BY <1>3 DEF Settled
  <2>5. QED
    BY <1>2, <2>1, <2>2, <2>3, <2>4, StableLemma
<1>4. Arrival(p)' = Arrival(p)
  <2>1. CASE p = 1
    BY <2>1 DEF Arrival
  <2>2. CASE p # 1
    <3>1. p > 1 /\ p - 1 \in DOMAIN program
      BY <1>1, <2>2
    <3>2. program[p - 1].kind = "addr" =>
            LET e == program[p - 1].expr
                at == placed[1][p - 1]
            IN  Value(e, label_addrs', at) = Value(e, label_addrs, at)
      BY <1>3, <3>1
    <3>3. program[p - 1].kind \in {"label", "instr", "addr", "write", "def"}
      BY <1>1, <3>1 DEF IsItem
    <3>4. placed'[1][p - 1] = placed[1][p - 1]
      BY <3>1
    <3>5. QED
      BY <2>2, <3>2, <3>3, <3>4 DEF Arrival
  <2>3. QED
    BY <2>1, <2>2
<1>5. ASSUME Determined(p), placed'[1][p] = placed[1][p]
      PROVE  Determined(p)'
  <2>1. AlignedFor(p)' = AlignedFor(p)
    BY DEF AlignedFor, FollowedByInstr
  <2>2. QED
    BY <1>3, <1>4, <1>5, <2>1 DEF Determined, Overflows
<1>6. QED
  BY <1>4, <1>5

\* The second pass starts in step with the first.
LEMMA StartLemma ==
    ASSUME LayoutInv, StartsSecondPass
    PROVE  LayoutInv'
<1>1. Len(program) \in Nat /\ DOMAIN program = 1 .. Len(program)
  BY ProgramLemma DEF LayoutInv
<1>2. UNCHANGED <<program, label_addrs, placed, status>>
  BY DEF StartsSecondPass
<1>3. TypeOK'
  BY <1>1, AddrSpaceAssumption DEF StartsSecondPass, LayoutInv, TypeOK, Word
<1>4. Settled' <=> Settled
  BY <1>2 DEF Settled, DefinedOnce, Defines
<1>5. ASSUME Layout PROVE Layout'
  <2>1. pos \in Nat /\ pos > Len(program)
    BY <1>1 DEF StartsSecondPass, LayoutInv, TypeOK
  <2>2. \A p \in DOMAIN program : p < pos /\ ~(p < 1)
    BY <1>1, <2>1
  <2>3. Visited'
    BY <1>2, <1>5, <2>2 DEF StartsSecondPass, Layout, Visited
  <2>4. \A p : Arrival(p)' = Arrival(p)
    BY <1>2 DEF Arrival
  <2>5. \A p : Determined(p)' <=> Determined(p)
    BY <1>2, <2>4 DEF Determined, AlignedFor, FollowedByInstr, Overflows
  <2>6. InStep'
    BY DEF StartsSecondPass, InStep, Arrival
  <2>7. QED
    BY <1>2, <1>5, <2>3, <2>5, <2>6 DEF StartsSecondPass, Layout, NamesKnown, Defines, DefinedOnce, Labelled, RunsTogether
<1>6. PassesAgree'
  BY <1>2, <1>4 DEF LayoutInv, PassesAgree
<1>7. LayoutFailsEarly'
  BY <1>2 DEF StartsSecondPass, LayoutFailsEarly
<1>8. QED
  BY <1>3, <1>4, <1>5, <1>6, <1>7 DEF LayoutInv

\* What the moves of both passes have in common.
LEMMA MoveLemma ==
    ASSUME LayoutInv, NEW at \in Word, NEW to \in Word, Moves1(at, to) \/ Moves2(at, to)
    PROVE  /\ TypeOK' /\ LayoutFailsEarly' /\ (Settled' <=> Settled)
           /\ placed'[pass][pos] = at
           /\ \A q \in {1, 2}, p \in DOMAIN program :
                 <<q, p>> # <<pass, pos>> => placed'[q][p] = placed[q][p]
<1>1. /\ Len(program) \in Nat /\ DOMAIN program = 1 .. Len(program)
      /\ \A p \in DOMAIN program : IsItem(program[p])
  BY ProgramLemma DEF LayoutInv
<1>2. TypeOK
  BY DEF LayoutInv
<1>3. pos \in DOMAIN program /\ status = "assembling" /\ Advance(at, to)
  BY DEF Moves1, Moves2
<1>4. label_addrs' \in [Names -> Word \cup {Unset}]
  BY <1>1, <1>2 DEF TypeOK, Moves1, Moves2, IsItem
<1>5. DOMAIN output' \subseteq Word
  BY <1>2 DEF TypeOK, Moves1, Moves2
<1>6. placed' \in [{1, 2} -> [DOMAIN program -> Word \cup {Unset}]]
  BY <1>2, <1>3 DEF TypeOK, Advance
<1>7. TypeOK'
  BY <1>1, <1>2, <1>3, <1>4, <1>5, <1>6 DEF TypeOK, Advance
<1>8. LayoutFailsEarly'
  BY <1>3 DEF Advance, LayoutFailsEarly
<1>9. Settled' <=> Settled
  BY <1>3 DEF Advance, Settled, DefinedOnce, Defines
<1>10. /\ placed'[pass][pos] = at
       /\ \A q \in {1, 2}, p \in DOMAIN program :
             <<q, p>> # <<pass, pos>> => placed'[q][p] = placed[q][p]
  BY <1>2, <1>3 DEF TypeOK, Advance
<1>11. QED
  BY <1>7, <1>8, <1>9, <1>10

\* In the first pass a name with one definition gets its value from that item.
LEMMA NamesLemma ==
    ASSUME LayoutInv, Settled, NEW at \in Word, NEW to \in Word, Moves1(at, to)
    PROVE  /\ \A n \in Names : DefinedOnce(n) /\ label_addrs[n] # Unset => label_addrs'[n] = label_addrs[n]
           /\ program[pos].kind = "label" => label_addrs'[program[pos].name] = at
           /\ NamesKnown'
<1>1. /\ Len(program) \in Nat /\ DOMAIN program = 1 .. Len(program)
      /\ \A p \in DOMAIN program : IsItem(program[p])
  BY ProgramLemma DEF LayoutInv
<1>2. TypeOK /\ NamesKnown
  BY DEF LayoutInv, Layout
<1>3. /\ pos \in DOMAIN program /\ pass = 1 /\ program' = program /\ pos' = pos + 1
  BY DEF Moves1, Advance
<1>4. CASE program[pos].kind \in {"label", "def"}
  <2> DEFINE name == program[pos].name
  <2>1. name \in Names
    BY <1>1, <1>3, <1>4 DEF IsItem
  <2>2. DefinedOnce(name) => \A p \in DOMAIN program : p < pos => ~Defines(p, name)
    BY <1>1, <1>3, <1>4, <2>1 DEF DefinedOnce, Defines
  <2>3. DefinedOnce(name) => label_addrs[name] = Unset
    BY <1>2, <1>3, <2>1, <2>2 DEF NamesKnown
  <2>4. PICK v \in Word :
          /\ label_addrs' = [label_addrs EXCEPT ![name] = v]
          /\ program[pos].kind = "label" => v = at
    BY <1>4 DEF Moves1
  <2>5. \A n \in Names : n # name => label_addrs'[n] = label_addrs[n]
    BY <1>2, <2>4 DEF TypeOK
  <2>6. label_addrs'[name] = v
    BY <1>2, <2>1, <2>4 DEF TypeOK
  <2>7. Defines(pos, name)
    BY <1>4 DEF Defines
  <2>8. NamesKnown'
    <3> SUFFICES ASSUME NEW n \in Names, label_addrs'[n] # Unset
                 PROVE  \E p \in DOMAIN program : p < pos + 1 /\ Defines(p, n)
      BY <1>3 DEF NamesKnown, Defines
    <3>1. CASE n = name
      BY <1>1, <1>3, <2>7, <3>1
    <3>2. CASE n # name
      <4>1. PICK p \in DOMAIN program : p < pos /\ Defines(p, n)
        BY <1>2, <1>3, <2>5, <3>2 DEF NamesKnown
      <4>2. QED
        BY <1>1, <1>3, <4>1
    <3>3. QED
      BY <3>1, <3>2
  <2>9. QED
    BY <2>3, <2>4, <2>5, <2>6, <2>8
<1>5. CASE program[pos].kind \notin {"label", "def"}
  <2>1. label_addrs' = label_addrs
    BY <1>5 DEF Moves1
  <2>2. \A n \in Names, p \in DOMAIN program : Defines(p, n)' <=> Defines(p, n)
    BY <1>3 DEF Defines
  <2>3. NamesKnown'
    <3> SUFFICES ASSUME NEW n \in Names, label_addrs[n] # Unset
                 PROVE  \E p \in DOMAIN program : p < pos + 1 /\ Defines(p, n)
      BY <1>3, <2>1, <2>2 DEF NamesKnown
    <3>1. PICK p \in DOMAIN program : p < pos /\ Defines(p, n)
      BY <1>2, <1>3 DEF NamesKnown
    <3>2. QED
      BY <1>1, <1>3, <3>1
  <2>4. QED
    BY <1>5, <2>1, <2>3
<1>6. QED
  BY <1>4, <1>5

\* The first pass arrives at words.
LEMMA ArrivalLemma ==
    ASSUME TypeOK, NEW p \in DOMAIN program,
           p > 1 => placed[1][p - 1] # Unset /\ Determined(p - 1)
    PROVE  Arrival(p) \in Word
<1>1. /\ Len(program) \in Nat /\ DOMAIN program = 1 .. Len(program)
      /\ \A q \in DOMAIN program : IsItem(program[q])
  BY ProgramLemma
<1>2. 0 \in Word /\ 4 \in Word
  BY AddrSpaceAssumption DEF Word
<1>3. CASE p = 1
  BY <1>2, <1>3 DEF Arrival
<1>4. CASE p # 1
  <2> DEFINE i == program[p - 1]
             at == placed[1][p - 1]
  <2>1. p > 1 /\ p - 1 \in DOMAIN program
    BY <1>1, <1>4
  <2>2. IsItem(i) /\ at \in Word
    BY <1>1, <2>1 DEF TypeOK
  <2>3. i.kind = "instr" => Plus(at, 4) \in Word
    BY <1>2, <2>2, PlusLemma
  <2>4. i.kind = "write" => Wrap(at + i.size * Len(i.vals)) \in Word
    <3> SUFFICES ASSUME i.kind = "write" PROVE at + i.size * Len(i.vals) \in Int
      BY WrapLemma
    <3>1. i.size \in {1, 2, 4, 8} /\ Len(i.vals) \in Nat
      BY <2>2 DEF IsItem
    <3>2. at \in Int /\ i.size \in Int /\ Len(i.vals) \in Int
      BY <2>2, <3>1, AddrSpaceAssumption DEF Word
    <3>3. QED
      BY <3>2
  <2>5. i.kind = "addr" => Value(i.expr, label_addrs, at) \in Word
    <3> SUFFICES ASSUME i.kind = "addr" PROVE Value(i.expr, label_addrs, at) \in Word
      OBVIOUS
    <3>1. IsExpr(i.expr)
      BY <2>2 DEF IsItem
    <3>2. Failure(i.expr, label_addrs, at) = "none"
      BY <2>1 DEF Determined
    <3>3. QED
      BY <2>2, <3>1, <3>2, ValueLemma DEF TypeOK
  <2>6. i.kind \in {"label", "instr", "addr", "write", "def"}
    BY <2>2 DEF IsItem
  <2>7. QED
    BY <1>4, <2>2, <2>3, <2>4, <2>5, <2>6 DEF Arrival
<1>5. QED
  BY <1>3, <1>4

\* The last label of a run is aligned if the item behind it is.
LEMMA AlignedRunLemma ==
    ASSUME TypeOK, NEW p \in DOMAIN program, AlignedFor(p),
           p - 1 \in DOMAIN program, program[p - 1].kind = "label"
    PROVE  AlignedFor(p - 1)
<1>1. Len(program) \in Nat /\ DOMAIN program = 1 .. Len(program)
  BY ProgramLemma
<1>2. FollowedByInstr(p)
  <2>1. CASE program[p].kind = "instr"
    BY <1>1, <2>1 DEF FollowedByInstr
  <2>2. CASE program[p].kind = "label" /\ FollowedByInstr(p + 1)
    BY <1>1, <2>2 DEF FollowedByInstr
  <2>3. QED
    BY <2>1, <2>2 DEF AlignedFor
<1>3. p - 1 + 1 = p
  BY <1>1
<1>4. QED
  BY <1>2, <1>3 DEF AlignedFor

\* A move of the first pass keeps the layout.
LEMMA FirstPassLemma ==
    ASSUME LayoutInv, Settled, NEW at \in Word, NEW to \in Word, Moves1(at, to)
    PROVE  Layout'
<1>1. /\ Len(program) \in Nat /\ DOMAIN program = 1 .. Len(program)
      /\ \A p \in DOMAIN program : IsItem(program[p])
  BY ProgramLemma DEF LayoutInv
<1>2. TypeOK /\ Layout /\ TypeOK'
  BY MoveLemma DEF LayoutInv
<1>3. /\ pos \in DOMAIN program /\ pos \in Nat /\ pass = 1 /\ addr = Arrival(pos)
      /\ program' = program /\ pos' = pos + 1 /\ pass' = 1 /\ addr' = to
  BY <1>1, <1>2 DEF Moves1, Advance, Layout
<1>4. /\ placed'[1][pos] = at
      /\ \A p \in DOMAIN program : p # pos => placed'[1][p] = placed[1][p]
      /\ \A p \in DOMAIN program : placed'[2][p] = placed[2][p]
  BY <1>3, MoveLemma
<1>5. at # Unset
  BY AddrSpaceAssumption DEF Unset, Word
<1>6. Visited'
  BY <1>1, <1>2, <1>3, <1>4, <1>5 DEF Layout, Visited
<1>7. \A p \in DOMAIN program : p < pos => Determined(p) /\ placed[1][p] # Unset
  BY <1>2, <1>3 DEF Layout, Visited
<1>8. ASSUME NEW p \in DOMAIN program, p <= pos, p > 1
      PROVE  Determined(p - 1) /\ placed'[1][p - 1] = placed[1][p - 1]
  BY <1>1, <1>3, <1>4, <1>7, <1>8
<1>9. ASSUME NEW p \in DOMAIN program, p <= pos
      PROVE  /\ Arrival(p)' = Arrival(p)
             /\ p # pos => Determined(p)'
  <2>1. p # pos => p < pos
    BY <1>1, <1>3, <1>9
  <2>2. QED
    BY <1>2, <1>3, <1>4, <1>7, <1>8, <1>9, <2>1, NamesLemma, DeterminedStable
<1>10. PICK here \in DOMAIN program : here = pos
  BY <1>3
<1>11. Arrival(here)' = addr
  BY <1>3, <1>9, <1>10
<1>12. Determined(here)'
  <2>1. AlignedFor(here)' = AlignedFor(here)
    BY <1>3 DEF AlignedFor, FollowedByInstr
  <2>2. IF AlignedFor(here) THEN at = AlignUp(addr) /\ ~Overflows(addr + 3) ELSE at = addr
    BY <1>10 DEF Moves1
  <2>3. /\ program[here].kind = "instr" => ~Overflows(at + 4)
        /\ program[here].kind = "write" =>
              ~Overflows(at + program[here].size * Len(program[here].vals))
    BY <1>10 DEF Moves1
  <2>4. program[here].kind = "addr" => Failure(program[here].expr, label_addrs', at) = "none"
    BY <1>10 DEF Moves1
  <2>5. QED
    BY <1>3, <1>4, <1>10, <1>11, <2>1, <2>2, <2>3, <2>4 DEF Determined, Overflows
<1>13. \A p \in DOMAIN program : placed'[1][p] # Unset => Determined(p)'
  BY <1>1, <1>2, <1>3, <1>4, <1>9, <1>10, <1>12 DEF Layout, Visited
<1>14. addr' = Arrival(pos)'
  <2>1. program[here].kind \in {"label", "instr", "addr", "write", "def"}
    BY <1>1 DEF IsItem
  <2>2. /\ program[here].kind = "instr" => to = Plus(at, 4)
        /\ program[here].kind = "write" => to = Wrap(at + program[here].size * Len(program[here].vals))
        /\ program[here].kind = "addr" => to = Value(program[here].expr, label_addrs', at)
        /\ program[here].kind \in {"label", "def"} => to = at
    BY <1>10 DEF Moves1, Follows
  <2>3. pos' # 1 /\ pos' - 1 = here
    BY <1>1, <1>3, <1>10
  <2>4. program'[here] = program[here] /\ placed'[1][here] = at
    BY <1>3, <1>4, <1>10
  <2>5. QED
    BY <1>3, <2>1, <2>2, <2>3, <2>4 DEF Arrival
<1>15. RunsTogether'
  <2> SUFFICES ASSUME NEW p \in DOMAIN program, NEW q \in DOMAIN program,
                      p < q, placed'[1][q] # Unset,
                      \A r \in p .. q - 1 : program[r].kind = "label"
               PROVE  placed'[1][p] = placed'[1][q]
    BY <1>3 DEF RunsTogether
  <2>1. CASE q # pos
    <3>1. q < pos
      BY <1>2, <1>3, <1>4, <2>1 DEF Layout, Visited
    <3>2. placed[1][p] = placed[1][q]
      BY <1>2, <1>4, <2>1 DEF Layout, RunsTogether
    <3>3. QED
      BY <1>1, <1>4, <2>1, <3>1, <3>2
  <2>2. CASE q = pos
    <3>1. q - 1 \in DOMAIN program /\ q - 1 < pos /\ program[q - 1].kind = "label"
      BY <1>1, <2>2
    <3>2. Determined(q - 1) /\ placed[1][q - 1] # Unset
      BY <1>7, <3>1
    <3>3. placed[1][p] = placed[1][q - 1]
      <4>1. CASE p = q - 1
        BY <4>1
      <4>2. CASE p # q - 1
        <5>1. p < q - 1 /\ \A r \in p .. (q - 1) - 1 : program[r].kind = "label"
          BY <1>1, <4>2
        <5>2. QED
          BY <1>2, <3>1, <3>2, <5>1 DEF Layout, RunsTogether
      <4>3. QED
        BY <4>1, <4>2
    <3>4. addr = placed[1][q - 1]
      BY <1>1, <1>3, <2>2, <3>1 DEF Arrival
    <3>5. at = placed[1][q - 1]
      <4>1. CASE AlignedFor(q)
        <5>1. AlignedFor(q - 1)
          BY <1>2, <3>1, <4>1, AlignedRunLemma
        <5>2. \A r \in DOMAIN program : r < pos /\ r > 1 => r - 1 \in DOMAIN program /\ r - 1 < pos
          BY <1>1, <1>3
        <5>3. Arrival(q - 1) \in Word
          BY <1>2, <1>7, <3>1, <5>2, ArrivalLemma
        <5>4. addr = AlignUp(Arrival(q - 1))
          BY <3>2, <3>4, <5>1 DEF Determined
        <5>5. at = AlignUp(addr)
          BY <2>2, <4>1 DEF Moves1
        <5>6. QED
          BY <3>4, <5>3, <5>4, <5>5, AlignUpLemma
      <4>2. CASE ~AlignedFor(q)
        BY <2>2, <3>4, <4>2 DEF Moves1
      <4>3. QED
        BY <4>1, <4>2
    <3>6. QED
      BY <1>1, <1>4, <2>2, <3>3, <3>5
  <2>3. QED
    BY <2>1, <2>2
<1>16. Labelled'
  <2> SUFFICES ASSUME NEW p \in DOMAIN program, program[p].kind = "label",
                      DefinedOnce(program[p].name), placed'[1][p] # Unset
               PROVE  label_addrs'[program[p].name] = placed'[1][p]
    BY <1>3 DEF Labelled, DefinedOnce, Defines
  <2>1. program[p].name \in Names
    BY <1>1 DEF IsItem
  <2>2. CASE p = pos
    BY <1>4, <2>2, NamesLemma
  <2>3. CASE p # pos
    <3>1. placed[1][p] = placed'[1][p] /\ placed[1][p] # Unset
      BY <1>4, <2>3
    <3>2. label_addrs[program[p].name] = placed[1][p] /\ placed[1][p] \in Word
      BY <1>2, <3>1 DEF Layout, Labelled, TypeOK
    <3>3. label_addrs[program[p].name] # Unset
      BY <3>1, <3>2
    <3>4. QED
      BY <2>1, <3>1, <3>2, <3>3, NamesLemma
  <2>4. QED
    BY <2>2, <2>3
<1>17. QED
  BY <1>3, <1>6, <1>13, <1>14, <1>15, <1>16, NamesLemma DEF Layout

\* A move of the second pass keeps the layout, and puts the item where the
\* first pass did.
LEMMA SecondPassLemma ==
    ASSUME LayoutInv, Settled, NEW at \in Word, NEW to \in Word, Moves2(at, to)
    PROVE  Layout' /\ PassesAgree'
<1>1. /\ Len(program) \in Nat /\ DOMAIN program = 1 .. Len(program)
      /\ \A p \in DOMAIN program : IsItem(program[p])
  BY ProgramLemma DEF LayoutInv
<1>2. TypeOK /\ Layout
  BY DEF LayoutInv
<1>3. /\ pos \in DOMAIN program /\ pos \in Nat /\ pass = 2
      /\ program' = program /\ pos' = pos + 1 /\ pass' = 2 /\ addr' = to
      /\ label_addrs' = label_addrs
  BY <1>1 DEF Moves2, Advance
<1>4. /\ placed'[2][pos] = at
      /\ \A p \in DOMAIN program : p # pos => placed'[2][p] = placed[2][p]
      /\ \A p \in DOMAIN program : placed'[1][p] = placed[1][p]
  BY <1>3, MoveLemma
<1>5. at # Unset
  BY AddrSpaceAssumption DEF Unset, Word
<1>6. Visited'
  BY <1>1, <1>2, <1>3, <1>4, <1>5 DEF Layout, Visited
<1>7. \A p \in DOMAIN program : AlignedFor(p)' <=> AlignedFor(p)
  BY <1>3 DEF AlignedFor, FollowedByInstr
<1>8. \A p \in DOMAIN program : Determined(p)
  BY <1>2, <1>3 DEF Layout, Visited
<1>9. \A p \in DOMAIN program : Arrival(p)' = Arrival(p)
  <2> SUFFICES ASSUME NEW p \in DOMAIN program PROVE Arrival(p)' = Arrival(p)
    OBVIOUS
  <2>1. CASE p = 1
    BY <2>1 DEF Arrival
  <2>2. CASE p # 1
    <3>1. p - 1 \in DOMAIN program
      BY <1>1, <2>2
    <3>2. program[p - 1].kind \in {"label", "instr", "addr", "write", "def"}
      BY <1>1, <3>1 DEF IsItem
    <3>3. placed'[1][p - 1] = placed[1][p - 1]
      BY <1>4, <3>1
    <3>4. QED
      BY <1>3, <2>2, <3>2, <3>3 DEF Arrival
  <2>3. QED
    BY <2>1, <2>2
<1>10. \A p \in DOMAIN program : Determined(p)'
  BY <1>3, <1>4, <1>7, <1>8, <1>9 DEF Determined, Overflows
<1>11. RunsTogether'
  BY <1>2, <1>3, <1>4, <1>5 DEF Layout, Visited, RunsTogether
<1>12. program[pos].kind # "label" => placed[1][pos] = at
  BY <1>3, InStepLemma DEF Moves2
<1>13. InStep'
  <2> DEFINE next == Arrival(pos)'
  <2>1. pos' # 1 /\ pos' - 1 = pos
    BY <1>1, <1>3
  <2>2. CASE program[pos].kind # "label"
    <3>1. Arrival(pos)' = to
      <4>1. program[pos].kind \in {"instr", "addr", "write", "def"}
        BY <1>1, <1>3, <2>2 DEF IsItem
      <4>2. QED
        BY <1>3, <1>4, <1>12, <2>1, <2>2, <4>1 DEF Arrival, Moves2, Follows
    <3>2. QED
      BY <1>3, <3>1 DEF InStep
  <2>3. CASE program[pos].kind = "label"
    <3>1. Arrival(pos)' = placed[1][pos]
      BY <1>3, <1>4, <2>1, <2>3 DEF Arrival
    <3>2. to = addr /\ addr \in Word
      BY <1>2, <2>3 DEF Moves2, Follows, TypeOK
    <3>3. Determined(pos) /\ InStep
      BY <1>2, <1>3, <1>8 DEF Layout
    <3>4. CASE AlignedFor(pos)
      <4>1. placed[1][pos] = AlignUp(addr) /\ ~Overflows(addr + 3)
        BY <3>2, <3>3, <3>4, AlignUpLemma DEF Determined, InStep
      <4>2. pos + 1 \in DOMAIN program /\ AlignedFor(pos + 1)
        BY <1>2, <1>3, <2>3, <3>4, FollowedLemma DEF AlignedFor
      <4>3. (AlignedFor(pos))'
        BY <1>3, <1>7, <4>2
      <4>4. QED
        BY <1>3, <3>1, <3>2, <4>1, <4>2, <4>3 DEF InStep, Overflows
    <3>5. CASE ~AlignedFor(pos)
      BY <1>3, <3>1, <3>2, <3>3, <3>5 DEF Determined, InStep
    <3>6. QED
      BY <3>4, <3>5
  <2>4. QED
    BY <2>2, <2>3
<1>14. Layout'
  BY <1>2, <1>3, <1>4, <1>6, <1>10, <1>11, <1>13 DEF Layout, NamesKnown, Labelled, DefinedOnce, Defines
<1>15. PassesAgree'
  BY <1>3, <1>4, <1>12 DEF PassesAgree, LayoutInv
<1>16. QED
  BY <1>14, <1>15

\* Every step keeps the invariant of the layout.
LEMMA LayoutInductive == LayoutInv /\ [Next]_vars => LayoutInv'
<1> SUFFICES ASSUME LayoutInv, [Next]_vars PROVE LayoutInv'
  OBVIOUS
<1>1. CASE UNCHANGED vars
  <2>1. TypeOK' /\ PassesAgree' /\ LayoutFailsEarly' /\ (Settled' <=> Settled)
    BY <1>1 DEF LayoutInv, vars, TypeOK, PassesAgree, LayoutFailsEarly, Settled, DefinedOnce, Defines
  <2>2. Layout => Layout'
    BY <1>1, UnchangedLemma DEF vars
  <2>3. QED
    BY <2>1, <2>2 DEF LayoutInv
<1>2. CASE Stops
  BY <1>2, StopsLemma
<1>3. CASE StartsSecondPass
  BY <1>3, StartLemma
<1>4. ASSUME NEW at \in Word, NEW to \in Word, Moves1(at, to)
      PROVE  LayoutInv'
  <2>1. TypeOK' /\ LayoutFailsEarly' /\ (Settled' <=> Settled)
    BY <1>4, MoveLemma
  <2>2. Settled => Layout'
    BY <1>4, FirstPassLemma
  <2>3. PassesAgree'
    <3>1. /\ pass = 1 /\ program' = program
          /\ \A p \in DOMAIN program : placed'[2][p] = placed[2][p]
      BY <1>4, MoveLemma DEF Moves1, Advance
    <3>2. Settled => \A p \in DOMAIN program : placed[2][p] = Unset
      BY <3>1 DEF LayoutInv, Layout, Visited
    <3>3. QED
      BY <2>1, <3>1, <3>2 DEF PassesAgree
  <2>4. QED
    BY <2>1, <2>2, <2>3 DEF LayoutInv
<1>5. ASSUME NEW at \in Word, NEW to \in Word, Moves2(at, to)
      PROVE  LayoutInv'
  <2>1. TypeOK' /\ LayoutFailsEarly' /\ (Settled' <=> Settled)
    BY <1>5, MoveLemma
  <2>2. Settled => Layout' /\ PassesAgree'
    BY <1>5, SecondPassLemma
  <2>3. ~Settled => PassesAgree'
    BY <2>1 DEF PassesAgree
  <2>4. QED
    BY <2>1, <2>2, <2>3 DEF LayoutInv
<1>6. QED
  BY <1>1, <1>2, <1>3, <1>4, <1>5, StepKinds

-----------------------------------------------------------------------------
(* The file.                                                               *)

\* The bytes of the item in turn: n of them, the first at at.
Bytes(bytes, n) ==
    /\ DOMAIN bytes = 0 .. n - 1
    /\ \A k \in 0 .. n - 1 : bytes[k].item = pos /\ bytes[k].byte = k

LEMMA BytesDomainLemma ==
    ASSUME NEW bytes, NEW n, Bytes(bytes, n)
    PROVE  DOMAIN bytes \subseteq Int
<1>1. DOMAIN bytes = 0 .. n - 1
  BY DEF Bytes
<1>2. QED
  BY <1>1

\* A step that writes nothing: the process ends, or the first pass, or the
\* second one at an item without bytes, moves on.
WritesNothing ==
    /\ output' = output
    /\ \/ UNCHANGED vars
       \/ /\ UNCHANGED <<program, pass, pos, label_addrs, placed>> /\ status = "assembling"
          /\ status' = "done" => pass = 2 /\ pos \notin DOMAIN program
       \/ /\ pass = 1 /\ program' = program /\ pass' = 1
          /\ status = "assembling" /\ status' = status
       \/ StartsSecondPass
       \/ \E at, to \in Word :
             /\ Moves2(at, to) /\ UNCHANGED status
             /\ program[pos].kind \in {"label", "def", "addr"}

\* A .write that writes all its bytes or fails, and an instruction.
WritesData ==
    /\ pass = 2 /\ pos \in DOMAIN program /\ program[pos].kind = "write"
    /\ \E n \in 0 .. Extent(program[pos]) : \E bytes :
          /\ Bytes(bytes, n) /\ output' = Overwrite(addr, bytes)
          /\ \/ \E why : Stop(why) /\ why \notin {"assembling", "done"}
             \/ /\ n = Extent(program[pos])
                /\ \E to \in Word : Moves2(addr, to) /\ UNCHANGED status

WritesInstr ==
    /\ pass = 2 /\ pos \in DOMAIN program /\ program[pos].kind = "instr"
    /\ \E bytes :
          /\ Bytes(bytes, 4) /\ output' = Overwrite(AlignUp(addr), bytes)
          /\ \E to \in Word : Moves2(AlignUp(addr), to) /\ UNCHANGED status
          /\ \A k \in DOMAIN program[pos].args :
                LET arg == program[pos].args[k]
                IN  /\ ArgFailure(arg, label_addrs, AlignUp(addr)) = "none"
                    /\ bytes[0].fields[k] = Field(arg, label_addrs, AlignUp(addr))

\* A failure is not the end of the program.
LEMMA FailureLemma ==
    ASSUME NEW e, NEW names, NEW here
    PROVE  Failure(e, names, here) \in {"none", "unknown_label", "division", "remainder"}
BY DEF Failure

\* A step of the assembler writes nothing, data, or an instruction.
LEMMA WriteKinds ==
    ASSUME LayoutInv, Next
    PROVE  WritesNothing \/ WritesData \/ WritesInstr
<1> USE ProgramLemma
<1>1. TypeOK
  BY DEF LayoutInv
<1>2. pos \in DOMAIN program => IsItem(program[pos])
  BY <1>1
<1>3. addr \in Word /\ DOMAIN output \subseteq Word /\ label_addrs \in [Names -> Word \cup {Unset}]
  BY <1>1 DEF TypeOK
<1>4. ASSUME NEW why, Fail(why), status = "assembling",
             why # "done" \/ (pass = 2 /\ pos \notin DOMAIN program)
      PROVE  WritesNothing
  BY <1>4 DEF Fail, Stop, WritesNothing
<1>5. AlignUp(addr) \in Word /\ Plus(AlignUp(addr), 4) \in Word
  <2>1. 4 \in Word
    BY AddrSpaceAssumption DEF Word
  <2>2. QED
    BY <1>3, <2>1, AlignUpLemma, PlusLemma
<1>a. CASE AssignLabel
  BY <1>4, <1>a DEF AssignLabel, Working, Advance, WritesNothing
<1>b. CASE MeasureInstr
  BY <1>4, <1>b DEF MeasureInstr, Working, Advance, WritesNothing
<1>c. CASE MeasureWrite
  BY <1>4, <1>c DEF MeasureWrite, Working, Advance, WritesNothing
<1>d. CASE Define
  <2> DEFINE failure == Failure(program[pos].expr, label_addrs, addr)
  <2>1. failure # "done"
    BY FailureLemma
  <2>2. /\ pass = 1 /\ status = "assembling"
        /\ Fail(failure) \/ (UNCHANGED output /\ Advance(addr, addr))
    BY <1>d DEF Define, Working
  <2>3. QED
    BY <1>4, <2>1, <2>2 DEF Advance, WritesNothing
<1>e. CASE SetAddress
  <2> DEFINE e == program[pos].expr
             failure == Failure(e, label_addrs, addr)
             to == Value(e, label_addrs, addr)
  <2>1. failure # "done"
    BY FailureLemma
  <2>2. program[pos].kind = "addr" /\ pass \in {1, 2} /\ pos \in DOMAIN program /\ status = "assembling"
    BY <1>e DEF SetAddress, Working
  <2>3. \/ Fail(failure)
        \/ failure = "none" /\ UNCHANGED <<label_addrs, output>> /\ Advance(addr, to)
    BY <1>e DEF SetAddress
  <2>4. CASE failure = "none" /\ UNCHANGED <<label_addrs, output>> /\ Advance(addr, to)
    <3>1. to \in Word
      <4>1. IsExpr(e)
        BY <1>2, <2>2 DEF IsItem
      <4>2. QED
        BY <1>3, <2>4, <4>1, ValueLemma
    <3> HIDE DEF to
    <3>2. CASE pass = 1
      BY <2>2, <2>4, <3>2 DEF Advance, WritesNothing
    <3>3. CASE pass = 2
      <4>1. Moves2(addr, to)
        BY <1>3, <2>2, <2>4, <3>3 DEF Moves2, Follows, to
      <4>2. QED
        BY <1>3, <2>2, <2>4, <3>1, <4>1 DEF Advance, WritesNothing
    <3>4. QED
      BY <2>2, <3>2, <3>3
  <2>5. QED
    BY <1>4, <2>1, <2>2, <2>3, <2>4
<1>f. CASE StartSecondPass
  BY <1>4, <1>f DEF StartSecondPass, StartsSecondPass, WritesNothing
<1>g. CASE Skip
  <2>1. /\ program[pos].kind \in {"label", "def"}
        /\ pass = 2 /\ pos \in DOMAIN program /\ status = "assembling"
    BY <1>g DEF Skip, Working
  <2>2. Moves2(addr, addr) /\ UNCHANGED status /\ output' = output
    BY <1>3, <1>g, <2>1 DEF Skip, Moves2, Follows, Advance
  <2>3. QED
    BY <1>3, <2>1, <2>2 DEF WritesNothing
<1>h. CASE WriteData
  <2> DEFINE vals == program[pos].vals
             size == program[pos].size
             end == addr + size * Len(vals)
             ValFailure(k) ==
                 IF Failure(vals[k], label_addrs, addr) # "none"
                 THEN Failure(vals[k], label_addrs, addr)
                 ELSE IF Overflows(addr + size * (k - 1)) THEN "arithmetic" ELSE "none"
             Field1(v) == Value(v, label_addrs, addr) % program[pos].span
             Data(n) ==
                 [k \in 0 .. n - 1 |->
                     [item |-> pos, byte |-> k, fields |-> <<Field1(vals[k \div size + 1])>>]]
  <2>1. program[pos].kind = "write" /\ pass = 2 /\ pos \in DOMAIN program /\ status = "assembling"
    BY <1>h DEF WriteData, Working
  <2>2. size \in {1, 2, 4, 8} /\ Len(vals) \in Nat
    BY <1>2, <2>1 DEF IsItem
  <2>3. PICK m \in 0 .. Len(vals) :
          /\ output' = Overwrite(addr, Data(size * m))
          /\ \/ Stop("arithmetic")
             \/ /\ m = Len(vals) /\ Advance(addr, Wrap(end)) /\ UNCHANGED label_addrs
             \/ Stop(IF ValFailure(m + 1) # "none" THEN ValFailure(m + 1) ELSE "write_failed")
    BY <1>h DEF WriteData
  <2> DEFINE n == size * m
             bytes == Data(n)
  <2>4. Extent(program[pos]) = size * Len(vals)
    BY <2>1 DEF Extent
  <2>5. n \in 0 .. Extent(program[pos]) /\ (m = Len(vals) => n = Extent(program[pos]))
    <3> DEFINE len == Len(vals)
    <3>1. size * m \in Nat /\ size * m <= size * len
      <4>1. len \in Nat /\ m \in Nat /\ m <= len
        BY <2>2
      <4> HIDE DEF len
      <4>2. QED
        BY <2>2, <4>1
    <3>2. QED
      BY <2>2, <2>4, <3>1
  <2>6. Bytes(bytes, n)
    BY DEF Bytes
  <2>7. ValFailure(m + 1) \in {"none", "unknown_label", "division", "remainder", "arithmetic"}
    BY FailureLemma
  <2>8. ASSUME m = Len(vals), Advance(addr, Wrap(end)), UNCHANGED label_addrs
        PROVE  \E to \in Word : Moves2(addr, to) /\ UNCHANGED status
    <3>1. end \in Int
      <4> DEFINE len == Len(vals)
      <4>1. addr \in Int
        BY <1>3, AddrSpaceAssumption DEF Word
      <4>2. len \in Int
        BY <2>2
      <4> HIDE DEF len
      <4>3. addr + size * len \in Int
        BY <2>2, <4>1, <4>2
      <4>4. QED
        BY <4>3 DEF len
    <3>2. Wrap(end) \in Word
      BY <3>1, WrapLemma
    <3>3. DOMAIN output' \subseteq Word
      <4>1. DOMAIN bytes \subseteq Int
        BY <2>6, BytesDomainLemma, Zenon
      <4> HIDE DEF n, bytes
      <4>2. DOMAIN Overwrite(addr, bytes) \subseteq Word
        BY <1>3, <4>1, OverwriteLemma, Zenon
      <4>3. output' = Overwrite(addr, bytes)
        BY <2>3, Zenon DEF n, bytes
      <4>4. QED
        BY <4>2, <4>3, Zenon
    <3>4. Moves2(addr, Wrap(end)) /\ UNCHANGED status
      BY <2>1, <2>8, <3>3 DEF Moves2, Follows, Advance
    <3>5. QED
      BY <3>2, <3>4
  <2>9. \/ \E why : Stop(why) /\ why \notin {"assembling", "done"}
        \/ /\ n = Extent(program[pos])
           /\ \E to \in Word : Moves2(addr, to) /\ UNCHANGED status
    <3>1. CASE Stop(IF ValFailure(m + 1) # "none" THEN ValFailure(m + 1) ELSE "write_failed")
      <4> DEFINE why == IF ValFailure(m + 1) # "none" THEN ValFailure(m + 1) ELSE "write_failed"
      <4>1. why \notin {"assembling", "done"}
        BY <2>7
      <4> HIDE DEF why
      <4>2. Stop(why)
        BY <3>1, Zenon DEF why
      <4>3. QED
        BY <4>1, <4>2, Zenon
    <3>2. CASE m = Len(vals) /\ Advance(addr, Wrap(end)) /\ UNCHANGED label_addrs
      BY <2>5, <2>8, <3>2, Zenon
    <3>3. CASE Stop("arithmetic")
      BY <3>3
    <3>4. QED
      BY <2>3, <3>1, <3>2, <3>3, Zenon
  <2>10. output' = Overwrite(addr, bytes)
    BY <2>3
  <2> HIDE DEF n, bytes
  <2>11. WritesData
    BY <2>1, <2>5, <2>6, <2>9, <2>10 DEF WritesData
  <2>12. QED
    BY <2>11
<1>i. CASE EmitInstr
  <2> DEFINE at == AlignUp(addr)
             args == program[pos].args
             failing == {k \in DOMAIN args : ArgFailure(args[k], label_addrs, at) # "none"}
             fields == [k \in DOMAIN args |-> Field(args[k], label_addrs, at)]
             bytes == [k \in 0 .. 3 |-> [item |-> pos, byte |-> k, fields |-> fields]]
  <2>1. program[pos].kind = "instr" /\ pass = 2 /\ pos \in DOMAIN program /\ status = "assembling"
    BY <1>i DEF EmitInstr, Working
  <2>2. \/ Fail("arithmetic") \/ Fail("unknown_instruction") \/ Fail("rejected") \/ Fail("write_failed")
        \/ \E k \in failing : Fail(ArgFailure(args[k], label_addrs, at))
        \/ /\ failing = {} /\ output' = Overwrite(at, bytes)
           /\ Advance(at, Plus(at, 4)) /\ UNCHANGED label_addrs
    BY <1>i DEF EmitInstr
  <2>3. \A k \in failing : ArgFailure(args[k], label_addrs, at) # "done"
    BY FailureLemma DEF ArgFailure
  <2>4. CASE /\ failing = {} /\ output' = Overwrite(at, bytes)
             /\ Advance(at, Plus(at, 4)) /\ UNCHANGED label_addrs
    <3>1. Bytes(bytes, 4)
      BY DEF Bytes
    <3>2. DOMAIN output' \subseteq Word
      BY <1>3, <1>5, <2>4, <3>1, OverwriteLemma DEF Bytes
    <3>3. Moves2(at, Plus(at, 4)) /\ UNCHANGED status
      BY <2>1, <2>4, <3>2 DEF Moves2, Follows, Advance
    <3>4. \A k \in DOMAIN args :
            /\ ArgFailure(args[k], label_addrs, at) = "none"
            /\ bytes[0].fields[k] = Field(args[k], label_addrs, at)
      BY <2>4
    <3>5. output' = Overwrite(at, bytes) /\ Plus(at, 4) \in Word
      BY <1>5, <2>4
    <3> HIDE DEF bytes
    <3>6. WritesInstr
      BY <2>1, <3>1, <3>3, <3>4, <3>5 DEF WritesInstr
    <3>7. QED
      BY <3>6
  <2>5. QED
    BY <1>4, <2>1, <2>2, <2>3, <2>4
<1>j. CASE Finish
  BY <1>4, <1>j DEF Finish
<1>k. CASE Ended
  BY <1>k DEF Ended, vars, WritesNothing
<1>l. QED
  BY <1>a, <1>b, <1>c, <1>d, <1>e, <1>f, <1>g, <1>h, <1>i, <1>j, <1>k DEF Next

\* The addresses of an item's bytes differ.
LEMMA ApartLemma ==
    ASSUME NEW at \in Word, NEW n \in 0 .. AddrSpace,
           NEW i \in 0 .. n - 1, NEW j \in 0 .. n - 1, Wrap(at + i) = Wrap(at + j)
    PROVE  i = j
<1> DEFINE W == AddrSpace
           x == at + i
           y == at + j
<1>1. W \in Nat /\ W > 0 /\ x \in Int /\ y \in Int /\ -W <= x /\ x < W + W /\ -W <= y /\ y < W + W
  BY AddrSpaceAssumption DEF Word
<1>2. /\ x % W = IF x < 0 THEN x + W ELSE IF x < W THEN x ELSE x - W
      /\ y % W = IF y < 0 THEN y + W ELSE IF y < W THEN y ELSE y - W
  <2> HIDE DEF W, x, y
  <2>1. QED
    BY <1>1, OnceLemma
<1>3. x % W = y % W
  BY DEF Wrap
<1>4. i < W /\ j < W /\ i >= 0 /\ j >= 0 /\ at \in Int /\ at >= 0 /\ x = at + i /\ y = at + j
  BY AddrSpaceAssumption DEF Word
<1> HIDE DEF W, x, y
<1>5. QED
  BY <1>1, <1>2, <1>3, <1>4

\* An item's bytes fit in the address space.
LEMMA ExtentLemma ==
    ASSUME TypeOK, NEW p \in DOMAIN program
    PROVE  Extent(program[p]) \in 0 .. AddrSpace
<1>1. IsItem(program[p])
  BY ProgramLemma
<1>2. CASE program[p].kind = "write"
  <2>1. /\ program[p].size \in {1, 2, 4, 8} /\ Len(program[p].vals) \in Nat
        /\ program[p].size * Len(program[p].vals) <= AddrSpace
    BY <1>1, <1>2 DEF IsItem
  <2>2. program[p].size * Len(program[p].vals) \in Nat
    BY <2>1
  <2>3. QED
    BY <1>2, <2>1, <2>2, AddrSpaceAssumption DEF Extent
<1>3. CASE program[p].kind # "write"
  BY <1>1, <1>3, AddrSpaceAssumption DEF Extent, IsItem
<1>4. QED
  BY <1>2, <1>3

\* The file has the n bytes of the item in turn from at on, and is otherwise
\* as it was.
Put(at, n) ==
    /\ DOMAIN output' = DOMAIN output \cup {Wrap(at + k) : k \in 0 .. n - 1}
    /\ \A k \in 0 .. n - 1 :
          output'[Wrap(at + k)].item = pos /\ output'[Wrap(at + k)].byte = k
    /\ \A a \in DOMAIN output :
          a \notin {Wrap(at + k) : k \in 0 .. n - 1} => output'[a] = output[a]

\* Bytes that fit are put where they belong.
LEMMA PutLemma ==
    ASSUME NEW at \in Word, NEW n \in 0 .. AddrSpace, NEW bytes,
           Bytes(bytes, n), output' = Overwrite(at, bytes)
    PROVE  /\ Put(at, n)
           /\ \A k \in 0 .. n - 1 : output'[Wrap(at + k)] = bytes[k]
<1> DEFINE covered == {Wrap(at + k) : k \in 0 .. n - 1}
           Index(a) == CHOOSE k \in 0 .. n - 1 : Wrap(at + k) = a
<1>1. DOMAIN bytes = 0 .. n - 1
  BY DEF Bytes
<1>2. output' = [a \in DOMAIN output \cup covered |-> IF a \in covered THEN bytes[Index(a)] ELSE output[a]]
  BY <1>1 DEF Overwrite
<1>3. ASSUME NEW k \in 0 .. n - 1
      PROVE  output'[Wrap(at + k)] = bytes[k]
  <2>1. Wrap(at + k) \in covered
    OBVIOUS
  <2>2. Index(Wrap(at + k)) \in 0 .. n - 1 /\ Wrap(at + Index(Wrap(at + k))) = Wrap(at + k)
    OBVIOUS
  <2>3. Index(Wrap(at + k)) = k
    BY <2>2, ApartLemma
  <2> HIDE DEF Index, covered
  <2>4. QED
    BY <1>2, <2>1, <2>3
<1>4. \A a \in DOMAIN output : a \notin covered => output'[a] = output[a]
  BY <1>2
<1>5. DOMAIN output' = DOMAIN output \cup covered
  BY <1>2
<1>6. \A k \in 0 .. n - 1 : bytes[k].item = pos /\ bytes[k].byte = k
  BY DEF Bytes
<1>7. QED
  BY <1>3, <1>4, <1>5, <1>6 DEF Put

\* Once all bytes of the item in turn are put where it is placed, the bytes
\* of all items so far are accounted for.
LEMMA AccountLemma ==
    ASSUME LayoutInv, ImageInv, NEW at \in Word, NEW to \in Word,
           Moves2(at, to), UNCHANGED status, Put(at, Extent(program[pos]))
    PROVE  Attributed' /\ Preserved'
<1> DEFINE n == Extent(program[pos])
           covered == {Wrap(at + k) : k \in 0 .. n - 1}
<1>1. /\ Len(program) \in Nat /\ DOMAIN program = 1 .. Len(program)
      /\ pos \in DOMAIN program /\ pos \in Nat /\ pass = 2 /\ status = "assembling"
      /\ program' = program /\ pos' = pos + 1 /\ pass' = 2
  BY ProgramLemma DEF LayoutInv, Moves2, Advance
<1>2. /\ placed'[2][pos] = at
      /\ \A p \in DOMAIN program : p # pos => placed'[2][p] = placed[2][p]
  BY <1>1, MoveLemma
<1>3. \A p : Extent(program[p])' = Extent(program[p])
  BY <1>1 DEF Extent
<1>4. /\ DOMAIN output' = DOMAIN output \cup covered
      /\ \A k \in 0 .. n - 1 :
            output'[Wrap(at + k)].item = pos /\ output'[Wrap(at + k)].byte = k
      /\ \A a \in DOMAIN output : a \notin covered => output'[a] = output[a]
  BY DEF Put
<1> HIDE DEF n
<1>5. \A a \in DOMAIN output : output[a].item \in DOMAIN program
  BY DEF ImageInv, Encoded
<1>6. ASSUME NEW a \in DOMAIN output'
      PROVE  LET o == output'[a]
             IN  /\ o.item < pos + 1
                 /\ o.byte \in 0 .. Extent(program[o.item]) - 1
                 /\ Wrap(placed'[2][o.item] + o.byte) = a
  <2>1. CASE a \in covered
    <3>1. PICK k \in 0 .. n - 1 : a = Wrap(at + k)
      BY <2>1
    <3>2. output'[a].item = pos /\ output'[a].byte = k
      BY <1>4, <3>1
    <3>3. QED
      BY <1>1, <1>2, <3>1, <3>2 DEF n
  <2>2. CASE a \notin covered
    <3>1. a \in DOMAIN output /\ output'[a] = output[a]
      BY <1>4, <2>2
    <3>2. /\ output[a].item < pos /\ output[a].item \in DOMAIN program
          /\ output[a].byte \in 0 .. Extent(program[output[a].item]) - 1
          /\ Wrap(placed[2][output[a].item] + output[a].byte) = a
      BY <1>1, <1>5, <3>1 DEF ImageInv, Attributed
    <3>3. output[a].item # pos /\ output[a].item < pos + 1
      BY <1>1, <3>2
    <3>4. QED
      BY <1>2, <3>1, <3>2, <3>3
  <2>3. QED
    BY <2>1, <2>2
<1>7. Attributed'
  BY <1>1, <1>3, <1>6 DEF Attributed
<1>8. ASSUME NEW p \in DOMAIN program, p < pos + 1, NEW b \in 0 .. Extent(program[p]) - 1
      PROVE  LET a == Wrap(placed'[2][p] + b)
             IN  /\ a \in DOMAIN output'
                 /\ \/ output'[a].item = p /\ output'[a].byte = b
                    \/ output'[a].item > p
  <2> DEFINE a == Wrap(placed'[2][p] + b)
  <2>1. CASE p = pos
    BY <1>2, <1>4, <2>1 DEF n
  <2>2. CASE p # pos
    <3>1. p < pos /\ a = Wrap(placed[2][p] + b)
      BY <1>1, <1>2, <1>8, <2>2
    <3>2. /\ a \in DOMAIN output
          /\ \/ output[a].item = p /\ output[a].byte = b
             \/ output[a].item > p
      BY <1>1, <3>1 DEF ImageInv, Preserved
    <3> HIDE DEF a
    <3>3. CASE a \in covered
      <4>1. a \in DOMAIN output' /\ output'[a].item = pos
        BY <1>4, <3>3
      <4>2. QED
        BY <1>1, <3>1, <4>1 DEF a
    <3>4. CASE a \notin covered
      BY <1>4, <3>2, <3>4 DEF a
    <3>5. QED
      BY <3>3, <3>4
  <2>3. QED
    BY <2>1, <2>2
<1>9. Preserved'
  BY <1>1, <1>3, <1>8 DEF Preserved
<1>10. QED
  BY <1>7, <1>9

\* So do the operands in the file: those of other items are as they were.
LEMMA OperandsLemma ==
    ASSUME LayoutInv, ImageInv, NEW at, NEW n, Put(at, n),
           pass = 2, pass' = 2, pos \in DOMAIN program, program' = program, label_addrs' = label_addrs,
           program[pos].kind # "instr"
    PROVE  Encoded'
<1> DEFINE covered == {Wrap(at + k) : k \in 0 .. n - 1}
<1> SUFFICES ASSUME NEW a \in DOMAIN output'
             PROVE  LET o == output'[a]
                    IN  /\ o.item \in DOMAIN program
                        /\ (program[o.item].kind = "instr" /\ o.byte = 0) =>
                              /\ Aligned(a)
                              /\ \A k \in DOMAIN program[o.item].args :
                                    LET arg == program[o.item].args[k]
                                    IN  /\ ArgFailure(arg, label_addrs, a) = "none"
                                        /\ o.fields[k] = Field(arg, label_addrs, a)
  BY DEF Encoded
<1>1. CASE a \in covered
  BY <1>1 DEF Put
<1>2. CASE a \notin covered
  <2>1. a \in DOMAIN output /\ output'[a] = output[a]
    BY <1>2 DEF Put
  <2>2. QED
    BY <2>1 DEF ImageInv, Encoded
<1>3. QED
  BY <1>1, <1>2

\* A file without bytes is one of the first pass.
LEMMA EmptyLemma ==
    ASSUME ImageInv, pass = 1
    PROVE  DOMAIN output = {}
<1> SUFFICES ASSUME NEW a \in DOMAIN output PROVE FALSE
  OBVIOUS
<1>1. QED
  BY DEF ImageInv, Encoded

\* Every step keeps the invariant of the file.
LEMMA ImageInductive == LayoutInv /\ ImageInv /\ [Next]_vars => ImageInv'
<1> SUFFICES ASSUME LayoutInv, ImageInv, [Next]_vars PROVE ImageInv'
  OBVIOUS
<1>1. CASE UNCHANGED vars
  <2>1. Attributed' /\ Preserved'
    BY <1>1 DEF vars, ImageInv, Attributed, Preserved, Extent
  <2>2. Encoded'
    BY <1>1 DEF vars, ImageInv, Encoded
  <2>3. QED
    BY <1>1, <2>1, <2>2 DEF vars, ImageInv
<1>2. CASE WritesNothing
  <2>1. CASE /\ UNCHANGED <<program, pass, pos, label_addrs, placed>> /\ status = "assembling"
             /\ status' = "done" => pass = 2 /\ pos \notin DOMAIN program
    <3>1. output' = output
      BY <1>2 DEF WritesNothing
    <3>2. Attributed' /\ Preserved'
      BY <2>1, <3>1 DEF ImageInv, Attributed, Preserved, Extent
    <3>3. Encoded'
      BY <2>1, <3>1 DEF ImageInv, Encoded
    <3>4. QED
      BY <2>1, <3>2, <3>3 DEF ImageInv
  <2>2. CASE pass = 1 /\ program' = program /\ pass' = 1 /\ status = "assembling" /\ status' = status
    BY <1>2, <2>2, EmptyLemma DEF WritesNothing, ImageInv, Attributed, Preserved, Encoded
  <2>3. CASE StartsSecondPass
    <3>1. DOMAIN output' = {} /\ pos' = 1 /\ program' = program /\ status' = "assembling"
      BY <2>3, EmptyLemma DEF StartsSecondPass
    <3>2. \A p \in DOMAIN program : ~(p < 1)
      BY ProgramLemma DEF LayoutInv
    <3>3. QED
      BY <3>1, <3>2 DEF ImageInv, Attributed, Preserved, Encoded
  <2>4. ASSUME NEW at \in Word, NEW to \in Word, Moves2(at, to), UNCHANGED status,
               program[pos].kind \in {"label", "def", "addr"}
        PROVE  ImageInv'
    <3>1. Extent(program[pos]) = 0
      BY <2>4 DEF Extent
    <3>2. output' = output
      BY <1>2 DEF WritesNothing
    <3>3. Put(at, Extent(program[pos]))
      BY <3>1, <3>2 DEF Put
    <3>4. Attributed' /\ Preserved'
      BY <2>4, <3>3, AccountLemma
    <3>5. Encoded'
      BY <2>4, <3>3, OperandsLemma DEF Moves2, Advance
    <3>6. QED
      BY <2>4, <3>4, <3>5 DEF Moves2, ImageInv
  <2>5. QED
    BY <1>1, <1>2, <2>1, <2>2, <2>3, <2>4 DEF WritesNothing
<1>3. CASE WritesData
  <2>1. TypeOK /\ addr \in Word
    BY DEF LayoutInv, TypeOK
  <2>2. pass = 2 /\ pos \in DOMAIN program /\ program[pos].kind = "write"
    BY <1>3 DEF WritesData
  <2>3. PICK n \in 0 .. Extent(program[pos]) :
          \E bytes :
             /\ Bytes(bytes, n) /\ output' = Overwrite(addr, bytes)
             /\ \/ \E why : Stop(why) /\ why \notin {"assembling", "done"}
                \/ /\ n = Extent(program[pos])
                   /\ \E to \in Word : Moves2(addr, to) /\ UNCHANGED status
    BY <1>3 DEF WritesData
  <2>4. PICK bytes :
          /\ Bytes(bytes, n) /\ output' = Overwrite(addr, bytes)
          /\ \/ \E why : Stop(why) /\ why \notin {"assembling", "done"}
             \/ /\ n = Extent(program[pos])
                /\ \E to \in Word : Moves2(addr, to) /\ UNCHANGED status
    BY <2>3
  <2>5. n \in 0 .. AddrSpace
    BY <2>1, <2>2, ExtentLemma, AddrSpaceAssumption
  <2>6. Put(addr, n)
    BY <2>1, <2>4, <2>5, PutLemma
  <2>7. ASSUME NEW why, Stop(why), why \notin {"assembling", "done"}
        PROVE  ImageInv'
    <3>1. Encoded'
      BY <2>2, <2>6, <2>7, OperandsLemma DEF Stop
    <3>2. QED
      BY <2>7, <3>1 DEF Stop, ImageInv, Attributed, Preserved
  <2>8. ASSUME n = Extent(program[pos]), NEW to \in Word, Moves2(addr, to), UNCHANGED status
        PROVE  ImageInv'
    <3>1. Attributed' /\ Preserved'
      BY <2>1, <2>6, <2>8, AccountLemma
    <3>2. Encoded'
      BY <2>2, <2>6, <2>8, OperandsLemma DEF Moves2, Advance
    <3>3. QED
      BY <2>8, <3>1, <3>2 DEF Moves2, ImageInv
  <2>9. QED
    BY <2>4, <2>7, <2>8
<1>4. CASE WritesInstr
  <2> DEFINE at == AlignUp(addr)
  <2>1. TypeOK /\ addr \in Word
    BY DEF LayoutInv, TypeOK
  <2>2. pass = 2 /\ pos \in DOMAIN program /\ program[pos].kind = "instr"
    BY <1>4 DEF WritesInstr
  <2>3. PICK bytes :
          /\ Bytes(bytes, 4) /\ output' = Overwrite(at, bytes)
          /\ \E to \in Word : Moves2(at, to) /\ UNCHANGED status
          /\ \A k \in DOMAIN program[pos].args :
                LET arg == program[pos].args[k]
                IN  /\ ArgFailure(arg, label_addrs, at) = "none"
                    /\ bytes[0].fields[k] = Field(arg, label_addrs, at)
    BY <1>4 DEF WritesInstr
  <2>4. Extent(program[pos]) = 4 /\ 4 \in 0 .. AddrSpace
    BY <2>2, AddrSpaceAssumption DEF Extent
  <2>5. at \in Word /\ Aligned(at) /\ Wrap(at + 0) = at
    BY <2>1, AddrSpaceAssumption DEF AlignUp, Plus, Word, Aligned, Wrap
  <2> HIDE DEF at
  <2>6. Put(at, 4) /\ \A k \in 0 .. 3 : output'[Wrap(at + k)] = bytes[k]
    BY <2>3, <2>4, <2>5, PutLemma
  <2>7. Attributed' /\ Preserved'
    BY <2>3, <2>4, <2>5, <2>6, AccountLemma
  <2>8. program' = program /\ label_addrs' = label_addrs /\ pass' = 2 /\ status' = "assembling"
    BY <2>2, <2>3 DEF Moves2, Advance
  <2>9. Encoded'
    <3> DEFINE covered == {Wrap(at + k) : k \in 0 .. 3}
    <3> SUFFICES ASSUME NEW a \in DOMAIN output'
                 PROVE  LET o == output'[a]
                        IN  /\ o.item \in DOMAIN program
                            /\ (program[o.item].kind = "instr" /\ o.byte = 0) =>
                                  /\ Aligned(a)
                                  /\ \A k \in DOMAIN program[o.item].args :
                                        LET arg == program[o.item].args[k]
                                        IN  /\ ArgFailure(arg, label_addrs, a) = "none"
                                            /\ o.fields[k] = Field(arg, label_addrs, a)
      BY <2>8 DEF Encoded
    <3>1. CASE a \in covered
      <4>1. PICK k \in 0 .. 3 : a = Wrap(at + k)
        BY <3>1
      <4>2. output'[a].item = pos /\ output'[a].byte = k /\ output'[a] = bytes[k]
        BY <2>6, <4>1 DEF Put
      <4>3. k = 0 => a = at
        BY <2>5, <4>1
      <4>4. QED
        BY <2>2, <2>3, <2>5, <4>2, <4>3
    <3>2. CASE a \notin covered
      <4>1. a \in DOMAIN output /\ output'[a] = output[a]
        BY <2>6, <3>2 DEF Put
      <4>2. QED
        BY <4>1 DEF ImageInv, Encoded
    <3>3. QED
      BY <3>1, <3>2
  <2>10. QED
    BY <2>7, <2>8, <2>9 DEF ImageInv
<1>5. QED
  BY <1>1, <1>2, <1>3, <1>4, WriteKinds

-----------------------------------------------------------------------------
(* Fields.                                                                 *)

\* A field counts a whole part of the address space, in bytes and in
\* instructions, and so does half of it.
LEMMA FieldSpanLemma ==
    ASSUME NEW s, IsFieldSpan(s)
    PROVE  /\ s \in Nat /\ s > 0
           /\ \E h \in Nat : s = h + h /\ s \div 2 = h /\ (4 * s) \div 2 = 4 * h
           /\ \E t \in Nat : AddrSpace = 4 * (s * t) /\ 4 * s <= AddrSpace
<1>1. s \in Nat /\ s > 0 /\ s % 2 = 0 /\ AddrSpace % (4 * s) = 0
  BY DEF IsFieldSpan
<1>2. \E h \in Nat : s = h + h /\ s \div 2 = h /\ (4 * s) \div 2 = 4 * h
  <2>1. s \div 2 \in Nat /\ s = s \div 2 + s \div 2 /\ (4 * s) \div 2 = 4 * (s \div 2)
    BY <1>1
  <2>2. QED
    BY <2>1
<1> DEFINE W == AddrSpace
           m == 4 * s
           t == W \div m
           r == W % m
<1>3. m \in Nat /\ m > 0 /\ m = 4 * s /\ W \in Int
  BY <1>1, AddrSpaceAssumption
<1>4. t \in Int /\ W = m * t + r
  <2> HIDE DEF m, W
  <2>1. QED
    BY <1>3, DivisionLemma
<1>5. r = 0
  BY <1>1
<1> HIDE DEF t, r, m, W
<1>6. W = 4 * (s * t)
  <2>1. (4 * s) * t = 4 * (s * t) /\ s * t \in Int
    BY <1>1, <1>4
  <2>2. QED
    BY <1>1, <1>3, <1>4, <1>5, <2>1
<1>7. t > 0
  <2>1. t <= 0 => s * t <= 0
    BY <1>1, <1>4
  <2>2. s * t \in Int
    BY <1>1, <1>4
  <2>3. QED
    BY <1>4, <1>6, <2>1, <2>2, AddrSpaceAssumption DEF W
<1>8. s * t >= s /\ s * t \in Int
  BY <1>1, <1>4, <1>7
<1>9. 4 * s <= W /\ t \in Nat
  BY <1>1, <1>4, <1>6, <1>7, <1>8
<1>10. QED
  BY <1>1, <1>2, <1>6, <1>9 DEF W

\* A field that was cut from a number close to zero extends to it.
LEMMA SignedLemma ==
    ASSUME NEW s, IsFieldSpan(s), NEW d \in Int, NEW c \in Int, Same(s, d, c),
           -(s \div 2) <= c, c < s \div 2
    PROVE  SignExtend(d % s, s) = IF c >= 0 THEN c ELSE AddrSpace + c
<1>1. s \in Nat /\ s > 0
  BY FieldSpanLemma
<1>2. PICK h \in Nat : s = h + h /\ s \div 2 = h
  BY FieldSpanLemma
<1>3. d % s = c % s
  BY <1>1, SameLemma
<1>4. -s <= c /\ c < s + s
  BY <1>1, <1>2
<1>5. c % s = IF c < 0 THEN c + s ELSE IF c < s THEN c ELSE c - s
  BY <1>1, <1>4, OnceLemma
<1>6. c % s = IF c < 0 THEN c + s ELSE c
  BY <1>1, <1>2, <1>5
<1>7. SignExtend(c % s, s) = IF c % s < h THEN c % s ELSE AddrSpace - s + (c % s)
  BY <1>2 DEF SignExtend
<1>8. QED
  BY <1>1, <1>2, <1>3, <1>6, <1>7, AddrSpaceAssumption

\* A distance in bytes that the field can hold.
LEMMA LoadReachesLemma ==
    ASSUME NEW s, IsFieldSpan(s), NEW end \in Word, NEW target \in Word, Reaches(end, target, s)
    PROVE  Plus(end, SignExtend(Minus(target, end) % s, s)) = target
<1> DEFINE W == AddrSpace
           d == Minus(target, end)
           c == IF d < s \div 2 THEN d ELSE d - W
<1>1. PICK h \in Nat : s = h + h /\ s \div 2 = h
  BY FieldSpanLemma
<1>2. PICK t \in Nat : W = 4 * (s * t) /\ 4 * s <= W
  BY FieldSpanLemma
<1>3. s \in Nat /\ s > 0 /\ W \in Nat
  BY FieldSpanLemma, AddrSpaceAssumption
<1>4. d \in Word /\ d \in Int /\ d >= 0 /\ d < W
  BY MinusLemma, AddrSpaceAssumption DEF Word
<1>5. c \in Int /\ -h <= c /\ c < h
  BY <1>1, <1>3, <1>4 DEF Reaches
<1>6. Same(s, d, c)
  <2>1. CASE c = d
    BY <1>3, <1>4, <2>1, RemainderLemma
  <2>2. CASE c = d - W
    <3>1. W = s * (4 * t) /\ 4 * t \in Int
      BY <1>2, <1>3
    <3> HIDE DEF W, d, c
    <3>2. d = c + s * (4 * t)
      BY <1>3, <1>4, <1>5, <2>2, <3>1
    <3>3. QED
      BY <3>1, <3>2 DEF Same
  <2>3. QED
    BY <2>1, <2>2
<1>7. SignExtend(d % s, s) = IF c >= 0 THEN c ELSE W + c
  <2> HIDE DEF d, c
  <2>1. QED
    BY <1>1, <1>4, <1>5, <1>6, SignedLemma
<1>8. (IF c >= 0 THEN c ELSE W + c) = d
  BY <1>1, <1>2, <1>3, <1>4, <1>5
<1>9. Plus(end, d) = target
  BY AddrSpaceAssumption DEF Plus, Minus, Word
<1>10. QED
  BY <1>7, <1>8, <1>9

\* A distance in instructions that the field can hold.
LEMMA JumpReachesLemma ==
    ASSUME NEW s, IsFieldSpan(s), NEW end \in Word, NEW target \in Word,
           Aligned(end), Aligned(target), Reaches(end, target, 4 * s)
    PROVE  Plus(end, Quad(SignExtend(Minus(target \div 4, end \div 4) % s, s))) = target
<1> DEFINE W == AddrSpace
           x == target \div 4
           y == end \div 4
           d == Minus(x, y)
           D == Minus(target, end)
<1>1. PICK h \in Nat : s = h + h /\ s \div 2 = h /\ (4 * s) \div 2 = 4 * h
  BY FieldSpanLemma
<1>2. PICK t \in Nat : W = 4 * (s * t) /\ 4 * s <= W
  BY FieldSpanLemma
<1> DEFINE U == s * t
<1>3. s \in Nat /\ s > 0 /\ W \in Nat /\ U \in Nat /\ W = 4 * U
  BY <1>2, FieldSpanLemma, AddrSpaceAssumption
<1>4. /\ x \in Nat /\ y \in Nat /\ target = 4 * x /\ end = 4 * y
      /\ target < W /\ end < W
  BY AddrSpaceAssumption DEF Aligned, Word
<1>5. d = IF x >= y THEN x - y ELSE x - y + W
  BY DEF Minus
<1>6. D = IF x >= y THEN 4 * (x - y) ELSE 4 * (x - y) + W
  <2> HIDE DEF x, y
  <2>1. QED
    BY <1>3, <1>4 DEF Minus
<1>7. D < 4 * h \/ D >= W - 4 * h
  BY <1>1 DEF Reaches
<1> HIDE DEF x, y, d, D, W, U
<1>8. PICK c \in Int :
        /\ -h <= c /\ c < h
        /\ d = c \/ d = c + U \/ d = c + 3 * U \/ d = c + 4 * U
        /\ D = IF c >= 0 THEN 4 * c ELSE W + 4 * c
  <2>1. CASE D < 4 * h
    <3>1. CASE x >= y
      <4>1. x - y \in Int /\ -h <= x - y /\ x - y < h /\ d = x - y /\ x - y >= 0 /\ D = 4 * (x - y)
        BY <1>1, <1>4, <1>5, <1>6, <2>1, <3>1
      <4>2. QED
        BY <4>1
    <3>2. CASE x < y
      <4> DEFINE g == x - y + U
      <4>1. /\ g \in Int /\ -h <= g /\ g < h /\ d = g + 3 * U
            /\ g >= 0 /\ D = 4 * g
        BY <1>1, <1>3, <1>4, <1>5, <1>6, <2>1, <3>2
      <4> HIDE DEF g
      <4>2. QED
        BY <4>1
    <3>3. QED
      BY <1>4, <3>1, <3>2
  <2>2. CASE D >= W - 4 * h /\ ~(D < 4 * h)
    <3>1. CASE x >= y
      <4> DEFINE g == x - y - U
      <4>1. /\ g \in Int /\ -h <= g /\ g < 0 /\ d = g + U /\ D = W + 4 * g
        BY <1>1, <1>3, <1>4, <1>5, <1>6, <2>2, <3>1
      <4> HIDE DEF g
      <4>2. QED
        BY <1>1, <4>1
    <3>2. CASE x < y
      <4> DEFINE g == x - y
      <4>1. /\ g \in Int /\ -h <= g /\ g < 0 /\ d = g + 4 * U /\ D = W + 4 * g
        BY <1>1, <1>3, <1>4, <1>5, <1>6, <2>2, <3>2
      <4> HIDE DEF g
      <4>2. QED
        BY <1>1, <4>1
    <3>3. QED
      BY <1>4, <3>1, <3>2
  <2>3. QED
    BY <1>7, <2>1, <2>2
<1>9. d \in Int
  BY <1>3, <1>4, <1>5
<1>10. Same(s, d, c)
  <2>1. /\ c = c + s * 0 /\ U = s * t /\ 3 * U = s * (3 * t) /\ 4 * U = s * (4 * t)
        /\ 0 \in Int /\ t \in Int /\ 3 * t \in Int /\ 4 * t \in Int
    BY <1>3 DEF U
  <2>2. d = c + s * 0 \/ d = c + s * t \/ d = c + s * (3 * t) \/ d = c + s * (4 * t)
    BY <1>8, <2>1
  <2>3. QED
    BY <2>1, <2>2 DEF Same
<1>11. SignExtend(d % s, s) = IF c >= 0 THEN c ELSE W + c
  BY <1>1, <1>8, <1>9, <1>10, SignedLemma DEF W
<1> DEFINE e == IF c >= 0 THEN c ELSE W + c
<1>12. Quad(e) = D
  <2>1. 8 * h <= W /\ h \in Nat
    BY <1>1, <1>2
  <2>2. CASE c >= 0
    <3>1. Plus(c, c) = c + c
      BY <1>3, <1>8, <2>1, <2>2 DEF Plus, W
    <3>2. Plus(c + c, c + c) = 4 * c
      BY <1>3, <1>8, <2>1, <2>2 DEF Plus, W
    <3>3. QED
      BY <1>8, <2>2, <3>1, <3>2 DEF Quad
  <2>3. CASE c < 0
    <3>1. Plus(W + c, W + c) = W + c + c
      BY <1>3, <1>8, <2>1, <2>3 DEF Plus, W
    <3>2. Plus(W + c + c, W + c + c) = W + 4 * c
      BY <1>3, <1>8, <2>1, <2>3 DEF Plus, W
    <3>3. e = W + c /\ D = W + 4 * c
      BY <1>8, <2>3
    <3>4. QED
      BY <3>1, <3>2, <3>3 DEF Quad
  <2>4. QED
    BY <1>8, <2>2, <2>3
<1>13. Plus(end, D) = target
  BY AddrSpaceAssumption DEF Plus, Minus, Word, D
<1>14. QED
  BY <1>11, <1>12, <1>13 DEF d, x, y

\* Every operand in the file takes the emulator where it says.
LEMMA LandsLemma ==
    ASSUME LayoutInv, ImageInv
    PROVE  BranchesLand
<1> SUFFICES ASSUME NEW at \in DOMAIN output, NEW p, p = output[at].item,
                    program[p].kind = "instr", output[at].byte = 0,
                    NEW k \in DOMAIN program[p].args
             PROVE  LET end == Plus(at, 4)
                        arg == program[p].args[k]
                        target == Value(arg.expr, label_addrs, at)
                        disp == SignExtend(output[at].fields[k], arg.span)
                    IN  /\ arg.form = "relative" /\ Reaches(end, target, 4 * arg.span)
                           => Plus(end, Quad(disp)) = target
                        /\ arg.form = "bytes" /\ Reaches(end, target, arg.span)
                           => Plus(end, disp) = target
  BY DEF BranchesLand
<1> DEFINE end == Plus(at, 4)
           arg == program[p].args[k]
           target == Value(arg.expr, label_addrs, at)
<1>1. /\ p \in DOMAIN program /\ Aligned(at)
      /\ ArgFailure(arg, label_addrs, at) = "none"
      /\ output[at].fields[k] = Field(arg, label_addrs, at)
  BY DEF ImageInv, Encoded
<1>2. at \in Word /\ label_addrs \in [Names -> Word \cup {Unset}] /\ IsItem(program[p])
  BY <1>1, ProgramLemma DEF LayoutInv, TypeOK
<1>3. IsFieldSpan(arg.span) /\ IsExpr(arg.expr)
  BY <1>2 DEF IsItem
<1>4. Failure(arg.expr, label_addrs, at) = "none"
  BY <1>1 DEF ArgFailure
<1>5. target \in Word
  BY <1>2, <1>3, <1>4, ValueLemma
<1>6. end \in Word /\ Aligned(end)
  <2>1. 4 \in Word /\ Aligned(4)
    BY AddrSpaceAssumption DEF Word, Aligned
  <2>2. QED
    BY <1>1, <1>2, <2>1, PlusLemma
<1>7. arg.form = "relative" => Aligned(target)
  BY <1>1, <1>4 DEF ArgFailure
<1>8. ASSUME arg.form = "relative", Reaches(end, target, 4 * arg.span)
      PROVE  Plus(end, Quad(SignExtend(output[at].fields[k], arg.span))) = target
  <2>1. output[at].fields[k] = Minus(target \div 4, end \div 4) % arg.span
    BY <1>1, <1>8 DEF Field
  <2> HIDE DEF target, end, arg
  <2>2. QED
    BY <1>3, <1>5, <1>6, <1>7, <1>8, <2>1, JumpReachesLemma
<1>9. ASSUME arg.form = "bytes", Reaches(end, target, arg.span)
      PROVE  Plus(end, SignExtend(output[at].fields[k], arg.span)) = target
  <2>1. output[at].fields[k] = Minus(target, end) % arg.span
    BY <1>1, <1>9 DEF Field
  <2> HIDE DEF target, end, arg
  <2>2. QED
    BY <1>3, <1>5, <1>6, <1>9, <2>1, LoadReachesLemma
<1>10. QED
  BY <1>8, <1>9

-----------------------------------------------------------------------------
(* Theorems.                                                               *)

\* The invariant of the layout holds in every state of the assembler,
LEMMA LayoutInvariance == Spec => []LayoutInv
<1>1. QED
  BY InitLemma, LayoutInductive, PTL DEF Spec

\* and so does the whole one.
THEOREM Invariance == Spec => []IInv
<1>1. Init => ImageInv
  BY DEF Init, ImageInv, Attributed, Preserved, Encoded
<1>2. QED
  BY <1>1, LayoutInvariance, ImageInductive, PTL DEF Spec, IInv

\* Addresses stay in the address space, and names have words for values.
THEOREM TypeCorrect == Spec => []TypeOK
<1>1. LayoutInv => TypeOK
  BY DEF LayoutInv
<1>2. QED
  BY LayoutInvariance, <1>1, PTL

\* The two passes agree on the address of every instruction and datum.
THEOREM Agreement == Spec => []PassesAgree
<1>1. LayoutInv => PassesAgree
  BY DEF LayoutInv
<1>2. QED
  BY LayoutInvariance, <1>1, PTL

\* A label that is not replaced is the address of what follows it.
THEOREM Labels == Spec => []LabelsPointAtItems
<1>1. LayoutInv => LabelsPointAtItems
  <2> SUFFICES ASSUME LayoutInv, Settled, NEW p \in DOMAIN program, NEW q \in DOMAIN program,
                      p < q, placed[2][q] # Unset, program[q].kind \in {"instr", "write"},
                      program[p].kind = "label" => DefinedOnce(program[p].name),
                      \A r \in p .. q - 1 : program[r].kind = "label"
               PROVE  label_addrs[program[p].name] = placed[2][q]
    BY DEF LabelsPointAtItems
  <2>1. Layout /\ PassesAgree /\ TypeOK
    BY DEF LayoutInv
  <2>2. Len(program) \in Nat /\ DOMAIN program = 1 .. Len(program)
    BY <2>1, ProgramLemma
  <2>3. placed[1][q] = placed[2][q] /\ placed[1][p] # Unset /\ placed[1][q] # Unset
    BY <2>1 DEF Layout, Visited, PassesAgree
  <2>4. program[p].kind = "label"
    BY <2>2
  <2>5. label_addrs[program[p].name] = placed[1][p]
    BY <2>1, <2>3, <2>4 DEF Layout, Labelled
  <2>6. placed[1][p] = placed[1][q]
    BY <2>1, <2>3 DEF Layout, RunsTogether
  <2>7. QED
    BY <2>3, <2>5, <2>6
<1>2. QED
  BY LayoutInvariance, <1>1, PTL

\* What can go wrong with the layout does so in the first pass.
THEOREM EarlyFailure == Spec => []LayoutFailsEarly
<1>1. LayoutInv => LayoutFailsEarly
  BY DEF LayoutInv
<1>2. QED
  BY LayoutInvariance, <1>1, PTL

\* How many steps are left at most: what the pass in turn has not visited, and
\* the whole of the other pass.
StepsLeft ==
    IF status # "assembling" THEN 0
    ELSE (IF pass = 1 THEN Len(program) + 1 ELSE 0) + (Len(program) + 2 - pos)

Nearer == {StepsLeft, StepsLeft'} \subseteq Nat /\ StepsLeft' < StepsLeft

\* Every step brings the end nearer: neither pass visits an item twice, and
\* main never starts over, so that a program of n items takes 2 n + 2 steps at most.
THEOREM Progress == Spec => [][Nearer]_vars
<1>1. ASSUME LayoutInv, [Next]_vars
      PROVE  [Nearer]_vars
  <2>1. /\ pass \in {1, 2} /\ Len(program) \in Nat /\ pos \in 1 .. Len(program) + 1
        /\ DOMAIN program = 1 .. Len(program)
    BY <1>1, ProgramLemma DEF LayoutInv, TypeOK
  <2>2. StepsLeft \in Nat /\ (status = "assembling" => StepsLeft > 0)
    <3> DEFINE n == Len(program)
    <3>1. n \in Nat /\ pos \in Nat /\ pos <= n + 1
      BY <2>1
    <3> HIDE DEF n
    <3>2. n + 2 - pos \in Nat /\ n + 2 - pos > 0 /\ n + 1 + (n + 2 - pos) \in Nat
          /\ n + 1 + (n + 2 - pos) > 0 /\ 0 + (n + 2 - pos) = n + 2 - pos
      BY <3>1
    <3>3. QED
      BY <2>1, <3>2 DEF StepsLeft, n
  <2>3. CASE Stops
    BY <2>2, <2>3 DEF Stops, Stop, StepsLeft, Nearer
  <2>4. CASE StartsSecondPass
    BY <2>1, <2>2, <2>4 DEF StartsSecondPass, StepsLeft, Nearer
  <2>5. ASSUME NEW at, NEW to, Moves1(at, to) \/ Moves2(at, to)
        PROVE  StepsLeft' \in Nat /\ StepsLeft' < StepsLeft
    <3>1. /\ status = "assembling" /\ pos \in DOMAIN program /\ pos' = pos + 1
          /\ UNCHANGED <<program, pass, status>>
      BY <2>5 DEF Moves1, Moves2, Advance
    <3>2. QED
      BY <2>1, <2>2, <3>1 DEF StepsLeft
  <2>6. QED
    BY <1>1, <2>2, <2>3, <2>4, <2>5, StepKinds DEF Nearer
<1>2. QED
  BY LayoutInvariance, <1>1, PTL DEF Spec

\* Branches and loads reach what their operands say.
THEOREM Branches == Spec => []BranchesLand
<1>1. IInv => BranchesLand
  BY LandsLemma DEF IInv
<1>2. QED
  BY Invariance, <1>1, PTL

\* A finished image has all bytes of all items, but for those that later items
\* are over, and no others.
THEOREM Completeness == Spec => []ImageComplete
<1>1. IInv => ImageComplete
  <2> SUFFICES ASSUME IInv, status = "done"
               PROVE  /\ \A p \in DOMAIN program : \A b \in 0 .. Extent(program[p]) - 1 :
                            LET a == Wrap(placed[2][p] + b)
                            IN  /\ a \in DOMAIN output
                                /\ \/ output[a].item = p /\ output[a].byte = b
                                   \/ output[a].item > p
                      /\ \A a \in DOMAIN output :
                            Wrap(placed[2][output[a].item] + output[a].byte) = a
    BY DEF ImageComplete
  <2>1. Attributed /\ Preserved /\ pass = 2 /\ pos \notin DOMAIN program
    BY DEF IInv, ImageInv
  <2>2. \A p \in DOMAIN program : p < pos
    BY <2>1, ProgramLemma DEF IInv, LayoutInv, TypeOK
  <2>3. QED
    BY <2>1, <2>2 DEF Attributed, Preserved
<1>2. QED
  BY Invariance, <1>1, PTL
=============================================================================
