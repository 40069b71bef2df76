-------------------------------- MODULE MCAlu --------------------------------
(***************************************************************************)
(* A miniature of the register file for TLC: bytes of 2 bits, words of two *)
(* bytes, and instructions of every kind on two registers.                 *)
(***************************************************************************)
EXTENDS Alu

Reg(r) == [kind |-> "reg", reg |-> r]
Shifted(imm, factor, extend) ==
    [kind |-> "shifted", imm |-> imm, factor |-> factor, extend |-> extend]
Plain(n) == [kind |-> "plain", imm |-> n]

Switches == {TRUE, FALSE}

Sums(Seconds, ds, fs) ==
    [op : {"add", "sub"}, size : Sizes, d : ds, a : {"x"}, b : Seconds, carry : Switches, f : fs]
Products ==
    [op : {"mul"}, size : Sizes, dsize : Sizes, d : {"x"}, a : {"x"}, b : {Reg("y")},
     signed : Switches, f : {TRUE}]
Divisions ==
    [op : {"div"}, size : Sizes, d : {"x"}, rem : {"x", "y"}, a : {"x"}, b : {Reg("y")},
     signed : Switches, f : {TRUE}]
Unaries == [op : {"neg", "bswap"}, size : Sizes, d : {"x"}, a : {"y"}, f : {TRUE}]
Logics(Seconds) ==
    [op : {"and", "or", "xor"}, size : Sizes, d : {"x"}, a : {"x"}, b : Seconds, f : {TRUE}]
Shifts(Seconds) ==
    [op : {"shl", "rot"}, size : Sizes, d : {"x"}, a : {"x"}, b : Seconds, f : {TRUE}]
    \cup [op : {"shr"}, size : Sizes, d : {"x"}, a : {"x"}, b : Seconds, f : {TRUE},
          signed : Switches]
Comparisons ==
    [op : {"soc"}, size : Sizes, d : {"x"}, a : {"x"}, b : {Reg("y")},
     cond : {"c", "nz", "o", "ns", "nl"}, carry : Switches]
    \cup [op : {"sof"}, size : {1}, d : {"x"}, cond : {"nc", "z", "no", "s", "l"}]
Constants ==
    [op : {"ldi"}, d : {"x", "y"}, imm : 0 .. 3, shift : {0, 2}, clear : {0}]
    \cup [op : {"ldi"}, d : {"x"}, imm : {3}, shift : {1, 3}, clear : 0 .. 3]

MCInstrs ==
    Sums({Reg("y")}, {"x"}, {TRUE}) \cup Sums({Reg("x")}, {"null"}, Switches)
    \cup Sums({Shifted(3, 0, TRUE), Shifted(1, 1, FALSE), Shifted(2, 1, TRUE), Shifted(1, 2, TRUE)},
              {"x"}, {TRUE})
    \cup Products \cup Divisions \cup Unaries
    \cup Logics({Reg("y"), Shifted(2, 0, TRUE), Shifted(3, 2, FALSE)})
    \cup Shifts({Reg("y"), Plain(0), Plain(1), Plain(2), Plain(5)})
    \cup Comparisons \cup Constants
    \cup [op : {"copy"}, size : Sizes, d : {"x"}, a : {"y"}]

\* Those of the runs that confront the code with its manual.
ShiftInstrs == Constants \cup Shifts({Plain(1)})
MovedInstrs == Constants \cup Sums({Shifted(1, 1, FALSE)}, {"x"}, {TRUE})

=============================================================================
