--------------------------- MODULE MachineHistory ---------------------------
(***************************************************************************)
(* The machine with a history of the context its last exception            *)
(* interrupted, and of whether the handler has since replaced any of it.   *)
(***************************************************************************)
EXTENDS MachineTraps

VARIABLE interrupted

hvars == <<vars, interrupted>>

HInit ==
    Init /\ interrupted = [ip |-> 0, flags |-> NewFlags, sp |-> 0, kept |-> FALSE]

\* Where execution is to go on after the exception: at the instruction that
\* raised it, except that exc has been executed.
HNext ==
    /\ Next
    /\ interrupted' =
          IF trap' # NoTrap
          THEN [ip |-> IF trap' = User THEN Plus(ip, 4) ELSE ip,
                flags |-> flags, sp |-> regs[SP], kept |-> TRUE]
          ELSE [interrupted EXCEPT
                   !.kept = @ /\ UNCHANGED <<elr, esp, eflags>>]

HSpec == HInit /\ [][HNext]_hvars

\* However long the handler ran, and whatever it did to rsp, the flags and
\* the stack it was given, an eret resumes the interrupted program with the
\* instruction pointer, flags and stack pointer it had.
EretResumes ==
    [][((\E i \in Fetched : Eret(i)) /\ trap' = NoTrap /\ interrupted.kept) =>
          /\ ip' = interrupted.ip
          /\ flags' = interrupted.flags
          /\ regs'[SP] = interrupted.sp]_hvars

=============================================================================
