---------------------------- MODULE MachineTraps ----------------------------
(***************************************************************************)
(* The machine seen as the abstract processor of Traps.                    *)
(***************************************************************************)
EXTENDS Machine

Arch == INSTANCE Traps WITH
    Advance <- Plus,
    ctx <- [ip |-> ip, flags |-> flags, sp |-> regs[SP]],
    saved <- [ip |-> elr, flags |-> eflags, sp |-> esp],
    vectors <- evtable

\* Every behaviour of the emulator is one the abstract processor allows: an
\* instruction completes in its mode, saves all of the context, restores all
\* of it, or is a single privileged register write.
ImplementsTraps == Arch!Spec

=============================================================================
