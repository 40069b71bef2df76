-------------------------------- MODULE Traps --------------------------------
(***************************************************************************)
(* What the architecture promises a kernel about exceptions, with the      *)
(* instructions left out: a processor context, a saved context, and the    *)
(* address of a vector table.  It is the specification that the machine    *)
(* is shown to implement.                                                  *)
(***************************************************************************)
EXTENDS Integers

CONSTANTS Word, Flags, Advance(_, _)   \* Advance(a, n): n bytes after a

VARIABLES
    ctx,      \* what runs: [ip, flags, sp]
    saved,    \* what an exception return resumes: [ip, flags, sp]
    vectors   \* address of the exception vector table

tvars == <<ctx, saved, vectors>>

Context == [ip : Word, flags : Flags, sp : Word]
Privileged == ctx.flags.pl = 0

Init == ctx \in Context /\ saved \in Context /\ vectors \in Word

\* An instruction that completes.  It may set the condition bits, move the
\* stack pointer and go on anywhere, but it stays in its mode.
Run ==
    /\ ctx' \in Context
    /\ ctx'.flags.pl = ctx.flags.pl /\ ctx'.flags.exc = ctx.flags.exc
    /\ UNCHANGED <<saved, vectors>>

\* An exception saves the whole context, to be resumed at the instruction that
\* raised it or the next one, and enters a handler with full privilege and
\* exceptions masked, in or 4 bytes into the slot of its type and mode.
Trap ==
    /\ \E resume \in {0, 4} :
          saved' = [ctx EXCEPT !.ip = Advance(ctx.ip, resume)]
    /\ \E id \in 1 .. 6, skip \in {0, 4} :
          ctx'.ip = Advance(Advance(vectors, 256 * ctx.flags.pl + 32 * id), skip)
    /\ ctx' \in Context
    /\ ctx'.flags = [ctx.flags EXCEPT !.exc = FALSE, !.pl = 0]
    /\ UNCHANGED vectors

\* The saved context replaces the current one as a whole.
Return == Privileged /\ ctx' = saved /\ UNCHANGED <<saved, vectors>>

\* The kernel writes one of its registers: its own flags, a part of the saved
\* context, or the address of the vector table.
SetFlags ==
    /\ \E f \in Flags :
          ctx' = [ip |-> Advance(ctx.ip, 4), flags |-> f, sp |-> ctx.sp]
    /\ UNCHANGED <<saved, vectors>>

SetSaved ==
    /\ ctx' = [ctx EXCEPT !.ip = Advance(@, 4)]
    /\ saved' \in Context
    /\ \/ saved' = [saved EXCEPT !.ip = saved'.ip]
       \/ saved' = [saved EXCEPT !.sp = saved'.sp]
       \/ saved' = [saved EXCEPT !.flags = saved'.flags]
    /\ UNCHANGED vectors

SetVectors ==
    /\ ctx' = [ctx EXCEPT !.ip = Advance(@, 4)]
    /\ vectors' \in Word
    /\ UNCHANGED saved

Configure == Privileged /\ (SetFlags \/ SetSaved \/ SetVectors)

Next == Run \/ Trap \/ Return \/ Configure

Spec == Init /\ [][Next]_tvars

=============================================================================
