----------------------------- MODULE MCInterrupts -----------------------------
(***************************************************************************)
(* An instance of Interrupts for TLC.                                      *)
(***************************************************************************)
EXTENDS Interrupts

(* A fault, the non-maskable interrupt, faults with an error code that end *)
(* in a panic and one that does not, and a vector with no descriptor.      *)
MCVectors == {0, 2, 6, 8, 11, 13, 14, 17, 30, 33}

(* One of the kernel and one of a container.                               *)
MCContexts ==
    {[Registers |-> [r \in Registers |-> <<"context", r>>], RFLAGS |-> "IF",
      IP |-> [code |-> "kernel", vector |-> 0, n |-> 0], SP |-> 100, InKernel |-> k] :
        k \in BOOLEAN}

=============================================================================
