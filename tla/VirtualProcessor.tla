--------------------------- MODULE VirtualProcessor ---------------------------
(***************************************************************************)
(* The processor a container believes it has: every instruction is one     *)
(* step, also those the kernel serves.  CPUID changes four registers, a    *)
(* call hands seven to the kernel and changes none, a port access does     *)
(* nothing, and a fault goes to the handler the container has bound.       *)
(***************************************************************************)
EXTENDS Integers

VARIABLES handler,          \* the address of its exception handler
          rip, regs, insn,  \* the next instruction
          called            \* what the last call handed to the kernel

(* It begins with whatever registers it is given.                          *)
Start == insn.op = "None" /\ UNCHANGED <<rip, regs, called>>

Jump == insn.op = "Jump" /\ rip' = insn.target /\ UNCHANGED called

Cpuid ==
    /\ insn.op = "CPUID"
    /\ rip' = rip + 2
    /\ regs' = [r \in DOMAIN regs |->
                  IF r \in {"RAX", "RBX", "RCX", "RDX"} THEN <<"cpuid", r>> ELSE regs[r]]
    /\ UNCHANGED called

Vmmcall ==
    /\ insn.op = "VMMCALL"
    /\ rip' = rip + 3
    /\ called' = <<regs["RAX"], regs["RDI"], regs["RSI"], regs["RDX"],
                   regs["R8"], regs["R9"], regs["R10"]>>
    /\ UNCHANGED regs

Port == insn.op = "Port" /\ rip' = rip + 1 /\ UNCHANGED <<regs, called>>

Access == insn.op = "Access" /\ rip' = rip + 1 /\ UNCHANGED <<regs, called>>

Fault ==
    /\ insn.op = "Access"
    /\ rip' = handler
    /\ regs' = [regs EXCEPT !["RDI"] = <<"fault", 14>>,
                            !["RSI"] = <<"fault", insn.kind>>,
                            !["RDX"] = <<"fault", insn.address>>]
    /\ UNCHANGED called

Next ==
    /\ Start \/ Jump \/ Cpuid \/ Vmmcall \/ Port \/ Access \/ Fault
    /\ UNCHANGED handler

Spec == [][Next]_<<handler, rip, regs, insn, called>>

=============================================================================
