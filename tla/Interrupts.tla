------------------------------ MODULE Interrupts ------------------------------
(***************************************************************************)
(* Exceptions taken by the kernel: the descriptors of                      *)
(* src/arch/x86/idt.cpp, the stubs of src/arch/x86/interrupts.asm executed *)
(* instruction by instruction on the kernel's stack, and InterruptHandler. *)
(*                                                                         *)
(* mem is the stack, a cell of eight bytes at each address; it grows down, *)
(* and a cell or a register holds a value with the kind of it.  at is the  *)
(* instruction the processor is at: one of the kernel, the n-th of the     *)
(* stub of a vector or of LoadSchedulerContext, or a panic, for good.      *)
(***************************************************************************)
EXTENDS Integers, Sequences, SequencesExt

CONSTANTS Vectors,          \* the vectors the processor raises
          NMI,              \* those it raises inside of a stub, too
          Tops,             \* where the kernel's stack pointer may be
          MaxDepth,         \* how many are pending at a time
          Contexts,         \* the scheduler contexts that may be loaded
          B                 \* 2^16, the size of a piece of an address

VARIABLES at, regs, rsp, flags, mem,
          pending           \* the interrupted contexts, the last one first

vars == <<at, regs, rsp, flags, mem, pending>>

(* What the processor pushes an error code for.                            *)
HasErrorCode == {8, 10, 11, 12, 13, 14, 17, 21, 29, 30}

-----------------------------------------------------------------------------

(* The vectors with isr_err_stub.                                          *)
ErrStubs == {8, 10, 11, 12, 13, 14, 17, 30}

PushOrder == <<"RDI", "RSI", "RAX", "RBX", "RCX", "RDX", "R8", "R9", "R10", "R11",
               "R12", "R13", "R14", "R15">>

(* Mutation: the last two registers are popped in the order of the pushes. *)
PopOrderSwapped == <<"R15", "R14", "R13", "R12", "R11", "R10", "R9", "R8",
                     "RDX", "RCX", "RBX", "RAX", "RDI", "RSI">>

PopOrder == <<"R15", "R14", "R13", "R12", "R11", "R10", "R9", "R8",
              "RDX", "RCX", "RBX", "RAX", "RSI", "RDI">>

Registers == ToSet(PushOrder)

(* The two places the kernel is at between its steps.                      *)
KernelPoints == [code : {"kernel"}, vector : {0}, n : {0, 1}]

(* Vectors 21 and 29, of two features nobody enables, push an error code   *)
(* and have the stub of those that do not.                                 *)
ASSUME VectorsAssumption == Vectors \cup NMI \subseteq (0 .. 255) \ {21, 29}

ASSUME ContextsAssumption ==
    \A context \in Contexts :
        /\ context.Registers = [r \in Registers |-> context.Registers[r]]
        /\ context.IP \in KernelPoints
        /\ context.SP \in Int

ASSUME AddressesAssumption == Tops \subseteq Int /\ B \in Nat \ {0}

(* Mutation: the stub of the alignment check, 17, pushes a zero for the    *)
(* error code the processor has pushed already.                            *)
StubWithZero(v) ==
    (IF v \in ErrStubs \ {17} THEN <<>> ELSE <<[op |-> "push", value |-> <<"number", 0>>]>>)
    \o <<[op |-> "push", value |-> <<"number", v>>]>>
    \o [k \in DOMAIN PushOrder |-> [op |-> "pushreg", reg |-> PushOrder[k]]]
    \o <<[op |-> "call"], [op |-> "mov"]>>
    \o [k \in DOMAIN PopOrder |-> [op |-> "pop", reg |-> PopOrder[k]]]
    \o <<[op |-> "add"], [op |-> "iret"]>>

(* The instructions of a stub.                                             *)
Stub(v) ==
    (IF v \in ErrStubs THEN <<>> ELSE <<[op |-> "push", value |-> <<"number", 0>>]>>)
    \o <<[op |-> "push", value |-> <<"number", v>>]>>
    \o [k \in DOMAIN PushOrder |-> [op |-> "pushreg", reg |-> PushOrder[k]]]
    \o <<[op |-> "call"], [op |-> "mov"]>>
    \o [k \in DOMAIN PopOrder |-> [op |-> "pop", reg |-> PopOrder[k]]]
    \o <<[op |-> "add"], [op |-> "iret"]>>

Code == [v \in 0 .. 255 |-> Stub(v)]

(* The end of LoadSchedulerContext.                                        *)
LoadCode ==
    [k \in DOMAIN PopOrder |-> [op |-> "pop", reg |-> PopOrder[k]]]
    \o <<[op |-> "add"], [op |-> "iret"]>>

(* The addresses in ISRStubTable; the pieces of each differ.               *)
ISRStubTable == [v \in 0 .. 255 |-> (B * B + B + 1) * (v + 1)]

IDTSetDescriptor(isr) ==
    [ISRLow |-> isr % B, ISRMid |-> (isr \div B) % B, ISRHigh |-> (isr \div B) \div B,
     KernelCs |-> 40, Attributes |-> "interrupt gate"]

(* Only the exceptions have a descriptor.                                  *)
IDT == [v \in 0 .. 31 |-> IDTSetDescriptor(ISRStubTable[v])]

Entry(gate) == gate.ISRLow + B * gate.ISRMid + B * B * gate.ISRHigh

(* The vector whose stub the processor enters: a vector without a          *)
(* descriptor is a general protection fault.                               *)
Entered(v) ==
    IF v \in DOMAIN IDT
    THEN CHOOSE w \in 0 .. 255 : ISRStubTable[w] = Entry(IDT[v])
    ELSE 13

-----------------------------------------------------------------------------

(* InterruptStatus, as it lies above the stack pointer.                    *)
InterruptStatus ==
    <<"R15", "R14", "R13", "R12", "R11", "R10", "R9", "R8",
      "RDX", "RCX", "RBX", "RAX", "RSI", "RDI",
      "VectorNumber", "ErrorCode", "IretRIP", "IretCS", "IretRFLAGS", "IretRSP", "IretSS">>

Context(field) ==
    mem[rsp + (CHOOSE k \in DOMAIN InterruptStatus : InterruptStatus[k] = field) - 1]

(* The vectors InterruptHandler never returns from.                        *)
Panics == {8, 13, 14}

(* What the calling convention leaves to the callee.                       *)
CallerSaved == {"RAX", "RCX", "RDX", "RSI", "RDI", "R8", "R9", "R10", "R11"}

-----------------------------------------------------------------------------

Init ==
    /\ at = [code |-> "kernel", vector |-> 0, n |-> 0]
    /\ regs = [r \in Registers |-> <<"kernel", r>>]
    /\ rsp \in Tops
    /\ flags = "IF"
    /\ mem = <<>>
    /\ pending = <<>>

(* The kernel goes about its business.                                     *)
Work ==
    /\ at.code = "kernel"
    /\ at' = [at EXCEPT !.n = 1 - @]
    /\ regs' = [regs EXCEPT !["RAX"] = <<"number", at'.n>>]
    /\ UNCHANGED <<rsp, flags, mem, pending>>

Pushed(cells, from) ==
    [a \in DOMAIN mem \cup (from - Len(cells) .. from - 1) |->
        IF a \in from - Len(cells) .. from - 1 THEN cells[from - a] ELSE mem[a]]

(* A context is loaded by an interruption that ends: one whose frame is    *)
(* written to the stack of the context, which nobody uses at the time.     *)
LoadSchedulerContext ==
    /\ at.code = "kernel"
    /\ \E context \in Contexts :
         /\ mem' = Pushed(<<<<"SS", 0>>, <<"RSP", context.SP>>, <<"RFLAGS", context.RFLAGS>>,
                            <<"CS", IF context.InKernel THEN 40 ELSE 56>>, <<"RIP", context.IP>>,
                            <<"number", 0>>, <<"number", 0>>>>
                          \o [k \in DOMAIN PushOrder |-> context.Registers[PushOrder[k]]], context.SP)
         /\ rsp' = context.SP - 7 - Len(PushOrder)
         /\ pending' = <<[vector |-> 0, code |-> <<"number", 0>>, at |-> context.IP,
                          regs |-> context.Registers, rsp |-> context.SP,
                          flags |-> context.RFLAGS]>>
    /\ at' = [code |-> "load", vector |-> 0, n |-> 1]
    /\ UNCHANGED <<regs, flags>>

(* The processor aligns the stack, pushes where it was and the error code, *)
(* and enters an interrupt gate.                                           *)
Raise ==
    /\ at.code # "panic"
    /\ Len(pending) < MaxDepth
    /\ \E v \in IF at.code = "kernel" THEN Vectors
                ELSE IF \E k \in DOMAIN pending : pending[k].vector \in NMI THEN {}
                ELSE NMI :
         LET w == Entered(v)
             code == <<"number", 8 * v + 2>>
             aligned == rsp - (rsp % 2)
             frame == <<<<"SS", 48>>, <<"RSP", rsp>>, <<"RFLAGS", flags>>, <<"CS", 40>>, <<"RIP", at>>>>
                      \o (IF w \in HasErrorCode THEN <<code>> ELSE <<>>)
         IN  /\ mem' = Pushed(frame, aligned)
             /\ rsp' = aligned - Len(frame)
             /\ at' = [code |-> "stub", vector |-> w, n |-> 1]
             /\ pending' = <<[vector |-> w, code |-> IF w \in HasErrorCode THEN code ELSE <<"number", 0>>,
                              at |-> at, regs |-> regs, rsp |-> rsp, flags |-> flags]>>
                           \o pending
    /\ flags' = "IF=0"
    /\ UNCHANGED regs

Insn == (IF at.code = "stub" THEN Code[at.vector] ELSE LoadCode)[at.n]

InStub(op) == at.code \in {"stub", "load"} /\ Insn.op = op

Advance == at' = [at EXCEPT !.n = @ + 1]

Push ==
    /\ InStub("push") \/ InStub("pushreg")
    /\ mem' = Pushed(<<IF Insn.op = "push" THEN Insn.value ELSE regs[Insn.reg]>>, rsp)
    /\ rsp' = rsp - 1
    /\ Advance
    /\ UNCHANGED <<regs, flags, pending>>

(* Prints, and returns its argument.                                       *)
InterruptHandler ==
    /\ InStub("call")
    /\ IF Context("VectorNumber")[2] \in Panics
       THEN /\ at' = [code |-> "panic", vector |-> 0, n |-> 0]
            /\ UNCHANGED regs
       ELSE /\ Advance
            /\ regs' = [r \in Registers |-> IF r = "RAX" THEN <<"RSP", rsp>>
                                            ELSE IF r \in CallerSaved THEN <<"handler", r>>
                                            ELSE regs[r]]
    /\ UNCHANGED <<rsp, flags, mem, pending>>

SwitchStack ==
    /\ InStub("mov")
    /\ rsp' = regs["RAX"][2]
    /\ Advance
    /\ UNCHANGED <<regs, flags, mem, pending>>

Pop ==
    /\ InStub("pop")
    /\ regs' = [regs EXCEPT ![Insn.reg] = mem[rsp]]
    /\ rsp' = rsp + 1
    /\ Advance
    /\ UNCHANGED <<flags, mem, pending>>

DropVector ==
    /\ InStub("add")
    /\ rsp' = rsp + 2
    /\ Advance
    /\ UNCHANGED <<regs, flags, mem, pending>>

(* What is below the stack pointer is forgotten.                           *)
Iret ==
    /\ InStub("iret")
    /\ at' = mem[rsp][2]
    /\ flags' = mem[rsp + 2][2]
    /\ rsp' = mem[rsp + 3][2]
    /\ mem' = [a \in {b \in DOMAIN mem : b >= rsp'} |-> mem[a]]
    /\ pending' = Tail(pending)
    /\ UNCHANGED regs

Execute == Push \/ InterruptHandler \/ SwitchStack \/ Pop \/ DropVector \/ Iret

Next == Work \/ LoadSchedulerContext \/ Raise \/ Execute

Spec == Init /\ [][Next]_vars

-----------------------------------------------------------------------------

(* The handler is shown the interruption it is called for: the vector, the *)
(* error code of the processor, the registers and the return address, with *)
(* or without an error code, and in the middle of another stub, too.       *)
ContextIsTrue ==
    InStub("call") =>
        LET last == Head(pending)
        IN  /\ Context("VectorNumber") = <<"number", last.vector>>
            /\ Context("ErrorCode") = last.code
            /\ \A r \in Registers : Context(r) = last.regs[r]
            /\ Context("IretRIP") = <<"RIP", last.at>>
            /\ Context("IretRSP") = <<"RSP", last.rsp>>
            /\ Context("IretRFLAGS") = <<"RFLAGS", last.flags>>

(* An interruption that returns leaves the interrupted code where it was,  *)
(* with its registers, its flags and its stack pointer; and a scheduler    *)
(* context is what the processor holds when it has been loaded.            *)
Transparent ==
    [][ Len(pending') < Len(pending) =>
          LET last == Head(pending)
          IN  /\ at' = last.at
              /\ regs' = last.regs
              /\ flags' = last.flags
              /\ rsp' = last.rsp ]_vars

=============================================================================
