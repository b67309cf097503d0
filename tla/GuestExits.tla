------------------------------ MODULE GuestExits ------------------------------
(***************************************************************************)
(* The way from the container to the kernel and back: the virtual machine  *)
(* control block of src/arch/x86/vm/svm.cpp, the loop around VMRUN of      *)
(* vm/svm_asm.asm and HandleVMExit.                                        *)
(*                                                                         *)
(* A register holds a pair that says where its value comes from; RIP and   *)
(* the addresses of faults are numbers.                                    *)
(***************************************************************************)
EXTENDS Integers, Sequences, SequencesExt

(* The order in which pushall pushes, and the fields of GeneralRegisters.  *)
Pushed == <<"RDI", "RSI", "RAX", "RBX", "RCX", "RDX", "R8", "R9", "R10", "R11",
            "R12", "R13", "R14", "R15">>

Popped == <<"R15", "R14", "R13", "R12", "R11", "R10", "R9", "R8",
            "RDX", "RCX", "RBX", "RAX", "RSI", "RDI">>

GeneralRegisters ==
    <<"R15", "R14", "R13", "R12", "R11", "R10", "R9", "R8",
      "RDX", "RCX", "RBX", "RAX", "RSI", "RDI">>

Registers == ToSet(GeneralRegisters)

(* The stack after pushall, its top first.                                 *)
PushAll(regs) == [k \in 1 .. Len(Pushed) |-> regs[Pushed[Len(Pushed) + 1 - k]]]

(* Mutation: the last two registers are popped in the order of the pushes. *)
PopAllSwapped(stack) ==
    [r \in Registers |->
        LET order == SubSeq(Popped, 1, 12) \o <<"RDI", "RSI">>
        IN  stack[CHOOSE k \in DOMAIN order : order[k] = r]]

PopAll(stack) ==
    [r \in Registers |-> stack[CHOOSE k \in DOMAIN Popped : Popped[k] = r]]

(* The handler sees the stack as a structure.                              *)
Field(r) == CHOOSE k \in DOMAIN GeneralRegisters : GeneralRegisters[k] = r

(* enum VMEXIT: sixteen codes each for the reads and the writes of control *)
(* and of debug registers, one for every exception, and then these in this *)
(* order.                                                                  *)
EXCP(vector) == 64 + vector

Events ==
    <<"INTR", "NMI", "SMI", "INIT", "VINTR", "CR0_SEL_WRITE", "IDTR_READ", "GDTR_READ",
      "LDTR_READ", "TR_READ", "IDTR_WRITE", "GDTR_WRITE", "LDTR_WRITE", "TR_WRITE",
      "RDTSC", "RDPMC", "PUSHF", "POPF", "CPUID", "RSM", "IRET", "SWINT", "INVD", "PAUSE",
      "HLT", "INVLPG", "INVLPGA", "IOIO", "MSR", "TASK_SWITCH", "FERR_FREEZE", "SHUTDOWN",
      "VMRUN", "VMMCALL">>

VMEXIT(event) == 96 + (CHOOSE k \in DOMAIN Events : Events[k] = event) - 1

-----------------------------------------------------------------------------

(* The descriptors in their order, and what LoadGDT and TSSInit make them. *)
GDT == <<"Null", "KernelCode16Bit", "KernelData16Bit", "KernelCode32Bit", "KernelData32Bit",
         "KernelCode64Bit", "KernelData64Bit", "UserCode", "UserData", "TSSLow", "TSSHigh">>

LoadGDT ==
    [d \in ToSet(GDT) |->
        CASE d \in {"KernelCode16Bit", "KernelCode32Bit", "KernelCode64Bit", "UserCode"} -> "code"
          [] d \in {"KernelData16Bit", "KernelData32Bit", "KernelData64Bit", "UserData"} -> "data"
          [] d = "TSSLow" -> "task"
          [] d \in {"Null", "TSSHigh"} -> "none"]

GetAccess(selector) ==
    IF selector % 8 = 0 /\ selector \div 8 + 1 \in DOMAIN GDT
    THEN LoadGDT[GDT[selector \div 8 + 1]] ELSE "none"

(* What FlushGDT and FlushTSS load.                                        *)
KernelSelectors ==
    [CS |-> 40, DS |-> 48, ES |-> 48, SS |-> 48, FS |-> 48, GS |-> 48, TR |-> 72]

(* The stacks of the kernel, in pages of an address space of SPACE pages:  *)
(* 64 KiB lie between two of them.                                         *)
LoadNewStackInTSS(stackPointer, SPACE) ==
    [RSP0 |-> stackPointer, IST |-> [k \in 1 .. 7 |-> (stackPointer - (16 * k)) % SPACE]]

Intercepts == {"EXCEPTIONS", "MSR", "CPUID", "INVLPG", "INVLPGA", "IOIO", "VMRUN", "VMMCALL"}

(* VMSAVE writes these fields of the processor to a control block.         *)
SaveVM(selectors) ==
    [s \in DOMAIN selectors |->
        IF s \in {"FS", "GS", "TR"} THEN KernelSelectors[s] ELSE selectors[s]]

(* The segments are those of the user, two descriptors after the kernel's; *)
(* SaveVM then overwrites FS, GS and TR.  The container finds the RSDP in  *)
(* RAX.                                                                    *)
InitializeVMCB(rip, rsp, cr3, rsdp) ==
    [Intercepts |-> Intercepts, CPL |-> 3, RIP |-> rip, RSP |-> rsp, CR3 |-> cr3,
     RAX |-> rsdp,
     Selectors |-> SaveVM([s \in DOMAIN KernelSelectors |-> KernelSelectors[s] + 16]),
     ExitCode |-> 0, ExitInfo1 |-> "none", ExitInfo2 |-> 0]

-----------------------------------------------------------------------------

(* What a call of the dispatcher is given.                                 *)
SyscallArguments(vmcb, stack) ==
    <<vmcb.RAX, stack[Field("RDI")], stack[Field("RSI")], stack[Field("RDX")],
      stack[Field("R8")], stack[Field("R9")], stack[Field("R10")]>>

InKernelRange(container, address) ==
    container.Lowest <= address /\ address <= container.Highest

(* The exits after which HandleVMExit returns.                             *)
Served(vmcb) ==
    vmcb.ExitCode \in {VMEXIT("CPUID"), VMEXIT("VMMCALL"), VMEXIT("IOIO"), EXCP(14)}

Emulate(vmcb, stack) ==
    [vmcb |-> [vmcb EXCEPT !.RAX = <<"cpuid", "RAX">>, !.RIP = @ + 2],
     stack |-> [stack EXCEPT ![Field("RBX")] = <<"cpuid", "RBX">>,
                             ![Field("RCX")] = <<"cpuid", "RCX">>,
                             ![Field("RDX")] = <<"cpuid", "RDX">>]]

Deliver(vmcb, stack, container) ==
    IF InKernelRange(container, vmcb.ExitInfo2)
    THEN [vmcb |-> vmcb, stack |-> stack]
    ELSE [vmcb |-> [vmcb EXCEPT !.RIP = container.Bindings.ExceptionHandler],
          stack |-> [stack EXCEPT ![Field("RDI")] = <<"fault", 14>>,
                                  ![Field("RSI")] = <<"fault", vmcb.ExitInfo1>>,
                                  ![Field("RDX")] = <<"fault", vmcb.ExitInfo2>>]]

(* Mutation: a port access is resumed where it was.                        *)
HandleVMExitAtPort(vmcb, stack, container) ==
    LET served == CASE vmcb.ExitCode = VMEXIT("CPUID") -> Emulate(vmcb, stack)
                    [] vmcb.ExitCode = VMEXIT("VMMCALL") ->
                         [vmcb |-> [vmcb EXCEPT !.RIP = @ + 3], stack |-> stack]
                    [] vmcb.ExitCode = VMEXIT("IOIO") -> [vmcb |-> vmcb, stack |-> stack]
                    [] vmcb.ExitCode = EXCP(14) -> Deliver(vmcb, stack, container)
    IN  [served EXCEPT !.vmcb.ExitCode = 0]

(* HandleVMExit for the exits it serves; the system call is the driver's.  *)
(* A fault in the range of the kernel, as it calls the container's image   *)
(* and stack, is printed and resumed where it was.                         *)
HandleVMExit(vmcb, stack, container) ==
    LET served == CASE vmcb.ExitCode = VMEXIT("CPUID") -> Emulate(vmcb, stack)
                    [] vmcb.ExitCode = VMEXIT("VMMCALL") ->
                         [vmcb |-> [vmcb EXCEPT !.RIP = @ + 3], stack |-> stack]
                    [] vmcb.ExitCode = VMEXIT("IOIO") ->
                         [vmcb |-> [vmcb EXCEPT !.RIP = vmcb.ExitInfo2], stack |-> stack]
                    [] vmcb.ExitCode = EXCP(14) -> Deliver(vmcb, stack, container)
    IN  [served EXCEPT !.vmcb.ExitCode = 0]

=============================================================================
