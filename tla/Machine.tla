------------------------------- MODULE Machine -------------------------------
(***************************************************************************)
(* The machine from LimineEntry on: the boot processor is set up, the root *)
(* space and the physical memory manager are made, the kernel gets its     *)
(* virtual space, the root container is loaded and runs in a virtual       *)
(* machine, and the kernel serves its exits.                               *)
(*                                                                         *)
(* One processor executes everything; pc names the function it is in, or   *)
(* where it stays for good: Panic, Halt, Spin (an exit nobody serves) and  *)
(* Hung (a loop that never ends).                                          *)
(***************************************************************************)
EXTENDS Loader, GuestExits

CONSTANTS Images,           \* executables the boot loader may hand over
          Firmware,         \* [answers, svm]: what the machine may be like
          SPACE,            \* pages of the address space
          Probes,           \* addresses the container may access
          Heap              \* pages its calls may map

ASSUME MachineAssumption == Images \subseteq Elf64_Ehdr /\ SPACE \in Nat \ {0}

VARIABLES pc,
          machine,          \* the firmware, the image and the manager
          kernel,           \* its stacks, its root table, VMData, the RSDP, EFER.SVME
          c,                \* the container
          segment,          \* the program header LoadProgramHeaders is at
          regs,             \* the general registers of the processor
          rip, insn,        \* the container's next instruction
          vmcb, stack,      \* its control block, and what pushall has pushed
          called,           \* what the last system call was given
          seen              \* the container's state at its last exit

boot == <<machine, kernel, segment>>
guest == <<regs, rip, insn, vmcb, stack, called, seen>>
vars == <<pc, boot, c, guest>>

pmm == machine.pmm
image == machine.image

VMCB == <<"kernel", "VMCB">>

-----------------------------------------------------------------------------

Init ==
    /\ pc = "LimineEntry"
    /\ \E i \in Images, f \in Firmware :
         machine = [image |-> i, firmware |-> f, pmm |-> [active |-> FALSE, frames |-> 0]]
    /\ kernel = [TSS |-> LoadNewStackInTSS(0, SPACE), root |-> 0, VMData |-> 0,
                 RSDP |-> <<"kernel", "none">>, SVME |-> FALSE]
    /\ c = Container
    /\ segment = 1
    /\ regs = [r \in Registers |-> <<"kernel", r>>]
    /\ rip = 0
    /\ insn = [op |-> "None"]
    /\ vmcb = <<>>
    /\ stack = <<>>
    /\ called = <<>>
    /\ seen = <<>>

(* What the kernel asks the boot loader, and what it cannot do without.    *)
Requests == {"HHDM", "PagingMode", "MemoryMap", "KAddr", "RSDP", "DTB", "Modules", "BootTime"}

Vital == {"MemoryMap", "HHDM", "KAddr", "BootTime"}

LimineEntry ==
    /\ pc = "LimineEntry"
    /\ pc' = IF Vital \subseteq machine.firmware.answers THEN "InitializeBootCPU" ELSE "Panic"
    /\ UNCHANGED <<boot, c, guest>>

(* LoadEssentialCPUStructures: the stack for interrupts is requested from  *)
(* a manager that is not active yet, so that RSP0 is 8 pages above NULL    *)
(* and the other stacks are at the end of the address space.               *)
InitializeBootCPU ==
    /\ pc = "InitializeBootCPU"
    /\ kernel' = [kernel EXCEPT !.TSS = LoadNewStackInTSS(Frame(pmm, 1) + 8, SPACE)]
    /\ machine' = [machine EXCEPT !.pmm = Requested(pmm, 8)]
    /\ pc' = "KInfo"
    /\ UNCHANGED <<c, segment, guest>>

RSDPOf(firmware) == <<"kernel", IF "RSDP" \in firmware.answers THEN "RSDP" ELSE "none">>

(* The answers are written down.  Nobody asks whether there are modules:   *)
(* without them NULL is read, and a page fault is a panic.                 *)
KInfo ==
    /\ pc = "KInfo"
    /\ kernel' = [kernel EXCEPT !.RSDP = RSDPOf(machine.firmware)]
    /\ pc' = IF "Modules" \in machine.firmware.answers THEN "InitializeRootSpace" ELSE "Panic"
    /\ UNCHANGED <<machine, c, segment, guest>>

InitializeRootSpace ==
    /\ pc = "InitializeRootSpace"
    /\ machine' = [machine EXCEPT !.pmm.active = TRUE]
    /\ pc' = "InitVMM"
    /\ UNCHANGED <<kernel, c, segment, guest>>

InitVMM ==
    /\ pc = "InitVMM"
    /\ kernel' = [kernel EXCEPT !.root = Frame(pmm, 1)]
    /\ machine' = [machine EXCEPT !.pmm = Requested(pmm, 1)]
    /\ pc' = "InitializeCPUFeatures"
    /\ UNCHANGED <<c, segment, guest>>

(* SVM is enabled where it is there and the firmware has not locked it,    *)
(* and reported as enabled wherever it is there.                           *)
InitializeCPUFeatures ==
    /\ pc = "InitializeCPUFeatures"
    /\ kernel' = [kernel EXCEPT !.SVME = machine.firmware.svm = "free"]
    /\ pc' = "LoadContainer"
    /\ UNCHANGED <<machine, c, segment, guest>>

(* An invalid file is reported, and KernelStart halts.                     *)
LoadContainer ==
    /\ pc = "LoadContainer"
    /\ IF VerifyELF(image)
       THEN /\ c' = [c EXCEPT !.root = Frame(pmm, 1)]
            /\ machine' = [machine EXCEPT !.pmm = Requested(pmm, 1)]
            /\ pc' = "LoadProgramHeaders"
       ELSE /\ pc' = "Halt"
            /\ UNCHANGED <<c, machine>>
    /\ UNCHANGED <<kernel, segment, guest>>

(* One turn of the loop.  MMap never returns from a page that is mapped.   *)
LoadProgramHeader ==
    LET ph == image.phdrs[segment]
        new == SegmentPages(pmm, ph)
    IN  /\ pc = "LoadProgramHeaders"
        /\ segment \in DOMAIN image.phdrs
        /\ IF DOMAIN new \cap DOMAIN c.space # {}
           THEN /\ pc' = "Hung"
                /\ UNCHANGED <<machine, c, segment>>
           ELSE /\ LET bounded == IF ph.type = "PT_LOAD" THEN WithBounds(c, ph) ELSE c
                   IN  c' = [bounded EXCEPT
                                 !.space = WithPages(@, new),
                                 !.tables = WithTables(@, UNION {TablesAbove(p) : p \in DOMAIN new},
                                                       SegmentFlags(ph.flags))]
                /\ machine' = [machine EXCEPT !.pmm = Requested(pmm, Len(SetToSeq(DOMAIN new)))]
                /\ segment' = segment + 1
                /\ UNCHANGED pc
        /\ UNCHANGED <<kernel, guest>>

StackFlags == {"READ", "WRITE", "NOEXEC", "USER"}

(* The stack begins where the image ends.                                  *)
LoadStack ==
    LET new == VMAlloc(pmm, c.highest, STACK, StackFlags)
    IN  /\ pc = "LoadProgramHeaders"
        /\ segment \notin DOMAIN image.phdrs
        /\ c' = [c EXCEPT
                   !.Bindings = Bindings(image),
                   !.space = WithPages(@, new),
                   !.tables = WithTables(@, UNION {TablesAbove(p) : p \in DOMAIN new}, StackFlags),
                   !.Highest = c.highest + STACK]
        /\ machine' = [machine EXCEPT !.pmm = Requested(pmm, STACK \div PAGE)]
        /\ pc' = "LaunchVM"
        /\ UNCHANGED <<kernel, segment, guest>>

(* Mutation: the manager is left before VMData is requested.               *)
LaunchVMAfterDeinit ==
    /\ pc = "LaunchVM"
    /\ machine' = [machine EXCEPT !.pmm = [pmm EXCEPT !.active = FALSE]]
    /\ kernel' = [kernel EXCEPT !.VMData = Frame(machine'.pmm, 1)]
    /\ vmcb' = InitializeVMCB(image.entry, c.Highest, c.root, kernel.RSDP)
    /\ seen' = [rip |-> image.entry, called |-> called,
                regs |-> [regs EXCEPT !["RAX"] = vmcb'.RAX]]
    /\ regs' = [regs EXCEPT !["RAX"] = VMCB]
    /\ pc' = IF kernel.SVME THEN "VMRun" ELSE "Hung"
    /\ UNCHANGED <<c, segment, rip, insn, stack, called>>

(* VMData is requested, the manager is left, the control block filled and  *)
(* the loop entered.  On a processor whose SVM is not enabled VMSAVE       *)
(* raises #UD, which InterruptHandler prints and resumes.                  *)
LaunchVM ==
    /\ pc = "LaunchVM"
    /\ kernel' = [kernel EXCEPT !.VMData = Frame(pmm, 1)]
    /\ machine' = [machine EXCEPT !.pmm = [Requested(pmm, 8) EXCEPT !.active = FALSE]]
    /\ vmcb' = InitializeVMCB(image.entry, c.Highest, c.root, kernel.RSDP)
    /\ seen' = [rip |-> image.entry, called |-> called,
                regs |-> [regs EXCEPT !["RAX"] = vmcb'.RAX]]
    /\ regs' = [regs EXCEPT !["RAX"] = VMCB]
    /\ pc' = IF kernel.SVME THEN "VMRun" ELSE "Hung"
    /\ UNCHANGED <<c, segment, rip, insn, stack, called>>

Boot ==
    \/ LimineEntry \/ InitializeBootCPU \/ KInfo \/ InitializeRootSpace \/ InitVMM
    \/ InitializeCPUFeatures \/ LoadContainer \/ LoadProgramHeader \/ LoadStack \/ LaunchVM

-----------------------------------------------------------------------------

(* The flags of the entries the processor reads on the way to a page.      *)
Walk(p) == {c.space[p].flags} \cup {c.tables[t] : t \in TablesAbove(p)}

(* What the page tables allow the container to do at an address: each of   *)
(* the four entries has to allow it.                                       *)
Allowed(address, kind) ==
    /\ PageOf(address) \in DOMAIN c.space
    /\ \A flags \in Walk(PageOf(address)) :
         /\ "USER" \in flags
         /\ kind = "write" => "WRITE" \in flags
         /\ kind = "fetch" => "NOEXEC" \notin flags

(* The exits of an instruction that can be fetched, with their codes.      *)
Exits == [CPUID |-> VMEXIT("CPUID"), VMMCALL |-> VMEXIT("VMMCALL"), Port |-> VMEXIT("IOIO"),
          MSR |-> VMEXIT("MSR"), EXCP13 |-> EXCP(13)]

(* The instruction at an address is anything; what cannot be fetched is an *)
(* access that faults.                                                     *)
InstructionsAt(address) ==
    IF ~Allowed(address, "fetch")
    THEN {[op |-> "Access", address |-> address, kind |-> "fetch"]}
    ELSE {[op |-> op] : op \in DOMAIN Exits}
         \cup {[op |-> "Jump", target |-> image.entry]}
         \cup {[op |-> "Access", address |-> a, kind |-> k] :
                  a \in Probes, k \in {"read", "write"}}

(* The container computes, which loads its registers, or an access is      *)
(* allowed: the kernel sees nothing of it.                                 *)
Execute ==
    /\ pc = "Guest"
    /\ \/ /\ insn.op = "Jump"
          /\ rip' = insn.target
          /\ regs' = [r \in Registers |-> <<"container", r>>]
       \/ /\ insn.op = "Access"
          /\ Allowed(insn.address, insn.kind)
          /\ rip' = rip + 1
          /\ UNCHANGED regs
    /\ insn' \in InstructionsAt(rip')
    /\ UNCHANGED <<pc, boot, c, vmcb, stack, called, seen>>

(* #VMEXIT: the processor writes RIP, RAX and the reason to the control    *)
(* block, and has the kernel's RAX again.                                  *)
Exit ==
    /\ pc = "Guest"
    /\ \/ insn.op \in DOMAIN Exits
       \/ insn.op = "Access" /\ ~Allowed(insn.address, insn.kind)
    /\ vmcb' = [vmcb EXCEPT
                  !.RIP = rip, !.RAX = regs["RAX"],
                  !.ExitCode = IF insn.op = "Access" THEN EXCP(14) ELSE Exits[insn.op],
                  !.ExitInfo1 = IF insn.op = "Access" THEN insn.kind ELSE "none",
                  !.ExitInfo2 = CASE insn.op = "Access" -> insn.address
                                  [] insn.op = "Port" -> rip + 1
                                  [] OTHER -> 0]
    /\ seen' = [rip |-> rip, regs |-> regs, called |-> called]
    /\ regs' = [regs EXCEPT !["RAX"] = VMCB]
    /\ pc' = "PushAll"
    /\ UNCHANGED <<boot, c, rip, insn, stack, called>>

SaveRegisters ==
    /\ pc = "PushAll"
    /\ stack' = PushAll(regs)
    /\ pc' = "HandleVMExit"
    /\ UNCHANGED <<boot, c, regs, rip, insn, vmcb, called, seen>>

HeapFlags == {"READ", "WRITE", "USER"}

(* A system call that maps memory (module Syscall): the page, or the       *)
(* highest of the tables that are missing above it.                        *)
MapHeap(p) ==
    LET missing == TablesAbove(p) \ DOMAIN c.tables
        highest == {t \in missing : \A u \in missing : u[1] <= t[1]}
    IN  IF missing = {}
        THEN [c EXCEPT !.space = WithPages(@, [q \in {p} |->
                            [frame |-> 1, data |-> <<>>, flags |-> HeapFlags]])]
        ELSE [c EXCEPT !.tables = WithTables(@, highest, HeapFlags)]

Handle ==
    /\ pc = "HandleVMExit"
    /\ Served(vmcb)
    /\ LET handled == HandleVMExit(vmcb, stack, c)
       IN  vmcb' = handled.vmcb /\ stack' = handled.stack
    /\ IF vmcb.ExitCode = VMEXIT("VMMCALL")
       THEN /\ called' = SyscallArguments(vmcb, stack)
            /\ UNCHANGED c \/ \E p \in Heap \ DOMAIN c.space : c' = MapHeap(p)
       ELSE UNCHANGED <<called, c>>
    /\ pc' = "PopAll"
    /\ UNCHANGED <<boot, regs, rip, insn, seen>>

(* Every other exit ends in a loop of its own.                             *)
GiveUp ==
    /\ pc = "HandleVMExit"
    /\ ~Served(vmcb)
    /\ pc' = "Spin"
    /\ UNCHANGED <<boot, c, guest>>

RestoreRegisters ==
    /\ pc = "PopAll"
    /\ regs' = PopAll(stack)
    /\ pc' = "VMRun"
    /\ UNCHANGED <<boot, c, rip, insn, vmcb, stack, called, seen>>

(* VMLOAD and VMRUN with the control block RAX points to.  An instruction  *)
(* that is resumed where it was is the same one again.                     *)
VMRun ==
    /\ pc = "VMRun"
    /\ regs["RAX"] = VMCB
    /\ rip' = vmcb.RIP
    /\ regs' = [regs EXCEPT !["RAX"] = vmcb.RAX]
    /\ IF insn.op # "None" /\ rip' = rip THEN UNCHANGED insn
       ELSE insn' \in InstructionsAt(rip')
    /\ pc' = "Guest"
    /\ UNCHANGED <<boot, c, vmcb, stack, called, seen>>

Host == SaveRegisters \/ Handle \/ GiveUp \/ RestoreRegisters \/ VMRun

Next == Boot \/ Execute \/ Exit \/ Host

(* The processor goes on in the boot, in the kernel and on an exit; what   *)
(* the container does in between is its own affair.                        *)
Spec == Init /\ [][Next]_vars /\ WF_vars(Boot) /\ WF_vars(Host) /\ WF_vars(Exit)

-----------------------------------------------------------------------------

Launched == pc \in {"VMRun", "Guest", "PushAll", "HandleVMExit", "PopAll", "Spin"}

Segments == {image.phdrs[i] : i \in {j \in DOMAIN image.phdrs :
                 image.phdrs[j].type = "PT_LOAD" /\ image.phdrs[j].flags \in Loadable}}

Aligned(ph) == ph.vaddr % PAGE = 0

Byte(address) == c.space[PageOf(address)].data[address % PAGE]

(* An executable as the loader expects one: segments come in ascending     *)
(* order and have memory, and one that begins inside of a page ends on the *)
(* pages its length alone takes.  Of any other the loader leaves the last  *)
(* page out.                                                               *)
Linked ==
    /\ \A j, k \in DOMAIN image.phdrs :
         (/\ j < k
          /\ image.phdrs[j].type = "PT_LOAD" /\ image.phdrs[k].type = "PT_LOAD")
         => image.phdrs[j].vaddr <= image.phdrs[k].vaddr
    /\ \A ph \in Segments :
         /\ ph.memsz > 0
         /\ (ph.vaddr % PAGE) + ph.memsz <= RoundUp(ph.memsz)

(* Text comes before everything else in the file.                          *)
TextFirst ==
    \A j, k \in DOMAIN image.phdrs :
        /\ j < k
        /\ image.phdrs[j] \in Segments /\ image.phdrs[k] \in Segments
        /\ "X" \in image.phdrs[k].flags
        => "X" \in image.phdrs[j].flags

(* A container is launched with the memory its file describes: every page  *)
(* of every segment, and of one that begins on a page the bytes, then      *)
(* zeroes to its end.  It writes where the segment is writable, fetches    *)
(* instructions nowhere else than in text, and from all of the text where  *)
(* the file has it first.  Its stack is its own, right above everything    *)
(* that is loaded.  The bounds HandleVMExit decides by enclose all of it,  *)
(* and its segment registers select descriptors of the kind the processor  *)
(* needs in each.                                                          *)
ImageLoaded ==
    Launched =>
        /\ Linked => \A ph \in Segments :
             /\ \A i \in 0 .. ph.memsz - 1 :
                  /\ PageOf(ph.vaddr + i) \in DOMAIN c.space
                  /\ Aligned(ph) =>
                       Byte(ph.vaddr + i) = IF i < ph.filesz THEN ph.offset + i + 1 ELSE 0
                  /\ InKernelRange(c, ph.vaddr + i)
                  /\ Allowed(ph.vaddr + i, "write") <=> "W" \in ph.flags
                  /\ Allowed(ph.vaddr + i, "fetch") => "X" \in ph.flags
                  /\ TextFirst /\ "X" \in ph.flags => Allowed(ph.vaddr + i, "fetch")
        /\ \A a \in c.Highest - STACK .. c.Highest - 1 :
             /\ Allowed(a, "write") /\ ~Allowed(a, "fetch") /\ Byte(a) = 0
             /\ \A ph \in Segments : a \notin ph.vaddr .. ph.vaddr + ph.memsz - 1
        /\ \A s \in DOMAIN vmcb.Selectors :
             GetAccess(vmcb.Selectors[s]) = IF s = "CS" THEN "code"
                                            ELSE IF s = "TR" THEN "task" ELSE "data"

(* A segment with the flags loader.cpp:105 calls text can be executed,     *)
(* wherever it comes in the file.                                          *)
TextIsExecutable ==
    Launched /\ Linked => \A ph \in Segments : "X" \in ph.flags => Allowed(ph.vaddr, "fetch")

(* Nobody builds on a page the manager refused: the tables, the frames of  *)
(* the container and the control blocks are requested while it is active,  *)
(* and no two of them are the same.                                        *)
NothingAtNull ==
    Launched =>
        /\ 0 \notin {kernel.root, c.root, kernel.VMData}
        /\ kernel.root # c.root /\ kernel.VMData \notin {kernel.root, c.root}
        /\ \A p \in DOMAIN c.space : c.space[p].frame # 0
        /\ \A p \in DOMAIN c.space \ Heap :
             c.space[p].frame \notin {kernel.root, c.root, kernel.VMData}
        /\ \A p, q \in DOMAIN c.space \ Heap :
             c.space[p].frame = c.space[q].frame => p = q

(* The segments begin on pages and share none, and text is the first of    *)
(* them and has the entry.                                                 *)
Conformant ==
    /\ VerifyELF(image)
    /\ TextFirst
    /\ \E ph \in Segments : "X" \in ph.flags /\ image.entry \in ph.vaddr .. ph.vaddr + ph.memsz - 1
    /\ \A ph \in Segments : Aligned(ph)
    /\ \A p, q \in Segments :
         (p.vaddr <= q.vaddr /\ PageOf(q.vaddr) <= PageOf(p.vaddr + p.memsz - 1)) => p = q

(* Where SVM is not locked and the boot loader has loaded the modules a    *)
(* conformant file is run from its entry, which it can fetch.              *)
ContainerStarts ==
    (/\ pc = "LimineEntry" /\ Conformant
     /\ Vital \cup {"Modules"} \subseteq machine.firmware.answers
     /\ machine.firmware.svm = "free")
        ~> (pc = "Guest" /\ rip = image.entry /\ Allowed(rip, "fetch"))

(* The container goes on after every exit that is served: past the         *)
(* instruction, or in its handler.  Not so after a fault between the       *)
(* bounds, which is taken for the kernel's own and repeats for good, nor   *)
(* of a handler that faults itself.                                        *)
ExitsReturn ==
    (/\ pc = "PushAll" /\ Served(vmcb)
     /\ vmcb.ExitCode = EXCP(14) =>
          /\ ~InKernelRange(c, vmcb.ExitInfo2)
          /\ seen.rip # c.Bindings.ExceptionHandler)
        ~> (pc = "Guest" /\ rip # seen.rip)

Processor == INSTANCE VirtualProcessor
    WITH handler <- Bindings(image).ExceptionHandler,
         rip <- IF pc = "Guest" THEN rip ELSE IF seen = <<>> THEN image.entry ELSE seen.rip,
         regs <- IF pc = "Guest" THEN regs
                 ELSE IF seen = <<>> THEN [regs EXCEPT !["RAX"] = RSDPOf(machine.firmware)]
                 ELSE seen.regs,
         insn <- insn,
         called <- IF pc = "Guest" \/ seen = <<>> THEN called ELSE seen.called

(* The exits are invisible: a container sees the processor of module       *)
(* VirtualProcessor, whatever the kernel does to the registers in between, *)
(* and every call is given the registers the container had.                *)
ImplementsProcessor == Processor!Spec

=============================================================================
