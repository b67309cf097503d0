----------------------------- MODULE MachineProofs -----------------------------
(***************************************************************************)
(* A container does not notice its exits: whatever it holds when it leaves *)
(* the processor, the control block and the pushed registers hold until it *)
(* goes on.  Booting gives each frame to one use, and the container the    *)
(* memory its file describes.  All are proved for every image, firmware    *)
(* and processor state of the container.                                   *)
(***************************************************************************)
EXTENDS Machine, FiniteSetTheorems, TLAPS

(* The stack, seen as a structure or popped, has every register in a place *)
(* of its own, where pushall has put it.                                   *)
LEMMA StackIsStructure ==
    /\ {"RAX", "RBX", "RCX", "RDX", "RDI", "RSI", "R8", "R9", "R10"} \subseteq Registers
    /\ \A r \in Registers : Field(r) \in 1 .. 14 /\ GeneralRegisters[Field(r)] = r
    /\ \A s : PopAll(s) = [r \in Registers |-> s[Field(r)]]
    /\ \A g : DOMAIN PushAll(g) = 1 .. 14 /\ \A r \in Registers : PushAll(g)[Field(r)] = g[r]
<1>1. /\ Popped = GeneralRegisters /\ DOMAIN GeneralRegisters = 1 .. 14
      /\ Registers = {GeneralRegisters[k] : k \in 1 .. 14}
  BY DEF Popped, GeneralRegisters, Registers, ToSet
<1>2. {"RAX", "RBX", "RCX", "RDX", "RDI", "RSI", "R8", "R9", "R10"} \subseteq Registers
  <2>1. /\ GeneralRegisters[12] = "RAX" /\ GeneralRegisters[11] = "RBX"
        /\ GeneralRegisters[10] = "RCX" /\ GeneralRegisters[9] = "RDX"
        /\ GeneralRegisters[14] = "RDI" /\ GeneralRegisters[13] = "RSI"
        /\ GeneralRegisters[8] = "R8" /\ GeneralRegisters[7] = "R9"
        /\ GeneralRegisters[6] = "R10"
    BY DEF GeneralRegisters
  <2> QED
    BY <1>1, <2>1
<1>3. Len(Pushed) = 14 /\ \A k \in 1 .. 14 : Pushed[15 - k] = GeneralRegisters[k]
  BY DEF Pushed, GeneralRegisters
<1>4. \A r \in Registers : Field(r) \in 1 .. 14 /\ GeneralRegisters[Field(r)] = r
  BY <1>1 DEF Field
<1>5. \A s : PopAll(s) = [r \in Registers |-> s[Field(r)]]
  BY <1>1 DEF PopAll, Field
<1>6. ASSUME NEW g
      PROVE  DOMAIN PushAll(g) = 1 .. 14 /\ \A r \in Registers : PushAll(g)[Field(r)] = g[r]
  <2>1. PushAll(g) = [k \in 1 .. 14 |-> g[Pushed[15 - k]]]
    BY <1>3 DEF PushAll
  <2> QED
    BY <1>3, <1>4, <2>1
<1> QED
  BY <1>2, <1>4, <1>5, <1>6

(* The codes of the exits the kernel is prepared for.                      *)
LEMMA ExitCodes ==
    /\ VMEXIT("CPUID") = 114 /\ VMEXIT("IOIO") = 123
    /\ VMEXIT("MSR") = 124 /\ VMEXIT("VMMCALL") = 129
    /\ EXCP(13) = 77 /\ EXCP(14) = 78
<1>1. DOMAIN Events = 1 .. 34 /\ \A k \in 1 .. 34 : Events[k] = "CPUID" <=> k = 19
  BY DEF Events
<1>2. \A k \in 1 .. 34 : Events[k] = "IOIO" <=> k = 28
  BY DEF Events
<1>3. \A k \in 1 .. 34 : Events[k] = "MSR" <=> k = 29
  BY DEF Events
<1>4. \A k \in 1 .. 34 : Events[k] = "VMMCALL" <=> k = 34
  BY DEF Events
<1> QED
  BY <1>1, <1>2, <1>3, <1>4 DEF VMEXIT, EXCP

-----------------------------------------------------------------------------
(* The exits are invisible.                                                *)

IsFunctionOn(S, f) == f = [x \in S |-> f[x]]

BlockFields == {"Intercepts", "CPL", "RIP", "RSP", "CR3", "RAX", "Selectors",
                "ExitCode", "ExitInfo1", "ExitInfo2"}

Booting == {"LimineEntry", "InitializeBootCPU", "KInfo", "InitializeRootSpace", "InitVMM",
            "InitializeCPUFeatures", "LoadContainer", "LoadProgramHeaders", "LaunchVM"}

Answered == Booting \ {"LimineEntry", "InitializeBootCPU", "KInfo"}

Exited == {"PushAll", "HandleVMExit", "PopAll", "VMRun"}

Shapes ==
    /\ machine \in [image : Images, firmware : Firmware,
                    pmm : [active : BOOLEAN, frames : Nat]]
    /\ IsFunctionOn({"TSS", "root", "VMData", "RSDP", "SVME"}, kernel)
    /\ IsFunctionOn({"root", "space", "tables", "Lowest", "highest", "Highest", "Bindings"}, c)
    /\ IsFunctionOn(Registers, regs)

(* Until the container is launched nothing is known of it but what its     *)
(* first registers will be.                                                *)
NotSeen ==
    /\ pc \in Booting => seen = <<>> /\ called = <<>> /\ insn.op = "None"
    /\ pc \in Answered => kernel.RSDP = RSDPOf(machine.firmware)

Prepared ==
    /\ pc \in Exited \cup {"LaunchVM", "Guest"} => c.Bindings = Bindings(image)
    /\ pc \in Exited \cup {"Guest"} => IsFunctionOn(BlockFields, vmcb)
    /\ pc \in Exited => seen # <<>> /\ IsFunctionOn(Registers, seen.regs)

(* The control block has the reason of the exit, and with the registers    *)
(* the container's state at it.                                            *)
Reason ==
    /\ seen.rip = rip /\ seen.called = called
    /\ vmcb.RIP = rip /\ vmcb.RAX = seen.regs["RAX"]
    /\ \/ /\ insn.op \in DOMAIN Exits /\ vmcb.ExitCode = Exits[insn.op]
          /\ insn.op = "Port" => vmcb.ExitInfo2 = rip + 1
       \/ /\ insn.op = "Access" /\ vmcb.ExitCode = EXCP(14)
          /\ vmcb.ExitInfo1 = insn.kind /\ vmcb.ExitInfo2 = insn.address

(* The container goes on, with the registers g, as it has to after the     *)
(* instruction it was at: the first is none, and one that faults may be    *)
(* repeated.                                                               *)
Resumes(g) ==
    LET after == [g EXCEPT !["RAX"] = vmcb.RAX]
        before == seen.regs
    IN  \/ /\ insn.op = "None"
           /\ vmcb.RIP = seen.rip /\ after = before /\ called = seen.called
        \/ /\ insn.op = "Access" /\ rip = seen.rip
           /\ vmcb.RIP = seen.rip /\ after = before /\ called = seen.called
        \/ /\ insn.op = "CPUID"
           /\ vmcb.RIP = seen.rip + 2 /\ called = seen.called
           /\ after = [r \in Registers |->
                         IF r \in {"RAX", "RBX", "RCX", "RDX"} THEN <<"cpuid", r>>
                         ELSE before[r]]
        \/ /\ insn.op = "VMMCALL"
           /\ vmcb.RIP = seen.rip + 3 /\ after = before
           /\ called = <<before["RAX"], before["RDI"], before["RSI"], before["RDX"],
                         before["R8"], before["R9"], before["R10"]>>
        \/ /\ insn.op = "Port"
           /\ vmcb.RIP = seen.rip + 1 /\ after = before /\ called = seen.called
        \/ /\ insn.op = "Access"
           /\ vmcb.RIP = Bindings(image).ExceptionHandler /\ called = seen.called
           /\ after = [before EXCEPT !["RDI"] = <<"fault", 14>>,
                                     !["RSI"] = <<"fault", insn.kind>>,
                                     !["RDX"] = <<"fault", insn.address>>]

Faithful ==
    /\ pc = "PushAll" => Reason /\ regs = [seen.regs EXCEPT !["RAX"] = VMCB]
    /\ pc = "HandleVMExit" => Reason /\ stack = PushAll([seen.regs EXCEPT !["RAX"] = VMCB])
    /\ pc = "PopAll" => Resumes(PopAll(stack))
    /\ pc = "VMRun" => Resumes(regs)

GuestInv == Shapes /\ NotSeen /\ Prepared /\ Faithful

(* Booting leaves the control block and the stack in the state of          *)
(* GuestInv.                                                               *)
LEMMA GuestInit == Init => GuestInv
<1> SUFFICES ASSUME Init PROVE GuestInv
  OBVIOUS
<1>1. Shapes
  BY DEF Init, Shapes, IsFunctionOn, Container
<1>2. NotSeen /\ Prepared /\ Faithful
  BY DEF Init, NotSeen, Prepared, Faithful, Booting, Answered, Exited
<1> QED
  BY <1>1, <1>2 DEF GuestInv

(* A function after one value of it has been written.                      *)
With(f, x, v) == [f EXCEPT ![x] = v]

(* What the stack becomes under a handler that writes to it.               *)
LEMMA StackWrites ==
    ASSUME NEW s, DOMAIN s = 1 .. 14, NEW a \in Registers, NEW v
    PROVE  /\ DOMAIN With(s, Field(a), v) = 1 .. 14
           /\ PopAll(With(s, Field(a), v)) = With(PopAll(s), a, v)
<1> DEFINE t == With(s, Field(a), v)
<1>1. \A r \in Registers : t[Field(r)] = IF r = a THEN v ELSE s[Field(r)]
  BY StackIsStructure DEF With
<1>2. /\ PopAll(t) = [r \in Registers |-> t[Field(r)]]
      /\ PopAll(s) = [r \in Registers |-> s[Field(r)]]
  BY StackIsStructure
<1>3. DOMAIN t = 1 .. 14
  BY DEF With
<1> HIDE DEF t
<1>4. PopAll(t) = With(PopAll(s), a, v)
  BY <1>1, <1>2 DEF With
<1> QED
  BY <1>3, <1>4 DEF t

(* Writing three registers on the stack and popping is popping and         *)
(* writing the registers.                                                  *)
LEMMA ThreeStackWrites ==
    ASSUME NEW s, DOMAIN s = 1 .. 14, NEW a \in Registers, NEW b \in Registers,
           NEW d \in Registers, NEW v, NEW w, NEW x
    PROVE  PopAll(With(With(With(s, Field(a), v), Field(b), w), Field(d), x))
             = With(With(With(PopAll(s), a, v), b, w), d, x)
<1>1. /\ DOMAIN With(s, Field(a), v) = 1 .. 14
      /\ PopAll(With(s, Field(a), v)) = With(PopAll(s), a, v)
  BY StackWrites
<1>2. /\ DOMAIN With(With(s, Field(a), v), Field(b), w) = 1 .. 14
      /\ PopAll(With(With(s, Field(a), v), Field(b), w)) = With(With(PopAll(s), a, v), b, w)
  BY <1>1, StackWrites
<1> QED
  BY <1>2, StackWrites

(* What HandleVMExit makes of each exit it serves.                         *)
HandlesTo(v, s, k, block, st) ==
    /\ HandleVMExit(v, s, k).vmcb = With(block, "ExitCode", 0)
    /\ HandleVMExit(v, s, k).stack = st

(* What HandleVMExit makes of the control block and the stack at each      *)
(* exit.                                                                   *)
LEMMA HandlerCases ==
    ASSUME NEW v, NEW s, NEW k
    PROVE  LET Becomes(block, st) == HandlesTo(v, s, k, block, st)
           IN  /\ v.ExitCode = VMEXIT("CPUID") =>
                    Becomes(With(With(v, "RAX", <<"cpuid", "RAX">>), "RIP", v.RIP + 2),
                            With(With(With(s, Field("RBX"), <<"cpuid", "RBX">>),
                                      Field("RCX"), <<"cpuid", "RCX">>),
                                 Field("RDX"), <<"cpuid", "RDX">>))
               /\ v.ExitCode = VMEXIT("VMMCALL") => Becomes(With(v, "RIP", v.RIP + 3), s)
               /\ v.ExitCode = VMEXIT("IOIO") => Becomes(With(v, "RIP", v.ExitInfo2), s)
               /\ v.ExitCode = EXCP(14) /\ InKernelRange(k, v.ExitInfo2) => Becomes(v, s)
               /\ v.ExitCode = EXCP(14) /\ ~InKernelRange(k, v.ExitInfo2) =>
                    Becomes(With(v, "RIP", k.Bindings.ExceptionHandler),
                            With(With(With(s, Field("RDI"), <<"fault", 14>>),
                                      Field("RSI"), <<"fault", v.ExitInfo1>>),
                                 Field("RDX"), <<"fault", v.ExitInfo2>>))
<1> DEFINE e1 == Emulate(v, s)
           e2 == [vmcb |-> [v EXCEPT !.RIP = @ + 3], stack |-> s]
           e3 == [vmcb |-> [v EXCEPT !.RIP = v.ExitInfo2], stack |-> s]
           e4 == Deliver(v, s, k)
           served == CASE v.ExitCode = VMEXIT("CPUID") -> e1
                       [] v.ExitCode = VMEXIT("VMMCALL") -> e2
                       [] v.ExitCode = VMEXIT("IOIO") -> e3
                       [] v.ExitCode = EXCP(14) -> e4
           r == HandleVMExit(v, s, k)
<1>1. r = [served EXCEPT !.vmcb.ExitCode = 0]
  BY DEF HandleVMExit
<1>2. \A e \in {e1, e2, e3, e4} : IsFunctionOn({"vmcb", "stack"}, e)
  BY DEF Emulate, Deliver, IsFunctionOn
<1>3. /\ e1.vmcb = With(With(v, "RAX", <<"cpuid", "RAX">>), "RIP", v.RIP + 2)
      /\ e1.stack = With(With(With(s, Field("RBX"), <<"cpuid", "RBX">>),
                              Field("RCX"), <<"cpuid", "RCX">>), Field("RDX"), <<"cpuid", "RDX">>)
  BY DEF Emulate, With
<1>4. /\ e2.vmcb = With(v, "RIP", v.RIP + 3) /\ e2.stack = s
      /\ e3.vmcb = With(v, "RIP", v.ExitInfo2) /\ e3.stack = s
  BY DEF With
<1>5. InKernelRange(k, v.ExitInfo2) => e4.vmcb = v /\ e4.stack = s
  BY DEF Deliver
<1>6. ~InKernelRange(k, v.ExitInfo2) =>
        /\ e4.vmcb = With(v, "RIP", k.Bindings.ExceptionHandler)
        /\ e4.stack = With(With(With(s, Field("RDI"), <<"fault", 14>>),
                                Field("RSI"), <<"fault", v.ExitInfo1>>),
                           Field("RDX"), <<"fault", v.ExitInfo2>>)
  BY DEF Deliver, With
<1> HIDE DEF e1, e2, e3, e4, r
<1>7. /\ v.ExitCode = VMEXIT("CPUID") => served = e1
      /\ v.ExitCode = VMEXIT("VMMCALL") => served = e2
      /\ v.ExitCode = VMEXIT("IOIO") => served = e3
      /\ v.ExitCode = EXCP(14) => served = e4
  BY ExitCodes
<1> HIDE DEF served
<1>8. served \in {e1, e2, e3, e4} =>
        r.vmcb = With(served.vmcb, "ExitCode", 0) /\ r.stack = served.stack
  BY <1>1, <1>2 DEF IsFunctionOn, With
<1> QED
  BY <1>3, <1>4, <1>5, <1>6, <1>7, <1>8 DEF r, HandlesTo

(* The exits the kernel serves leave the container where it expects to be. *)
LEMMA HandledResumes ==
    ASSUME GuestInv, Handle
    PROVE  Resumes(PopAll(stack))' /\ IsFunctionOn(BlockFields, vmcb')
<1> DEFINE g == PopAll(stack)
           before == seen.regs
           h == HandleVMExit(vmcb, stack, c)
<1>1. /\ Reason /\ stack = PushAll([before EXCEPT !["RAX"] = VMCB])
      /\ IsFunctionOn(BlockFields, vmcb) /\ IsFunctionOn(Registers, before)
      /\ c.Bindings = Bindings(image) /\ Served(vmcb)
  BY DEF Handle, GuestInv, Faithful, Prepared, Exited, guest, boot
<1>2. /\ vmcb' = h.vmcb /\ stack' = h.stack
      /\ seen' = seen /\ insn' = insn /\ rip' = rip /\ machine' = machine
      /\ called' = IF vmcb.ExitCode = VMEXIT("VMMCALL") THEN SyscallArguments(vmcb, stack) ELSE called
  BY DEF Handle, guest, boot
<1>3. /\ DOMAIN stack = 1 .. 14
      /\ g = [before EXCEPT !["RAX"] = VMCB]
      /\ \A r \in Registers : stack[Field(r)] = IF r = "RAX" THEN VMCB ELSE before[r]
  BY <1>1, StackIsStructure DEF IsFunctionOn
<1>4. CASE vmcb.ExitCode = VMEXIT("CPUID")
  <2>1. insn.op = "CPUID" /\ vmcb.ExitCode = 114
    BY <1>1, <1>4, ExitCodes DEF Reason, Exits
  <2>2. /\ vmcb' = With(With(With(vmcb, "RAX", <<"cpuid", "RAX">>), "RIP", vmcb.RIP + 2),
                        "ExitCode", 0)
        /\ stack' = With(With(With(stack, Field("RBX"), <<"cpuid", "RBX">>),
                              Field("RCX"), <<"cpuid", "RCX">>), Field("RDX"), <<"cpuid", "RDX">>)
    <3>1. HandlesTo(vmcb, stack, c,
                    With(With(vmcb, "RAX", <<"cpuid", "RAX">>), "RIP", vmcb.RIP + 2),
                    With(With(With(stack, Field("RBX"), <<"cpuid", "RBX">>),
                              Field("RCX"), <<"cpuid", "RCX">>), Field("RDX"), <<"cpuid", "RDX">>))
      BY <1>4, HandlerCases
    <3> QED
      BY <1>2, <3>1 DEF HandlesTo
  <2>3. PopAll(stack') = With(With(With(g, "RBX", <<"cpuid", "RBX">>),
                                   "RCX", <<"cpuid", "RCX">>), "RDX", <<"cpuid", "RDX">>)
    BY <1>3, <2>2, ThreeStackWrites, StackIsStructure
  <2>4. /\ IsFunctionOn(BlockFields, vmcb')
        /\ vmcb'.RAX = <<"cpuid", "RAX">> /\ vmcb'.RIP = seen.rip + 2
    BY <1>1, <2>2 DEF IsFunctionOn, BlockFields, Reason, With
  <2>5. [PopAll(stack') EXCEPT !["RAX"] = vmcb'.RAX]
          = [r \in Registers |->
               IF r \in {"RAX", "RBX", "RCX", "RDX"} THEN <<"cpuid", r>> ELSE before[r]]
    BY <1>1, <1>3, <2>3, <2>4, StackIsStructure DEF IsFunctionOn, With
  <2>6. called' = seen'.called
    BY <1>1, <1>2, <2>1, ExitCodes DEF Reason
  <2> QED
    BY <1>2, <2>1, <2>4, <2>5, <2>6 DEF Resumes
<1>5. CASE vmcb.ExitCode = VMEXIT("VMMCALL")
  <2>1. insn.op = "VMMCALL"
    BY <1>1, <1>5, ExitCodes DEF Reason, Exits
  <2>2. vmcb' = With(With(vmcb, "RIP", vmcb.RIP + 3), "ExitCode", 0) /\ stack' = stack
    <3>1. HandlesTo(vmcb, stack, c, With(vmcb, "RIP", vmcb.RIP + 3), stack)
      BY <1>5, HandlerCases
    <3> QED
      BY <1>2, <3>1 DEF HandlesTo
  <2>3. /\ IsFunctionOn(BlockFields, vmcb')
        /\ vmcb'.RAX = before["RAX"] /\ vmcb'.RIP = seen.rip + 3
    BY <1>1, <2>2 DEF IsFunctionOn, BlockFields, Reason, With
  <2>4. [PopAll(stack') EXCEPT !["RAX"] = vmcb'.RAX] = before
    BY <1>1, <1>3, <2>2, <2>3, StackIsStructure DEF IsFunctionOn
  <2>5. called' = <<before["RAX"], before["RDI"], before["RSI"], before["RDX"],
                    before["R8"], before["R9"], before["R10"]>>
    BY <1>1, <1>2, <1>3, <1>5, StackIsStructure DEF SyscallArguments, Reason
  <2> QED
    BY <1>2, <2>1, <2>3, <2>4, <2>5 DEF Resumes
<1>6. CASE vmcb.ExitCode = VMEXIT("IOIO")
  <2>1. insn.op = "Port" /\ vmcb.ExitInfo2 = rip + 1
    BY <1>1, <1>6, ExitCodes DEF Reason, Exits
  <2>2. vmcb' = With(With(vmcb, "RIP", vmcb.ExitInfo2), "ExitCode", 0) /\ stack' = stack
    <3>1. HandlesTo(vmcb, stack, c, With(vmcb, "RIP", vmcb.ExitInfo2), stack)
      BY <1>6, HandlerCases
    <3> QED
      BY <1>2, <3>1 DEF HandlesTo
  <2>3. /\ IsFunctionOn(BlockFields, vmcb')
        /\ vmcb'.RAX = before["RAX"] /\ vmcb'.RIP = seen.rip + 1
    BY <1>1, <2>1, <2>2 DEF IsFunctionOn, BlockFields, Reason, With
  <2>4. [PopAll(stack') EXCEPT !["RAX"] = vmcb'.RAX] = before
    BY <1>1, <1>3, <2>2, <2>3, StackIsStructure DEF IsFunctionOn
  <2>5. called' = seen'.called
    BY <1>1, <1>2, <1>6, ExitCodes DEF Reason
  <2> QED
    BY <1>2, <2>1, <2>3, <2>4, <2>5 DEF Resumes
<1>7. CASE vmcb.ExitCode = EXCP(14)
  <2>1. /\ insn.op = "Access"
        /\ vmcb.ExitInfo1 = insn.kind /\ vmcb.ExitInfo2 = insn.address
    BY <1>1, <1>7, ExitCodes DEF Reason, Exits
  <2>2. called' = seen'.called
    BY <1>1, <1>2, <1>7, ExitCodes DEF Reason
  <2>3. CASE InKernelRange(c, vmcb.ExitInfo2)
    <3>1. vmcb' = With(vmcb, "ExitCode", 0) /\ stack' = stack
      <4>1. HandlesTo(vmcb, stack, c, vmcb, stack)
        BY <1>7, <2>3, HandlerCases
      <4> QED
        BY <1>2, <4>1 DEF HandlesTo
    <3>2. /\ IsFunctionOn(BlockFields, vmcb')
          /\ vmcb'.RAX = before["RAX"] /\ vmcb'.RIP = seen.rip /\ rip' = seen'.rip
      BY <1>1, <1>2, <3>1 DEF IsFunctionOn, BlockFields, Reason, With
    <3>3. [PopAll(stack') EXCEPT !["RAX"] = vmcb'.RAX] = before
      BY <1>1, <1>3, <3>1, <3>2, StackIsStructure DEF IsFunctionOn
    <3> QED
      BY <1>2, <2>1, <2>2, <3>2, <3>3 DEF Resumes
  <2>4. CASE ~InKernelRange(c, vmcb.ExitInfo2)
    <3>1. /\ vmcb' = With(With(vmcb, "RIP", c.Bindings.ExceptionHandler), "ExitCode", 0)
          /\ stack' = With(With(With(stack, Field("RDI"), <<"fault", 14>>),
                                Field("RSI"), <<"fault", insn.kind>>),
                           Field("RDX"), <<"fault", insn.address>>)
      <4>1. HandlesTo(vmcb, stack, c, With(vmcb, "RIP", c.Bindings.ExceptionHandler),
                      With(With(With(stack, Field("RDI"), <<"fault", 14>>),
                                Field("RSI"), <<"fault", vmcb.ExitInfo1>>),
                           Field("RDX"), <<"fault", vmcb.ExitInfo2>>))
        BY <1>7, <2>4, HandlerCases
      <4> QED
        BY <1>2, <2>1, <4>1 DEF HandlesTo
    <3>2. /\ IsFunctionOn(BlockFields, vmcb')
          /\ vmcb'.RAX = before["RAX"] /\ vmcb'.RIP = Bindings(image).ExceptionHandler
      BY <1>1, <3>1 DEF IsFunctionOn, BlockFields, Reason, With
    <3>3. PopAll(stack') = With(With(With(g, "RDI", <<"fault", 14>>),
                                     "RSI", <<"fault", insn.kind>>),
                                "RDX", <<"fault", insn.address>>)
      BY <1>3, <3>1, ThreeStackWrites, StackIsStructure
    <3>4. [PopAll(stack') EXCEPT !["RAX"] = vmcb'.RAX]
            = [before EXCEPT !["RDI"] = <<"fault", 14>>, !["RSI"] = <<"fault", insn.kind>>,
                             !["RDX"] = <<"fault", insn.address>>]
      BY <1>1, <1>3, <3>2, <3>3, StackIsStructure DEF IsFunctionOn, With
    <3> QED
      BY <1>2, <2>1, <2>2, <3>2, <3>4 DEF Resumes, image
  <2> QED
    BY <2>3, <2>4
<1> QED
  BY <1>1, <1>4, <1>5, <1>6, <1>7 DEF Served

(* The manager keeps its type and nobody writes to the image.              *)
LEMMA RequestKeepsType ==
    ASSUME machine \in [image : Images, firmware : Firmware,
                        pmm : [active : BOOLEAN, frames : Nat]],
           NEW n \in Nat
    PROVE  /\ Requested(pmm, n) \in [active : BOOLEAN, frames : Nat]
           /\ Requested(pmm, n).active = pmm.active
  BY DEF Requested, pmm

(* As many frames are requested for a segment as it gets pages.            *)
LEMMA SetToSeqLength ==
    ASSUME NEW S, IsFiniteSet(S)
    PROVE  Len(SetToSeq(S)) = Cardinality(S) /\ Cardinality(S) \in Nat
<1>1. Cardinality(S) \in Nat /\ ExistsBijection(1 .. Cardinality(S), S)
  BY FS_CardinalityType
<1>2. \E f \in [1 .. Cardinality(S) -> S] : IsInjective(f)
  BY <1>1 DEF ExistsBijection, Bijection, Injection
<1>3. SetToSeq(S) \in [1 .. Cardinality(S) -> S]
  BY <1>2 DEF SetToSeq
<1> QED
  BY <1>1, <1>3

(* Page numbers and rounded addresses are numbers.                         *)
LEMMA PagesNumbered ==
    ASSUME NEW x \in Nat
    PROVE  PageOf(x) \in Nat /\ RoundDown(x) \in Nat /\ RoundUp(x) \in Nat
<1>1. x % PAGE \in Nat /\ x % PAGE <= x /\ (x + PAGE - 1) % PAGE \in Nat
      /\ (x + PAGE - 1) % PAGE <= x + PAGE - 1
  BY LoaderAssumption
<1> QED
  BY <1>1, LoaderAssumption DEF RoundDown, RoundUp, PageOf

(* The pages of a segment lie in the frames requested for it, in order.    *)
LEMMA SegmentFrames ==
    ASSUME NEW m, NEW ph \in Elf64_Phdr
    PROVE  LET new == SegmentPages(m, ph)
               n == Len(SetToSeq(DOMAIN new))
           IN  /\ n \in Nat
               /\ \A p \in DOMAIN new :
                    /\ p \in Int /\ p - PageOf(ph.vaddr) + 1 \in 1 .. n
                    /\ new[p].frame = Frame(m, p - PageOf(ph.vaddr) + 1)
<1> DEFINE new == SegmentPages(m, ph)
           a == PageOf(ph.vaddr)
           b == PageOf(RoundDown(ph.vaddr) + RoundUp(ph.memsz))
           n == Len(SetToSeq(DOMAIN new))
<1>1. a \in Nat /\ b \in Nat
  <2>1. ph.vaddr \in Nat /\ ph.memsz \in Nat
    BY DEF Elf64_Phdr
  <2>2. a \in Nat /\ RoundDown(ph.vaddr) + RoundUp(ph.memsz) \in Nat
    BY <2>1, PagesNumbered
  <2> QED
    BY <2>2, PagesNumbered
<1>2. CASE ph.type = "PT_LOAD" /\ ph.flags \in Loadable
  <2>1. /\ DOMAIN new = a .. b - 1
        /\ \A p \in DOMAIN new : new[p].frame = Frame(m, p - a + 1)
    BY <1>2 DEF SegmentPages, VMCopyAlloc, PagesOf
  <2> HIDE DEF new, a, b
  <2>2. IsFiniteSet(a .. b - 1) /\ Cardinality(a .. b - 1) = IF a > b - 1 THEN 0 ELSE (b - 1) - a + 1
    BY <1>1, FS_Interval
  <2>3. n = (IF a > b - 1 THEN 0 ELSE (b - 1) - a + 1) /\ n \in Nat
    BY <2>1, <2>2, SetToSeqLength
  <2> HIDE DEF n
  <2> QED
    BY <1>1, <2>1, <2>3 DEF new, n, a
<1>3. CASE ~(ph.type = "PT_LOAD" /\ ph.flags \in Loadable)
  <2>1. DOMAIN new = {}
    BY <1>3 DEF SegmentPages
  <2>2. n \in Nat
    BY <2>1, FS_EmptySet, SetToSeqLength
  <2> QED
    BY <2>1, <2>2
<1> QED
  BY <1>2, <1>3

(* What the assumption on the images gives of every segment.               *)
LEMMA HeadersAreTyped ==
    ASSUME Shapes, NEW i \in DOMAIN image.phdrs
    PROVE  image.phdrs[i] \in Elf64_Phdr
  BY MachineAssumption DEF Shapes, image, Elf64_Ehdr

(* What a container that maps memory gets: a page below tables that are    *)
(* there, or a table.                                                      *)
HeapPage == [frame |-> 1, data |-> <<>>, flags |-> HeapFlags]

LEMMA HeapIsMapped ==
    ASSUME Shapes, NEW p, c' = MapHeap(p)
    PROVE  /\ IsFunctionOn({"root", "space", "tables", "Lowest", "highest", "Highest",
                            "Bindings"}, c')
           /\ c'.root = c.root /\ c'.Lowest = c.Lowest /\ c'.highest = c.highest
           /\ c'.Highest = c.Highest /\ c'.Bindings = c.Bindings
           /\ \/ /\ c'.space = WithPages(c.space, [q \in {p} |-> HeapPage])
                 /\ c'.tables = c.tables /\ TablesAbove(p) \subseteq DOMAIN c.tables
              \/ /\ c'.space = c.space
                 /\ \E new : c'.tables = WithTables(c.tables, new, HeapFlags)
<1> DEFINE missing == TablesAbove(p) \ DOMAIN c.tables
           top == {t \in missing : \A u \in missing : u[1] <= t[1]}
           space == WithPages(c.space, [q \in {p} |-> HeapPage])
           tables == WithTables(c.tables, top, HeapFlags)
<1>1. IF missing = {} THEN c' = [c EXCEPT !.space = space] ELSE c' = [c EXCEPT !.tables = tables]
  BY DEF MapHeap, HeapPage
<1>2. missing = {} => TablesAbove(p) \subseteq DOMAIN c.tables
  OBVIOUS
<1> HIDE DEF missing, space, tables
<1>3. CASE missing = {}
  BY <1>1, <1>2, <1>3 DEF Shapes, IsFunctionOn, space
<1>4. CASE missing # {}
  <2>1. /\ IsFunctionOn({"root", "space", "tables", "Lowest", "highest", "Highest",
                         "Bindings"}, c')
        /\ c'.root = c.root /\ c'.Lowest = c.Lowest /\ c'.highest = c.highest
        /\ c'.Highest = c.Highest /\ c'.Bindings = c.Bindings
        /\ c'.space = c.space /\ c'.tables = tables
    BY <1>1, <1>4 DEF Shapes, IsFunctionOn
  <2> QED
    BY <2>1 DEF tables
<1> QED
  BY <1>3, <1>4

(* No step changes the shape of the control block, of the stack or of the  *)
(* registers.                                                              *)
LEMMA ShapesStep == ASSUME GuestInv, Next PROVE Shapes'
<1> USE DEF GuestInv
<1>1. CASE LimineEntry
  BY <1>1 DEF LimineEntry, boot, guest, Shapes, IsFunctionOn
<1>2. CASE InitializeBootCPU
  BY <1>2, RequestKeepsType DEF InitializeBootCPU, guest, Shapes, IsFunctionOn
<1>3. CASE KInfo
  BY <1>3 DEF KInfo, guest, Shapes, IsFunctionOn
<1>4. CASE InitializeRootSpace
  BY <1>4 DEF InitializeRootSpace, guest, Shapes, IsFunctionOn
<1>5. CASE InitVMM
  BY <1>5, RequestKeepsType DEF InitVMM, guest, Shapes, IsFunctionOn
<1>6. CASE InitializeCPUFeatures
  BY <1>6 DEF InitializeCPUFeatures, guest, Shapes, IsFunctionOn
<1>7. CASE LoadContainer
  BY <1>7, RequestKeepsType DEF LoadContainer, guest, Shapes, IsFunctionOn
<1>8. CASE LoadProgramHeader
  <2> DEFINE ph == image.phdrs[segment]
             new == SegmentPages(pmm, ph)
             n == Len(SetToSeq(DOMAIN new))
  <2>1. CASE DOMAIN new \cap DOMAIN c.space # {}
    BY <1>8, <2>1 DEF LoadProgramHeader, guest, Shapes, IsFunctionOn
  <2>2. CASE DOMAIN new \cap DOMAIN c.space = {}
    <3>1. n \in Nat
      BY <1>8, SegmentFrames, HeadersAreTyped DEF LoadProgramHeader
    <3>2. machine' = [machine EXCEPT !.pmm = Requested(pmm, n)]
      BY <1>8, <2>2 DEF LoadProgramHeader
    <3>3. machine' \in [image : Images, firmware : Firmware,
                        pmm : [active : BOOLEAN, frames : Nat]]
      BY <3>1, <3>2, RequestKeepsType DEF Shapes
    <3>4. IsFunctionOn({"root", "space", "tables", "Lowest", "highest", "Highest", "Bindings"}, c')
      BY <1>8, <2>2 DEF LoadProgramHeader, Shapes, IsFunctionOn, WithBounds
    <3> QED
      BY <1>8, <3>3, <3>4 DEF LoadProgramHeader, Shapes, guest
  <2> QED
    BY <2>1, <2>2
<1>9. CASE LoadStack
  <2>1. STACK \div PAGE \in Nat
    BY LoaderAssumption
  <2>2. machine' \in [image : Images, firmware : Firmware,
                      pmm : [active : BOOLEAN, frames : Nat]]
    BY <1>9, <2>1, RequestKeepsType DEF LoadStack, Shapes
  <2>3. IsFunctionOn({"root", "space", "tables", "Lowest", "highest", "Highest", "Bindings"}, c')
    BY <1>9 DEF LoadStack, Shapes, IsFunctionOn
  <2> QED
    BY <1>9, <2>2, <2>3 DEF LoadStack, Shapes, guest
<1>10. CASE LaunchVM
  BY <1>10, RequestKeepsType DEF LaunchVM, guest, Shapes, IsFunctionOn
<1>11. CASE Execute
  BY <1>11 DEF Execute, boot, Shapes, IsFunctionOn
<1>12. CASE Exit
  BY <1>12 DEF Exit, boot, Shapes, IsFunctionOn
<1>13. CASE SaveRegisters
  BY <1>13 DEF SaveRegisters, boot, Shapes, IsFunctionOn
<1>14. CASE Handle
  <2>1. c' = c \/ \E p : c' = MapHeap(p)
    BY <1>14 DEF Handle
  <2>2. IsFunctionOn({"root", "space", "tables", "Lowest", "highest", "Highest", "Bindings"}, c')
    BY <2>1, HeapIsMapped DEF Shapes
  <2> QED
    BY <1>14, <2>2 DEF Handle, boot, Shapes
<1>15. CASE GiveUp
  BY <1>15 DEF GiveUp, boot, guest, Shapes, IsFunctionOn
<1>16. CASE RestoreRegisters
  BY <1>16, StackIsStructure DEF RestoreRegisters, boot, Shapes, IsFunctionOn
<1>17. CASE VMRun
  BY <1>17 DEF VMRun, boot, Shapes, IsFunctionOn
<1> QED
  BY <1>1, <1>2, <1>3, <1>4, <1>5, <1>6, <1>7, <1>8, <1>9, <1>10, <1>11, <1>12, <1>13,
     <1>14, <1>15, <1>16, <1>17 DEF Next, Boot, Host

(* What the firmware and the image decide stays as it is.                  *)
LEMMA MachineIsGiven ==
    ASSUME Shapes, Next
    PROVE  machine'.image = machine.image /\ machine'.firmware = machine.firmware
<1> USE DEF Shapes
<1>1. CASE Boot
  BY <1>1 DEF Boot, LimineEntry, InitializeBootCPU, KInfo, InitializeRootSpace, InitVMM,
     InitializeCPUFeatures, LoadContainer, LoadProgramHeader, LoadStack, LaunchVM, boot
<1>2. CASE Execute \/ Exit \/ Host
  BY <1>2 DEF Execute, Exit, Host, SaveRegisters, Handle, GiveUp, RestoreRegisters, VMRun, boot
<1> QED
  BY <1>1, <1>2 DEF Next

(* Every step of an exit, of the handler and of the re-entry keeps         *)
(* GuestInv.                                                               *)
LEMMA GuestStep == ASSUME GuestInv, Next PROVE GuestInv'
<1>1. Shapes'
  BY ShapesStep
<1>2. /\ Bindings(image)' = Bindings(image)
      /\ RSDPOf(machine.firmware)' = RSDPOf(machine.firmware)
  BY MachineIsGiven DEF GuestInv, image
<1> USE DEF GuestInv
<1>3. CASE Boot /\ ~LaunchVM
  <2>1. pc \in Booting \ {"LaunchVM"} /\ UNCHANGED guest
    BY <1>3 DEF Boot, LimineEntry, InitializeBootCPU, KInfo, InitializeRootSpace, InitVMM,
       InitializeCPUFeatures, LoadContainer, LoadProgramHeader, LoadStack, Booting
  <2>2. pc' \in Booting \cup {"Panic", "Halt", "Hung"}
    BY <1>3 DEF Boot, LimineEntry, InitializeBootCPU, KInfo, InitializeRootSpace, InitVMM,
       InitializeCPUFeatures, LoadContainer, LoadProgramHeader, LoadStack, Booting
  <2>3. pc' \in Answered => kernel'.RSDP = RSDPOf(machine.firmware)
    BY <1>1, <1>3 DEF Boot, LimineEntry, InitializeBootCPU, KInfo, InitializeRootSpace, InitVMM,
       InitializeCPUFeatures, LoadContainer, LoadProgramHeader, LoadStack, Booting, Answered,
       NotSeen, Shapes, IsFunctionOn, boot
  <2>4. NotSeen'
    BY <1>2, <2>1, <2>2, <2>3 DEF NotSeen, Booting, Answered, guest
  <2>5. pc' = "LaunchVM" => c'.Bindings = Bindings(image)
    BY <1>3 DEF Boot, LimineEntry, InitializeBootCPU, KInfo, InitializeRootSpace, InitVMM,
       InitializeCPUFeatures, LoadContainer, LoadProgramHeader, LoadStack, LaunchVM,
       Shapes, IsFunctionOn
  <2>6. Prepared' /\ Faithful'
    BY <1>2, <2>2, <2>5 DEF Prepared, Faithful, Booting, Exited
  <2> QED
    BY <1>1, <2>4, <2>6
<1>4. CASE LaunchVM
  <2>1. /\ pc = "LaunchVM" /\ seen = <<>> /\ called = <<>> /\ insn.op = "None"
        /\ kernel.RSDP = RSDPOf(machine.firmware) /\ c.Bindings = Bindings(image)
    BY <1>4 DEF LaunchVM, NotSeen, Prepared, Booting, Answered
  <2>2. /\ vmcb' = InitializeVMCB(image.entry, c.Highest, c.root, kernel.RSDP)
        /\ seen' = [rip |-> image.entry, called |-> called,
                    regs |-> [regs EXCEPT !["RAX"] = vmcb'.RAX]]
        /\ regs' = [regs EXCEPT !["RAX"] = VMCB]
        /\ pc' \in {"VMRun", "Hung"}
        /\ c' = c /\ called' = called /\ insn' = insn
    BY <1>4 DEF LaunchVM
  <2>3. /\ IsFunctionOn(BlockFields, vmcb')
        /\ vmcb'.RIP = image.entry /\ vmcb'.RAX = kernel.RSDP
    BY <2>2 DEF InitializeVMCB, IsFunctionOn, BlockFields
  <2>4. seen' # <<>> /\ IsFunctionOn(Registers, seen'.regs)
        /\ seen'.rip = image.entry /\ seen'.called = called
    <3>1. DOMAIN seen' = {"rip", "called", "regs"}
      BY <2>2
    <3>2. seen' # <<>>
      BY <3>1
    <3> QED
      BY <2>2, <3>2 DEF Shapes, IsFunctionOn
  <2>5. [regs' EXCEPT !["RAX"] = vmcb'.RAX] = seen'.regs
    BY <2>2, StackIsStructure DEF Shapes, IsFunctionOn
  <2>6. Resumes(regs)'
    BY <2>1, <2>2, <2>3, <2>4, <2>5 DEF Resumes
  <2>7. NotSeen' /\ Prepared' /\ Faithful'
    BY <1>2, <2>1, <2>2, <2>3, <2>4, <2>6 DEF NotSeen, Prepared, Faithful, Booting, Answered, Exited
  <2> QED
    BY <1>1, <2>7
<1>5. CASE Execute
  BY <1>1, <1>2, <1>5 DEF Execute, boot, NotSeen, Prepared, Faithful, Booting, Answered, Exited
<1>6. CASE Exit
  <2>1. /\ pc = "Guest" /\ pc' = "PushAll" /\ IsFunctionOn(BlockFields, vmcb)
        /\ seen' = [rip |-> rip, regs |-> regs, called |-> called]
        /\ regs' = [regs EXCEPT !["RAX"] = VMCB]
        /\ UNCHANGED <<boot, c, rip, insn, stack, called>>
    BY <1>6 DEF Exit, Prepared
  <2>2. /\ IsFunctionOn(BlockFields, vmcb')
        /\ vmcb'.RIP = rip /\ vmcb'.RAX = regs["RAX"]
        /\ vmcb'.ExitCode = IF insn.op = "Access" THEN EXCP(14) ELSE Exits[insn.op]
        /\ vmcb'.ExitInfo1 = IF insn.op = "Access" THEN insn.kind ELSE "none"
        /\ insn.op = "Access" => vmcb'.ExitInfo2 = insn.address
        /\ insn.op = "Port" => vmcb'.ExitInfo2 = rip + 1
    BY <1>6, <2>1 DEF Exit, IsFunctionOn, BlockFields
  <2>3. insn.op \in DOMAIN Exits \/ insn.op = "Access"
    BY <1>6 DEF Exit
  <2>4. "Access" \notin DOMAIN Exits
    BY DEF Exits
  <2>5. seen' # <<>> /\ seen'.rip = rip /\ seen'.regs = regs /\ seen'.called = called
    <3>1. DOMAIN seen' = {"rip", "called", "regs"}
      BY <2>1
    <3> QED
      BY <2>1, <3>1
  <2>6. Reason'
    BY <2>1, <2>2, <2>3, <2>4, <2>5 DEF Reason, Exits
  <2>7. NotSeen' /\ Prepared' /\ Faithful'
    BY <1>2, <2>1, <2>2, <2>5, <2>6 DEF NotSeen, Prepared, Faithful, Booting, Answered, Exited, Shapes
  <2> QED
    BY <1>1, <2>7
<1>7. CASE SaveRegisters
  <2>1. /\ pc = "PushAll" /\ pc' = "HandleVMExit" /\ stack' = PushAll(regs)
        /\ UNCHANGED <<boot, c, regs, rip, insn, vmcb, called, seen>>
    BY <1>7 DEF SaveRegisters
  <2>2. Reason' /\ stack' = PushAll([seen'.regs EXCEPT !["RAX"] = VMCB])
    BY <2>1 DEF Faithful, Reason
  <2> QED
    BY <1>1, <1>2, <2>1, <2>2 DEF NotSeen, Prepared, Faithful, Booting, Answered, Exited
<1>8. CASE Handle
  <2>1. /\ pc = "HandleVMExit" /\ pc' = "PopAll" /\ seen' = seen
        /\ c.Bindings = Bindings(image)
        /\ seen # <<>> /\ IsFunctionOn(Registers, seen.regs)
    BY <1>8 DEF Handle, Prepared, Exited
  <2>2. c'.Bindings = c.Bindings
    <3>1. c' = c \/ \E p : c' = MapHeap(p)
      BY <1>8 DEF Handle
    <3> QED
      BY <3>1, HeapIsMapped
  <2>3. Resumes(PopAll(stack))' /\ IsFunctionOn(BlockFields, vmcb')
    BY <1>8, HandledResumes
  <2> QED
    BY <1>1, <1>2, <2>1, <2>2, <2>3 DEF NotSeen, Prepared, Faithful, Booting, Answered, Exited
<1>9. CASE GiveUp
  BY <1>1, <1>9 DEF GiveUp, NotSeen, Prepared, Faithful, Booting, Answered, Exited
<1>10. CASE RestoreRegisters
  <2>1. /\ pc = "PopAll" /\ pc' = "VMRun" /\ regs' = PopAll(stack)
        /\ UNCHANGED <<boot, c, rip, insn, vmcb, stack, called, seen>>
    BY <1>10 DEF RestoreRegisters
  <2>2. Resumes(regs)'
    BY <2>1 DEF Faithful, Resumes, boot, image
  <2> QED
    BY <1>1, <1>2, <2>1, <2>2 DEF NotSeen, Prepared, Faithful, Booting, Answered, Exited
<1>11. CASE VMRun
  BY <1>1, <1>2, <1>11 DEF VMRun, NotSeen, Prepared, Faithful, Booting, Answered, Exited
<1> QED
  BY <1>3, <1>4, <1>5, <1>6, <1>7, <1>8, <1>9, <1>10, <1>11 DEF Next, Host, Boot

(* Between an exit and the next entry the kernel's stack and the control   *)
(* block hold the container's state as it was at the exit, or what the     *)
(* handler makes of it.                                                    *)
THEOREM GuestIsKept == Spec => []GuestInv
<1>1. ASSUME GuestInv, UNCHANGED vars PROVE GuestInv'
  BY <1>1 DEF vars, boot, guest, GuestInv, Shapes, NotSeen, Prepared, Faithful, Reason, Resumes,
     image
<1> QED
  BY <1>1, GuestInit, GuestStep, PTL DEF Spec

(* The container's state as the container sees it.                         *)
SeenRip == IF pc = "Guest" THEN rip ELSE IF seen = <<>> THEN image.entry ELSE seen.rip

SeenRegs == IF pc = "Guest" THEN regs
            ELSE IF seen = <<>> THEN [regs EXCEPT !["RAX"] = RSDPOf(machine.firmware)]
            ELSE seen.regs

SeenCalled == IF pc = "Guest" \/ seen = <<>> THEN called ELSE seen.called

Seen == <<Bindings(image).ExceptionHandler, SeenRip, SeenRegs, insn, SeenCalled>>

(* Nothing the kernel does while it boots or handles an exit is seen.      *)
LEMMA KernelIsUnseen ==
    ASSUME GuestInv, Boot \/ Exit \/ SaveRegisters \/ Handle \/ GiveUp \/ RestoreRegisters
    PROVE  Seen' = Seen
<1> USE DEF GuestInv
<1>1. machine'.image = machine.image /\ machine'.firmware = machine.firmware
  BY MachineIsGiven DEF Next, Host
<1>2. /\ Bindings(image)' = Bindings(image) /\ image'.entry = image.entry
      /\ RSDPOf(machine.firmware)' = RSDPOf(machine.firmware)
  BY <1>1 DEF image
<1>3. CASE Boot /\ ~LaunchVM
  <2>1. pc # "Guest" /\ pc' # "Guest" /\ UNCHANGED guest
    BY <1>3 DEF Boot, LimineEntry, InitializeBootCPU, KInfo, InitializeRootSpace, InitVMM,
       InitializeCPUFeatures, LoadContainer, LoadProgramHeader, LoadStack
  <2> QED
    BY <1>2, <2>1 DEF Seen, SeenRip, SeenRegs, SeenCalled, guest
<1>4. CASE LaunchVM
  <2>1. /\ pc = "LaunchVM" /\ seen = <<>> /\ kernel.RSDP = RSDPOf(machine.firmware)
    BY <1>4 DEF LaunchVM, NotSeen, Booting, Answered
  <2>2. /\ vmcb' = InitializeVMCB(image.entry, c.Highest, c.root, kernel.RSDP)
        /\ seen' = [rip |-> image.entry, called |-> called,
                    regs |-> [regs EXCEPT !["RAX"] = vmcb'.RAX]]
        /\ pc' # "Guest" /\ called' = called /\ insn' = insn
    BY <1>4 DEF LaunchVM
  <2>3. vmcb'.RAX = RSDPOf(machine.firmware)
    BY <2>1, <2>2 DEF InitializeVMCB
  <2>4. /\ seen' # <<>> /\ seen'.rip = image.entry /\ seen'.called = called
        /\ seen'.regs = [regs EXCEPT !["RAX"] = RSDPOf(machine.firmware)]
    <3>1. DOMAIN seen' = {"rip", "called", "regs"}
      BY <2>2
    <3>2. seen' # <<>>
      BY <3>1
    <3> QED
      BY <2>2, <2>3, <3>2
  <2>5. SeenRip' = SeenRip /\ SeenRegs' = SeenRegs /\ SeenCalled' = SeenCalled
    BY <2>1, <2>2, <2>4 DEF SeenRip, SeenRegs, SeenCalled
  <2> QED
    BY <1>2, <2>2, <2>5 DEF Seen
<1>5. CASE Exit
  <2>1. /\ pc = "Guest" /\ pc' = "PushAll" /\ insn' = insn
        /\ seen' = [rip |-> rip, regs |-> regs, called |-> called]
    BY <1>5 DEF Exit
  <2>2. seen' # <<>> /\ seen'.rip = rip /\ seen'.regs = regs /\ seen'.called = called
    <3>1. DOMAIN seen' = {"rip", "regs", "called"}
      BY <2>1
    <3> QED
      BY <2>1, <3>1
  <2> QED
    BY <1>2, <2>1, <2>2 DEF Seen, SeenRip, SeenRegs, SeenCalled
<1>6. CASE SaveRegisters \/ Handle \/ GiveUp \/ RestoreRegisters
  <2>1. pc \in Exited /\ pc' # "Guest" /\ seen' = seen /\ insn' = insn
    BY <1>6 DEF SaveRegisters, Handle, GiveUp, RestoreRegisters, Exited, guest
  <2>2. seen # <<>> /\ pc # "Guest"
    BY <2>1 DEF Prepared, Exited
  <2> QED
    BY <1>2, <2>1, <2>2 DEF Seen, SeenRip, SeenRegs, SeenCalled
<1> QED
  BY <1>3, <1>4, <1>5, <1>6

(* Every instruction is one step of the processor the container sees: the  *)
(* one that computes as it is executed, the one that exits as the          *)
(* container is resumed.                                                   *)
LEMMA StepIsInstruction ==
    ASSUME GuestInv, [Next]_vars
    PROVE  Processor!Next \/ Seen' = Seen
<1> USE DEF GuestInv
<1>1. CASE UNCHANGED vars
  BY <1>1 DEF vars, boot, guest, Seen, SeenRip, SeenRegs, SeenCalled, image
<1>2. CASE Boot \/ Exit \/ SaveRegisters \/ Handle \/ GiveUp \/ RestoreRegisters
  BY <1>2, KernelIsUnseen
<1>3. CASE Execute
  <2>1. pc = "Guest" /\ pc' = "Guest" /\ called' = called /\ machine' = machine
    BY <1>3 DEF Execute, boot
  <2>2. CASE insn.op = "Jump" /\ rip' = insn.target
    <3>1. Processor!Jump /\ Bindings(image)' = Bindings(image)
      BY <2>1, <2>2 DEF Processor!Jump, image
    <3> QED
      BY <3>1 DEF Processor!Next
  <2>3. CASE insn.op = "Access" /\ rip' = rip + 1 /\ regs' = regs
    <3>1. Processor!Access /\ Bindings(image)' = Bindings(image)
      BY <2>1, <2>3 DEF Processor!Access, image
    <3> QED
      BY <3>1 DEF Processor!Next
  <2> QED
    BY <1>3, <2>2, <2>3 DEF Execute
<1>4. CASE VMRun
  <2> DEFINE before == seen.regs
             after == [regs EXCEPT !["RAX"] = vmcb.RAX]
  <2>1. /\ pc = "VMRun" /\ pc' = "Guest"
        /\ rip' = vmcb.RIP /\ regs' = after /\ called' = called
        /\ machine' = machine
        /\ insn.op # "None" /\ rip' = rip => insn' = insn
    BY <1>4 DEF VMRun, boot
  <2>2. seen # <<>> /\ Resumes(regs) /\ IsFunctionOn(Registers, before)
    BY <2>1 DEF Prepared, Faithful, Exited
  <2>3. /\ SeenRip = seen.rip /\ SeenRegs = before /\ SeenCalled = seen.called
        /\ SeenRip' = vmcb.RIP /\ SeenRegs' = after /\ SeenCalled' = called
        /\ Bindings(image)' = Bindings(image)
    BY <2>1, <2>2 DEF SeenRip, SeenRegs, SeenCalled, image
  <2>4. DOMAIN before = Registers
    BY <2>2 DEF IsFunctionOn
  <2> HIDE DEF before, after
  <2>5. CASE insn.op = "None" /\ SeenRip' = SeenRip /\ SeenRegs' = SeenRegs
             /\ SeenCalled' = SeenCalled
    <3>1. Processor!Start
      BY <2>5 DEF Processor!Start, SeenRip, SeenRegs, SeenCalled
    <3> QED
      BY <2>3, <3>1 DEF Processor!Next
  <2>6. CASE insn.op = "Access" /\ rip = seen.rip /\ vmcb.RIP = seen.rip
             /\ after = before /\ called = seen.called
    BY <2>1, <2>3, <2>6 DEF Seen
  <2>7. CASE /\ insn.op = "CPUID"
             /\ vmcb.RIP = seen.rip + 2 /\ called = seen.called
             /\ after = [r \in Registers |->
                           IF r \in {"RAX", "RBX", "RCX", "RDX"} THEN <<"cpuid", r>>
                           ELSE before[r]]
    <3>1. /\ SeenRip' = SeenRip + 2 /\ SeenCalled' = SeenCalled
          /\ SeenRegs' = [r \in DOMAIN SeenRegs |->
                            IF r \in {"RAX", "RBX", "RCX", "RDX"} THEN <<"cpuid", r>>
                            ELSE SeenRegs[r]]
      BY <2>3, <2>4, <2>7
    <3>2. Processor!Cpuid
      BY <2>7, <3>1 DEF Processor!Cpuid, SeenRip, SeenRegs, SeenCalled
    <3> QED
      BY <2>3, <3>2 DEF Processor!Next
  <2>8. CASE /\ insn.op = "VMMCALL"
             /\ vmcb.RIP = seen.rip + 3 /\ after = before
             /\ called = <<before["RAX"], before["RDI"], before["RSI"], before["RDX"],
                           before["R8"], before["R9"], before["R10"]>>
    <3>1. /\ SeenRip' = SeenRip + 3 /\ SeenRegs' = SeenRegs
          /\ SeenCalled' = <<SeenRegs["RAX"], SeenRegs["RDI"], SeenRegs["RSI"],
                             SeenRegs["RDX"], SeenRegs["R8"], SeenRegs["R9"],
                             SeenRegs["R10"]>>
      BY <2>3, <2>8
    <3>2. Processor!Vmmcall
      BY <2>8, <3>1 DEF Processor!Vmmcall, SeenRip, SeenRegs, SeenCalled
    <3> QED
      BY <2>3, <3>2 DEF Processor!Next
  <2>9. CASE /\ insn.op = "Port"
             /\ vmcb.RIP = seen.rip + 1 /\ after = before /\ called = seen.called
    <3>1. Processor!Port
      BY <2>3, <2>9 DEF Processor!Port, SeenRip, SeenRegs, SeenCalled
    <3> QED
      BY <2>3, <3>1 DEF Processor!Next
  <2>10. CASE /\ insn.op = "Access"
              /\ vmcb.RIP = Bindings(image).ExceptionHandler /\ called = seen.called
              /\ after = [before EXCEPT !["RDI"] = <<"fault", 14>>,
                                        !["RSI"] = <<"fault", insn.kind>>,
                                        !["RDX"] = <<"fault", insn.address>>]
    <3>1. /\ SeenRip' = Bindings(image).ExceptionHandler /\ SeenCalled' = SeenCalled
          /\ SeenRegs' = [SeenRegs EXCEPT !["RDI"] = <<"fault", 14>>,
                                          !["RSI"] = <<"fault", insn.kind>>,
                                          !["RDX"] = <<"fault", insn.address>>]
      BY <2>3, <2>10
    <3>2. Processor!Fault
      BY <2>10, <3>1 DEF Processor!Fault, SeenRip, SeenRegs, SeenCalled
    <3> QED
      BY <2>3, <3>2 DEF Processor!Next
  <2> QED
    BY <2>2, <2>3, <2>5, <2>6, <2>7, <2>8, <2>9, <2>10 DEF Resumes, before, after
<1> QED
  BY <1>1, <1>2, <1>3, <1>4 DEF Next, Host

(* The exits are invisible: whatever executable is loaded, a container     *)
(* sees a processor that executes its instructions one after another and   *)
(* delivers its faults to its handler, and every call is given the         *)
(* registers the container had.                                            *)
THEOREM ProcessorImplemented == Spec => ImplementsProcessor
<1>1. ASSUME GuestInv, [Next]_vars
      PROVE  [Processor!Next]_<<Bindings(image).ExceptionHandler,
                 IF pc = "Guest" THEN rip ELSE IF seen = <<>> THEN image.entry ELSE seen.rip,
                 IF pc = "Guest" THEN regs
                 ELSE IF seen = <<>> THEN [regs EXCEPT !["RAX"] = RSDPOf(machine.firmware)]
                 ELSE seen.regs,
                 insn, IF pc = "Guest" \/ seen = <<>> THEN called ELSE seen.called>>
  BY <1>1, StepIsInstruction DEF Seen, SeenRip, SeenRegs, SeenCalled
<1> QED
  BY <1>1, GuestIsKept, PTL DEF Spec, ImplementsProcessor, Processor!Spec

-----------------------------------------------------------------------------
(* Nobody builds on a page the manager refused.                            *)

(* Quotient and remainder are unique.                                      *)
LEMMA QuotientIsUnique ==
    ASSUME NEW y \in Nat \ {0}, NEW a \in Int, NEW b \in Int, NEW r \in 0 .. y - 1,
           NEW s \in 0 .. y - 1, y * a + r = y * b + s
    PROVE  a = b /\ r = s
<1>1. ASSUME NEW i \in Int, NEW j \in Int, i < j, NEW t \in 0 .. y - 1, NEW u \in 0 .. y - 1
      PROVE  y * i + t # y * j + u
  <2>1. y * (j - i - 1) >= 0
    BY <1>1
  <2>2. y * (j - i - 1) = y * j - y * i - y /\ y * i \in Int /\ y * j \in Int
    BY <1>1
  <2> QED
    BY <2>1, <2>2
<1>2. a = b
  BY <1>1
<1> QED
  BY <1>2

(* An address is its page and its place in it.                             *)
LEMMA Division ==
    ASSUME NEW x \in Nat
    PROVE  /\ x = PAGE * (x \div PAGE) + (x % PAGE)
           /\ x \div PAGE \in Nat /\ x % PAGE \in 0 .. PAGE - 1
  BY LoaderAssumption

(* A range of whole pages maps as many as it has.                          *)
LEMMA WholePages ==
    ASSUME NEW x \in Nat, NEW n \in Nat, n % PAGE = 0
    PROVE  PageOf(RoundDown(x) + RoundUp(n)) = PageOf(x) + n \div PAGE
<1> DEFINE q == x \div PAGE
           k == n \div PAGE
           m == n + PAGE - 1
           y == RoundDown(x) + RoundUp(n)
<1>1. PAGE \in Nat \ {0}
  BY LoaderAssumption
<1>2. n = PAGE * k /\ k \in Nat /\ q \in Nat /\ x = PAGE * q + (x % PAGE) /\ x % PAGE \in Nat
  BY Division, <1>1
<1>3. m \in Nat /\ m = PAGE * (m \div PAGE) + (m % PAGE) /\ m \div PAGE \in Nat
      /\ m % PAGE \in 0 .. PAGE - 1
  BY <1>1, Division
<1>4. m % PAGE = PAGE - 1
  <2> DEFINE d == m \div PAGE
             r == m % PAGE
             e == PAGE - 1
  <2>1. d \in Int /\ k \in Int /\ r \in 0 .. PAGE - 1 /\ e \in 0 .. PAGE - 1
    BY <1>1, <1>2, <1>3
  <2>2. PAGE * d + r = PAGE * k + e
    BY <1>1, <1>2, <1>3
  <2> HIDE DEF k, d, r, e
  <2>3. r = e
    BY <1>1, <2>1, <2>2, QuotientIsUnique
  <2> QED
    BY <2>3 DEF r, e
<1>5. RoundUp(n) = n /\ RoundDown(x) = PAGE * q
  BY <1>1, <1>2, <1>3, <1>4 DEF RoundUp, RoundDown
<1>6. y \in Nat /\ y = PAGE * (q + k) + 0
  <2>1. PAGE * (q + k) = PAGE * q + PAGE * k /\ PAGE * q \in Nat /\ PAGE * k \in Nat
    BY <1>1, <1>2
  <2> QED
    BY <1>2, <1>5, <2>1
<1>7. y = PAGE * (y \div PAGE) + (y % PAGE) /\ y \div PAGE \in Nat /\ y % PAGE \in 0 .. PAGE - 1
  BY <1>6, Division
<1>8. y \div PAGE = q + k
  <2> HIDE DEF y, q, k
  <2>1. 0 \in 0 .. PAGE - 1 /\ q + k \in Int /\ y \div PAGE \in Int
    BY <1>1, <1>2, <1>7
  <2>2. PAGE * (y \div PAGE) + (y % PAGE) = PAGE * (q + k) + 0
    BY <1>6, <1>7
  <2> QED
    BY <1>1, <1>7, <2>1, <2>2, QuotientIsUnique
<1> QED
  BY <1>8 DEF PageOf

(* The frames of the space are among the first f, those outside of the     *)
(* heap are no table of T, and each is mapped once.                        *)
GivenOnce(space, f, T) ==
    /\ \A p \in DOMAIN space : space[p].frame \in Nat \ {0}
    /\ \A p \in DOMAIN space \ Heap : space[p].frame \in (1 .. f) \ T
    /\ \A p, q \in DOMAIN space \ Heap : space[p].frame = space[q].frame => p = q

(* Pages requested after others are none of them.                          *)
LEMMA NewPagesAreGivenOnce ==
    ASSUME NEW space, NEW new, NEW f \in Nat, NEW n \in Nat, NEW a \in Int, NEW T,
           T \subseteq 1 .. f, GivenOnce(space, f, T),
           \A p \in DOMAIN new :
             p \in Int /\ p - a + 1 \in 1 .. n /\ new[p].frame = f + (p - a + 1)
    PROVE  GivenOnce(WithPages(space, new), f + n, T)
<1> DEFINE both == WithPages(space, new)
<1>1. \A p \in DOMAIN both :
        \/ p \in DOMAIN new /\ both[p].frame = f + (p - a + 1)
        \/ p \in DOMAIN space \ DOMAIN new /\ both[p] = space[p]
  BY DEF WithPages
<1> HIDE DEF both
<1>2. \A p \in DOMAIN new : p \in Int /\ f + (p - a + 1) \in (f + 1) .. (f + n)
  OBVIOUS
<1>3. \A p \in DOMAIN both : both[p].frame \in Nat \ {0}
  BY <1>1, <1>2 DEF GivenOnce
<1>4. \A p \in DOMAIN both \ Heap : both[p].frame \in (1 .. f + n) \ T
  BY <1>1, <1>2 DEF GivenOnce
<1>5. \A p, q \in DOMAIN both \ Heap : both[p].frame = both[q].frame => p = q
  BY <1>1, <1>2 DEF GivenOnce
<1> QED
  BY <1>3, <1>4, <1>5 DEF GivenOnce, both

Managed == {"InitVMM", "InitializeCPUFeatures", "LoadContainer", "LoadProgramHeaders", "LaunchVM"}

Running == Exited \cup {"Guest", "Spin"}

Loading == {"LoadProgramHeaders", "LaunchVM"} \cup Running

Rooted == {"InitializeCPUFeatures", "LoadContainer"} \cup Loading

Tables == {kernel.root, c.root, kernel.VMData} \ {0}

(* The manager counts the frames it has given, and is active while it is   *)
(* asked for the tables.                                                   *)
FramesInv ==
    /\ c.highest \in Nat
    /\ pc \in Managed => pmm.active
    /\ Tables \subseteq 1 .. pmm.frames
    /\ GivenOnce(c.space, pmm.frames, Tables)
    /\ pc \in Rooted => kernel.root # 0
    /\ pc \in Loading => c.root \notin {0, kernel.root}
    /\ pc \in Running => kernel.VMData \notin {0, kernel.root, c.root}

(* At the start nothing is given.                                          *)
LEMMA FramesInit == Init => FramesInv
<1> SUFFICES ASSUME Init PROVE FramesInv
  OBVIOUS
<1>1. c = Container /\ kernel.root = 0 /\ kernel.VMData = 0 /\ pmm.frames = 0 /\ pc = "LimineEntry"
  BY DEF Init, pmm
<1>2. c.highest = 0 /\ c.root = 0 /\ DOMAIN c.space = {}
  BY <1>1 DEF Container
<1> QED
  BY <1>1, <1>2 DEF FramesInv, GivenOnce, Tables, Managed, Rooted, Loading, Running, Exited

(* A frame that is requested from the active manager is a new one.         *)
LEMMA RequestIsNew ==
    ASSUME Shapes, pmm.active, NEW n \in Nat
    PROVE  /\ pmm.frames \in Nat /\ Frame(pmm, n) = pmm.frames + n
           /\ Requested(pmm, n).frames = pmm.frames + n
           /\ Requested(pmm, n).active
  BY DEF Shapes, pmm, Frame, Requested

(* ... and so it may become a table.                                       *)
LEMMA NewTable ==
    ASSUME NEW space, NEW f \in Nat, NEW g \in Nat, f <= g, NEW k \in (f + 1) .. g,
           NEW T, NEW U, U \subseteq T \cup {k}, GivenOnce(space, f, T)
    PROVE  GivenOnce(space, g, U)
  BY DEF GivenOnce

(* Booting gives each frame to one use only.                               *)
LEMMA FramesStep == ASSUME GuestInv, FramesInv, Next PROVE FramesInv'
<1> DEFINE f == pmm.frames
           T == Tables
<1>1. /\ Shapes /\ f \in Nat /\ T \subseteq 1 .. f /\ GivenOnce(c.space, f, T)
      /\ c.highest \in Nat
  BY DEF GuestInv, Shapes, FramesInv, pmm
<1> USE DEF FramesInv
<1>2. CASE LimineEntry \/ KInfo \/ InitializeRootSpace \/ InitializeCPUFeatures
  <2>1. /\ kernel'.root = kernel.root /\ kernel'.VMData = kernel.VMData /\ c' = c
        /\ machine'.pmm.frames = f
    BY <1>1, <1>2 DEF LimineEntry, KInfo, InitializeRootSpace, InitializeCPUFeatures, boot, pmm,
       Shapes, IsFunctionOn
  <2>2. Tables' = T
    BY <2>1 DEF Tables
  <2>3. \/ pc' \in {"InitializeBootCPU", "Panic", "InitializeRootSpace"}
        \/ pc' = "InitVMM" /\ machine'.pmm.active
        \/ pc = "InitializeCPUFeatures" /\ pc' = "LoadContainer" /\ machine' = machine
    BY <1>1, <1>2 DEF LimineEntry, KInfo, InitializeRootSpace, InitializeCPUFeatures, boot,
       Shapes
  <2> QED
    BY <1>1, <2>1, <2>2, <2>3 DEF Managed, Running, Loading, Rooted, Exited, pmm
<1>3. CASE InitializeBootCPU
  <2>1. /\ kernel'.root = kernel.root /\ kernel'.VMData = kernel.VMData /\ c' = c
        /\ machine'.pmm.frames \in {f, f + 8} /\ pc' = "KInfo"
    BY <1>1, <1>3 DEF InitializeBootCPU, Requested, pmm, Shapes
  <2>2. Tables' = T /\ T \subseteq 1 .. f + 8
    BY <1>1, <2>1 DEF Tables
  <2>3. GivenOnce(c.space, f + 8, T)
    <3>1. f + 8 \in Nat /\ f <= f + 8 /\ f + 1 \in (f + 1) .. (f + 8)
      BY <1>1
    <3> HIDE DEF f, T
    <3> QED
      BY <1>1, <3>1, NewTable
  <2> QED
    BY <1>1, <2>1, <2>2, <2>3 DEF Managed, Running, Loading, Rooted, Exited, pmm
<1>4. CASE InitVMM
  <2>1. pmm.active
    BY <1>4 DEF InitVMM, Managed
  <2>2. /\ kernel'.root = f + 1 /\ kernel'.VMData = kernel.VMData /\ c' = c
        /\ machine'.pmm.frames = f + 1 /\ machine'.pmm.active
        /\ pc' = "InitializeCPUFeatures"
    BY <1>1, <1>4, <2>1, RequestIsNew DEF InitVMM, Shapes, IsFunctionOn
  <2>3. Tables' \subseteq T \cup {f + 1}
    BY <2>2 DEF Tables
  <2>4. GivenOnce(c.space, f + 1, Tables')
    <3>1. f + 1 \in Nat /\ f <= f + 1 /\ f + 1 \in (f + 1) .. (f + 1)
      BY <1>1
    <3> HIDE DEF f, T
    <3> QED
      BY <1>1, <2>3, <3>1, NewTable
  <2> QED
    BY <1>1, <2>2, <2>3, <2>4 DEF Managed, Running, Loading, Rooted, Exited, pmm
<1>5. CASE LoadContainer
  <2>1. CASE ~VerifyELF(image)
    <3>1. c' = c /\ machine' = machine /\ kernel' = kernel /\ pc' = "Halt"
      BY <1>5, <2>1 DEF LoadContainer
    <3> QED
      BY <1>1, <3>1 DEF Tables, Managed, Running, Loading, Rooted, Exited, pmm
  <2>2. CASE VerifyELF(image)
    <3>1. pmm.active /\ kernel.root # 0
      BY <1>5 DEF LoadContainer, Managed, Rooted
    <3>2. /\ c'.root = f + 1 /\ c'.space = c.space /\ c'.highest = c.highest /\ kernel' = kernel
          /\ machine'.pmm.frames = f + 1 /\ machine'.pmm.active
          /\ pc' = "LoadProgramHeaders"
      BY <1>1, <1>5, <2>2, <3>1, RequestIsNew DEF LoadContainer, Shapes, IsFunctionOn
    <3>3. Tables' \subseteq T \cup {f + 1} /\ kernel.root \in T
      BY <3>1, <3>2 DEF Tables
    <3>4. GivenOnce(c.space, f + 1, Tables')
      <4>1. f + 1 \in Nat /\ f <= f + 1 /\ f + 1 \in (f + 1) .. (f + 1)
        BY <1>1
      <4> HIDE DEF f, T
      <4> QED
        BY <1>1, <3>3, <4>1, NewTable
    <3> QED
      BY <1>1, <3>1, <3>2, <3>3, <3>4 DEF Managed, Running, Loading, Rooted, Exited, pmm
  <2> QED
    BY <2>1, <2>2
<1>6. CASE LoadProgramHeader
  <2> DEFINE ph == image.phdrs[segment]
             new == SegmentPages(pmm, ph)
             n == Len(SetToSeq(DOMAIN new))
  <2>1. pc = "LoadProgramHeaders" /\ kernel' = kernel /\ pmm.active /\ ph \in Elf64_Phdr
    BY <1>1, <1>6, HeadersAreTyped DEF LoadProgramHeader, Managed
  <2>2. CASE DOMAIN new \cap DOMAIN c.space # {}
    <3>1. c' = c /\ machine' = machine /\ pc' = "Hung"
      BY <1>6, <2>2 DEF LoadProgramHeader
    <3> QED
      BY <1>1, <2>1, <3>1 DEF Tables, Managed, Running, Loading, Rooted, Exited, pmm
  <2>3. CASE DOMAIN new \cap DOMAIN c.space = {}
    <3>0. ph.vaddr \in Nat /\ ph.memsz \in Nat
      BY <2>1 DEF Elf64_Phdr
    <3>1. /\ n \in Nat /\ PageOf(ph.vaddr) \in Int
          /\ \A p \in DOMAIN new :
               p \in Int /\ p - PageOf(ph.vaddr) + 1 \in 1 .. n
      <4>1. PageOf(ph.vaddr) \in Int
        BY <3>0, PagesNumbered
      <4> QED
        BY <2>1, <4>1, SegmentFrames
    <3>2. \A p \in DOMAIN new : new[p].frame = f + (p - PageOf(ph.vaddr) + 1)
      <4>1. \A p \in DOMAIN new : new[p].frame = Frame(pmm, p - PageOf(ph.vaddr) + 1)
        BY <2>1, SegmentFrames
      <4> QED
        BY <2>1, <4>1 DEF Frame
    <3>3. /\ machine' = [machine EXCEPT !.pmm = Requested(pmm, n)] /\ pc' = pc
          /\ c'.space = WithPages(c.space, new) /\ c'.root = c.root
          /\ c'.highest \in {c.highest, RoundUp(ph.vaddr + ph.memsz)}
      BY <1>1, <1>6, <2>3 DEF LoadProgramHeader, WithBounds, Shapes, IsFunctionOn
    <3>4. machine'.pmm.frames = f + n /\ machine'.pmm.active
      BY <1>1, <2>1, <3>1, <3>3, RequestIsNew DEF Shapes
    <3>5. c'.highest \in Nat
      <4>1. ph.vaddr + ph.memsz \in Nat
        BY <3>0
      <4>2. RoundUp(ph.vaddr + ph.memsz) \in Nat
        BY <4>1, PagesNumbered
      <4> QED
        BY <1>1, <3>3, <4>2
    <3>6. Tables' = T
      BY <2>1, <3>3 DEF Tables
    <3> HIDE DEF f, T, n, new, ph
    <3>7. GivenOnce(c'.space, f + n, T)
      BY <1>1, <3>1, <3>2, <3>3, NewPagesAreGivenOnce
    <3> QED
      BY <1>1, <2>1, <3>1, <3>3, <3>4, <3>5, <3>6, <3>7
      DEF Managed, Running, Loading, Rooted, Exited, pmm, f, T
  <2> QED
    BY <2>2, <2>3
<1>7. CASE LoadStack
  <2> DEFINE a == PageOf(c.highest)
             n == STACK \div PAGE
             new == VMAlloc(pmm, c.highest, STACK, StackFlags)
  <2>1. /\ pc = "LoadProgramHeaders" /\ pc' = "LaunchVM" /\ kernel' = kernel /\ pmm.active
        /\ c'.space = WithPages(c.space, new) /\ c'.root = c.root /\ c'.highest = c.highest
        /\ machine' = [machine EXCEPT !.pmm = Requested(pmm, n)]
    BY <1>1, <1>7 DEF LoadStack, Managed, Shapes, IsFunctionOn
  <2>2. n \in Nat /\ a \in Int /\ PageOf(RoundDown(c.highest) + RoundUp(STACK)) = a + n
    <3>1. STACK \in Nat /\ STACK % PAGE = 0 /\ n \in Nat /\ a \in Int
      BY <1>1, LoaderAssumption, PagesNumbered
    <3> QED
      BY <1>1, <3>1, WholePages
  <2>3. \A p \in DOMAIN new :
           p \in Int /\ p - a + 1 \in 1 .. n /\ new[p].frame = f + (p - a + 1)
    <3>1. DOMAIN new = a .. (a + n) - 1
      BY <2>2 DEF VMAlloc, PagesOf
    <3>2. \A p \in DOMAIN new : new[p].frame = Frame(pmm, p - a + 1)
      BY DEF VMAlloc
    <3> HIDE DEF n, a, new
    <3> QED
      BY <2>1, <2>2, <3>1, <3>2 DEF Frame
  <2>4. machine'.pmm.frames = f + n /\ machine'.pmm.active
    BY <1>1, <2>1, <2>2, RequestIsNew DEF Shapes
  <2>5. Tables' = T
    BY <2>1 DEF Tables
  <2> HIDE DEF f, T, n, new, a
  <2>6. GivenOnce(c'.space, f + n, T)
    BY <1>1, <2>1, <2>2, <2>3, NewPagesAreGivenOnce
  <2> QED
    BY <1>1, <2>1, <2>2, <2>4, <2>5, <2>6
    DEF Managed, Running, Loading, Rooted, Exited, pmm, f, T
<1>8. CASE LaunchVM
  <2>1. pmm.active /\ kernel.root # 0 /\ c.root \notin {0, kernel.root}
    BY <1>8 DEF LaunchVM, Managed, Rooted, Loading
  <2>2. /\ kernel'.VMData = f + 1 /\ kernel'.root = kernel.root /\ c' = c
        /\ machine'.pmm.frames = f + 8 /\ pc' \in {"VMRun", "Hung"}
    BY <1>1, <1>8, <2>1, RequestIsNew DEF LaunchVM, Shapes, IsFunctionOn, Frame, Requested, pmm
  <2>3. Tables' \subseteq T \cup {f + 1} /\ {kernel.root, c.root} \subseteq T
    BY <2>1, <2>2 DEF Tables
  <2>4. GivenOnce(c.space, f + 8, Tables')
    <3>1. f + 8 \in Nat /\ f <= f + 8 /\ f + 1 \in (f + 1) .. (f + 8)
      BY <1>1
    <3> HIDE DEF f, T
    <3> QED
      BY <1>1, <2>3, <3>1, NewTable
  <2> QED
    BY <1>1, <2>1, <2>2, <2>3, <2>4 DEF Managed, Running, Loading, Rooted, Exited, pmm
<1>9. CASE Handle
  <2>1. /\ pc \in Running /\ pc' \in Running /\ kernel' = kernel /\ machine' = machine
        /\ pc' \notin Managed
    BY <1>9 DEF Handle, boot, Running, Exited, Managed
  <2>2. CASE c' = c
    BY <1>1, <2>1, <2>2 DEF Tables, Loading, Rooted, pmm
  <2>3. ASSUME NEW p \in Heap \ DOMAIN c.space, c' = MapHeap(p)
        PROVE  FramesInv'
    <3>1. c'.root = c.root /\ c'.highest = c.highest
      BY <1>1, <2>3, HeapIsMapped
    <3>2. \/ c'.space = c.space
          \/ /\ DOMAIN c'.space = DOMAIN c.space \cup {p}
             /\ \A q \in DOMAIN c.space : c'.space[q] = c.space[q]
             /\ c'.space[p].frame = 1
      <4>1. c'.space \in {c.space, WithPages(c.space, [q \in {p} |-> HeapPage])}
        BY <1>1, <2>3, HeapIsMapped
      <4> QED
        BY <2>3, <4>1 DEF WithPages, HeapPage
    <3>3. Tables' = T
      BY <2>1, <3>1 DEF Tables
    <3>4. DOMAIN c'.space \ Heap = DOMAIN c.space \ Heap
      BY <2>3, <3>2
    <3> HIDE DEF f, T
    <3>5. GivenOnce(c'.space, f, T)
      BY <1>1, <2>3, <3>2, <3>4 DEF GivenOnce
    <3> QED
      BY <1>1, <2>1, <3>1, <3>3, <3>5 DEF Loading, Rooted, pmm, f, T
  <2> QED
    BY <1>9, <2>2, <2>3 DEF Handle
<1>10. CASE Execute \/ Exit \/ SaveRegisters \/ GiveUp \/ RestoreRegisters \/ VMRun
  <2>1. /\ pc \in Running /\ pc' \in Running /\ c' = c /\ kernel' = kernel /\ machine' = machine
        /\ pc' \notin Managed
    BY <1>10 DEF Execute, Exit, SaveRegisters, GiveUp, RestoreRegisters, VMRun, boot, Running,
       Exited, Managed
  <2> QED
    BY <1>1, <2>1 DEF Tables, Loading, Rooted, pmm
<1> QED
  BY <1>2, <1>3, <1>4, <1>5, <1>6, <1>7, <1>8, <1>9, <1>10 DEF Next, Boot, Host

(* The frames of a launched container, its tables and the control block    *)
(* are all the manager's, and no two of them are the same.                 *)
THEOREM NothingIsAtNull == Spec => []NothingAtNull
<1>1. ASSUME FramesInv, UNCHANGED vars PROVE FramesInv'
  BY <1>1 DEF vars, boot, FramesInv, Tables, pmm
<1>2. ASSUME FramesInv PROVE NothingAtNull
  <2> SUFFICES ASSUME Launched PROVE NothingAtNull
    BY DEF NothingAtNull
  <2>1. pc \in Running /\ pc \in Loading /\ pc \in Rooted
    BY DEF Launched, Running, Loading, Rooted, Exited
  <2>2. /\ 0 \notin {kernel.root, c.root, kernel.VMData}
        /\ kernel.root # c.root /\ kernel.VMData \notin {kernel.root, c.root}
    BY <1>2, <2>1 DEF FramesInv
  <2>3. Tables = {kernel.root, c.root, kernel.VMData}
    BY <2>2 DEF Tables
  <2> QED
    BY <1>2, <2>2, <2>3 DEF FramesInv, GivenOnce, NothingAtNull
<1> QED
  BY <1>1, <1>2, FramesInit, FramesStep, GuestIsKept, PTL DEF Spec

-----------------------------------------------------------------------------
(* The container has the memory its file describes.                        *)

(* Products by the size of a page are ordered as their factors.            *)
LEMMA PageOrder ==
    ASSUME NEW a \in Int, NEW b \in Int
    PROVE  /\ PAGE * a < PAGE * b => a < b
           /\ a < b => (PAGE * a) + PAGE <= PAGE * b
<1>1. PAGE \in Nat /\ PAGE > 0
  BY LoaderAssumption
<1>2. ASSUME NEW i \in Int, NEW j \in Int, i < j PROVE (PAGE * i) + PAGE <= PAGE * j
  <2>1. PICK d \in Nat : j = i + 1 + d
    <3>1. j - i - 1 \in Nat /\ j = i + 1 + (j - i - 1)
      BY <1>2
    <3> QED
      BY <3>1
  <2>2. PAGE * j = (PAGE * i) + PAGE + (PAGE * d) /\ PAGE * d \in Nat /\ PAGE * i \in Int
    BY <1>1, <2>1
  <2> QED
    BY <1>1, <2>2
<1>3. PAGE * a < PAGE * b => a < b
  <2>1. CASE b < a
    <3>1. (PAGE * b) + PAGE <= PAGE * a /\ PAGE * a \in Int /\ PAGE * b \in Int
      BY <1>1, <1>2, <2>1
    <3> QED
      BY <1>1, <3>1
  <2>2. CASE b = a
    BY <1>1, <2>2
  <2> QED
    BY <2>1, <2>2
<1> QED
  BY <1>2, <1>3

(* An address and its rounded forms.                                       *)
LEMMA Rounding ==
    ASSUME NEW x \in Nat
    PROVE  /\ x \in Nat /\ PageOf(x) \in Nat /\ x % PAGE \in 0 .. PAGE - 1
           /\ x = (PAGE * PageOf(x)) + (x % PAGE)
           /\ RoundDown(x) = PAGE * PageOf(x)
           /\ PageOf(x + PAGE - 1) \in Nat
           /\ RoundUp(x) = PAGE * PageOf(x + PAGE - 1)
           /\ RoundUp(x) \in Nat /\ x <= RoundUp(x) /\ RoundUp(x) < x + PAGE
<1> DEFINE y == x + PAGE - 1
<1>1. PAGE \in Nat \ {0} /\ y \in Nat
  BY LoaderAssumption
<1>2. /\ x = (PAGE * PageOf(x)) + (x % PAGE) /\ PageOf(x) \in Nat /\ x % PAGE \in 0 .. PAGE - 1
      /\ y = (PAGE * PageOf(y)) + (y % PAGE) /\ PageOf(y) \in Nat /\ y % PAGE \in 0 .. PAGE - 1
  BY <1>1, Division DEF PageOf
<1>3. RoundUp(x) = RoundDown(y)
  BY DEF RoundUp
<1> HIDE DEF y
<1>4. RoundDown(x) = PAGE * PageOf(x) /\ RoundDown(y) = PAGE * PageOf(y)
  <2>1. PAGE * PageOf(x) \in Nat /\ PAGE * PageOf(y) \in Nat
    BY <1>1, <1>2
  <2> QED
    BY <1>1, <1>2, <2>1 DEF RoundDown
<1>5. PAGE * PageOf(y) \in Nat
  BY <1>1, <1>2
<1> QED
  BY <1>1, <1>2, <1>3, <1>4, <1>5 DEF y

(* The page of an address in a page.                                       *)
LEMMA PageOfSum ==
    ASSUME NEW a \in Nat, NEW r \in 0 .. PAGE - 1
    PROVE  PageOf((PAGE * a) + r) = a /\ ((PAGE * a) + r) % PAGE = r
<1> DEFINE x == (PAGE * a) + r
           b == x \div PAGE
           s == x % PAGE
<1>1. PAGE \in Nat \ {0} /\ x \in Nat
  BY LoaderAssumption
<1>2. x = (PAGE * b) + s /\ b \in Int /\ s \in 0 .. PAGE - 1
  BY <1>1, Division
<1> HIDE DEF b, s
<1>3. (PAGE * a) + r = (PAGE * b) + s
  BY <1>2
<1>4. a = b /\ r = s
  BY <1>1, <1>2, <1>3, QuotientIsUnique
<1> QED
  BY <1>4 DEF b, s, PageOf

(* A later address is on no earlier page.                                  *)
LEMMA PagesAreOrdered ==
    ASSUME NEW x \in Nat, NEW y \in Nat, x <= y
    PROVE  PageOf(x) <= PageOf(y)
<1> DEFINE a == PageOf(x)
           b == PageOf(y)
<1>1. /\ a \in Nat /\ b \in Nat /\ PAGE \in Nat
      /\ x = (PAGE * a) + (x % PAGE) /\ x % PAGE \in 0 .. PAGE - 1
      /\ y = (PAGE * b) + (y % PAGE) /\ y % PAGE \in 0 .. PAGE - 1
  BY Rounding, LoaderAssumption
<1> HIDE DEF a, b
<1>2. b < a => (PAGE * b) + PAGE <= PAGE * a
  BY <1>1, PageOrder
<1>3. PAGE * a \in Nat /\ PAGE * b \in Nat
  BY <1>1
<1> QED
  BY <1>1, <1>2, <1>3 DEF a, b

(* The pages of a range lie before the page its rounded end begins.        *)
LEMMA RangeOfPages ==
    ASSUME NEW v \in Nat, NEW m \in Nat
    PROVE  /\ PagesOf(v, m) = PageOf(v) .. PageOf(v) + PageOf(m + PAGE - 1) - 1
           /\ PageOf(v) \in Nat /\ PageOf(m + PAGE - 1) \in Nat
           /\ PageOf(v) + PageOf(m + PAGE - 1) <= PageOf(RoundUp(v + m))
<1> DEFINE a == PageOf(v)
           n == PageOf(m + PAGE - 1)
           b == PageOf(v + m + PAGE - 1)
<1>1. PAGE \in Nat \ {0} /\ v + m \in Nat
  BY LoaderAssumption
<1>2. /\ a \in Nat /\ n \in Nat /\ b \in Nat
      /\ RoundDown(v) = PAGE * a /\ RoundUp(m) = PAGE * n /\ RoundUp(v + m) = PAGE * b
      /\ RoundUp(m) < m + PAGE /\ v + m <= RoundUp(v + m)
      /\ v = (PAGE * a) + (v % PAGE) /\ v % PAGE \in 0 .. PAGE - 1
  BY <1>1, Rounding
<1> HIDE DEF a, n, b
<1>3. /\ RoundDown(v) + RoundUp(m) = (PAGE * (a + n)) + 0 /\ PAGE * (a + n) \in Nat
      /\ PAGE * (b + 1) = (PAGE * b) + PAGE /\ PAGE * a \in Nat /\ PAGE * b \in Nat
      /\ PAGE * n \in Nat /\ PAGE * (a + n) = (PAGE * a) + (PAGE * n)
  BY <1>1, <1>2
<1>4. PAGE * (a + n) < PAGE * (b + 1)
  BY <1>1, <1>2, <1>3
<1>5. a + n < b + 1
  BY <1>2, <1>4, PageOrder
<1>6. 0 \in 0 .. PAGE - 1 /\ a + n \in Nat
  BY <1>1, <1>2
<1>7. PageOf(RoundDown(v) + RoundUp(m)) = a + n
  BY <1>3, <1>6, PageOfSum
<1>8. PageOf(RoundUp(v + m)) = b
  <2>1. RoundUp(v + m) = (PAGE * b) + 0
    BY <1>2, <1>3
  <2> QED
    BY <1>2, <1>6, <2>1, PageOfSum
<1> QED
  BY <1>2, <1>5, <1>7, <1>8 DEF PagesOf, a, n

(* The place in its segment of the byte i of page p.                       *)
Offset(ph, p, i) == ((p - PageOf(ph.vaddr)) * PAGE) + i

ByteOf(ph, at) == IF at \in 0 .. ph.filesz - 1 THEN ph.offset + at + 1 ELSE 0

(* The space has the pages of the segment, with its access and, where it   *)
(* begins on a page, its bytes.                                            *)
Held(space, ph) ==
    \A p \in PagesOf(ph.vaddr, ph.memsz) :
        /\ p \in DOMAIN space
        /\ space[p].flags = SegmentFlags(ph.flags)
        /\ Aligned(ph) => \A i \in 0 .. PAGE - 1 :
                            space[p].data[i] = ByteOf(ph, Offset(ph, p, i))

Placed(ph) == ph.type = "PT_LOAD" /\ ph.flags \in Loadable

(* A turn of the loop gives a segment its pages.                           *)
LEMMA SegmentIsHeld ==
    ASSUME NEW m, NEW ph \in Elf64_Phdr, Placed(ph)
    PROVE  /\ DOMAIN SegmentPages(m, ph) = PagesOf(ph.vaddr, ph.memsz)
           /\ Held(SegmentPages(m, ph), ph)
<1> DEFINE v == ph.vaddr
           flags == SegmentFlags(ph.flags)
           skipped == IF v <= RoundDown(v) THEN 0 ELSE 1
           at(p, i) == (p - PageOf(v) - skipped) * PAGE + i
           new == SegmentPages(m, ph)
<1>1. new = VMCopyAlloc(m, v, ph.memsz, flags, ph.offset, v, ph.filesz)
  BY DEF SegmentPages, Placed
<1>2. new = [p \in PagesOf(v, ph.memsz) |->
               [frame |-> Frame(m, p - PageOf(v) + 1), flags |-> flags,
                data |-> [i \in 0 .. PAGE - 1 |->
                            IF at(p, i) \in 0 .. ph.filesz - 1
                            THEN ph.offset + at(p, i) + 1 ELSE 0]]]
  BY <1>1 DEF VMCopyAlloc
<1>3. v \in Nat /\ PageOf(v) \in Nat /\ PAGE \in Nat /\ ph.memsz \in Nat
  BY PagesNumbered, LoaderAssumption DEF Elf64_Phdr
<1>4. Aligned(ph) => skipped = 0
  BY <1>3 DEF Aligned, RoundDown
<1> HIDE DEF skipped, new, flags
<1>5. ASSUME NEW p \in PagesOf(v, ph.memsz)
      PROVE  /\ new[p].flags = flags
             /\ \A i \in 0 .. PAGE - 1 :
                  new[p].data[i] = IF at(p, i) \in 0 .. ph.filesz - 1
                                   THEN ph.offset + at(p, i) + 1 ELSE 0
  BY <1>2
<1>6. ASSUME NEW p \in PagesOf(v, ph.memsz), Aligned(ph), NEW i \in 0 .. PAGE - 1
      PROVE  new[p].data[i] = ByteOf(ph, Offset(ph, p, i))
  <2>1. p \in Int
    <3>1. PagesOf(v, ph.memsz) = PageOf(v) .. PageOf(v) + PageOf(ph.memsz + PAGE - 1) - 1
      BY <1>3, RangeOfPages
    <3> QED
      BY <3>1
  <2>2. p - PageOf(v) - skipped = p - PageOf(v)
    BY <1>3, <1>4, <1>6, <2>1
  <2>3. at(p, i) = Offset(ph, p, i)
    BY <2>2 DEF Offset
  <2> HIDE DEF at
  <2> QED
    BY <1>5, <2>3 DEF ByteOf
<1> QED
  BY <1>2, <1>5, <1>6 DEF Held, new, flags

(* Pages that are added elsewhere take nothing from a segment.             *)
LEMMA HeldWithPages ==
    ASSUME NEW space, NEW new, NEW ph
    PROVE  /\ DOMAIN new \cap DOMAIN space = {} /\ Held(space, ph) => Held(WithPages(space, new), ph)
           /\ Held(new, ph) => Held(WithPages(space, new), ph)
<1>1. /\ DOMAIN WithPages(space, new) = DOMAIN space \cup DOMAIN new
      /\ \A p \in DOMAIN new : WithPages(space, new)[p] = new[p]
      /\ \A p \in DOMAIN space \ DOMAIN new : WithPages(space, new)[p] = space[p]
  BY DEF WithPages
<1> QED
  BY <1>1 DEF Held

(* The stack begins on the page after the image and is clear.              *)
StackPages(top) == PageOf(top) .. PageOf(top) + (STACK \div PAGE) - 1

StackHeld(space, top) ==
    \A p \in StackPages(top) :
        /\ p \in DOMAIN space
        /\ space[p].flags = StackFlags
        /\ \A i \in 0 .. PAGE - 1 : space[p].data[i] = 0

Loaded == {"LaunchVM"} \cup Running

Unloaded == Booting \ {"LoadProgramHeaders", "LaunchVM"}

(* The headers the loop has been at.                                       *)
Done == IF pc = "LoadProgramHeaders" THEN 1 .. segment - 1
        ELSE IF pc \in Loaded THEN DOMAIN image.phdrs ELSE {}

(* What the turn of the loop at a header has done about it.                *)
Settled(ph) ==
    /\ Placed(ph) => Held(c.space, ph)
    /\ ph.type = "PT_LOAD" => ph.vaddr + ph.memsz <= c.highest
    /\ Linked /\ Placed(ph) => c.Lowest <= ph.vaddr

Bounded ==
    /\ c.highest % PAGE = 0
    /\ c.highest # 0 => \E k \in Done : /\ image.phdrs[k].type = "PT_LOAD"
                                        /\ c.Lowest = image.phdrs[k].vaddr
    /\ \A p \in DOMAIN c.space : p \in Int /\ p < PageOf(c.highest)

(* What the segment registers of the container are launched with.          *)
Launching == InitializeVMCB(0, 0, 0, 0).Selectors

ImageInv ==
    /\ c.Lowest \in Nat /\ c.highest \in Nat /\ segment \in Nat
    /\ pc \in Unloaded => c.highest = 0 /\ DOMAIN c.space = {} /\ segment = 1
    /\ pc = "LoadProgramHeaders" => segment \in 1 .. Len(image.phdrs) + 1 /\ Bounded
    /\ \A j \in Done : Settled(image.phdrs[j])
    /\ pc \in Loaded => /\ c.highest % PAGE = 0 /\ c.Highest = c.highest + STACK
                        /\ StackHeld(c.space, c.highest)
    /\ pc \in Running => vmcb.Selectors = Launching

(* Where the bytes of a segment are.                                       *)
LEMMA ByteIsHeld ==
    ASSUME NEW space, NEW ph \in Elf64_Phdr, Held(space, ph),
           (ph.vaddr % PAGE) + ph.memsz <= RoundUp(ph.memsz),
           NEW i \in 0 .. ph.memsz - 1
    PROVE  LET p == PageOf(ph.vaddr + i)
           IN  /\ p \in PagesOf(ph.vaddr, ph.memsz)
               /\ Aligned(ph) => space[p].data[(ph.vaddr + i) % PAGE]
                                   = IF i < ph.filesz THEN ph.offset + i + 1 ELSE 0
<1> DEFINE v == ph.vaddr
           m == ph.memsz
           a == PageOf(v)
           q == PageOf(i)
           r == i % PAGE
           p == PageOf(v + i)
           n == PageOf(m + PAGE - 1)
<1>1. v \in Nat /\ m \in Nat /\ ph.filesz \in Nat /\ i \in Nat /\ i < m /\ PAGE \in Nat /\ PAGE > 0
  BY LoaderAssumption DEF Elf64_Phdr
<1>2. /\ a \in Nat /\ q \in Nat /\ r \in 0 .. PAGE - 1 /\ n \in Nat
      /\ i = (PAGE * q) + r /\ v = (PAGE * a) + (v % PAGE)
      /\ m <= PAGE * n /\ v % PAGE \in Nat /\ (v % PAGE) + m <= PAGE * n
  <2>1. RoundUp(m) = PAGE * n /\ m <= RoundUp(m) /\ n \in Nat
    BY <1>1, Rounding
  <2>2. a \in Nat /\ v = (PAGE * a) + (v % PAGE) /\ v % PAGE \in 0 .. PAGE - 1
    BY <1>1, Rounding
  <2>3. q \in Nat /\ r \in 0 .. PAGE - 1 /\ i = (PAGE * q) + r
    BY <1>1, Rounding
  <2>4. v % PAGE \in Nat /\ (v % PAGE) + m <= PAGE * n
    BY <1>1, <2>1, <2>2
  <2> QED
    BY <2>1, <2>2, <2>3, <2>4
<1>3. PagesOf(v, m) = a .. a + n - 1
  BY <1>1, RangeOfPages
<1>4. CASE Aligned(ph)
  <2>1. v = PAGE * a
    BY <1>1, <1>2, <1>4 DEF Aligned
  <2> HIDE DEF a, q, r, n, v, m
  <2>2. v + i = (PAGE * (a + q)) + r /\ a + q \in Nat
    <3>1. PAGE * (a + q) = (PAGE * a) + (PAGE * q) /\ PAGE * a \in Nat /\ PAGE * q \in Nat
      BY <1>1, <1>2
    <3> QED
      BY <1>2, <2>1, <3>1
  <2>3. p = a + q /\ (v + i) % PAGE = r
    BY <1>2, <2>2, PageOfSum
  <2>4. q < n
    <3>1. PAGE * q \in Nat /\ PAGE * n \in Nat
      BY <1>1, <1>2
    <3>2. PAGE * q < PAGE * n
      BY <1>1, <1>2, <3>1
    <3> QED
      BY <1>2, <3>2, PageOrder
  <2>5. p \in PagesOf(v, m)
    BY <1>2, <1>3, <2>3, <2>4
  <2>6. Offset(ph, p, r) = i
    <3>1. p - PageOf(ph.vaddr) = q
      BY <1>2, <2>3 DEF a, v
    <3>2. Offset(ph, p, r) = (q * PAGE) + r
      BY <3>1 DEF Offset
    <3>3. q * PAGE = PAGE * q
      BY <1>1, <1>2
    <3> QED
      BY <1>2, <3>2, <3>3
  <2>7. space[p].data[r] = ByteOf(ph, i)
    BY <1>2, <1>4, <2>5, <2>6 DEF Held, v, m
  <2>8. ByteOf(ph, i) = IF i < ph.filesz THEN ph.offset + i + 1 ELSE 0
    BY <1>1 DEF ByteOf
  <2> QED
    BY <2>3, <2>5, <2>7, <2>8 DEF p, v, m
<1>5. CASE ~Aligned(ph)
  <2>1. v + i \in Nat /\ v <= v + i
    BY <1>1
  <2> HIDE DEF v, m, a, n
  <2>2. a <= p /\ p \in Nat /\ v + i = (PAGE * p) + ((v + i) % PAGE)
        /\ (v + i) % PAGE \in 0 .. PAGE - 1
    BY <1>1, <2>1, PagesAreOrdered, Rounding DEF a
  <2> HIDE DEF p
  <2>3. /\ PAGE * (a + n) = (PAGE * a) + (PAGE * n) /\ PAGE * p \in Nat
        /\ PAGE * a \in Nat /\ PAGE * n \in Nat
    BY <1>1, <1>2, <2>2
  <2>4. PAGE * p < PAGE * (a + n)
    BY <1>1, <1>2, <2>2, <2>3
  <2>5. p < a + n
    BY <1>2, <2>2, <2>4, PageOrder
  <2>6. p \in a .. a + n - 1
    BY <1>2, <2>2, <2>5
  <2> QED
    BY <1>3, <1>5, <2>6 DEF v, m, p
<1> QED
  BY <1>4, <1>5

(* The pages of a segment and those of the stack.                          *)
LEMMA SegmentIsBelow ==
    ASSUME NEW ph \in Elf64_Phdr, NEW top \in Nat, RoundUp(ph.vaddr + ph.memsz) <= top
    PROVE  \A p \in PagesOf(ph.vaddr, ph.memsz) : p \in Int /\ p < PageOf(top)
<1> DEFINE v == ph.vaddr
           n == PageOf(ph.memsz + PAGE - 1)
<1>1. v \in Nat /\ ph.memsz \in Nat /\ v + ph.memsz \in Nat
  BY DEF Elf64_Phdr
<1>2. RoundUp(v + ph.memsz) \in Nat /\ PageOf(top) \in Nat
  BY <1>1, Rounding
<1>3. PageOf(RoundUp(v + ph.memsz)) <= PageOf(top) /\ PageOf(RoundUp(v + ph.memsz)) \in Nat
  BY <1>1, <1>2, PagesAreOrdered, Rounding
<1>4. /\ PagesOf(v, ph.memsz) = PageOf(v) .. PageOf(v) + n - 1
      /\ PageOf(v) \in Nat /\ n \in Nat
      /\ PageOf(v) + n <= PageOf(RoundUp(v + ph.memsz))
  BY <1>1, RangeOfPages
<1> HIDE DEF n, v
<1> QED
  BY <1>2, <1>3, <1>4 DEF v

(* Rounding stops at the next whole page.                                  *)
LEMMA RoundedUpTo ==
    ASSUME NEW x \in Nat, NEW y \in Nat, y % PAGE = 0
    PROVE  /\ x <= y => RoundUp(x) <= y
           /\ RoundUp(x) % PAGE = 0
<1> DEFINE n == PageOf(x + PAGE - 1)
           b == PageOf(y)
<1>1. /\ PAGE \in Nat /\ PAGE > 0 /\ n \in Nat /\ b \in Nat
      /\ RoundUp(x) = PAGE * n /\ RoundUp(x) < x + PAGE /\ y = (PAGE * b) + 0
  <2>1. PAGE \in Nat /\ PAGE > 0
    BY LoaderAssumption
  <2>2. n \in Nat /\ RoundUp(x) = PAGE * n /\ RoundUp(x) < x + PAGE
    BY Rounding
  <2>3. b \in Nat /\ y = (PAGE * b) + (y % PAGE)
    BY Rounding
  <2> QED
    BY <2>1, <2>2, <2>3
<1> HIDE DEF n, b
<1>2. /\ PAGE * n \in Nat /\ PAGE * b \in Nat /\ PAGE * (b + 1) = (PAGE * b) + PAGE
  BY <1>1
<1>3. ASSUME x <= y PROVE RoundUp(x) <= y
  <2>1. PAGE * n < PAGE * (b + 1)
    BY <1>1, <1>2, <1>3
  <2>2. n < b + 1
    BY <1>1, <2>1, PageOrder
  <2>3. n < b \/ n = b
    BY <1>1, <2>2
  <2>4. n < b => (PAGE * n) + PAGE <= PAGE * b
    BY <1>1, PageOrder
  <2> QED
    BY <1>1, <1>2, <2>3, <2>4
<1>4. RoundUp(x) % PAGE = 0
  <2>1. RoundUp(x) = (PAGE * n) + 0 /\ 0 \in 0 .. PAGE - 1
    BY <1>1, <1>2
  <2> QED
    BY <1>1, <2>1, PageOfSum
<1> QED
  BY <1>3, <1>4

(* At the start nothing is loaded.                                         *)
LEMMA ImageInit == Init => ImageInv
<1> SUFFICES ASSUME Init PROVE ImageInv
  OBVIOUS
<1>1. c = Container /\ segment = 1 /\ pc = "LimineEntry"
  BY DEF Init
<1>2. c.Lowest = 0 /\ c.highest = 0 /\ DOMAIN c.space = {}
  BY <1>1 DEF Container
<1> QED
  BY <1>1, <1>2 DEF ImageInv, Done, Loaded, Unloaded, Booting, Running, Exited

(* The image is the one the machine was booted with.                       *)
LEMMA LinkedIsGiven ==
    ASSUME Shapes, Next
    PROVE  image' = image /\ (Linked' <=> Linked)
<1>1. image' = image
  BY MachineIsGiven DEF image
<1> QED
  BY <1>1 DEF Linked, Segments

(* A turn of the loop settles one header more.                             *)
LEMMA HeaderIsSettled == ASSUME GuestInv, ImageInv, LoadProgramHeader PROVE ImageInv'
<1>0. PICK ph : ph = image.phdrs[segment]
  OBVIOUS
<1> DEFINE new == SegmentPages(pmm, ph)
           end == ph.vaddr + ph.memsz
<1>1. /\ Shapes /\ pc = "LoadProgramHeaders" /\ segment \in DOMAIN image.phdrs
      /\ image' = image /\ (Linked' <=> Linked)
  BY LinkedIsGiven DEF GuestInv, LoadProgramHeader, Next, Boot
<1>2. /\ ph \in Elf64_Phdr /\ ph.vaddr \in Nat /\ ph.memsz \in Nat /\ end \in Nat
      /\ DOMAIN image.phdrs = 1 .. Len(image.phdrs) /\ Len(image.phdrs) \in Nat
      /\ segment \in 1 .. Len(image.phdrs)
  <2>1. ph \in Elf64_Phdr
    BY <1>0, <1>1, HeadersAreTyped
  <2>2. ph.vaddr \in Nat /\ ph.memsz \in Nat
    BY <2>1 DEF Elf64_Phdr
  <2>3. image.phdrs \in Seq(Elf64_Phdr)
    BY <1>1, MachineAssumption DEF Shapes, image, Elf64_Ehdr
  <2>4. DOMAIN image.phdrs = 1 .. Len(image.phdrs) /\ Len(image.phdrs) \in Nat
    BY <2>3
  <2> QED
    BY <1>1, <2>1, <2>2, <2>4
<1>3. /\ c.Lowest \in Nat /\ c.highest \in Nat /\ Bounded /\ Done = 1 .. segment - 1
      /\ \A j \in 1 .. segment - 1 : Settled(image.phdrs[j])
  BY <1>1 DEF ImageInv, Done
<1>4. CASE DOMAIN new \cap DOMAIN c.space # {}
  <2>1. pc' = "Hung" /\ c' = c /\ segment' = segment
    BY <1>0, <1>4 DEF LoadProgramHeader
  <2> QED
    BY <1>3, <2>1 DEF ImageInv, Done, Loaded, Unloaded, Booting, Running, Exited
<1>5. CASE DOMAIN new \cap DOMAIN c.space = {}
  <2>1. pc' = pc /\ segment' = segment + 1
    BY <1>0, <1>5 DEF LoadProgramHeader
  <2>2. /\ ph.type = "PT_LOAD" =>
             /\ c'.Lowest = IF c.highest = 0 THEN ph.vaddr ELSE c.Lowest
             /\ c'.highest = IF c.highest < end THEN RoundUp(end) ELSE c.highest
        /\ ph.type # "PT_LOAD" => c'.Lowest = c.Lowest /\ c'.highest = c.highest
        /\ c'.space = WithPages(c.space, new)
    BY <1>0, <1>1, <1>5 DEF LoadProgramHeader, WithBounds, Shapes, IsFunctionOn
  <2>3. Done' = 1 .. segment /\ segment + 1 \in 1 .. Len(image.phdrs) + 1 /\ segment' \in Nat
    BY <1>1, <1>2, <2>1 DEF Done
  <2>4. /\ RoundUp(end) \in Nat /\ end <= RoundUp(end) /\ RoundUp(end) % PAGE = 0
        /\ c.highest % PAGE = 0 /\ (end <= c.highest => RoundUp(end) <= c.highest)
    BY <1>2, <1>3, Rounding, RoundedUpTo DEF Bounded
  <2>5. /\ c'.highest \in Nat /\ c'.highest % PAGE = 0 /\ c.highest <= c'.highest
        /\ ph.type = "PT_LOAD" => end <= c'.highest /\ RoundUp(end) <= c'.highest
    <3> HIDE DEF end
    <3> QED
      BY <1>2, <1>3, <2>2, <2>4
  <2> HIDE DEF new
  <2>6. Placed(ph) => DOMAIN new = PagesOf(ph.vaddr, ph.memsz) /\ Held(new, ph)
    BY <1>2, SegmentIsHeld DEF new
  <2>7. ~Placed(ph) => DOMAIN new = {}
    BY DEF new, Placed, SegmentPages
  <2>8. ASSUME Linked, Placed(ph)
        PROVE  c'.Lowest <= ph.vaddr
    <3>1. CASE c.highest = 0
      BY <1>2, <2>2, <2>8, <3>1 DEF Placed
    <3>2. CASE c.highest # 0
      <4>1. PICK k \in 1 .. segment - 1 : /\ image.phdrs[k].type = "PT_LOAD"
                                          /\ c.Lowest = image.phdrs[k].vaddr
        BY <1>3, <3>2 DEF Bounded
      <4>2. k \in DOMAIN image.phdrs /\ k < segment
        BY <1>2, <4>1
      <4>3. image.phdrs[k].vaddr <= ph.vaddr
        BY <1>0, <1>1, <2>8, <4>1, <4>2 DEF Linked, Placed
      <4> QED
        BY <2>2, <2>8, <3>2, <4>1, <4>3 DEF Placed
    <3> QED
      BY <3>1, <3>2
  <2>9. Settled(ph)'
    <3>1. Placed(ph) => Held(c'.space, ph)
      BY <2>2, <2>6, HeldWithPages
    <3> QED
      BY <1>1, <2>5, <2>8, <3>1 DEF Settled, end
  <2>10. ASSUME NEW j \in 1 .. segment - 1
         PROVE  Settled(image.phdrs[j])'
    <3> DEFINE old == image.phdrs[j]
    <3>1. j \in DOMAIN image.phdrs /\ Settled(old) /\ old' = old
      BY <1>1, <1>2, <1>3
    <3>2. old.vaddr \in Nat /\ old.memsz \in Nat
      BY <1>1, <3>1, HeadersAreTyped DEF Elf64_Phdr
    <3>3. ASSUME Linked, Placed(old) PROVE c'.Lowest <= old.vaddr
      <4>1. old.memsz > 0
        BY <3>1, <3>3 DEF Linked, Segments, Placed
      <4>2. c.highest # 0
        BY <1>3, <3>1, <3>2, <3>3, <4>1 DEF Settled, Placed
      <4> QED
        BY <2>2, <3>1, <3>3, <4>2 DEF Settled
    <3>4. Placed(old) => Held(c'.space, old)
      BY <1>5, <2>2, <3>1, HeldWithPages DEF new, Settled
    <3>5. old.type = "PT_LOAD" => old.vaddr + old.memsz <= c'.highest
      BY <1>3, <2>5, <3>1, <3>2 DEF Settled
    <3> HIDE DEF old
    <3> QED
      BY <1>1, <3>1, <3>3, <3>4, <3>5 DEF Settled, old
  <2>11. Bounded'
    <3>1. ASSUME c'.highest # 0
          PROVE  \E k \in 1 .. segment : /\ image.phdrs[k].type = "PT_LOAD"
                                         /\ c'.Lowest = image.phdrs[k].vaddr
      <4>1. CASE c.highest = 0
        <5>1. ph.type = "PT_LOAD" /\ c'.Lowest = ph.vaddr /\ segment \in 1 .. segment
          BY <1>2, <2>2, <3>1, <4>1
        <5> QED
          BY <1>0, <5>1
      <4>2. CASE c.highest # 0
        <5>1. PICK k \in 1 .. segment - 1 : /\ image.phdrs[k].type = "PT_LOAD"
                                            /\ c.Lowest = image.phdrs[k].vaddr
          BY <1>3, <4>2 DEF Bounded
        <5>2. c'.Lowest = c.Lowest /\ k \in 1 .. segment
          BY <1>2, <2>2, <4>2, <5>1
        <5> QED
          BY <5>1, <5>2
      <4> QED
        BY <4>1, <4>2
    <3>2. PageOf(c.highest) <= PageOf(c'.highest) /\ PageOf(c.highest) \in Nat
          /\ PageOf(c'.highest) \in Nat
      BY <1>3, <2>5, PagesAreOrdered, PagesNumbered
    <3>3. ASSUME NEW p \in DOMAIN c'.space
          PROVE  p \in Int /\ p < PageOf(c'.highest)
      <4>1. p \in DOMAIN c.space \/ p \in DOMAIN new
        BY <2>2, <3>3 DEF WithPages
      <4>2. CASE p \in DOMAIN c.space
        BY <1>3, <3>2, <4>2 DEF Bounded
      <4>3. CASE p \in DOMAIN new
        <5>1. Placed(ph) /\ p \in PagesOf(ph.vaddr, ph.memsz)
          BY <2>6, <2>7, <4>3
        <5>2. RoundUp(ph.vaddr + ph.memsz) <= c'.highest
          BY <2>5, <5>1 DEF Placed
        <5> QED
          BY <1>2, <2>5, <5>1, <5>2, SegmentIsBelow
      <4> QED
        BY <4>1, <4>2, <4>3
    <3> QED
      BY <1>1, <2>3, <2>5, <3>1, <3>3 DEF Bounded
  <2>12. \A j \in 1 .. segment : Settled(image.phdrs[j])'
    <3>1. ASSUME NEW j \in 1 .. segment, j = segment PROVE Settled(image.phdrs[j])'
      BY <1>0, <2>9, <3>1, <1>1 DEF Settled
    <3>2. ASSUME NEW j \in 1 .. segment, j # segment PROVE Settled(image.phdrs[j])'
      BY <1>2, <2>10, <3>2
    <3> QED
      BY <3>1, <3>2
  <2>13. c'.Lowest \in Nat
    BY <1>2, <1>3, <2>2
  <2> QED
    BY <1>1, <2>1, <2>3, <2>5, <2>11, <2>12, <2>13
    DEF ImageInv, Loaded, Unloaded, Booting, Running, Exited
<1> QED
  BY <1>4, <1>5

(* What is loaded stays when pages are added that are not mapped yet.      *)
LEMMA LoadedStays ==
    ASSUME NEW new, DOMAIN new \cap DOMAIN c.space = {},
           c'.space = WithPages(c.space, new) \/ c'.space = c.space,
           c'.Lowest = c.Lowest, c'.highest = c.highest, image' = image, Linked' <=> Linked
    PROVE  /\ \A ph : Settled(ph) => Settled(ph)'
           /\ StackHeld(c.space, c.highest) => StackHeld(c'.space, c'.highest)
<1>1. ASSUME NEW ph, Settled(ph) PROVE Settled(ph)'
  BY <1>1, HeldWithPages DEF Settled
<1>2. /\ DOMAIN c.space \subseteq DOMAIN c'.space
      /\ \A p \in DOMAIN c.space : c'.space[p] = c.space[p]
  BY DEF WithPages
<1> QED
  BY <1>1, <1>2 DEF StackHeld, StackPages

(* The stack gets pages of its own.                                        *)
LEMMA StackIsPlaced == ASSUME GuestInv, ImageInv, LoadStack PROVE ImageInv'
<1>1. /\ Shapes /\ pc = "LoadProgramHeaders" /\ segment \notin DOMAIN image.phdrs
      /\ pc' = "LaunchVM" /\ segment' = segment
      /\ image' = image /\ (Linked' <=> Linked)
  BY LinkedIsGiven DEF GuestInv, LoadStack, Next, Boot
<1>2. PICK new : new = VMAlloc(pmm, c.highest, STACK, StackFlags)
  OBVIOUS
<1>3. /\ c'.space = WithPages(c.space, new) /\ c'.Highest = c.highest + STACK
      /\ c'.Lowest = c.Lowest /\ c'.highest = c.highest
  BY <1>1, <1>2 DEF LoadStack, Shapes, IsFunctionOn
<1>4. /\ c.Lowest \in Nat /\ c.highest \in Nat /\ segment \in 1 .. Len(image.phdrs) + 1 /\ Bounded
      /\ \A j \in 1 .. segment - 1 : Settled(image.phdrs[j])
  BY <1>1 DEF ImageInv, Done
<1>5. DOMAIN image.phdrs = 1 .. segment - 1
  <2>1. image.phdrs \in Seq(Elf64_Phdr)
    BY <1>1, MachineAssumption DEF Shapes, image, Elf64_Ehdr
  <2>2. DOMAIN image.phdrs = 1 .. Len(image.phdrs) /\ Len(image.phdrs) \in Nat
    BY <2>1
  <2> QED
    BY <1>1, <1>4, <2>2
<1>6. DOMAIN new = StackPages(c.highest)
  <2>1. STACK \in Nat /\ STACK % PAGE = 0
    BY LoaderAssumption
  <2>2. PageOf(RoundDown(c.highest) + RoundUp(STACK)) = PageOf(c.highest) + STACK \div PAGE
    BY <1>4, <2>1, WholePages
  <2>3. PICK end : end = PageOf(RoundDown(c.highest) + RoundUp(STACK))
    OBVIOUS
  <2>4. DOMAIN new = PageOf(c.highest) .. end - 1
    BY <1>2, <2>3 DEF VMAlloc, PagesOf
  <2>5. end = PageOf(c.highest) + (STACK \div PAGE)
    BY <2>2, <2>3
  <2>6. PICK n : n = STACK \div PAGE
    OBVIOUS
  <2>7. n \in Nat /\ PageOf(c.highest) \in Nat
    <3>1. n \in Nat
      BY <2>1, <2>6, Division
    <3> QED
      BY <1>4, <3>1, PagesNumbered
  <2> QED
    BY <2>4, <2>5, <2>6, <2>7 DEF StackPages
<1>7. DOMAIN new \cap DOMAIN c.space = {}
  <2>1. PageOf(c.highest) \in Nat
    BY <1>4, PagesNumbered
  <2> QED
    BY <1>4, <1>6, <2>1 DEF StackPages, Bounded
<1>8. StackHeld(c'.space, c'.highest)
  <2>1. \A p \in DOMAIN new : /\ new[p].flags = StackFlags
                              /\ \A i \in 0 .. PAGE - 1 : new[p].data[i] = 0
    BY <1>2 DEF VMAlloc
  <2>2. \A p \in DOMAIN new : p \in DOMAIN c'.space /\ c'.space[p] = new[p]
    BY <1>3 DEF WithPages
  <2> QED
    BY <1>3, <1>6, <2>1, <2>2 DEF StackHeld
<1>9. \A j \in DOMAIN image.phdrs : Settled(image.phdrs[j])'
  <2>1. ASSUME NEW j \in DOMAIN image.phdrs PROVE Settled(image.phdrs[j])'
    <3>1. PICK ph : ph = image.phdrs[j]
      OBVIOUS
    <3>2. Settled(ph)
      BY <1>4, <1>5, <2>1, <3>1
    <3>3. Settled(ph)'
      BY <1>1, <1>3, <1>7, <3>2, LoadedStays
    <3> QED
      BY <1>1, <3>1, <3>3 DEF Settled
  <2> QED
    BY <2>1
<1>10. Done' = DOMAIN image.phdrs /\ c.highest % PAGE = 0
  BY <1>1, <1>4 DEF Done, Loaded, Bounded
<1> QED
  BY <1>1, <1>3, <1>4, <1>8, <1>9, <1>10
  DEF ImageInv, Loaded, Unloaded, Booting, Running, Exited

(* The handler leaves the segment registers alone.                         *)
LEMMA SelectorsStay ==
    ASSUME NEW v, IsFunctionOn(BlockFields, v), Served(v), NEW s, NEW k
    PROVE  HandleVMExit(v, s, k).vmcb.Selectors = v.Selectors
<1>1. ASSUME NEW block, NEW st, HandlesTo(v, s, k, block, st), "Selectors" \in DOMAIN block,
             block.Selectors = v.Selectors
      PROVE  HandleVMExit(v, s, k).vmcb.Selectors = v.Selectors
  BY <1>1 DEF HandlesTo, With
<1>2. "Selectors" \in DOMAIN v
  BY DEF IsFunctionOn, BlockFields
<1>3. ASSUME NEW f \in {"RIP", "RAX"}, NEW x, NEW block, "Selectors" \in DOMAIN block
      PROVE  "Selectors" \in DOMAIN With(block, f, x)
             /\ With(block, f, x).Selectors = block.Selectors
  BY <1>3 DEF With
<1>4. CASE v.ExitCode = VMEXIT("CPUID")
  <2>1. PICK w : w = With(v, "RAX", <<"cpuid", "RAX">>)
    OBVIOUS
  <2>2. PICK block : block = With(w, "RIP", v.RIP + 2)
    OBVIOUS
  <2>3. "Selectors" \in DOMAIN w /\ w.Selectors = v.Selectors
    BY <1>2, <1>3, <2>1
  <2>4. "Selectors" \in DOMAIN block /\ block.Selectors = v.Selectors
    BY <1>3, <2>2, <2>3
  <2>5. \E st : HandlesTo(v, s, k, block, st)
    BY <1>4, <2>1, <2>2, HandlerCases
  <2> QED
    BY <1>1, <2>4, <2>5
<1>5. CASE v.ExitCode = VMEXIT("VMMCALL")
  BY <1>1, <1>2, <1>3, <1>5, HandlerCases
<1>6. CASE v.ExitCode = VMEXIT("IOIO")
  BY <1>1, <1>2, <1>3, <1>6, HandlerCases
<1>7. CASE v.ExitCode = EXCP(14)
  <2>1. PICK block : block = With(v, "RIP", k.Bindings.ExceptionHandler)
    OBVIOUS
  <2>2. "Selectors" \in DOMAIN block /\ block.Selectors = v.Selectors
    BY <1>2, <1>3, <2>1
  <2>3. \E st : HandlesTo(v, s, k, v, st) \/ HandlesTo(v, s, k, block, st)
    BY <1>7, <2>1, HandlerCases
  <2> QED
    BY <1>1, <1>2, <2>2, <2>3
<1> QED
  BY <1>4, <1>5, <1>6, <1>7 DEF Served

(* Booting loads what the image describes, and no exit takes it away.      *)
LEMMA ImageStep == ASSUME GuestInv, ImageInv, Next PROVE ImageInv'
<1>1. /\ Shapes /\ image' = image /\ (Linked' <=> Linked)
      /\ c.Lowest \in Nat /\ c.highest \in Nat /\ segment \in Nat
  BY LinkedIsGiven DEF GuestInv, ImageInv
<1>2. \A r, s, t, u : InitializeVMCB(r, s, t, u).Selectors = Launching
  BY DEF InitializeVMCB, Launching
<1>3. ASSUME NEW j \in Done, c' = c PROVE Settled(image.phdrs[j])'
  BY <1>1, <1>3 DEF ImageInv, Settled
<1>4. CASE LimineEntry \/ InitializeBootCPU \/ KInfo \/ InitializeRootSpace \/ InitVMM
           \/ InitializeCPUFeatures
  <2>1. /\ pc \in Unloaded /\ c' = c /\ segment' = segment
        /\ pc' \in Unloaded \cup {"Panic"}
    BY <1>4 DEF LimineEntry, InitializeBootCPU, KInfo, InitializeRootSpace, InitVMM,
       InitializeCPUFeatures, boot, Unloaded, Booting
  <2> QED
    BY <1>1, <2>1 DEF ImageInv, Done, Unloaded, Booting, Loaded, Running, Exited
<1>5. CASE LoadContainer
  <2>1. /\ pc = "LoadContainer" /\ segment' = segment /\ pc' \in {"Halt", "LoadProgramHeaders"}
        /\ c'.space = c.space /\ c'.Lowest = c.Lowest /\ c'.highest = c.highest
    BY <1>1, <1>5 DEF LoadContainer, Shapes, IsFunctionOn
  <2>2. c.highest = 0 /\ DOMAIN c.space = {} /\ segment = 1
    BY <2>1 DEF ImageInv, Unloaded, Booting
  <2>3. Len(image.phdrs) \in Nat
    <3>1. image.phdrs \in Seq(Elf64_Phdr)
      BY <1>1, MachineAssumption DEF Shapes, image, Elf64_Ehdr
    <3> QED
      BY <3>1
  <2>4. segment \in 1 .. Len(image.phdrs) + 1 /\ 0 % PAGE = 0
    BY <2>2, <2>3, LoaderAssumption
  <2>5. Done' = {}
    BY <2>1, <2>2 DEF Done, Loaded, Running, Exited
  <2> QED
    BY <1>1, <2>1, <2>2, <2>4, <2>5
    DEF ImageInv, Bounded, Unloaded, Booting, Loaded, Running, Exited
<1>6. CASE LaunchVM
  <2>1. /\ pc = "LaunchVM" /\ c' = c /\ segment' = segment /\ pc' \in {"VMRun", "Hung"}
        /\ vmcb'.Selectors = Launching
    BY <1>2, <1>6 DEF LaunchVM
  <2>2. Done = DOMAIN image.phdrs /\ Done' \in {DOMAIN image.phdrs, {}}
    BY <1>1, <2>1 DEF Done, Loaded, Running, Exited
  <2> QED
    BY <1>1, <1>3, <2>1, <2>2
    DEF ImageInv, Unloaded, Booting, Loaded, Running, Exited
<1>7. CASE Handle
  <2>1. /\ pc = "HandleVMExit" /\ pc' = "PopAll" /\ segment' = segment
        /\ vmcb.Selectors = Launching
    BY <1>7 DEF Handle, boot, ImageInv, Running, Exited
  <2>2. vmcb'.Selectors = Launching
    <3>1. IsFunctionOn(BlockFields, vmcb) /\ Served(vmcb)
          /\ vmcb' = HandleVMExit(vmcb, stack, c).vmcb
      BY <1>7 DEF Handle, GuestInv, Prepared, Exited
    <3> QED
      BY <2>1, <3>1, SelectorsStay
  <2>3. PICK new : /\ DOMAIN new \cap DOMAIN c.space = {}
                   /\ c'.space = WithPages(c.space, new) \/ c'.space = c.space
                   /\ c'.Lowest = c.Lowest /\ c'.highest = c.highest /\ c'.Highest = c.Highest
    <3>1. CASE c' = c
      <4>1. DOMAIN <<>> \cap DOMAIN c.space = {}
        OBVIOUS
      <4> QED
        BY <3>1, <4>1
    <3>2. ASSUME NEW p \in Heap \ DOMAIN c.space, c' = MapHeap(p)
          PROVE  \E new : /\ DOMAIN new \cap DOMAIN c.space = {}
                          /\ c'.space = WithPages(c.space, new) \/ c'.space = c.space
                          /\ c'.Lowest = c.Lowest /\ c'.highest = c.highest
                          /\ c'.Highest = c.Highest
      <4>1. PICK new : new = [q \in {p} |-> HeapPage]
        OBVIOUS
      <4>2. DOMAIN new \cap DOMAIN c.space = {}
        BY <3>2, <4>1
      <4>3. /\ c'.space = WithPages(c.space, new) \/ c'.space = c.space
            /\ c'.Lowest = c.Lowest /\ c'.highest = c.highest /\ c'.Highest = c.Highest
        BY <1>1, <3>2, <4>1, HeapIsMapped
      <4> QED
        BY <4>2, <4>3
    <3> QED
      BY <1>7, <3>1, <3>2 DEF Handle
  <2>4. Done = DOMAIN image.phdrs /\ Done' = DOMAIN image.phdrs
    BY <1>1, <2>1 DEF Done, Loaded, Running, Exited
  <2>5. ASSUME NEW j \in DOMAIN image.phdrs PROVE Settled(image.phdrs[j])'
    <3>1. PICK ph : ph = image.phdrs[j]
      OBVIOUS
    <3>2. Settled(ph)
      BY <2>4, <2>5, <3>1 DEF ImageInv
    <3>3. Settled(ph)'
      BY <1>1, <2>3, <3>2, LoadedStays
    <3> QED
      BY <1>1, <3>1, <3>3 DEF Settled
  <2>6. /\ c.highest % PAGE = 0 /\ c.Highest = c.highest + STACK
        /\ StackHeld(c'.space, c'.highest)
    BY <1>1, <2>1, <2>3, LoadedStays DEF ImageInv, Loaded, Running, Exited
  <2> QED
    BY <1>1, <2>1, <2>2, <2>3, <2>4, <2>5, <2>6
    DEF ImageInv, Unloaded, Booting, Loaded, Running, Exited
<1>8. CASE Execute \/ Exit \/ SaveRegisters \/ GiveUp \/ RestoreRegisters \/ VMRun
  <2>1. /\ pc \in Running /\ pc' \in Running /\ c' = c /\ segment' = segment
    BY <1>8 DEF Execute, Exit, SaveRegisters, GiveUp, RestoreRegisters, VMRun, boot, Running,
       Exited
  <2>2. vmcb'.Selectors = vmcb.Selectors
    <3>1. CASE Exit
      <4>1. IsFunctionOn(BlockFields, vmcb)
        BY <3>1 DEF Exit, GuestInv, Prepared
      <4> QED
        BY <3>1, <4>1 DEF Exit, IsFunctionOn, BlockFields
    <3>2. CASE Execute \/ SaveRegisters \/ GiveUp \/ RestoreRegisters \/ VMRun
      BY <3>2 DEF Execute, SaveRegisters, GiveUp, RestoreRegisters, VMRun, guest
    <3> QED
      BY <1>8, <3>1, <3>2
  <2>3. Done = DOMAIN image.phdrs /\ Done' = DOMAIN image.phdrs
    BY <1>1, <2>1 DEF Done, Loaded, Running, Exited
  <2> QED
    BY <1>1, <1>3, <2>1, <2>2, <2>3
    DEF ImageInv, Unloaded, Booting, Loaded, Running, Exited
<1> QED
  BY <1>4, <1>5, <1>6, <1>7, <1>8, HeaderIsSettled, StackIsPlaced DEF Next, Boot, Host

-----------------------------------------------------------------------------
(* What the tables let through.                                            *)

HasText(ph) == Placed(ph) /\ "X" \in ph.flags

(* Instructions can be fetched through every table above the segment.      *)
Executable(tables, ph) ==
    \A p \in PagesOf(ph.vaddr, ph.memsz) : \A t \in TablesAbove(p) :
        t \in DOMAIN tables /\ "NOEXEC" \notin tables[t]

(* A page is reached through tables that are there and may be written      *)
(* through.  Where text comes first it is executable, because what could   *)
(* deny it creates its tables later.                                       *)
TablesInv ==
    /\ pc \in Unloaded => DOMAIN c.tables = {}
    /\ \A t \in DOMAIN c.tables : {"USER", "WRITE"} \subseteq c.tables[t]
    /\ \A p \in DOMAIN c.space : TablesAbove(p) \subseteq DOMAIN c.tables
    /\ TextFirst => \A j \in Done : HasText(image.phdrs[j]) => Executable(c.tables, image.phdrs[j])
    /\ pc = "LoadProgramHeaders" =>
         \/ \A t \in DOMAIN c.tables : "NOEXEC" \notin c.tables[t]
         \/ \E j \in Done : Placed(image.phdrs[j]) /\ ~HasText(image.phdrs[j])

(* New tables are there with their flags, and leave the old ones alone.    *)
LEMMA TablesAreAdded ==
    ASSUME NEW tables, NEW new, NEW flags, NEW both, both = WithTables(tables, new, flags)
    PROVE  DOMAIN both = DOMAIN tables \cup new
  BY DEF WithTables

LEMMA OldTablesStay ==
    ASSUME NEW tables, NEW new, NEW flags, NEW both, both = WithTables(tables, new, flags)
    PROVE  \A t \in DOMAIN tables : both[t] = tables[t]
  BY DEF WithTables

LEMMA NewTablesHaveFlags ==
    ASSUME NEW tables, NEW new, NEW flags, NEW both, both = WithTables(tables, new, flags)
    PROVE  \A t \in new \ DOMAIN tables : both[t] = TableFlags(flags)
  BY DEF WithTables

LEMMA StaysExecutable ==
    ASSUME NEW tables, NEW new, NEW flags, NEW both, both = WithTables(tables, new, flags)
    PROVE  \A ph : Executable(tables, ph) => Executable(both, ph)
  BY DEF WithTables, Executable

(* A range that is mapped brings the tables above its pages.               *)
LEMMA RangeBringsTables ==
    ASSUME NEW space, NEW tables, NEW new, NEW flags, NEW above, NEW both,
           above = UNION {TablesAbove(p) : p \in DOMAIN new},
           both = WithTables(tables, above, flags),
           \A p \in DOMAIN space : TablesAbove(p) \subseteq DOMAIN tables,
           \A t \in DOMAIN tables : {"USER", "WRITE"} \subseteq tables[t]
    PROVE  /\ \A p \in DOMAIN WithPages(space, new) : TablesAbove(p) \subseteq DOMAIN both
           /\ \A t \in DOMAIN both : {"USER", "WRITE"} \subseteq both[t]
<1>1. \A p \in DOMAIN new : TablesAbove(p) \subseteq above
  OBVIOUS
<1>2. DOMAIN WithPages(space, new) = DOMAIN space \cup DOMAIN new
  BY DEF WithPages
<1>3. /\ DOMAIN both = DOMAIN tables \cup above
      /\ \A t \in DOMAIN tables : both[t] = tables[t]
      /\ \A t \in above \ DOMAIN tables : both[t] = TableFlags(flags)
  <2>1. ASSUME NEW S, both = WithTables(tables, S, flags)
        PROVE  /\ DOMAIN both = DOMAIN tables \cup S
               /\ \A t \in DOMAIN tables : both[t] = tables[t]
               /\ \A t \in S \ DOMAIN tables : both[t] = TableFlags(flags)
    <3>1. DOMAIN both = DOMAIN tables \cup S
      BY <2>1, TablesAreAdded
    <3>2. \A t \in DOMAIN tables : both[t] = tables[t]
      BY <2>1, OldTablesStay
    <3>3. \A t \in S \ DOMAIN tables : both[t] = TableFlags(flags)
      BY <2>1, NewTablesHaveFlags
    <3> QED
      BY <3>1, <3>2, <3>3
  <2> QED
    BY <2>1
<1>4. \A p \in DOMAIN WithPages(space, new) : TablesAbove(p) \subseteq DOMAIN both
  BY <1>1, <1>2, <1>3
<1>5. \A t \in DOMAIN both : {"USER", "WRITE"} \subseteq both[t]
  BY <1>3 DEF TableFlags
<1> QED
  BY <1>4, <1>5

(* One more segment: text that comes after text only finds no table in its *)
(* way.                                                                    *)
LEMMA HeaderKeepsTables ==
    ASSUME GuestInv, ImageInv, TablesInv, LoadProgramHeader PROVE TablesInv'
<1>0. PICK ph : ph = image.phdrs[segment]
  OBVIOUS
<1> DEFINE new == SegmentPages(pmm, ph)
           above == UNION {TablesAbove(p) : p \in DOMAIN new}
<1>1. /\ Shapes /\ pc = "LoadProgramHeaders" /\ segment \in DOMAIN image.phdrs
      /\ image' = image /\ ph \in Elf64_Phdr
      /\ segment \in Nat /\ Done = 1 .. segment - 1
  BY <1>0, LinkedIsGiven, HeadersAreTyped DEF GuestInv, LoadProgramHeader, Next, Boot, ImageInv, Done
<1>2. DOMAIN image.phdrs = 1 .. Len(image.phdrs) /\ Len(image.phdrs) \in Nat
  <2>1. image.phdrs \in Seq(Elf64_Phdr)
    BY <1>1, MachineAssumption DEF Shapes, image, Elf64_Ehdr
  <2> QED
    BY <2>1
<1>3. TextFirst' <=> TextFirst
  BY <1>1 DEF TextFirst, Segments
<1>4. CASE DOMAIN new \cap DOMAIN c.space # {}
  <2>1. pc' = "Hung" /\ c' = c
    BY <1>0, <1>4 DEF LoadProgramHeader
  <2> QED
    BY <2>1 DEF TablesInv, Done, Loaded, Unloaded, Booting, Running, Exited
<1>5. CASE DOMAIN new \cap DOMAIN c.space = {}
  <2>1. /\ pc' = pc /\ segment' = segment + 1
        /\ c'.space = WithPages(c.space, new)
        /\ c'.tables = WithTables(c.tables, above, SegmentFlags(ph.flags))
    BY <1>0, <1>1, <1>5 DEF LoadProgramHeader, WithBounds, Shapes, IsFunctionOn
  <2>2. Done' = 1 .. segment
    BY <1>1, <2>1 DEF Done
  <2>3. /\ \A p \in DOMAIN c'.space : TablesAbove(p) \subseteq DOMAIN c'.tables
        /\ \A t \in DOMAIN c'.tables : {"USER", "WRITE"} \subseteq c'.tables[t]
    BY <2>1, RangeBringsTables DEF TablesInv
  <2>4. Placed(ph) => DOMAIN new = PagesOf(ph.vaddr, ph.memsz)
    BY <1>1, SegmentIsHeld
  <2>5. ~Placed(ph) => above = {}
    BY DEF Placed, SegmentPages
  <2>6. /\ Placed(ph) => \A p \in PagesOf(ph.vaddr, ph.memsz) : TablesAbove(p) \subseteq above
        /\ "NOEXEC" \notin SegmentFlags(ph.flags) <=> "X" \in ph.flags
    BY <2>4 DEF SegmentFlags
  <2> HIDE DEF new, above
  <2>7. /\ DOMAIN c'.tables = DOMAIN c.tables \cup above
        /\ \A t \in DOMAIN c.tables : c'.tables[t] = c.tables[t]
        /\ \A t \in above \ DOMAIN c.tables :
             c'.tables[t] = TableFlags(SegmentFlags(ph.flags))
        /\ \A h : Executable(c.tables, h) => Executable(c'.tables, h)
    <3>1. DOMAIN c'.tables = DOMAIN c.tables \cup above
      BY <2>1, TablesAreAdded
    <3>2. \A t \in DOMAIN c.tables : c'.tables[t] = c.tables[t]
      BY <2>1, OldTablesStay
    <3>3. \A t \in above \ DOMAIN c.tables : c'.tables[t] = TableFlags(SegmentFlags(ph.flags))
      BY <2>1, NewTablesHaveFlags
    <3>4. \A h : Executable(c.tables, h) => Executable(c'.tables, h)
      BY <2>1, StaysExecutable
    <3> QED
      BY <3>1, <3>2, <3>3, <3>4
  <2>8. \/ \A t \in DOMAIN c'.tables : "NOEXEC" \notin c'.tables[t]
        \/ \E j \in 1 .. segment : Placed(image.phdrs[j]) /\ ~HasText(image.phdrs[j])
    <3>1. CASE \E j \in Done : Placed(image.phdrs[j]) /\ ~HasText(image.phdrs[j])
      BY <1>1, <3>1
    <3>2. CASE \A t \in DOMAIN c.tables : "NOEXEC" \notin c.tables[t]
      <4>1. CASE HasText(ph)
        BY <2>6, <2>7, <3>2, <4>1 DEF HasText, TableFlags
      <4>2. CASE ~Placed(ph)
        BY <2>5, <2>7, <3>2, <4>2
      <4>3. CASE Placed(ph) /\ ~HasText(ph)
        <5>1. segment \in 1 .. segment
          BY <1>1, <1>2
        <5> QED
          BY <1>0, <4>3, <5>1
      <4> QED
        BY <4>1, <4>2, <4>3
    <3> QED
      BY <1>1, <3>1, <3>2 DEF TablesInv
  <2>9. ASSUME TextFirst, HasText(ph) PROVE Executable(c'.tables, ph)
    <3>1. ASSUME NEW j \in Done, Placed(image.phdrs[j]) PROVE HasText(image.phdrs[j])
      <4>1. j \in DOMAIN image.phdrs /\ j < segment
        BY <1>1, <1>2, <3>1
      <4>2. image.phdrs[j] \in Segments /\ image.phdrs[segment] \in Segments
        BY <1>0, <1>1, <2>9, <3>1, <4>1 DEF Segments, Placed, HasText
      <4> QED
        BY <1>0, <1>1, <2>9, <3>1, <4>1, <4>2 DEF TextFirst, HasText
    <3>2. \A t \in DOMAIN c.tables : "NOEXEC" \notin c.tables[t]
      BY <1>1, <3>1 DEF TablesInv
    <3>3. \A t \in DOMAIN c'.tables : "NOEXEC" \notin c'.tables[t]
      BY <2>6, <2>7, <2>9, <3>2 DEF HasText, TableFlags
    <3>4. \A p \in PagesOf(ph.vaddr, ph.memsz) : TablesAbove(p) \subseteq DOMAIN c'.tables
      BY <2>6, <2>7, <2>9 DEF HasText
    <3> QED
      BY <3>3, <3>4 DEF Executable
  <2>10. ASSUME TextFirst, NEW j \in 1 .. segment, HasText(image.phdrs[j])
         PROVE  Executable(c'.tables, image.phdrs[j])
    <3>1. CASE j = segment
      BY <1>0, <2>9, <2>10, <3>1
    <3>2. CASE j # segment
      <4>1. j \in Done
        BY <1>1, <2>10, <3>2
      <4> QED
        BY <2>7, <2>10, <4>1 DEF TablesInv
    <3> QED
      BY <3>1, <3>2
  <2> QED
    BY <1>1, <1>3, <2>1, <2>2, <2>3, <2>8, <2>10 DEF TablesInv, Unloaded, HasText, Placed
<1> QED
  BY <1>4, <1>5

(* Tables are only added, and the pages with them.                         *)
LEMMA TablesStep ==
    ASSUME GuestInv, ImageInv, TablesInv, Next PROVE TablesInv'
<1>1. Shapes /\ image' = image /\ (TextFirst' <=> TextFirst)
  <2>1. Shapes /\ image' = image
    BY LinkedIsGiven DEF GuestInv
  <2> QED
    BY <2>1 DEF TextFirst, Segments
<1>2. CASE LimineEntry \/ InitializeBootCPU \/ KInfo \/ InitializeRootSpace \/ InitVMM
           \/ InitializeCPUFeatures
  <2>1. pc \in Unloaded /\ c' = c /\ pc' \in Unloaded \cup {"Panic"}
    BY <1>2 DEF LimineEntry, InitializeBootCPU, KInfo, InitializeRootSpace, InitVMM,
       InitializeCPUFeatures, boot, Unloaded, Booting
  <2>2. Done' = {} /\ pc' # "LoadProgramHeaders"
    BY <2>1 DEF Done, Unloaded, Booting, Loaded, Running, Exited
  <2> QED
    BY <2>1, <2>2 DEF TablesInv
<1>3. CASE LoadContainer
  <2>1. /\ pc = "LoadContainer" /\ segment' = segment /\ pc' \in {"Halt", "LoadProgramHeaders"}
        /\ c'.space = c.space /\ c'.tables = c.tables
    BY <1>1, <1>3 DEF LoadContainer, Shapes, IsFunctionOn
  <2>2. DOMAIN c.tables = {} /\ segment = 1
    BY <2>1 DEF TablesInv, ImageInv, Unloaded, Booting
  <2>3. Done' = {}
    BY <2>1, <2>2 DEF Done, Loaded, Running, Exited
  <2> QED
    BY <2>1, <2>2, <2>3 DEF TablesInv, Unloaded
<1>4. CASE LoadStack
  <2>1. PICK new : new = VMAlloc(pmm, c.highest, STACK, StackFlags)
    OBVIOUS
  <2>2. PICK above : above = UNION {TablesAbove(p) : p \in DOMAIN new}
    OBVIOUS
  <2>3. /\ pc = "LoadProgramHeaders" /\ pc' = "LaunchVM" /\ segment \notin DOMAIN image.phdrs
        /\ c'.space = WithPages(c.space, new)
        /\ c'.tables = WithTables(c.tables, above, StackFlags)
    BY <1>1, <1>4, <2>1, <2>2 DEF LoadStack, Shapes, IsFunctionOn
  <2>4. /\ \A p \in DOMAIN c'.space : TablesAbove(p) \subseteq DOMAIN c'.tables
        /\ \A t \in DOMAIN c'.tables : {"USER", "WRITE"} \subseteq c'.tables[t]
    BY <2>2, <2>3, RangeBringsTables DEF TablesInv
  <2>5. \A ph : Executable(c.tables, ph) => Executable(c'.tables, ph)
    BY <2>3, StaysExecutable
  <2>6. Done' = DOMAIN image.phdrs /\ Done = DOMAIN image.phdrs
    <3>1. /\ image.phdrs \in Seq(Elf64_Phdr) /\ segment \in 1 .. Len(image.phdrs) + 1
          /\ Done = 1 .. segment - 1
      BY <1>1, <2>3, MachineAssumption DEF Shapes, image, Elf64_Ehdr, ImageInv, Done
    <3>2. DOMAIN image.phdrs = 1 .. Len(image.phdrs) /\ Len(image.phdrs) \in Nat
      BY <3>1
    <3>3. Done = DOMAIN image.phdrs
      BY <2>3, <3>1, <3>2
    <3> QED
      BY <1>1, <2>3, <3>3 DEF Done, Loaded
  <2> QED
    BY <1>1, <2>3, <2>4, <2>5, <2>6 DEF TablesInv, Unloaded, Booting, HasText, Placed
<1>5. CASE LaunchVM
  <2>1. pc = "LaunchVM" /\ c' = c /\ pc' \in {"VMRun", "Hung"}
    BY <1>5 DEF LaunchVM
  <2>2. Done = DOMAIN image.phdrs /\ Done' \in {DOMAIN image.phdrs, {}}
    BY <1>1, <2>1 DEF Done, Loaded, Running, Exited
  <2> QED
    BY <1>1, <2>1, <2>2 DEF TablesInv, Unloaded, Booting, HasText, Placed
<1>6. CASE Handle
  <2>1. pc = "HandleVMExit" /\ pc' = "PopAll"
    BY <1>6 DEF Handle
  <2>2. Done = DOMAIN image.phdrs /\ Done' = DOMAIN image.phdrs
    BY <1>1, <2>1 DEF Done, Loaded, Running, Exited
  <2>3. CASE c' = c
    BY <1>1, <2>1, <2>2, <2>3 DEF TablesInv, Unloaded, Booting, HasText, Placed
  <2>4. ASSUME NEW p, c' = MapHeap(p) PROVE TablesInv'
    <3>1. \/ /\ c'.space = WithPages(c.space, [q \in {p} |-> HeapPage])
             /\ c'.tables = c.tables /\ TablesAbove(p) \subseteq DOMAIN c.tables
          \/ /\ c'.space = c.space
             /\ \E new : c'.tables = WithTables(c.tables, new, HeapFlags)
      BY <1>1, <2>4, HeapIsMapped
    <3>2. CASE /\ c'.space = WithPages(c.space, [q \in {p} |-> HeapPage])
               /\ c'.tables = c.tables /\ TablesAbove(p) \subseteq DOMAIN c.tables
      <4>1. DOMAIN c'.space = DOMAIN c.space \cup {p}
        BY <3>2 DEF WithPages
      <4> QED
        BY <1>1, <2>1, <2>2, <3>2, <4>1 DEF TablesInv, Unloaded, Booting, HasText, Placed
    <3>3. ASSUME NEW new, c'.space = c.space, c'.tables = WithTables(c.tables, new, HeapFlags)
          PROVE  TablesInv'
      <4>1. /\ DOMAIN c'.tables = DOMAIN c.tables \cup new
            /\ \A t \in DOMAIN c.tables : c'.tables[t] = c.tables[t]
            /\ \A t \in new \ DOMAIN c.tables :
                 c'.tables[t] = TableFlags(HeapFlags)
            /\ \A ph : Executable(c.tables, ph) => Executable(c'.tables, ph)
        <5>1. DOMAIN c'.tables = DOMAIN c.tables \cup new
          BY <3>3, TablesAreAdded
        <5>2. \A t \in DOMAIN c.tables : c'.tables[t] = c.tables[t]
          BY <3>3, OldTablesStay
        <5>3. \A t \in new \ DOMAIN c.tables : c'.tables[t] = TableFlags(HeapFlags)
          BY <3>3, NewTablesHaveFlags
        <5>4. \A ph : Executable(c.tables, ph) => Executable(c'.tables, ph)
          BY <3>3, StaysExecutable
        <5> QED
          BY <5>1, <5>2, <5>3, <5>4
      <4> QED
        BY <1>1, <2>1, <2>2, <3>3, <4>1 DEF TablesInv, Unloaded, Booting, HasText, Placed, TableFlags
    <3> QED
      BY <3>1, <3>2, <3>3
  <2> QED
    BY <1>6, <2>3, <2>4 DEF Handle
<1>7. CASE Execute \/ Exit \/ SaveRegisters \/ GiveUp \/ RestoreRegisters \/ VMRun
  <2>1. pc \in Running /\ pc' \in Running /\ c' = c
    BY <1>7 DEF Execute, Exit, SaveRegisters, GiveUp, RestoreRegisters, VMRun, Running, Exited
  <2>2. Done = DOMAIN image.phdrs /\ Done' = DOMAIN image.phdrs
    BY <1>1, <2>1 DEF Done, Loaded, Running, Exited
  <2> QED
    BY <1>1, <2>1, <2>2
    DEF TablesInv, Unloaded, Booting, Running, Exited, HasText, Placed
<1> QED
  BY <1>2, <1>3, <1>4, <1>5, <1>6, <1>7, HeaderKeepsTables DEF Next, Boot, Host

(* What the page tables allow at an address that is mapped.                *)
LEMMA AllowedByTables ==
    ASSUME TablesInv, NEW a, PageOf(a) \in DOMAIN c.space
    PROVE  LET flags == c.space[PageOf(a)].flags
           IN  /\ "USER" \in flags => (Allowed(a, "write") <=> "WRITE" \in flags)
               /\ Allowed(a, "fetch") => "NOEXEC" \notin flags
               /\ (/\ "USER" \in flags /\ "NOEXEC" \notin flags
                   /\ \A t \in TablesAbove(PageOf(a)) : "NOEXEC" \notin c.tables[t])
                  => Allowed(a, "fetch")
<1>1. \A t \in TablesAbove(PageOf(a)) : "USER" \in c.tables[t] /\ "WRITE" \in c.tables[t]
  BY DEF TablesInv
<1>2. \A w : w \in Walk(PageOf(a)) <=> \/ w = c.space[PageOf(a)].flags
                                       \/ \E t \in TablesAbove(PageOf(a)) : w = c.tables[t]
  BY DEF Walk
<1> QED
  BY <1>1, <1>2 DEF Allowed

-----------------------------------------------------------------------------

(* What the selectors of the container select.                             *)
LEMMA SelectorsAreOfTheirKind ==
    \A s \in DOMAIN Launching :
      GetAccess(Launching[s]) = IF s = "CS" THEN "code" ELSE IF s = "TR" THEN "task" ELSE "data"
<1>1. /\ DOMAIN Launching = {"CS", "DS", "ES", "SS", "FS", "GS", "TR"}
      /\ Launching["CS"] = 56 /\ Launching["DS"] = 64 /\ Launching["ES"] = 64
      /\ Launching["SS"] = 64 /\ Launching["FS"] = 48 /\ Launching["GS"] = 48
      /\ Launching["TR"] = 72
  BY DEF Launching, InitializeVMCB, SaveVM, KernelSelectors
<1>2. /\ GetAccess(56) = LoadGDT["UserCode"] /\ GetAccess(64) = LoadGDT["UserData"]
      /\ GetAccess(48) = LoadGDT["KernelData64Bit"] /\ GetAccess(72) = LoadGDT["TSSLow"]
  BY DEF GetAccess, GDT
<1>3. {"UserCode", "UserData", "KernelData64Bit", "TSSLow"} \subseteq ToSet(GDT)
  <2>1. /\ DOMAIN GDT = 1 .. 11 /\ GDT[7] = "KernelData64Bit" /\ GDT[8] = "UserCode"
        /\ GDT[9] = "UserData" /\ GDT[10] = "TSSLow"
    BY DEF GDT
  <2> QED
    BY <2>1 DEF ToSet
<1>4. /\ LoadGDT["UserCode"] = "code" /\ LoadGDT["UserData"] = "data"
      /\ LoadGDT["KernelData64Bit"] = "data" /\ LoadGDT["TSSLow"] = "task"
  BY <1>3 DEF LoadGDT
<1> QED
  BY <1>1, <1>2, <1>4

(* A container is launched with the memory its file describes and with a   *)
(* stack above it, and no exit takes either away: LoadProgramHeaders with  *)
(* the tables MMap adds, InitializeVMCB and HandleVMExit keep ImageLoaded  *)
(* for every image.                                                        *)
THEOREM ImageIsLoaded == Spec => []ImageLoaded
<1>1. ASSUME ImageInv, UNCHANGED vars PROVE ImageInv'
  BY <1>1 DEF vars, boot, guest, ImageInv, Done, Settled, Bounded, Linked, Segments, image
<1>2. ASSUME GuestInv, ImageInv, TablesInv, Launched PROVE ImageLoaded
  <2>1. /\ Shapes /\ c.Lowest \in Nat /\ c.highest \in Nat /\ c.highest % PAGE = 0
        /\ c.Highest = c.highest + STACK /\ StackHeld(c.space, c.highest)
        /\ vmcb.Selectors = Launching
        /\ \A j \in DOMAIN image.phdrs : Settled(image.phdrs[j])
    BY <1>2 DEF Launched, ImageInv, Loaded, Running, Exited, Done, GuestInv, Launching
  <2>2. PAGE \in Nat /\ PAGE > 0 /\ STACK \in Nat /\ STACK > 0 /\ STACK % PAGE = 0
    BY LoaderAssumption
  <2>3. ASSUME NEW ph \in Segments
        PROVE  ph \in Elf64_Phdr /\ Settled(ph) /\ Placed(ph)
               /\ ph.vaddr \in Nat /\ ph.memsz \in Nat
    <3>1. ph \in Elf64_Phdr /\ Settled(ph) /\ Placed(ph)
      BY <2>1, HeadersAreTyped DEF Segments, Placed
    <3> QED
      BY <3>1 DEF Elf64_Phdr
  <2>4. ASSUME Linked, NEW ph \in Segments
        PROVE  /\ \A i \in 0 .. ph.memsz - 1 :
                    /\ PageOf(ph.vaddr + i) \in DOMAIN c.space
                    /\ Aligned(ph) =>
                         Byte(ph.vaddr + i) = IF i < ph.filesz THEN ph.offset + i + 1 ELSE 0
                    /\ InKernelRange(c, ph.vaddr + i)
                    /\ Allowed(ph.vaddr + i, "write") <=> "W" \in ph.flags
                    /\ Allowed(ph.vaddr + i, "fetch") => "X" \in ph.flags
                    /\ TextFirst /\ "X" \in ph.flags => Allowed(ph.vaddr + i, "fetch")
    <3>1. /\ ph \in Elf64_Phdr /\ ph.vaddr \in Nat /\ ph.memsz \in Nat /\ ph.memsz > 0
          /\ (ph.vaddr % PAGE) + ph.memsz <= RoundUp(ph.memsz)
          /\ Held(c.space, ph) /\ ph.vaddr + ph.memsz <= c.highest /\ c.Lowest <= ph.vaddr
      BY <2>3, <2>4 DEF Linked, Settled, Placed
    <3>2. ASSUME NEW i \in 0 .. ph.memsz - 1
          PROVE  /\ PageOf(ph.vaddr + i) \in PagesOf(ph.vaddr, ph.memsz)
                 /\ PageOf(ph.vaddr + i) \in DOMAIN c.space
                 /\ Aligned(ph) =>
                      Byte(ph.vaddr + i) = IF i < ph.filesz THEN ph.offset + i + 1 ELSE 0
                 /\ InKernelRange(c, ph.vaddr + i)
      <4>1. PICK space : space = c.space
        OBVIOUS
      <4>2. /\ PageOf(ph.vaddr + i) \in PagesOf(ph.vaddr, ph.memsz)
            /\ Aligned(ph) => space[PageOf(ph.vaddr + i)].data[(ph.vaddr + i) % PAGE]
                                 = IF i < ph.filesz THEN ph.offset + i + 1 ELSE 0
        BY <3>1, <4>1, ByteIsHeld
      <4>3. InKernelRange(c, ph.vaddr + i)
        BY <2>1, <2>2, <3>1 DEF InKernelRange
      <4>4. PageOf(ph.vaddr + i) \in DOMAIN c.space
        BY <3>1, <4>2 DEF Held
      <4> QED
        BY <4>1, <4>2, <4>3, <4>4 DEF Byte
    <3>3. /\ "USER" \in SegmentFlags(ph.flags)
          /\ "WRITE" \in SegmentFlags(ph.flags) <=> "W" \in ph.flags
          /\ "NOEXEC" \notin SegmentFlags(ph.flags) <=> "X" \in ph.flags
      BY DEF SegmentFlags
    <3>4. TextFirst /\ "X" \in ph.flags => Executable(c.tables, ph)
      <4>1. PICK j \in DOMAIN image.phdrs : ph = image.phdrs[j]
        BY DEF Segments
      <4>2. Done = DOMAIN image.phdrs
        BY <1>2 DEF Launched, Done, Loaded, Running, Exited
      <4> QED
        BY <1>2, <2>3, <4>1, <4>2 DEF TablesInv, HasText
    <3>5. ASSUME NEW i \in 0 .. ph.memsz - 1
          PROVE  /\ Allowed(ph.vaddr + i, "write") <=> "W" \in ph.flags
                 /\ Allowed(ph.vaddr + i, "fetch") => "X" \in ph.flags
                 /\ TextFirst /\ "X" \in ph.flags => Allowed(ph.vaddr + i, "fetch")
      <4>1. PICK a : a = ph.vaddr + i
        OBVIOUS
      <4>2. /\ PageOf(a) \in PagesOf(ph.vaddr, ph.memsz) /\ PageOf(a) \in DOMAIN c.space
            /\ c.space[PageOf(a)].flags = SegmentFlags(ph.flags)
        BY <3>1, <3>2, <4>1 DEF Held
      <4>3. TextFirst /\ "X" \in ph.flags =>
              \A t \in TablesAbove(PageOf(a)) : "NOEXEC" \notin c.tables[t]
        BY <3>4, <4>2 DEF Executable
      <4> QED
        BY <1>2, <3>3, <4>1, <4>2, <4>3, AllowedByTables
    <3> QED
      BY <3>2, <3>5
  <2>5. ASSUME NEW a \in c.Highest - STACK .. c.Highest - 1
        PROVE  /\ Allowed(a, "write") /\ ~Allowed(a, "fetch") /\ Byte(a) = 0
               /\ \A ph \in Segments : a \notin ph.vaddr .. ph.vaddr + ph.memsz - 1
    <3> DEFINE h == PageOf(c.highest)
               n == PageOf(STACK)
               p == PageOf(a)
    <3>1. a \in Nat /\ c.highest <= a /\ a < c.highest + STACK
      BY <2>1, <2>2, <2>5
    <3>2. /\ h \in Nat /\ c.highest = (PAGE * h) + (c.highest % PAGE)
          /\ n \in Nat /\ STACK = (PAGE * n) + (STACK % PAGE)
          /\ p \in Nat /\ a = (PAGE * p) + (a % PAGE) /\ a % PAGE \in 0 .. PAGE - 1
      BY <2>1, <2>2, <3>1, Rounding
    <3>3. h <= p
      BY <2>1, <3>1, PagesAreOrdered
    <3> HIDE DEF h, n, p
    <3>4. /\ c.highest = PAGE * h /\ STACK = PAGE * n /\ PAGE * (h + n) = (PAGE * h) + (PAGE * n)
          /\ PAGE * h \in Nat /\ PAGE * n \in Nat /\ PAGE * p \in Nat
      BY <2>1, <2>2, <3>2
    <3>5. PAGE * p < PAGE * (h + n)
      BY <2>2, <3>1, <3>2, <3>4
    <3>6. p < h + n
      BY <3>2, <3>5, PageOrder
    <3>7. p \in StackPages(c.highest)
      BY <3>2, <3>3, <3>6 DEF StackPages, h, n, PageOf
    <3>8. /\ p \in DOMAIN c.space /\ c.space[p].flags = StackFlags
          /\ c.space[p].data[a % PAGE] = 0
      BY <2>1, <3>2, <3>7 DEF StackHeld
    <3>9. Allowed(a, "write") /\ ~Allowed(a, "fetch") /\ Byte(a) = 0
      <4>1. {"USER", "WRITE", "NOEXEC"} \subseteq StackFlags
        BY DEF StackFlags
      <4> QED
        BY <1>2, <3>8, <4>1, AllowedByTables DEF Byte, p
    <3>10. ASSUME NEW ph \in Segments PROVE a \notin ph.vaddr .. ph.vaddr + ph.memsz - 1
      <4>1. ph.vaddr + ph.memsz <= c.highest /\ ph.vaddr \in Nat /\ ph.memsz \in Nat
        BY <2>3, <3>10 DEF Settled, Placed
      <4> QED
        BY <2>1, <3>1, <4>1
    <3> QED
      BY <3>9, <3>10
  <2>6. \A s \in DOMAIN vmcb.Selectors :
           GetAccess(vmcb.Selectors[s]) = IF s = "CS" THEN "code"
                                          ELSE IF s = "TR" THEN "task" ELSE "data"
    BY <2>1, SelectorsAreOfTheirKind
  <2> QED
    BY <2>4, <2>5, <2>6 DEF ImageLoaded
<1>3. ASSUME GuestInv, ImageInv, TablesInv PROVE ImageLoaded
  BY <1>2, <1>3 DEF ImageLoaded
<1>4. Init => TablesInv
  <2> SUFFICES ASSUME Init PROVE TablesInv
    OBVIOUS
  <2>1. /\ DOMAIN c.space = {} /\ DOMAIN c.tables = {} /\ pc = "LimineEntry"
    BY DEF Init, Container
  <2> QED
    BY <2>1 DEF TablesInv, Done, Loaded, Running, Exited
<1>5. ASSUME TablesInv, UNCHANGED vars PROVE TablesInv'
  BY <1>5 DEF vars, boot, guest, TablesInv, Done, TextFirst, Segments, image, HasText, Placed
<1> QED
  BY <1>1, <1>3, <1>4, <1>5, ImageInit, ImageStep, TablesStep, GuestIsKept, PTL DEF Spec

=============================================================================
