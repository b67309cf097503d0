# A TLA+ model of the MicroKosm kernel

This directory models the MicroKosm microkernel from the boot loader's hand-over
to the exits of its first container: the capability slab, the address tree over
it, the physical memory manager that feeds on both, the page tables of its two
ports and the virtual memory manager, the system calls, the loader, the virtual
machine the container runs in, the interrupt stubs, the string library and the
walk through the ACPI tables. The modules are checked with TLC on small
instances. The lists, the slab, the physical memory manager with the capability
space under it, the page tables and the virtual memory manager, the exits of the
virtual machine and the interrupt stubs are also proved correct with TLAPS, for
every size of their instance (section 5).

Paths below are relative to the repository (`src/generic/slab.cpp` is the
file the kernel builds from its `src` directory).

## 1. The system

The kernel is small, runs on one processor and has one thread of control. It
boots (Limine protocol), builds a capability space over the machine's memory,
maps itself, loads one container and starts it as a guest of AMD SVM. From then
on it runs only when the guest exits, to serve one system call at a time.
Interrupt handlers print or panic and touch no kernel state. Beside the
interrupts there is no concurrency; what is hard about this code is *history*:
the same few pages are at once list elements, counters, tree nodes and payload,
and whether an operation is correct depends on everything that was allocated,
freed, split and retyped before it.

| Component | State | Operations | Talks to | Hard because |
|---|---|---|---|---|
| Intrusive lists, `generic/list.cpp` | `Next`, `Previous` in the elements, `Head`, `Tail` in the list | add, add after, remove, move, pop head, pop tail | used by the slab | the functions have preconditions that are written nowhere: remove works at the ends only, move needs a destination that is not empty |
| Capability slab, `generic/slab.cpp` | nodes (pages of slots) on `FreeSlabs`, `UsedSlabs`, `FullSlabs`; a counter per node | `AddSlabNode`, `AllocateSlabSlot`, `FreeSlabSlot`, `GetFreeSlabSlots` | lists; called by the capability space | counter, slot contents and list membership must agree at every step; the allocation loop hangs if they do not |
| Address tree, `generic/slab.cpp` | an AA tree threaded through the slots, keyed by `Object` | `Insert` (`Skew`, `Split`), `Search`, `SearchClose`; `Delete` has no callers | root in the capability space | an insertion at a known address overwrites a linked slot; slots are freed without being unlinked |
| Capability space, `generic/capability.cpp` | the slab, the tree root, a capability in each slot | generate, retype, split, add node, look up, `InitializeRootSpace`, `GetUntyped` | slab, tree; called by boot, PMM, system calls | a retype frees a slot the tree may link; a split leaves its parent masked; failures half way are not undone |
| Physical memory manager, `generic/pmm.cpp` | `UntypedArea`, `IsActive` | `Init`, `CheckSpace`, `RequestPage`, `RequestVirtualPage`, `RequestPages`, `Deinit` | capability space; called by VMM, loader, CPU set-up | it spends slots to make slots, and pages to make room for the capabilities of pages |
| Page tables, `arch/x86/64/vmm.cpp`, `arch/aarch64/vmm.cpp` | four levels of tables of 512 entries | `NewVirtualSpace`, `MapPage`, `MapIntermediateLevel`, `FindMappedPage`, `FlagPage`, `UnmapPage` (the last two have no callers) | called by VMM, system calls | the caller provides each missing level in its own call; the flags of one page end up in entries shared by others |
| Virtual memory manager, `generic/vmm.cpp` | the root table of each space | `InitVMM`, `MMap`, `VMAlloc`, `VMCopyAlloc` | page tables, PMM | a retry loop whose termination rests on what two functions report to each other |
| System calls, `generic/syscall.cpp` | none of its own | dispatch to capability space and page tables on the root container | all of the above | results are copied out of arrays that failed calls leave uninitialised |
| VM exits, `arch/x86/vm/svm.cpp`, `svm_asm.asm` | the guest's control block, its registers on the kernel's stack | run the guest, handle an exit, resume | system calls | some exits resume at the faulting instruction, some never resume |
| Loader, `generic/loader.cpp` | the container's space, bounds and bindings | verify ELF, map segments and stack, `PMM::Deinit`, start | VMM, PMM | the last user of the physical memory manager; the ends of segments |
| Boot, `arch/x86/limine.cpp`, `generic/main.cpp`, `arch/x86/cpu.cpp` | `KInfo` | the order of everything above | all | a stack is requested from the manager before it is initialised |
| Interrupts, `arch/x86/idt.cpp`, `interrupts.asm` | the descriptor table, the stack | stubs, `InterruptHandler`, `LoadSchedulerContext` | none | a second interruption at any instruction of a stub |
| Library, `generic/string.cpp`, `printk.cpp`, `math.hpp` | the caller's buffers | copy, compare, tokens, conversions, printing | everything | overlaps, missing ends of strings, the most negative number |
| ACPI, `arch/x86/acpi.cpp` | pages mapped, the place in the tables | walk the root table and three tables | VMM; no callers yet | reads what firmware wrote: lengths, pointers of two sizes, pages nobody mapped |
| Containers, APIC, port I/O, cryptography | | | | no state the rest depends on |

What makes each component correct, in the order of the table: a list stays a
doubly linked chain; every node is on the list its counter calls for and the
counter is exact; the tree is ordered, balanced and finds the newest capability
at each address; no two usable capabilities describe the same memory; no page
is lost or handed out twice, and requests never run out of slots; page tables
form trees, and no mapping changes another; a mapping call ends; a system call
damages neither the kernel nor another capability; a container starts with the
memory its file describes and does not notice the exits; an interruption leaves
no trace; a library function does what its name says; every record of firmware
is read once.

## 2. The modules

Data structures are *operators over a record* (one operator per function of the
source, returning the structure it leaves behind); a module with `Spec` drives
them. That makes a structure usable both by its own specification and inside a
larger one.

| Module | Models | Notes on the correspondence |
|---|---|---|
| `LinkedList` | `list.cpp` | the heap of `Next`/`Previous`/`Head`/`Tail`, assignment by assignment; `Fault` records a write through NULL |
| `LinkedListSpec` | clients of the lists | `ListSpec` respects the preconditions |
| `ListContents` | abstract | lists as sequences of elements |
| `Slab` | the slab half of `slab.cpp` | `Spins` records that the loop of `AllocateSlabSlot` was entered on a node without a free slot |
| `SlabSpec` | the slab and its callers | frees a slot only when that moves its node, if at all, from an end of a list |
| `SlotPool` | abstract | a set of slots, some taken |
| `CapabilitySpace` | `capability.cpp` | the tree is a function from addresses to linked slots; `Fault` records a write through NULL and a division by zero; sizes wrap at `USIZE` |
| `PMM`, `MCPMM` | `pmm.cpp`, the hand-over in `limine.cpp` | a call is `Call`, turns of `CheckSpace` (`AddNode`), then `Grant` or `FinishDeinit` |
| `FrameAllocator` | abstract | pages handed out once, runs consecutive |
| `AATree` | the tree half of `slab.cpp` | recursive operators, as the code is recursive |
| `AATreeSpec` | the tree as `GenerateCapability` grows it | |
| `AddressIndex` | abstract | the newest capability at each address |
| `PageTable` | `arch/x86/64/vmm.cpp` | a frame is a function from indices to `[Address, Flags]`; the four nearly equal blocks of each function are one definition with the level as parameter |
| `AArch64PageTable` | `arch/aarch64/vmm.cpp` | stated as what differs: the digits of an address index the levels in the opposite order, and every page is Valid |
| `TablePorts`, `MCTablePorts` | both, under the same calls | `CallMap` and a `Turn` of `MMap` on each port, `CallFlag`, `CallUnmap` |
| `PageMap` | abstract | a map from pages to frames and flags |
| `VMM`, `MCVMM` | `generic/vmm.cpp` | a call is `CallMMap` (the kernel's sections and the memory map, never for the user) or `CallVMAlloc` (the container's pages), then `TakeFrame` and `MapStep` until its range is mapped; the ranges of `CallMMap` hold the frames the manager hands out, as the direct map does |
| `AddressSpaces` | abstract | a set of mappings, and a request to map a range: its next page is mapped with the flags asked for, and nothing else |
| `Syscall`, `MCSyscall` | `syscall.cpp`, `GetUntyped` | a call is one action; `Care` names what the container looks at before it calls |
| `Loader` | `loader.cpp`, the copying of `VMCopyAlloc` | a space is a map from pages to frame, flags and bytes, and one from the tables above them to the flags of the entries that lead there |
| `GuestExits` | `svm.cpp`, `svm_asm.asm`, `gdt.cpp` | the control block is a record, `pushall` and `popall` are sequences of register names, the handler reads `GeneralRegisters` by position |
| `Machine`, `MCMachine` | `limine.cpp`, `main.cpp`, `cpu.cpp` and the two above | `pc` names the function; the container executes anything |
| `VirtualProcessor` | abstract | a processor on which each exit is one instruction |
| `Interrupts`, `MCInterrupts` | `idt.cpp`, `interrupts.asm`, `LoadSchedulerContext` | an action is an instruction of a stub; the stack is a function from addresses to cells |
| `Strings` | `string.cpp`, `printk.cpp` | operators over a memory of characters; integers of `WIDTH` bits |
| `Powers` | the powers of `math.hpp` | a word is the set of its bits that are 1; words of `BITS` bits, an int of `INT` |
| `Library`, `MCLibrary` | their clients | any call on one buffer, and printing |
| `Buffers` | abstract | copies, fills and tokens without overlap |
| `ACPI`, `MCACPI` | `acpi.cpp` | a turn of a loop is a step; a page that is not mapped is a panic |
| `PageTableProofs` | | lemmas on the operators of `PageTable` |
| `LinkedListProofs`, `SlabProofs`, `PMMProofs`, `VMMProofs`, `TablePortsProofs`, `MachineProofs`, `InterruptsProofs` | | the theorems of section 5 |

How they compose: `Slab` EXTENDS `LinkedList` (a slab record holds a list heap);
`CapabilitySpace` EXTENDS `Slab` (a space record holds a slab whose slots are
whole capabilities); `PMM` EXTENDS `CapabilitySpace`, and instantiates `SlabSpec`
to state the slab's invariants of its own slab. `VMM` EXTENDS `PageTable` and
relies, of the physical memory manager, on what `FrameAllocator` promises only:
run `pmm_boot` shows that `PMM` keeps that promise. The address tree is checked by
itself (`AATreeSpec` implements `AddressIndex`), which is what allows
`CapabilitySpace` to abstract it to a function; `TreeIsCoherent`, a conjunct of
`GrantedAreAddressable` in `PMM`, checks the condition under which that is sound:
no linked slot changes its key. The shape of the tree decides what `SearchClose`
answers for an address that is not in it: `Syscall` leaves the choice among the
neighbours open, which `SearchesAgree` of `AATreeSpec` justifies.

`Syscall` EXTENDS `PMM`: its calls run on the space a boot has left, and on page
tables it instantiates from `PageTable`. `Machine` EXTENDS `Loader` and
`GuestExits`. Of the lower components it keeps what the boot order can get wrong:
the manager is `[active, frames]`, that is, a request returns a frame never given
before or, while the manager is inactive, NULL (run `pmm_boot` shows the first);
a mapping call adds the pages of its range and the tables they need, or hangs on
a page that is mapped (run `page_tables`); a system call may map a page of the
heap or a table above one, and changes nothing else the container sees (run
`user_calls`, which also has the calls that flag an existing table). A table is
the flags of the entry that leads to it; the frames of tables are not counted. `ACPI` takes the hang from the same
place. `Interrupts` and `Library` stand alone.

Each module also holds some operators marked *Mutation*: a definition of the
module with one plausible mistake (a dropped guard, a swapped order, a missing
reset). They are not part of any specification. Putting one in the place of the
definition it mutates makes the property it belongs to fail, which shows that
the property depends on that line of the code. `PROJECT.json` says which belongs
to which.

What is abstracted, except where a module is about it: bytes, printing, alignment of structures
smaller than a page (such an object has size one), the difference between a
physical address and its higher-half alias. The width of `usize` is kept where a
caller can make it matter: in the splits of `CapabilitySpace` (`USIZE`), in the
conversions of `Strings` (`WIDTH`), in the powers of `Powers` (`BITS`, `INT`), in the pointers of `ACPI` (`WORD`) and in the
stacks of the TSS (`SPACE`).

## 3. The runs

| Run | Instance | Shows |
|---|---|---|
| `linked_lists` | 3 elements, 3 lists; 106 states | lists stay chains of distinct elements and no NULL is written (`WellFormed`), removed elements keep no links (`UnlinkedIsClean`, which `AddElementToList` needs: it does not always write `Next`), each call is its sequence operation (`ImplementsSequences`) |
| `slab` | 3 nodes of 3 slots; 2,072 states | `Accounting`, `OnMatchingList`, `AllocateReturns`, `AllocateFailsOnlyWhenFull` (allocation looks into one node only), `ImplementsPool` |
| `pmm_boot` | pages of 2 units, nodes of 8 slots, a region of 15 pages, requests of up to 2 pages, reserve of 15 slots; 14,915 states | `SlotsNeverRunOut` (the budget of 5 suffices, although making slots costs slots), `MemoryConserved`, `UntypedIsExclusive`, `GrantedAreAddressable`, `SlotListsIntact`, `ReservedForUser` (after `Deinit` that many capabilities can be generated one after the other), `ImplementsFrames`; and that calls return |
| `address_tree` | 7 addresses, 2 types; 28,569 states | `SearchTree` (ordered, balanced), `SearchesAgree`, `ImplementsIndex`, for every order of insertion and replacement |
| `page_tables` | tables of 2 entries, 2 spaces, ranges of 1 or 2 pages, two of memory at a fixed distance and two of new pages, text and data flags, 12 frames; 13,224 states | `NoTableSharedOrLost` (the tables are trees, and a container reaches frames of its own only, although the kernel maps all of them), `AccessAsAsked`, `ImplementsMaps` (a call maps the pages of its range, in order, as asked, and nothing else), and that `MMap` returns |
| `table_ports` | tables of 2 entries, 2 pages, 2 frames, flags that take READ away; 1,444 states | the x86-64 and the AArch64 tables say the same after every call (`PortsAgree`) and are a map from pages to frames (`ImplementsPageMap`): tables that outlive their pages leak nothing into later mappings |
| `user_calls` | a boot of at most 1 request, then any calls; pages of 2 units, nodes of 8 slots, a region of 12 units with a device region right behind it, `USIZE` 256; 33,033 states | `KernelUndamaged`, `AddressableUntypedIsExclusive`, `RepliesAreAddressable`, `TablesAreNotMapped`, `UserMapsOnlyGrow`, for a container that takes the precautions below |
| `machine` | pages of 4 bytes, tables of 4 entries, a stack of 8, six executables, six firmwares, four probed addresses; 92,435 states | `ImageLoaded` (each byte of the container is what its file describes; it writes where the file says, and fetches from text only, and from all text where the file has it first), `NothingAtNull`, `ContainerStarts`, `ExitsReturn`, `ImplementsProcessor` |
| `interrupts` | 10 vectors, a non-maskable interrupt between any two instructions, depth 2, two alignments of the stack; 109,227 states | the handler is shown the registers of what it interrupted (`ContextIsTrue`), and what returns is as it was, also when interrupted itself (`Transparent`) |
| `library` | a buffer of 5 cells, 3 characters, numbers of 6 bits, every one printed, powers of 64-bit words; 24,345 states | `AnswersAreTrue` (each function of `string.cpp` and `printk.cpp` against a definition on sequences, and, in `PowersAreTrue`, those of `math.hpp` but `Min`), `ImplementsBuffers` (each call changes what it should and no more) |
| `acpi` | pages of 4096 bytes, six tables in three pages, lists of up to three pointers of both sizes; 5,454 states | `TablesAreRead`: where the walk copes, every record is reported once, in order, and the walk ends |
| `full_slabs_cut_off` | as `pmm_boot` | violated; see below |

### Why the bounds are enough

*Lists, slab.* Three list elements are the fewest with a first, a middle and a
last; three lists are what the slab has. Three slots per node make a node pass
through free, used (twice) and full; three nodes give each list a middle.

*Memory manager.* Eight slots per node is small enough that nodes fill many
times while the region lasts, and large enough for the budget of a request (the
real node has 99, so every slot shortage of the real one exists in the small
one); the region has room for several nodes and every interleaving of them with
requests.

*Tree.* Seven keys build trees of three levels, in which every rotation happens
below the root.

*Tables.* With two entries per table and ranges that cross table boundaries
(3 to 4 and 11 to 12 of 16 pages do, on two levels) each level is shared by some
pages and not by others. The upper half of the pages maps memory from frames 1 and
3 on, the lower half is allocated in: the kernel's root, other tables and frames
of the container are mapped pages too. Twelve frames suffice for the tables and
pages of three ranges. The two pages of `table_ports`, 1 and 9, share no table on
x86-64 and all but the last level on AArch64, where their digits are read from
the other end.

*System calls.* The region holds one node of the container's own beside the
boot's, several pages, and splits of splits; offsets 0 and 2 and counts 1 and 2
reach every branch of `SplitUntyped`; the device region begins where the memory
ends, where an overlong split would end too. `MaxBoot` is 1 because the boot by
itself is what `pmm_boot` explores.

*Machine.* The executables have a segment whose file part ends inside a page
with a zeroed page behind it, a hole, a note, a segment that begins inside a
page, two that share one, one with read-only data before text, and one of the
wrong class; with four entries to a table some segments share a table and some
do not; the firmwares leave the modules, the time and the RSDP unanswered once
each and lock SVM. A page of four bytes has a first, a last
and two inner bytes. The probes are an address below, inside, between and above
the segments.

*Interrupts.* The vectors are one of each kind the handler tells apart, and one
without a descriptor; depth 2 is a fault or an interrupt with a non-maskable one
in its stub (the processor holds back a third). The two stack tops make the
alignment in the stub move the pointer or not.

*Library.* Overlaps in both directions, tokens at the start, at the end and side
by side need five cells; 6-bit words have all of 64 numbers, the most negative
one included. The words of the powers have 64 bits, at most two of them 1, and
their two neighbours: every shift of `UpperPowerOfTwo` is needed.

*ACPI.* A list of three has a pointer that is first, in the middle and last on
both kinds of root table; the pages are mapped, shared with the root table, or
not mapped; one table crosses the end of its page.

Bounds in guards: `MemorySuffices` (PMM: a call is made only when the region can
serve it; what happens otherwise is a hazard no property covers), `MaxLength`,
`MaxBoot`, `FramesSuffice` with `MaxFrames`, `MaxPages` and `Targets` (VMM,
TablePorts, Syscall), `MaxDepth` (Interrupts), `Size` (Library). Deadlock is not
checked where the system really stops: the region or the frames are used up
(`pmm_boot`, `page_tables`, `user_calls`), a panic (`machine`, `interrupts`), the
walk has ended (`acpi`).

### The precautions of the container

The dispatcher passes its arguments on as they are. `Care` names what a
container has to look at for its calls to do what they say; `user_calls` gives it
all of them, and each is there because of a trace of the model without it.

| Precaution | Without it | Place |
|---|---|---|
| `MemoryOnly`: call with addresses that are in the tree, capabilities fit for the call, room for what is made | a failed call copies through an array nobody wrote (`KernelUndamaged`) | `syscall.cpp:79` |
| `ReusesSlot`: retype only when the next slot to be allocated is the one set free | the tree's copy fills a slot that is counted free, and a later allocation hangs (`KernelUndamaged`) | `capability.cpp:221` |
| `OnceOnly`: add a node once | its live slots are wiped (`KernelUndamaged`) | `capability.cpp:337` |
| `UntypedOnly`: retype and split untyped frames only | a page the slab lives in is retyped under it (`KernelUndamaged`) | `capability.cpp:187` |
| `FitsWord`: size times count plus offset fits a word | pieces reach past the memory there is (`RepliesAreAddressable` with pieces of 128) | `capability.cpp:268` |
| `WholeObjects`: retype what divides into objects evenly | the rest is lost | `capability.cpp:212` |
| `LeavesRest`: a split leaves a rest | one with an offset overwrites the capability of whatever lies behind; one without returns its last piece as the rest | `capability.cpp:302` |

The last two violate none of the properties of `user_calls` in any state explored
without them; they are there because of `NoRestOfRetypes` and
`DeviceMemoryStaysAddressable`, among the variants below. What the precautions
exclude, `user_calls` does not show.

### What the code does otherwise

One run is expected to find a violation. `full_slabs_cut_off`: `src/cap.md:18`
draws a list as "Cnode <-> Cnode <-> Cnode", and at `slab.cpp:72` the boot's own
requests remove a node from the middle of `FullSlabs`, whose neighbours
`list.cpp:47` does not relink. `FreeSlabs` and `UsedSlabs`, the two that allocation
uses, stay intact in every boot (`SlotListsIntact` in `pmm_boot`) and under every
careful system call (`KernelUndamaged` in `user_calls`).

Seven more sentences of the repository do not hold of the code. They are stated as
invariants in `Machine` and `Syscall` but are *not among the runs* of
`PROJECT.json`: nothing here re-checks the table below, whose last column is what
a reading of the code says and a trace of TLC showed. To see a trace, put the
invariant in the place of those of the named configuration and make the change.
With `SyscallUser`, leave the paging structures out of `RetypeKinds` and `Targets`
empty unless the table says otherwise.

| Invariant | The repository says | Change | The code |
|---|---|---|---|
| `TextIsExecutable` | `loader.cpp:105` "Text", mapped without NOEXEC | `Machine`, nothing else | `64/vmm.cpp:116`: NOEXEC of a segment of read-only data stays in the entry above the text |
| `ReservedSlotsAllocate` | `pmm.cpp:42` "Reserve space for userspace" | `SyscallUser`, `Care` without `ReusesSlot`, `SplitSizes` {1}, `SplitOffsets` {0}, `Counts` {1, 5}, `Indices` {0}, `MaxBoot` 0 | `capability.cpp:225`: a retype whose first object takes a slot of another node leaves one taken and counted free; the next allocation hangs |
| `UntypedHasNoChildren` | `capability.cpp:195` "The ut capability must not have children" | `SyscallUser`, nothing else | `capability.cpp:296`: the first piece of a split is in two slots; `GetUntyped` reports the one outside of the tree also when the memory has been retyped |
| `DeviceMemoryStaysAddressable` | `cdefs.h:113` "The capability can used by getting its pointer" | `SyscallUser`, `Care` without `LeavesRest` | `capability.cpp:302`: a rest of size 0 takes the place of the device region behind the memory |
| `NoRestOfRetypes` | `capability.cpp:208` "Don't worry about this, all structures will be aligned to be powers of two" | `SyscallUser`, `Care` without `WholeObjects`, `SplitSizes` {2, 3} | `capability.cpp:212`: the memory need not be a multiple of the object's size, and the rest is lost |
| `UntypedIsMemory` | `capability.cpp:270` "We can't split it, it's too small" | `SyscallUser`, `Care` without `FitsWord` and `LeavesRest`, `SplitSizes` {128} | `capability.cpp:268`: the product wraps and passes |
| `WritableMappingsAreGranted` | `cdefs.h:134` "The frame can be mapped in the virtual space and written to", the right WRITE | `SyscallUser`, `RetypeKinds` `FRAME_MEMORY` and the paging structures, `Addresses` {40}, `SplitOffsets` {0}, `Counts` {1}, `Indices` {0}, `Targets` {2, 3}, `MaxBoot` 0 | `syscall.cpp:131`: the right is not looked at |

What else was met while modelling, and how the models treat it:

| Place | |
|---|---|
| `list.cpp:79` | a move to an empty list leaves `Tail` NULL; no caller yet, excluded by the guard of `LinkedListSpec` |
| `capability.cpp:302` | after the last page the manager's area has the piece just granted as its rest; `MemorySuffices` stops before |
| `64/vmm.cpp:92` | "Returns 1 if the frame wasn't used": it returns 1 for level 3 after using it (line 117); modelled, the caller reads only 0 |
| `generic/vmm.cpp:161` | a page already mapped hangs `MMap`; modelled in `Machine` (two segments in one page) and `ACPI` (the RSDP in the root table's page, `acpi.cpp:14` and `:30`) |
| `generic/vmm.cpp:75` | the base of a memory map entry is rounded down before its length is added: the last page of an unaligned entry is not mapped; entries of the models are aligned |
| `generic/vmm.cpp:204` | a segment that begins inside a page is copied to the start of the next one, and one within a page is not copied at all; `ImageLoaded` excludes it |
| `generic/vmm.cpp:191` | the start is rounded down and the length up, each by itself: a segment that begins inside a page may miss its last page; modelled, excluded by `Linked` |
| `loader.cpp:87` | the lowest address of a container is that of its first PT_LOAD, whatever the order; modelled |
| `limine.cpp:208` | the answer to the module request is read without a test: a panic; modelled |
| `cpu.cpp:171` | SVM is reported as enabled also where firmware has locked it; modelled, the guest then never runs |
| `cpu.cpp:100`, `gdt.cpp:38` | RSP0 and the IST stacks are computed from the NULL of an inactive manager; modelled, never loaded |
| `svm.cpp:103` | the two halves of a segment's attributes are put together in the wrong order for VMCB; not read by anything modelled |
| `svm.cpp:200`, `:206` | a fault in the kernel's range, upper bound included, is resumed at the same instruction for ever; one without a bound handler resumes at 0; modelled, `ExitsReturn` excludes both |
| `svm_asm.asm` | at the first VMRUN the guest's general registers are what the kernel left in them |
| `idt.cpp:97`, `:104` | divide error and invalid opcode return to the same instruction |
| `idt.cpp:82` | vectors from 32 on have no descriptor: an interrupt there is a general protection fault, i.e. a panic; modelled |
| `idt.cpp:128` | `(e & 0b1000) >> 4` is 0 for every error code |
| `interrupts.asm:105`, `:113` | vectors 21 and 29 push an error code and have the stub for those that do not; excluded by `VectorsAssumption` |
| `acpi.cpp:47` | the length of the root table is compared with 8 where the size of a pointer is meant: an XSDT is read as 32-bit halves; modelled |
| `acpi.cpp:55` | tables on pages nobody mapped are read: a page fault; modelled |
| `acpi.cpp:121` | a record of length 0 is reported for ever; modelled, excluded by `TablesAreRead` |
| `string.cpp:42` | `Strncmp` looks at the character after the last one compared; `AnswersAreTrue` states what it answers |
| `string.cpp:196`, `:241` | `Atoi` drops the sign; `Memcpy` copies upwards whatever the overlap; both as modelled |
| `printk.cpp:29`, `:64`, `:70` | messages of level "4", which `printk.hpp:14` calls NORMAL, are dropped; a format that ends in % is read past its end; %d reads 64 bits whatever is passed |
| `printk.cpp:44` | the level '\0' is accepted, and the format is then read behind its end; `AnswersAreTrue` excludes it |
| `math.hpp:43` | `GetPowerOfTwo` counts the zeros of the lower 32 bits only; its one caller (`memory.cpp:112`) is compiled out; modelled, `PowersAreTrue` states for which words it is right |
| `math.hpp:47` | `ElevatePowerOfTwo` shifts an int: the answer for 31 is negative, from 32 on undefined; no caller; modelled likewise |
| `math.hpp:52` | `Min` returns the larger of its arguments; its one caller is `DecreaseLevel` (`slab.cpp:151`), which nothing calls; not modelled |
| `capability.cpp:212` | a retype to `CACHE_MEMORY`, whose size is 0 for `GetObjectSize`, divides by zero; modelled as a fault, not among the kinds of the instances |
| `acpi.cpp:14` | one page of the RSDP is mapped, and one that crosses its end is read beyond it: a page fault; modelled |

## 4. Fairness

Safety properties assume none.

`CallsReturn` (`PMM` and `VMM`): weak fairness of the steps of the call in
progress. The kernel is sequential and is not preempted, so once it has begun a
call the processor executes its next step; a call never waits for anybody.
Nothing is assumed about which calls are made or that any is. In `PMM` the weak
fairness is written out (`Fairness`): the steps are enabled exactly while a call
is in progress and nothing has faulted, and the formula spares TLC the
evaluation of ENABLED.

`ContainerStarts` and `ExitsReturn` (`Machine`): weak fairness of `Boot`, of
`Host` and of `Exit`, i.e. the processor goes on with the boot, with the handler,
and with an exit once the container has caused one. The container itself may
compute for ever, or never exit.

`TablesAreRead` (`ACPI`): weak fairness of the walk, which is one call.

`Interrupts` states none: a source that raises non-maskable interrupts without
end keeps any handler from returning, and no property claims that one returns.

## 5. What is proved

Each theorem holds for every value of the constants that satisfies the named
assumptions, all of which TLC evaluates in the runs.

| Module | Theorem | Establishes |
|---|---|---|
| `LinkedListProofs` | `Representation` | `ListSpec => []ListInv` |
| | `ListsWellFormed` | `ListSpec => []WellFormed` |
| | `UnlinkedStaysClean` | `ListSpec => []UnlinkedIsClean` |
| | `SequencesImplemented` | `ListSpec => ImplementsSequences` |
| `SlabProofs` | `Soundness` | `Spec => []IInv` |
| | `TypeCorrect` | `Spec => []TypeOK` |
| | `AccountingHolds` | `Spec => []Accounting` |
| | `PlacementHolds` | `Spec => []OnMatchingList` |
| | `AllocateAlwaysReturns` | `Spec => []AllocateReturns` |
| | `AllocateFailsLast` | `Spec => []AllocateFailsOnlyWhenFull` |
| | `PoolImplemented` | `Spec => ImplementsPool` |
| `PMMProofs` | `InvariantHolds` | `Spec => []IInv` |
| | `SlotsSuffice` | `Spec => []SlotsNeverRunOut` |
| | `Conservation` | `Spec => []MemoryConserved` |
| | `GrantsAreAddressable` | `Spec => []GrantedAreAddressable` |
| | `UntypedIsNotShared` | `Spec => []UntypedIsExclusive` |
| | `ListsStayIntact` | `Spec => []SlotListsIntact` |
| | `Reservation` | `Spec => []ReservedForUser` |
| | `FramesRefinement` | `Spec => ImplementsFrames` |
| `VMMProofs` | `TablesAreKept` | `Spec => []VMMInv` |
| | `NoTableIsSharedOrLost` | `Spec => []NoTableSharedOrLost` |
| | `AccessIsAsAsked` | `Spec => []AccessAsAsked` |
| | `MapsImplemented` | `Spec => ImplementsMaps` |
| `TablePortsProofs` | `PortsAreKept` | `Spec => []PortsInv` |
| | `PortsAlwaysAgree` | `Spec => []PortsAgree` |
| | `MapImplemented` | `Spec => ImplementsPageMap` |
| `MachineProofs` | `GuestIsKept` | `Spec => []GuestInv` |
| | `ProcessorImplemented` | `Spec => ImplementsProcessor` |
| | `NothingIsAtNull` | `Spec => []NothingAtNull` |
| | `ImageIsLoaded` | `Spec => []ImageLoaded` |
| `InterruptsProofs` | `StackIsKept` | `Spec => []StackInv` |
| | `ContextIsShown` | `Spec => []ContextIsTrue` |
| | `InterruptsAreTransparent` | `Spec => Transparent` |

The first theorem of each module is its inductive invariant; the others are read
off it or off the steps between two states that satisfy it.

### The lists

Assumption: `ElementsAssumption` (finitely many elements, NULL is none of them).

`LinkedListProofs` has the lemmas on the operators: for arbitrary sets of
elements and lists, what `AddElementToList` and `RemoveElementFromList` do to
the chain of the list they are given (`AppendChain`, `RemoveChain`), that they
leave every other list alone (`AppendFrame`, `RemoveFrame`), and the same in
terms of `Holds(h, l, S)`: some sequence without repetition enumerates S and is
the chain of l.

`WellFormed` alone is not inductive: adding an element does not always write its
`Next`, so that an element left over with a link would end up in two chains. The
invariant `Represents(heap, f)` says that each list is the chain of the sequence
f gives it, that no element is in two of them, and that an element in none has
no links. Popping a head or a tail and moving an element are shown to leave the
memory that a removal, or a removal and an addition, leave; so three operations
have to be followed to their effect on a chain. As the invariant names the
sequences, each step is seen to be the step of `ListContents` it stands for.

### The slab

Assumptions: `CapabilitiesAssumption` (at least two slots: with one, a node goes
from free to full without passing `UsedSlabs` and the code takes it off the
wrong list; a page holds 99) and `PagesAssumption` (finitely many pages, NULL is
no page and no slot).

None of the five properties is inductive alone: allocation trusts the list it
finds a node on, list membership trusts the counter, and the counter trusts that
the slot found is free. `IInv` is their conjunction, phrased for proof: the slab
has its types, each counter equals the cardinality of the node's free slots
(`Counted`), each list holds exactly the nodes that `ListFor` places on it
(`AllPlaced`), and neither `Fault` nor `Spins` is set. Each slab operation is a
change of one slot and one counter, followed by at most one move of a node
between lists; the proof is one lemma per case, and the case in which a node
leaves the middle of a list is excluded by the guard `MovesFromAnEnd` of `Spec`,
the very condition `RetypeUntyped` does not have. The finite-cardinality step
(one slot less free) comes from the library's theorems on finite sets. For
`PoolImplemented` the same cases say which slot changed its type, which is what
the taken slots of `SlotPool` are.

### The physical memory manager

Assumptions: `CapabilitiesAssumption` as for the slab, `PageSizeAssumption` and
`UsizeAssumption` (a page has two units at least, a word counts more than a page
of them), `MemoryAssumption` (types of the constants), `NullAssumption` (NULL is
no page and no slot) and `MapAssumption`, which is what the kernel is given: the
boot protocol sorts the memory map and lets no usable entry overlap with another
or end inside a page; the region is the usable entry the boot has picked as the
longest, and has a page beyond the two that `InitializeRootSpace` takes; and the
capabilities of the map go into one node, since `InitializeRootSpace` adds none
(a page holds 99, so a map may have 94 entries that get a capability). Nothing is
assumed about the length of a request, the reserve or the order of calls; the
guard `MemorySuffices` is part of `Spec`.

The proof follows what `CheckSpace` only trusts. `Inv(u)` says that

- the pages below number u of the region are handed out: the first to the root
  container, each other either a node of the slab or part of exactly one grant,
  under a capability of its type and of the size of a page, which the tree leads
  to (`Handed`), and `UntypedArea` is an unmasked capability of all pages from u
  on (`AreaAt`);
- no other unmasked untyped capability reaches into the region, and no two
  overlap (`Clear`);
- the space is sound (`SpaceOK`): a linked slot holds a capability of the address
  it is linked under, every counter is exact, `FreeSlabs` and `UsedSlabs` are chains
  of just the nodes that belong there (`SlabOK`);
- the free slots, `Spare`, are two at least and, during a call, enough for the
  nodes it still needs, and the region for those nodes and the request (`CallOK`).

Three points made this more than bookkeeping. First, `RetypeUntyped` frees the
slot of the piece it retypes, in whichever node that is. A full node then leaves
the middle of `FullSlabs`, which `list.cpp` gets wrong; the other two lists are not
damaged because of `FullSlabs` only its two ends are ever written through
(`Listed`, `Detachable`), and the node that is freed from is full or on `UsedSlabs`.
Second, `GetFreeSlabSlots` is a recursion along two lists. There is a function
that satisfies the recursive equation (`SumsExist`), namely the free slots in the
nodes from a place of the list on, so the function the definition chooses
satisfies it too, and it is unique along a list (`SumBehind`): by the least distance
from the end at which two could differ. Third, `NodesNeeded` divides: the turns
`CheckSpace` takes are exactly those of the quotient, as each adds a node and
leaves two of its slots taken, and so ends with the slots it wants and not a page
beyond what `MemorySuffices` asks for.

The same manner of argument (a solution of the recursive equation, and a least
counterexample) goes through the loops of `InitializeRootSpace`, of `SplitUntyped`
and of `RetypeUntyped`. `FramesRefinement` maps `free` to the pages of `UntypedArea`:
u grows by one in a turn of `CheckSpace` and by the length of the request in a
grant, and is left alone by every other step.

`Reservation` is about what can be done with the slots `Deinit` has counted.
Generating a capability takes the first free slot of the head of a list, the tree
may have it copied into a slot that is taken, and the counters and lists are
again those of `SpaceOK` with one slot less free (`DrewStep`); so a run of as many
as there are to be finds a slot at each turn that none before has got (`RunDraws`).

### The page tables

Assumptions: `EntriesAssumption` (a table has at least two entries),
`VMMAssumption` (the kernel's space is a space, ranges and targets are virtual
pages, every set of flags asks for READ, those of allocated pages for USER and
those of mapped ranges not, NULL is no number) and `PortsAssumption` (the targets
again, no flag that the two ports encode differently, NULL is neither a number
nor a frame).

`PageTableProofs` is about the operators. `Forest(m, R, lv)`, with a function
that gives each table its level, says that what a present entry above level 1
leads to is a table of the next level, that no other entry leads there, and that
every table but the roots is led to. The digits of a page determine it
(`DigitsDecide`) and in a forest so does the table a walk arrives at
(`WalkIsUnique`): each page has an entry of its own, and to write it changes no
other page (`LeafWritten`). Adding a level under an entry that leads nowhere,
from a frame nobody uses, keeps the forest and every walk (`LevelMapped`).

`VMMInv` adds where frames come from: the counter is above every table and every
frame handed out, and the call in progress (`WorkInv`) has a page whose entry is
empty and frames enough for what it may still need (`Need`: at most three tables
and one page for each page left). A turn of `MMap` is then either one level or
one mapping, never the panic nor the turn without progress; `MapsImplemented`
follows as each step changes the entry of at most one page, as the call in
progress says (`PageMapped`, `Granted`), and `AccessIsAsAsked` since the entries
above a page carry WRITE and USER always. The kernel maps the very frames that
hold tables and pages of the container; what `VMMInv` keeps apart are the tables
and the pages mapped for the user, whose frames are each page's own. That is what
`NoTableIsSharedOrLost` says of the frames a container reaches.

In `TablePortsProofs` the AArch64 tables are those of x86-64 with the page whose
digits are reversed in the place of each page. Reversal of four digits is a
bijection of the pages, so every call changes what both say of the same page and
of no other. `PortsInv` says that each port's tables are one tree and that the
ports differ at most at the page being mapped. That neither has more than three
tables for each page is an injection from the tables but the root to pairs of a
page and one of three levels.

### The machine

Assumptions: `LoaderAssumption` (the stack is a number of whole pages) and
`MachineAssumption` (the images are ELF headers with headers of segments, of any
number and any contents).

`GuestInv` says where the state of the container is between its exit and its
next entry: the control block has RIP, RAX and the reason; the other registers
are in the processor, then on the stack in the fourteen places pushall has put
them, then in the processor again; and after the handler they are what the exit
of that kind should make of them (`Resumes`). Every step of the kernel is then a
stutter of `VirtualProcessor` except the re-entry, which is the instruction.

`NothingIsAtNull` follows from an account of the manager (`FramesInv`): the
tables and the frames of the container are distinct members of 1 .. frames, and
the manager is active wherever it is asked for one.

`ImageIsLoaded` needs what the loop over the program headers has done so far. By
`ImageInv` a header it has been at has its pages with its bytes and its flags,
ends below the highest address and, in an image whose segments ascend, begins
above the lowest; every page mapped is below the highest address, so that the
stack gets pages of its own. By `TablesInv` every page is below tables that are
there and let writing through, and where text comes first the tables above text
do not deny fetching it, because what could deny it creates its tables later.
That no byte is left out is arithmetic on
rounding (`RangeOfPages`, `ByteIsHeld`), which is where the proof needed `Linked`:
the loader rounds the start of a segment down and its length up, and for a
segment that begins inside a page the sum may end a page early. `ImageLoaded` is
false of such an image, of a segment without memory and of segments in
descending order. That text can be fetched needs `TextFirst` besides: the first page
below a table settles the flags of the entry above it, and `TextIsExecutable`,
without that condition, is false.

### The interrupts

Assumptions: `VectorsAssumption` (no vector 21 or 29, whose stubs push an error
code too many), `ContextsAssumption` (a scheduler context has all registers and
returns to the kernel's code) and `AddressesAssumption` (stack tops are
addresses).

Each instruction of a stub has a phase, 1 to 34, that fixes how far below its
start the stack is, which cells hold what, and which registers hold again what
the interrupted code had in them. `StackInv` says this of every interruption
pending, each nested below the cells the one before still uses; an instruction
moves the topmost one by a phase and writes below all others.

### What is only model-checked

- `Syscall`: what a careful container may do to the space is more than what the
  manager does (it frees slots of its own and splits with offsets), so that the
  invariant of `PMM` is not one of `Syscall`; only its state after the boot is.
- `TypeOK` of `PMM` is checked as a conjunct of `SlotsNeverRunOut`; `CallsReturn`, of
  which `CallOK` is the variant, is liveness.
- `AATreeSpec` and `Library`: their modules hold recursive operators, for which the
  prover has no backend.
- `ACPI` has a liveness property only. Liveness (`CallsReturn`,
  `ContainerStarts`, `ExitsReturn`, `TablesAreRead`) is out of the prover's reach.

## 6. What is not modelled

- `Delete`, `Predecessor`, `Successor` and `DecreaseLevel` of the address tree
  (`slab.cpp:150-234`): nothing calls `Delete`, and it reads through NULL children.
- `UntypeObject` and `MergeUntyped`: stubs that return NULL. The calls about
  containers, and three more, are empty cases of the dispatcher.
- `apic.cpp`, `ioapic.cpp`, and `OutQ` and `InQ` of `io.cpp`: called by nothing. The
  serial port, port instructions and the MSRs of the SYSCALL entry: no state
  that anything else reads.
- `vmx.cpp` and `vm.cpp`: stubs, and a dispatch on the vendor. Nested paging is
  left off by the control block; the models have no TLB.
- `random.cpp` and the vendored cryptography: a secret and an identifier nothing
  reads. `memory.cpp`: compiled out, or forwards to `string.cpp`.
- `cpu.cpp` of the AArch64 port: TODO stubs; `generic/vmm.cpp` does not select it.
- `elf.h`, `limine.h`, the headers of structures, build files, link scripts and
  images: no behaviour of their own.

## 7. Plan

Done: lists and slab, because every other structure is stored in them;
capability space and physical memory manager; address tree; page tables of both
ports and virtual memory manager; system calls; boot, loader and the exits of
the virtual machine; interrupts; library; ACPI. The proofs of section 5, from
the lists upwards.

Left are proofs about `Syscall`, in this order:

1. `UserMapsOnlyGrow`, with the forest of `PageTableProofs`: a call of the
   container maps a page that was not mapped, or none.
2. `KernelUndamaged`, with the lemmas of `PMMProofs` on slots and capabilities,
   which do not depend on who calls, and an invariant in which the container's
   pieces take the place of the one area.
