--------------------------------- MODULE PMM ---------------------------------
(***************************************************************************)
(* The physical memory manager of src/generic/pmm.cpp while the kernel     *)
(* boots: it cuts pages off one untyped region of the root capability      *)
(* space, retypes them, and feeds the space nodes from the same region     *)
(* when slots run low.                                                     *)
(*                                                                         *)
(* A request is a call of one of its functions.  The kernel runs on one    *)
(* thread, so calls do not overlap; a call is split into steps because     *)
(* CheckSpace is a loop whose termination is in question.                  *)
(***************************************************************************)
EXTENDS CapabilitySpace

CONSTANTS FramesBase,       \* address of the longest usable region
          MemoryMap,        \* sequence of [Address, Length, Flags]
          MaxLength,        \* bound on the argument of RequestPages
          UserReserve       \* 500: the slots Deinit reserves

ASSUME MemoryAssumption ==
    /\ FramesBase \in Nat
    /\ MaxLength \in Nat \ {0}
    /\ UserReserve \in Nat
    /\ \A k \in DOMAIN MemoryMap :
         MemoryMap[k] \in [Address : Nat, Length : Nat, Flags : STRING]

VARIABLES space,            \* info->RootCSpace
          PhysicalMemoryManager,
          call,             \* the call in progress, or Idle
          granted           \* the pages returned to callers, in order

vars == <<space, PhysicalMemoryManager, call, granted>>

Idle == [op |-> "Idle", length |-> 0]

Calls == {[op |-> "RequestPage", length |-> 1],
          [op |-> "RequestVirtualPage", length |-> 1],
          [op |-> "Deinit", length |-> 0]}
         \cup {[op |-> "RequestPages", length |-> n] : n \in 1 .. MaxLength}

(* The region PMM::Init is given: the one that starts behind the pages     *)
(* InitializeRootSpace took.                                               *)
AreaBase == FramesBase + 2 * PAGE_SIZE

Area == CHOOSE r \in {MemoryMap[k] : k \in DOMAIN MemoryMap} :
            r.Flags = "USABLE" /\ r.Address = FramesBase

PagesOf(address, size) == {p \in address .. address + size - 1 :
                               (p - address) % PAGE_SIZE = 0}

Pages == PagesOf(FramesBase, Area.Length)

ASSUME NullAssumption == NULL \notin Pages \cup (Pages \X SlotIndex)

(* The entries that InitializeRootSpace generates a capability for.        *)
KeptEntries ==
    {k \in DOMAIN MemoryMap :
        MemoryMap[k].Flags \in {"USABLE", "RESERVED", "ACPI_RECLAIMABLE", "FRAMEBUFFER"}}

Apart(r, s) == r.Address + r.Length <= s.Address \/ s.Address + s.Length <= r.Address

(* What the boot protocol promises of a memory map: usable entries overlap *)
(* with no others and are whole pages.  The region has a page beyond the   *)
(* two InitializeRootSpace takes, and the first node has room for the      *)
(* capabilities it generates and two more.                                 *)
ASSUME MapAssumption ==
    /\ MemoryMap \in Seq([Address : Nat, Length : Nat \ {0}, Flags : STRING])
    /\ \E k \in DOMAIN MemoryMap :
         MemoryMap[k].Flags = "USABLE" /\ MemoryMap[k].Address = FramesBase
    /\ \A j, k \in DOMAIN MemoryMap :
         j # k /\ MemoryMap[j].Flags = "USABLE" => Apart(MemoryMap[j], MemoryMap[k])
    /\ Area.Length % PAGE_SIZE = 0 /\ Area.Length > 2 * PAGE_SIZE
    /\ FramesBase + Area.Length <= USIZE
    /\ Cardinality(KeptEntries) + 5 <= CAPABILITIES_PER_NODE

-----------------------------------------------------------------------------

(* Mutation: the slots of the split and the retype are not counted.        *)
SlotsWantedAtLeast(c) ==
    CASE c.op = "RequestPages" -> c.length + 2
      [] c.op = "Deinit" -> UserReserve
      [] OTHER -> 1

(* The slots a call wants CheckSpace to find, and the type it hands out.   *)
SlotsWanted(c) ==
    CASE c.op = "RequestPages" -> c.length + 5
      [] c.op = "Deinit" -> UserReserve
      [] OTHER -> 5

GrantedType(c) ==
    IF c.op = "RequestVirtualPage" THEN "VIRTUAL_MEMORY_PAGING_STRUCTURE"
    ELSE "FRAME_MEMORY"

(* SplitUntyped on UntypedArea, then RetypeUntyped on the piece cut off:   *)
(* the space, the new UntypedArea and the capability of the first page.    *)
(* Without a piece the code goes on with an uninitialised pointer.         *)
TakePages(length, kind) ==
    LET Page(area, retype) ==
            [space |-> [retype.space EXCEPT !.Fault = @ \/ retype.cap = NULL],
             area |-> area, cap |-> retype.cap]
        Retype(split) ==
            IF split.first = NULL
            THEN [space |-> [split.space EXCEPT !.Fault = TRUE], area |-> NULL, cap |-> NULL]
            ELSE Page(split.cap, RetypeUntyped(split.space, split.first, kind))
    IN  Retype(SplitUntyped(space, PhysicalMemoryManager.UntypedArea,
                            PAGE_SIZE * length, 0, 1))

(* LimineEntry: InitializeRootSpace, AddressCapability of the address it   *)
(* returns, PMM::Init.                                                     *)
Init ==
    /\ space = RootSpace(Pages, FramesBase, MemoryMap)
    /\ PhysicalMemoryManager =
         [UntypedArea |-> AddressCapability(space, AreaBase), IsActive |-> TRUE]
    /\ call = Idle
    /\ granted = <<>>

UntypedArea == Cap(space, PhysicalMemoryManager.UntypedArea)

(* The turns CheckSpace takes to find so many slots: each turn adds a node *)
(* and leaves two of its slots taken.                                      *)
NodesNeeded(slots) ==
    IF GetFreeSlots(space) >= slots THEN 0
    ELSE (slots - GetFreeSlots(space) + CAPABILITIES_PER_NODE - 3)
            \div (CAPABILITIES_PER_NODE - 2)

(* The region is large enough for a call and is not used up by it.         *)
MemorySuffices(c) ==
    UntypedArea.Size > PAGE_SIZE * (NodesNeeded(SlotsWanted(c)) + c.length)

(* An inactive manager returns NULL at once; Deinit does not look.         *)
Call(c) ==
    /\ call = Idle
    /\ c.op = "Deinit" \/ PhysicalMemoryManager.IsActive
    /\ call' = c
    /\ UNCHANGED <<space, PhysicalMemoryManager, granted>>

(* One turn of the loop of CheckSpace that finds too few slots.            *)
AddNode ==
    /\ call # Idle
    /\ GetFreeSlots(space) < SlotsWanted(call)
    /\ LET taken == TakePages(1, "CAPABILITY_NODE")
       IN  /\ space' = AddCapabilityNode(taken.space, taken.cap)
           /\ PhysicalMemoryManager' = [PhysicalMemoryManager EXCEPT !.UntypedArea = taken.area]
    /\ UNCHANGED <<call, granted>>

(* CheckSpace is done: the rest of a request function.                     *)
Grant ==
    /\ call.op \in {"RequestPage", "RequestVirtualPage", "RequestPages"}
    /\ GetFreeSlots(space) >= SlotsWanted(call)
    /\ LET kind == GrantedType(call)
           taken == TakePages(call.length, kind)
       IN  /\ space' = taken.space
           /\ PhysicalMemoryManager' = [PhysicalMemoryManager EXCEPT !.UntypedArea = taken.area]
           /\ granted' = IF taken.cap = NULL THEN granted
                         ELSE Append(granted,
                                [Object |-> Cap(taken.space, taken.cap).Object,
                                 length |-> call.length, Type |-> kind])
    /\ call' = Idle

FinishDeinit ==
    /\ call.op = "Deinit"
    /\ GetFreeSlots(space) >= SlotsWanted(call)
    /\ PhysicalMemoryManager' = [PhysicalMemoryManager EXCEPT !.IsActive = FALSE]
    /\ call' = Idle
    /\ UNCHANGED <<space, granted>>

Return == AddNode \/ Grant \/ FinishDeinit

Next ==
    /\ ~space.Fault
    /\ \/ \E c \in Calls : MemorySuffices(c) /\ Call(c)
       \/ Return

(* The processor keeps executing a call that has begun: WF_vars(Return),   *)
(* written out: Return is enabled while a call is in progress, and a fault *)
(* is where the model stops.                                               *)
Fairness == []<>(call = Idle \/ space.Fault) \/ []<><<Return>>_vars

Spec == Init /\ [][Next]_vars /\ Fairness

-----------------------------------------------------------------------------

SlotsOf(c) == (DOMAIN c.slab.Slots) \X SlotIndex

GrantedPages ==
    UNION {PagesOf(granted[k].Object, PAGE_SIZE * granted[k].length) : k \in DOMAIN granted}

NodePages ==
    {p \in DOMAIN space.CapabilityTree :
        Cap(space, space.CapabilityTree[p]).Type = "CAPABILITY_NODE"}

AreaPages == PagesOf(UntypedArea.Object, UntypedArea.Size)

(* UntypedArea is a slot or NULL, pages are granted inside the region, and *)
(* no capability has a negative size: 64-bit subtractions do not wrap.     *)
TypeOK ==
    /\ PhysicalMemoryManager \in [UntypedArea : SlotsOf(space) \cup {NULL}, IsActive : BOOLEAN]
    /\ call \in Calls \cup {Idle}
    /\ granted \in Seq([Object : Pages, length : Nat, Type : ObjectTypes])
    /\ \A slot \in SlotsOf(space) : Cap(space, slot) \in
         [IsMasked : BOOLEAN, Type : SlotTypes, Object : Nat, Size : Nat,
          AccessRights : SUBSET CAPABILITY_RIGHTS,
          AccessRightsMask : SUBSET CAPABILITY_RIGHTS]

(* No function of the manager ever finds the slab without a slot, although *)
(* CheckSpace itself spends slots before it adds any: no capability is     *)
(* generated into NULL, no uninitialised array is read, no loop spins, and *)
(* between calls the two slots are left that a turn needs before it can    *)
(* add a node.                                                             *)
SlotsNeverRunOut ==
    /\ TypeOK
    /\ ~space.Fault /\ ~space.slab.Spins /\ ~space.slab.links.Fault
    /\ call = Idle => GetFreeSlots(space) >= 2

(* No page of the region is lost or has two owners: each one is the root   *)
(* container's, a node of the slab, a caller's, or still in UntypedArea.   *)
MemoryConserved ==
    /\ Pages = {FramesBase} \cup NodePages \cup GrantedPages \cup AreaPages
    /\ FramesBase \notin NodePages \cup GrantedPages \cup AreaPages
    /\ NodePages \cap GrantedPages = {}
    /\ AreaPages \cap (NodePages \cup GrantedPages) = {}
    /\ \A j, k \in DOMAIN granted : j # k =>
         PagesOf(granted[j].Object, PAGE_SIZE * granted[j].length)
           \cap PagesOf(granted[k].Object, PAGE_SIZE * granted[k].length) = {}

(* The tree is keyed by what its slots hold now, and none of them is free: *)
(* freeing a slot does not unlink it.                                      *)
TreeIsCoherent ==
    \A key \in DOMAIN space.CapabilityTree :
        LET cap == Cap(space, space.CapabilityTree[key])
        IN  cap.Object = key /\ cap.Type \in ObjectTypes

(* The address tree leads from every page handed out to a capability of    *)
(* its type and size, although the slot linked there first held the        *)
(* untyped region, then the piece cut off, and received copies of both;    *)
(* and no slot it links, here or elsewhere, is free or holds another       *)
(* address than the one it is linked under.                                *)
GrantedAreAddressable ==
    TreeIsCoherent /\
    \A k \in DOMAIN granted :
        \A p \in PagesOf(granted[k].Object, PAGE_SIZE * granted[k].length) :
            LET slot == AddressCapability(space, p)
            IN  /\ slot # NULL
                /\ ~Cap(space, slot).IsMasked
                /\ Cap(space, slot).Type = granted[k].Type
                /\ Cap(space, slot).Object = p
                /\ Cap(space, slot).Size = PAGE_SIZE

(* Between calls no two slots that GetUntyped would report describe the    *)
(* same memory, and none describes memory that has been retyped.           *)
UntypedIsExclusive ==
    call = Idle =>
        LET untyped == {slot \in SlotsOf(space) :
                          Cap(space, slot).Type = "UNTYPED_FRAMES" /\ ~Cap(space, slot).IsMasked}
            Extent(slot) == Cap(space, slot).Object ..
                             Cap(space, slot).Object + Cap(space, slot).Size - 1
        IN  \A a \in untyped :
              /\ Extent(a) \cap (GrantedPages \cup NodePages) = {}
              /\ \A b \in untyped \ {a} : Extent(a) \cap Extent(b) = {}

(* The slab as module SlabSpec sees it.                                    *)
Rules == INSTANCE SlabSpec
           WITH RootNode <- FramesBase + PAGE_SIZE, slab <- space.slab, nodes <- NodePages

(* Allocation and GetFreeSlots walk FreeSlabs and UsedSlabs: these two     *)
(* stay intact and their counters exact, whichever nodes the calls empty   *)
(* and fill, and what GetFreeSlots sums up is the number of free slots.    *)
SlotListsIntact ==
    /\ Rules!Intact("FreeSlabs") /\ Rules!Intact("UsedSlabs") /\ Rules!Accounting
    /\ Rules!FreeSlotsAreCounted

(* FullSlabs, which GetUntyped walks, is a linked list of the full nodes.  *)
FullSlabsIntact == Rules!Intact("FullSlabs")

(* "Reserve space for userspace": whatever the boot did to the slab, an    *)
(* inactive manager leaves it such that UserReserve capabilities can be    *)
(* generated at once, wherever they begin, without a new node.  Each gets  *)
(* a slot of its own that was free; what Deinit has gone by is a sum of    *)
(* counters along two lists.                                               *)
ReservedForUser ==
    ~PhysicalMemoryManager.IsActive =>
        \A object \in Pages :
            LET run == GenerateRun(space, "UNTYPED_FRAMES", object, PAGE_SIZE, UserReserve,
                                   CAPABILITY_RIGHTS, CAPABILITY_RIGHTS)
            IN  /\ Len(run.array) = UserReserve
                /\ \A j \in 1 .. UserReserve :
                     /\ Cap(space, run.array[j]).Type = "NULL_CAPABILITY"
                     /\ \A k \in 1 .. UserReserve : j # k => run.array[j] # run.array[k]
                /\ ~run.space.slab.Spins /\ ~run.space.slab.links.Fault

Frames == INSTANCE FrameAllocator WITH free <- AreaPages

(* What the functions of pmm.cpp promise: every request returns pages that *)
(* nobody else holds, consecutive ones if there are several.               *)
ImplementsFrames == Frames!Spec

(* Every call returns: CheckSpace gains on its target with every turn.     *)
CallsReturn == (call # Idle) ~> (call = Idle)

=============================================================================
