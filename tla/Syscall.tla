------------------------------- MODULE Syscall -------------------------------
(***************************************************************************)
(* The system calls of src/generic/syscall.cpp, made by the root container *)
(* once the boot of module PMM has handed the capability space over.       *)
(*                                                                         *)
(* SyscallMain serves one call at a time and keeps nothing of its own: a   *)
(* call is one action.  It loads the virtual space of the container on     *)
(* entry and that of the kernel on return, which cancel out unless the     *)
(* handler faults; space.Fault records that it read or wrote through NULL  *)
(* or an uninitialised pointer, or divided by zero.                        *)
(*                                                                         *)
(* The interface cannot refuse a request: a capability that is not found   *)
(* or a split that fails is a NULL the handler reads through.  What the    *)
(* container takes care of is therefore a parameter, Care.                 *)
(***************************************************************************)
EXTENDS PMM

CONSTANTS Care,             \* the precautions the container takes
          Addresses,        \* addresses of user calls beside those in the tree
          DeviceAddresses,  \* of them, those no memory is at
          RetypeKinds,      \* the types capabilities are retyped to
          SplitSizes, SplitOffsets, Counts,
          Indices,          \* the indices GetUntyped is called with
          Targets,          \* virtual pages that are mapped
          UserFlags,        \* sets of page protections
          ENTRIES,          \* 512: entries of a page table
          Root,             \* the top level table of the container
          MaxBoot           \* bound on the requests of the boot

Precautions == {"MemoryOnly", "ReusesSlot", "WholeObjects", "LeavesRest",
                "FitsWord", "OnceOnly", "UntypedOnly"}

ASSUME SyscallAssumption ==
    /\ Care \subseteq Precautions
    /\ DeviceAddresses \subseteq Addresses /\ Addresses \subseteq Nat
    /\ RetypeKinds \subseteq ObjectTypes
    /\ SplitSizes \subseteq Nat \ {0} /\ SplitOffsets \subseteq Nat
    /\ Counts \subseteq Nat \ {0} /\ Indices \subseteq Nat
    /\ MaxBoot \in Nat

Tables == INSTANCE PageTable

VARIABLES tables,           \* the page tables of the container
          reply,            \* the last call and the capabilities it copied out
          retyped,          \* the memory the container has retyped: its units
          nodes             \* the pages it has added to the slab

userVars == <<tables, reply, retyped, nodes>>
allVars == <<vars, userVars>>

(* The capability that stands in for one that GetUntyped does not find.    *)
NoCapability == [IsMasked |-> TRUE, Type |-> "NULL_CAPABILITY", Object |-> USIZE - 1,
                 Size |-> 0, AccessRights |-> {}, AccessRightsMask |-> {}]

Silent == [call |-> "None", array |-> <<>>]

-----------------------------------------------------------------------------

(* SearchClose: the slot linked under the address; for an address that is  *)
(* not in the tree NULL or a neighbour, depending on the tree's shape,     *)
(* which is not modelled here (AATreeSpec checks that it is one of these). *)
AddressFirstCapability(c, ptr) ==
    LET keys == DOMAIN c.CapabilityTree
        Nearest(side) == {k \in side : \A j \in side :
                            (k - ptr) * (k - ptr) <= (j - ptr) * (j - ptr)}
    IN  IF ptr \in keys
        THEN {c.CapabilityTree[ptr]}
        ELSE {NULL} \cup {c.CapabilityTree[k] :
                             k \in Nearest({j \in keys : j < ptr})
                                   \cup Nearest({j \in keys : j > ptr})}

(* The slots of a node that hold usable untyped memory, in their order.    *)
UntypedIn(c, node) ==
    SelectSeq([i \in 1 .. CAPABILITIES_PER_NODE |-> <<node, i - 1>>],
              LAMBDA slot : /\ ~Cap(c, slot).IsMasked
                            /\ Cap(c, slot).Type = "UNTYPED_FRAMES")

UntypedOn(c, list) ==
    LET from[n \in DOMAIN c.slab.Slots \cup {NULL}] ==
            IF n = NULL THEN <<>> ELSE UntypedIn(c, n) \o from[c.slab.links.Next[n]]
    IN  from[c.slab.links.Head[list]]

(* GetUntyped: nothing is found while no node is in use.                   *)
UntypedSlots(c) ==
    IF c.slab.links.Head["UsedSlabs"] = NULL THEN <<>>
    ELSE UntypedOn(c, "UsedSlabs") \o UntypedOn(c, "FullSlabs")

GetUntyped(c, idx) ==
    IF idx < Len(UntypedSlots(c)) THEN UntypedSlots(c)[idx + 1] ELSE NULL

Units(object, size) == object .. object + size - 1

ConvertUserFlags(flags) ==
    {"USER"} \cup (flags \cap {"READ", "WRITE", "NOCACHE"})
             \cup (IF "EXECUTE" \in flags THEN {} ELSE {"NOEXEC"})

-----------------------------------------------------------------------------
(* What a careful container looks at before it calls.                      *)

Takes(precaution, condition) == precaution \in Care => condition

(* It asks for capabilities by the addresses they are at, and there are    *)
(* slots for the capabilities it makes.                                    *)
Known(ptr) == Takes("MemoryOnly", ptr \in DOMAIN space.CapabilityTree)

SlotsSuffice(n) == Takes("MemoryOnly", GetFreeSlots(space) >= n)

Usable(cap) == ~cap.IsMasked /\ "RETYPE" \in MaskedRights(cap)

(* The next slot to be allocated is the one the retype frees.              *)
SlotIsReused(slot) == AllocateSlabSlot(FreeSlabSlot(space.slab, slot)).slot = slot

CarefulRetype(slot, kind, count) ==
    LET cap == Cap(space, slot)
        size == GetObjectSize(kind)
    IN  /\ Takes("MemoryOnly", Usable(cap))
        /\ Takes("MemoryOnly", size > 0 => cap.Size \div size >= count)
        /\ Takes("UntypedOnly", cap.Type = "UNTYPED_FRAMES")
        /\ Takes("WholeObjects", size > 0 => cap.Size > 0 /\ cap.Size % size = 0)
        /\ Takes("ReusesSlot", SlotIsReused(slot))
        /\ SlotsSuffice(IF size > 0 THEN cap.Size \div size ELSE 0)

CarefulSplit(slot, size, offset, count) ==
    LET cap == Cap(space, slot)
    IN  /\ Takes("MemoryOnly", Usable(cap))
        /\ Takes("MemoryOnly", cap.Size >= ((size * count) % USIZE) + offset)
        /\ Takes("UntypedOnly", cap.Type = "UNTYPED_FRAMES")
        /\ Takes("FitsWord", size * count + offset < USIZE)
        /\ Takes("LeavesRest", IF offset = 0 THEN cap.Size > size
                               ELSE cap.Size > size * count + offset)
        /\ SlotsSuffice(count + 2)

-----------------------------------------------------------------------------

(* The copies of the capabilities in the array.  An entry that has not     *)
(* been written is an uninitialised pointer, or the NULL put there for it. *)
CopyOut(name, c, array, count) ==
    IF Len(array) < count
    THEN space' = [c EXCEPT !.Fault = TRUE] /\ reply' = Silent
    ELSE /\ space' = c
         /\ reply' = [call |-> name, array |-> [k \in 1 .. count |-> Cap(c, array[k])]]

OneSlot(slot) == IF slot = NULL THEN <<>> ELSE <<slot>>

AddressCapabilityCall(ptr) ==
    /\ Known(ptr)
    /\ \E cap \in AddressFirstCapability(space, ptr) :
         CopyOut("Address", space, OneSlot(cap), 1)
    /\ UNCHANGED <<tables, retyped, nodes>>

CreateFromMemCall(ptr) ==
    /\ Takes("MemoryOnly", ptr \in DeviceAddresses \ DOMAIN space.CapabilityTree)
    /\ SlotsSuffice(1)
    /\ LET g == GenerateCapability(space, "MMIO_MEMORY", ptr,
                                   GetObjectSize("MMIO_MEMORY"), {"ACCESS", "READ", "WRITE"})
       IN  CopyOut("CreateFromMem", g.space, OneSlot(g.cap), 1)
    /\ UNCHANGED <<tables, retyped, nodes>>

GetUntypedCall(idx) ==
    /\ reply' = LET cap == GetUntyped(space, idx)
                IN  [call |-> "GetUntyped",
                     array |-> <<IF cap = NULL THEN NoCapability ELSE Cap(space, cap)>>]
    /\ UNCHANGED <<space, tables, retyped, nodes>>

Faulted(c) == NothingSplit([c EXCEPT !.Fault = TRUE])

(* Mutation: the loop copies one entry more.                               *)
RetypeCopyingMore(ptr, kind, count) ==
    /\ Known(ptr)
    /\ \E cap \in AddressFirstCapability(space, ptr) \ {NULL} :
         /\ CarefulRetype(cap, kind, count)
         /\ LET r == RetypeUntyped(space, cap, kind)
            IN  CopyOut("Retype", r.space, r.array, count + 1)
         /\ retyped' = retyped \cup Units(Cap(space, cap).Object, Cap(space, cap).Size)
    /\ UNCHANGED <<tables, nodes>>

RetypeCall(ptr, kind, count) ==
    /\ Known(ptr)
    /\ \E cap \in AddressFirstCapability(space, ptr) :
         /\ cap # NULL => CarefulRetype(cap, kind, count)
         /\ LET r == IF cap = NULL THEN Faulted(space) ELSE RetypeUntyped(space, cap, kind)
            IN  /\ CopyOut("Retype", r.space, r.array, count)
                /\ retyped' = IF r.cap = NULL THEN retyped
                              ELSE retyped \cup Units(Cap(space, cap).Object,
                                                      Cap(space, cap).Size)
    /\ UNCHANGED <<tables, nodes>>

SplitCall(ptr, size, offset, count) ==
    /\ Known(ptr)
    /\ \E cap \in AddressFirstCapability(space, ptr) :
         /\ cap # NULL => CarefulSplit(cap, size, offset, count)
         /\ LET r == IF cap = NULL THEN Faulted(space)
                     ELSE SplitUntyped(space, cap, size, offset, count)
            IN  CopyOut("Split", r.space, r.array, count)
    /\ UNCHANGED <<tables, retyped, nodes>>

(* The nodes of the slab: those of the boot, those the container added.    *)
AllNodes == (NodePages \ retyped) \cup nodes

(* A capability of another type, or none, changes nothing; a node that is  *)
(* in the slab joins it once more.  Bound: the pages of the region.        *)
AddFreeCall(ptr) ==
    /\ Known(ptr)
    /\ \E cap \in AddressFirstCapability(space, ptr) :
         LET page == Cap(space, cap).Object
             node == cap # NULL /\ Cap(space, cap).Type = "CAPABILITY_NODE"
         IN  /\ node => page \in Pages /\ Takes("OnceOnly", page \notin AllNodes)
             /\ space' = AddCapabilityNode(space, cap)
             /\ nodes' = IF node THEN nodes \cup {page} ELSE nodes
    /\ reply' = Silent
    /\ UNCHANGED <<tables, retyped>>

(* Mutation: the upper bound of the check on the type is higher.           *)
MapMoreTypes(ptr, kind, virt, flags) ==
    /\ Known(ptr)
    /\ kind \in {"FRAME_MEMORY", "MMIO_MEMORY", "CACHE_MEMORY",
                "VIRTUAL_MEMORY_PAGING_STRUCTURE"}
    /\ \E cap \in AddressFirstCapability(space, ptr) \ {NULL} :
         /\ Takes("MemoryOnly", Cap(space, cap).Type = kind)
         /\ tables' = Tables!MapPage(tables, Root, Cap(space, cap).Object, virt,
                                     ConvertUserFlags(flags)).mem
    /\ reply' = Silent
    /\ UNCHANGED <<space, retyped, nodes>>

(* The type is an argument of the call: that of the capability is not      *)
(* looked at.  The result of MapPage is not read.                          *)
MapCall(ptr, kind, virt, flags) ==
    /\ Known(ptr)
    /\ kind \in {"FRAME_MEMORY", "MMIO_MEMORY"}
    /\ \E cap \in AddressFirstCapability(space, ptr) \ {NULL} :
         /\ Takes("MemoryOnly", Cap(space, cap).Type = kind)
         /\ tables' = Tables!MapPage(tables, Root, Cap(space, cap).Object, virt,
                                     ConvertUserFlags(flags)).mem
    /\ reply' = Silent
    /\ UNCHANGED <<space, retyped, nodes>>

MapIntermediateCall(ptr, level, virt, flags) ==
    /\ Known(ptr)
    /\ \E cap \in AddressFirstCapability(space, ptr) \ {NULL} :
         /\ Takes("MemoryOnly", /\ Cap(space, cap).Type = "VIRTUAL_MEMORY_PAGING_STRUCTURE"
                                /\ Cap(space, cap).Object \notin DOMAIN tables)
         /\ tables' = Tables!MapIntermediateLevel(tables, Root, level, Cap(space, cap).Object,
                                                  virt, ConvertUserFlags(flags)).mem
    /\ reply' = Silent
    /\ UNCHANGED <<space, retyped, nodes>>

(* DEBUG prints; UNTYPE, MERGE, GET_FREE and the calls about containers    *)
(* are empty cases, and so is a number that is none; a map call with the   *)
(* type of something else or of nothing ends early.                        *)
OtherCall == reply' = Silent /\ UNCHANGED <<space, tables, retyped, nodes>>

SyscallMain ==
    \/ \E ptr \in Addresses \cup DOMAIN space.CapabilityTree :
         \/ AddressCapabilityCall(ptr)
         \/ \E kind \in RetypeKinds, count \in Counts : RetypeCall(ptr, kind, count)
         \/ \E size \in SplitSizes, offset \in SplitOffsets, count \in Counts :
              SplitCall(ptr, size, offset, count)
         \/ AddFreeCall(ptr)
         \/ \E virt \in Targets, flags \in UserFlags :
              \/ \E kind \in ObjectTypes : MapCall(ptr, kind, virt, flags)
              \/ \E level \in 1 .. 3 : MapIntermediateCall(ptr, level, virt, flags)
    \/ \E ptr \in Addresses : CreateFromMemCall(ptr)
    \/ \E idx \in Indices : GetUntypedCall(idx)
    \/ OtherCall

(* LoadContainer: requests, then Deinit, the last thing before the guest   *)
(* runs.                                                                   *)
Boot ==
    /\ PhysicalMemoryManager.IsActive
    /\ \/ \E c \in Calls : /\ c.op = "Deinit" \/ Len(granted) < MaxBoot
                           /\ MemorySuffices(c)
                           /\ Call(c)
       \/ Return
    /\ UNCHANGED userVars

UserInit ==
    /\ Init
    /\ tables = Tables!NewVirtualSpace(<<>>, Root)
    /\ reply = Silent
    /\ retyped = {}
    /\ nodes = {}

UserNext ==
    /\ ~space.Fault /\ ~space.slab.Spins
    /\ \/ Boot
       \/ /\ ~PhysicalMemoryManager.IsActive
          /\ SyscallMain
          /\ UNCHANGED <<PhysicalMemoryManager, call, granted>>

UserSpec == UserInit /\ [][UserNext]_allVars

-----------------------------------------------------------------------------

AfterBoot == ~PhysicalMemoryManager.IsActive

(* Slots of usable untyped memory, and those that an address leads to.     *)
UsableSlots == {slot \in SlotsOf(space) : /\ Cap(space, slot).Type \in {"UNTYPED_FRAMES", "UNTYPED_DMA"}
                                          /\ ~Cap(space, slot).IsMasked}

Extent(slot) == Units(Cap(space, slot).Object, Cap(space, slot).Size)

LinkedSlots == {space.CapabilityTree[k] : k \in DOMAIN space.CapabilityTree}

(* Replies are capabilities, and the memory retyped is in the memory map.  *)
UserTypeOK ==
    /\ \A k \in DOMAIN reply.array : reply.array[k].Type \in SlotTypes
    /\ \A u \in retyped : \E k \in DOMAIN MemoryMap :
         u \in Units(MemoryMap[k].Address, MemoryMap[k].Length)
    /\ Root \in DOMAIN tables

Nodes == INSTANCE SlabSpec
           WITH Pages <- Pages, RootNode <- FramesBase + PAGE_SIZE,
                slab <- space.slab, nodes <- AllNodes

(* The counters of the nodes, with those the container has added, stay     *)
(* those of their free slots, and the two lists that are allocated from    *)
(* hold the nodes they should, whatever is retyped.                        *)
SlabIntact ==
    Nodes!Accounting /\ Nodes!Intact("FreeSlabs") /\ Nodes!Intact("UsedSlabs")

(* The kernel survives the calls of a careful container: no result is      *)
(* copied out of an array that was not filled, no capability is generated  *)
(* into NULL, no allocation runs into a node without a free slot, and the  *)
(* slab is as it should be.                                                *)
KernelUndamaged ==
    /\ UserTypeOK /\ SlabIntact
    /\ ~space.Fault /\ ~space.slab.Spins /\ ~space.slab.links.Fault

(* The memory an address leads to as untyped is described by no other      *)
(* address, and none of it has been retyped.                               *)
AddressableUntypedIsExclusive ==
    AfterBoot =>
        \A a \in UsableSlots \cap LinkedSlots :
            /\ Extent(a) \cap retyped = {}
            /\ \A b \in (UsableSlots \cap LinkedSlots) \ {a} : Extent(a) \cap Extent(b) = {}

(* What a call copies out is found at its address as it was copied, the    *)
(* pieces of a split also, of which one takes the place of the whole.      *)
(* GetUntyped goes by the slots instead.                                   *)
RepliesAreAddressable ==
    reply.call # "GetUntyped" =>
        \A k \in DOMAIN reply.array :
            LET cap == reply.array[k]
                slot == AddressCapability(space, cap.Object)
            IN  /\ slot # NULL
                /\ Cap(space, slot).Type = cap.Type
                /\ Cap(space, slot).Object = cap.Object
                /\ Cap(space, slot).Size = cap.Size

MappedPages == {virt \in Targets : Tables!FindMappedPage(tables, Root, virt) # NULL}

(* The pages the container reads and writes are not its page tables: the   *)
(* type a capability was given when it was retyped tells them apart.       *)
TablesAreNotMapped ==
    \A virt \in MappedPages : Tables!FindMappedPage(tables, Root, virt) \notin DOMAIN tables

UserMappings == {<<Root, virt, Tables!Leaf(tables, Root, virt)>> : virt \in MappedPages}

(* No call changes or removes a mapping that an earlier one made, and one  *)
(* call maps one page.                                                     *)
UserMapsOnlyGrow ==
    [][\E m \in UserMappings' \ UserMappings : UserMappings' = UserMappings \cup {m}]_UserMappings

-----------------------------------------------------------------------------
(* What the repository says of the calls and the code does not do.         *)

(* "Reserve space for userspace": while there are free slots, allocating   *)
(* one returns.  RetypeUntyped leaves a slot that is taken and counted     *)
(* free when the first object is generated in another node.                *)
ReservedSlotsAllocate ==
    AfterBoot /\ GetFreeSlots(space) > 0 => ~AllocateSlabSlot(space.slab).slab.Spins

(* "The ut capability must not have children": memory that GetUntyped      *)
(* reports has not been retyped.  A split leaves its first piece in a slot *)
(* outside of the tree also, which a retype of the piece does not reach.   *)
UntypedHasNoChildren ==
    \A k \in DOMAIN UntypedSlots(space) : Extent(UntypedSlots(space)[k]) \cap retyped = {}

(* "ACCESS: The capability can used by getting its pointer": a device      *)
(* region that no call named is found at its address.  SplitUntyped        *)
(* generates a rest of no size behind the last piece.                      *)
DeviceMemoryStaysAddressable ==
    \A k \in DOMAIN MemoryMap : MemoryMap[k].Flags = "RESERVED" =>
        \E slot \in AddressFirstCapability(space, MemoryMap[k].Address) :
            slot # NULL /\ Cap(space, slot).Type = "UNTYPED_DMA"

(* "to result in a null quotient always": what is retyped is divided into  *)
(* objects without a rest.  RetypeUntyped frees the whole and generates    *)
(* what fits.                                                              *)
NoRestOfRetypes ==
    retyped \subseteq UNION {Extent(slot) : slot \in LinkedSlots}

(* "We can't split it, it's too small": what a split yields lies in the    *)
(* memory there is.  The size of the pieces times their number wraps       *)
(* around before it is compared.                                           *)
UntypedIsMemory ==
    \A slot \in UsableSlots : \E k \in DOMAIN MemoryMap :
        Extent(slot) \subseteq Units(MemoryMap[k].Address, MemoryMap[k].Length)

(* "WRITE: The frame can be mapped in the virtual space and written to":   *)
(* what is mapped for writing has that right.  SyscallMain maps whatever   *)
(* it is asked to.                                                         *)
WritableMappingsAreGranted ==
    \A virt \in MappedPages :
        LET leaf == Tables!Leaf(tables, Root, virt)
            slot == AddressCapability(space, leaf.Address)
        IN  "WRITE" \in leaf.Flags => "WRITE" \in MaskedRights(Cap(space, slot))

=============================================================================
