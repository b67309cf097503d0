--------------------------- MODULE CapabilitySpace ---------------------------
(***************************************************************************)
(* The capability space of src/generic/capability.cpp: a slab of           *)
(* capability slots and an address tree over some of them.                 *)
(*                                                                         *)
(* A space c is a record: c.slab is the slab of module Slab, whose slots   *)
(* now hold whole capabilities; c.CapabilityTree is the address tree,      *)
(* abstracted to the function from the addresses in it to the slots linked *)
(* under them (module AATree has its shape); c.Fault records that a NULL   *)
(* capability has been written through or a size divided by zero.  A slot  *)
(* <<node, index>> is what the code calls a Capability pointer.            *)
(*                                                                         *)
(* Addresses and sizes are natural numbers below USIZE; PAGE_SIZE of them  *)
(* make a page, and a CapabilityNode is the page at its own address.  The  *)
(* products and sums a split computes wrap around at USIZE.                *)
(***************************************************************************)
EXTENDS Slab, Integers

CONSTANTS PAGE_SIZE,
          USIZE             \* 2^64: the number of values of a usize

ASSUME PageSizeAssumption == PAGE_SIZE \in Nat \ {0, 1}

ASSUME UsizeAssumption == USIZE \in Nat \ 0 .. PAGE_SIZE

ObjectTypes == {"UNTYPED_FRAMES", "UNTYPED_DMA", "FRAME_MEMORY", "MMIO_MEMORY",
                "CACHE_MEMORY", "VIRTUAL_MEMORY_PAGING_STRUCTURE",
                "CAPABILITY_SPACE", "CAPABILITY_NODE", "VIRTUAL_CPU",
                "CONTAINER", "CONTEXT"}

(* The slots that are no capability have one of two more types.            *)
SlotTypes == ObjectTypes \cup {"NULL_CAPABILITY", "RESERVED_SLOT"}

CAPABILITY_RIGHTS == {"ACCESS", "SPLIT", "RETYPE", "GRANT", "MINT", "REVOKE",
                      "READ", "WRITE", "EXECUTE"}

BlankSlot == [IsMasked |-> FALSE, Type |-> "NULL_CAPABILITY", Object |-> 0,
              Size |-> 0, AccessRights |-> {}, AccessRightsMask |-> {}]

(* The objects smaller than a page count as one unit.  CACHE_MEMORY is not *)
(* in the switch of the code and gets its default.                         *)
GetObjectSize(kind) ==
    CASE kind \in {"CAPABILITY_SPACE", "CONTAINER", "CONTEXT"} -> 1
      [] kind \in {"UNTYPED_FRAMES", "UNTYPED_DMA"} -> -1
      [] kind = "CACHE_MEMORY" -> 0
      [] OTHER -> PAGE_SIZE

Cap(c, slot) == c.slab.Slots[slot[1]][slot[2]]

MaskedRights(cap) == cap.AccessRights \cap cap.AccessRightsMask

-----------------------------------------------------------------------------

(* SLAB::Search.                                                           *)
AddressCapability(c, ptr) ==
    IF ptr \in DOMAIN c.CapabilityTree THEN c.CapabilityTree[ptr] ELSE NULL

WithKey(tree, key, slot) ==
    [k \in DOMAIN tree \cup {key} |-> IF k = key THEN slot ELSE tree[k]]

(* Mutation: a second capability at an address is not copied.              *)
InsertOnce(c, slot) ==
    IF AddressCapability(c, Cap(c, slot).Object) = NULL
    THEN [c EXCEPT !.CapabilityTree = WithKey(@, Cap(c, slot).Object, slot)]
    ELSE c

(* SLAB::Insert links a slot under a new address; when the address is in   *)
(* the tree, the slot linked there receives a copy of the capability and   *)
(* the new slot stays outside the tree.                                    *)
Insert(c, slot) ==
    LET key == Cap(c, slot).Object
        linked == AddressCapability(c, key)
    IN  IF linked = NULL
        THEN [c EXCEPT !.CapabilityTree = WithKey(@, key, slot)]
        ELSE [c EXCEPT !.slab.Slots[linked[1]][linked[2]] = Cap(c, slot)]

(* GenerateCapability once it has asked for a slot.                        *)
FillSlot(c, allocated, cap) ==
    LET slot == allocated.slot
        filled == [allocated.slab EXCEPT !.Slots[slot[1]][slot[2]] = cap]
    IN  IF slot = NULL
        THEN [space |-> [c EXCEPT !.slab = allocated.slab], cap |-> NULL]
        ELSE [space |-> Insert([c EXCEPT !.slab = filled], slot), cap |-> slot]

(* The space left behind and the capability returned, or NULL.             *)
GenerateCapability(c, kind, object, size, accessRights) ==
    IF kind \notin ObjectTypes
    THEN [space |-> c, cap |-> NULL]
    ELSE FillSlot(c, AllocateSlabSlot(c.slab),
                  [IsMasked |-> FALSE, Type |-> kind, Object |-> object, Size |-> size,
                   AccessRights |-> accessRights,
                   AccessRightsMask |-> CAPABILITY_RIGHTS])

SetMask(c, slot, mask) ==
    [c EXCEPT !.slab.Slots[slot[1]][slot[2]].AccessRightsMask = mask]

MaskUntyped(c, untyped) ==
    [c EXCEPT !.slab.Slots[untyped[1]][untyped[2]].IsMasked = TRUE]

(* A run of capabilities so far, and the next one, g, of it.               *)
Extend(run, g, mask) ==
    IF g.cap = NULL
    THEN [run EXCEPT !.space = g.space]
    ELSE [space |-> SetMask(g.space, g.cap, mask), array |-> Append(run.array, g.cap)]

(* The run of capabilities of one size that a retype or a split generates, *)
(* from the address start on: the space, and the slots in their order.  It *)
(* stops short at the first slot it cannot allocate.                       *)
GenerateRun(c, kind, start, size, number, accessRights, mask) ==
    LET Turn(run, k) ==
            IF Len(run.array) < k - 1 THEN run
            ELSE Extend(run, GenerateCapability(run.space, kind,
                                                (start + (k - 1) * size) % USIZE,
                                                size, accessRights), mask)
        turns[k \in 0 .. number] ==
            IF k = 0 THEN [space |-> c, array |-> <<>>] ELSE Turn(turns[k - 1], k)
    IN  turns[number]

(* What RetypeUntyped returns: array[0], if no capability was missing.     *)
Retyped(run, count) ==
    [space |-> run.space, array |-> run.array,
     cap |-> IF Len(run.array) < count \/ count = 0 THEN NULL ELSE run.array[1]]

NothingRetyped(c) == [space |-> c, cap |-> NULL, array |-> <<>>]

(* The space, array[0] or NULL, and the array as far as it was written.    *)
(* The untyped capability is masked and its slot freed, but it is not      *)
(* taken out of the tree.  The type of the untyped is not looked at.       *)
RetypeUntyped(c, untyped, kind) ==
    LET cap == Cap(c, untyped)
        objectSize == GetObjectSize(kind)
        realCount == cap.Size \div objectSize
        freed == [MaskUntyped(c, untyped) EXCEPT !.slab = FreeSlabSlot(@, untyped)]
    IN  IF \/ kind \notin ObjectTypes \ {"UNTYPED_FRAMES", "UNTYPED_DMA"}
           \/ cap.IsMasked
           \/ "RETYPE" \notin MaskedRights(cap)
        THEN NothingRetyped(c)
        ELSE IF objectSize = 0
        THEN NothingRetyped([c EXCEPT !.Fault = TRUE])
        ELSE IF cap.Size = 0
        THEN NothingRetyped(c)
        ELSE Retyped(GenerateRun(freed, kind, cap.Object, objectSize, realCount,
                                 MaskedRights(cap), CAPABILITY_RIGHTS),
                     realCount)

NothingSplit(c) == [space |-> c, cap |-> NULL, first |-> NULL, array |-> <<>>]

(* SplitUntyped after its loop: last is the capability for what is left    *)
(* over.  A slot that cannot be allocated is written through as NULL.      *)
WithRest(run, last, mask) ==
    IF last.cap = NULL
    THEN NothingSplit([last.space EXCEPT !.Fault = TRUE])
    ELSE [space |-> SetMask(last.space, last.cap, mask),
          cap |-> last.cap, first |-> run.array[1], array |-> run.array]

(* Mutations of SplitUntyped, with neither front nor guards: the rest      *)
(* begins at rest and has so much size.                                    *)
SplitInto(c, untyped, splitSize, count, rest, size) ==
    LET cap == Cap(c, untyped)
        Rest(run) == WithRest(run, GenerateCapability(run.space, "UNTYPED_FRAMES", rest,
                                                      size, cap.AccessRights),
                              cap.AccessRightsMask)
    IN  Rest(GenerateRun(MaskUntyped(c, untyped), "UNTYPED_FRAMES", cap.Object, splitSize,
                         count, cap.AccessRights, cap.AccessRightsMask))

(* The pieces are taken off the size of the rest twice.                    *)
SplitShrinking(c, untyped, splitSize, offset, count) ==
    SplitInto(c, untyped, splitSize, count,
              Cap(c, untyped).Object + splitSize * count,
              Cap(c, untyped).Size - 2 * splitSize * count)

(* The rest begins where the pieces do.                                    *)
SplitOverlapping(c, untyped, splitSize, offset, count) ==
    SplitInto(c, untyped, splitSize, count, Cap(c, untyped).Object,
              Cap(c, untyped).Size - splitSize * count)

(* The front is not taken off the size of the rest.                        *)
SplitRestTooLong(c, untyped, splitSize, offset, count) ==
    LET cap == Cap(c, untyped)
        fronted == IF offset = 0 THEN c
                   ELSE GenerateCapability(c, "UNTYPED_FRAMES", cap.Object, offset,
                                           cap.AccessRights).space
    IN  SplitInto(fronted, untyped, splitSize, count,
                  cap.Object + offset + splitSize * count, cap.Size - splitSize * count)

(* SplitUntyped.  The result is the space, the capability returned (the    *)
(* one for what is left over, when there is some), array[0] and the array. *)
(* The mask of the untyped goes to the new slots, not to the copies Insert *)
(* makes.                                                                  *)
SplitUntyped(c, untyped, splitSize, offset, count) ==
    LET cap == Cap(c, untyped)
        total == (splitSize * count) % USIZE
        Front(space) ==
            IF offset = 0 THEN space
            ELSE GenerateCapability(space, "UNTYPED_FRAMES", cap.Object, offset,
                                    cap.AccessRights).space
        Pieces(space) ==
            GenerateRun(space, "UNTYPED_FRAMES", (offset + cap.Object) % USIZE, splitSize, count,
                        cap.AccessRights, cap.AccessRightsMask)
        Rest(run) ==
            IF Len(run.array) < count
            THEN NothingSplit([run.space EXCEPT !.Fault = TRUE])
            ELSE IF cap.Size <= total
            THEN [space |-> run.space, cap |-> run.array[count], first |-> run.array[1],
                  array |-> run.array]
            ELSE WithRest(run, GenerateCapability(run.space, "UNTYPED_FRAMES",
                                   (offset + cap.Object + total) % USIZE,
                                   (cap.Size - total - offset + 2 * USIZE) % USIZE,
                                   cap.AccessRights),
                          cap.AccessRightsMask)
    IN  IF \/ cap.IsMasked
           \/ "RETYPE" \notin MaskedRights(cap)
           \/ count = 0
           \/ cap.Size < (total + offset) % USIZE
        THEN NothingSplit(c)
        ELSE Rest(Pieces(Front(MaskUntyped(c, untyped))))

GetFreeSlots(c) == GetFreeSlabSlots(c.slab)

(* Mutation: the page is not recognised.                                   *)
AddNoNode(c, cap) == c

(* CAPABILITY::AddSlabNode: the page of a CAPABILITY_NODE joins the slab.  *)
AddCapabilityNode(c, cap) ==
    IF cap = NULL \/ Cap(c, cap).Type # "CAPABILITY_NODE"
    THEN c
    ELSE [c EXCEPT !.slab = AddSlabNode([@ EXCEPT !.Slots[cap[1]][cap[2]].IsMasked = TRUE],
                                        Cap(c, cap).Object)]

-----------------------------------------------------------------------------

(* InitializeRootSpace: the space of the root container, which lives in    *)
(* the first page of the region at framesBase (its CSpace field one unit   *)
(* into it) with its first node in the second.  A memory map is a sequence *)
(* of [Address, Length, Flags]; pages are the pages that can hold nodes.   *)
RootSpace(pages, framesBase, memoryMap) ==
    LET node == framesBase + PAGE_SIZE
        rest == framesBase + 2 * PAGE_SIZE
        Generate(c, kind, object, size, rights) ==
            GenerateCapability(c, kind, object, size, rights).space
        empty == [slab |-> RootSlab(pages, node, BlankSlot),
                  CapabilityTree |-> <<>>, Fault |-> FALSE]
        start == Generate(empty, "CAPABILITY_NODE", node,
                          GetObjectSize("CAPABILITY_NODE"), {"ACCESS"})
        AddEntry(c, entry) ==
            CASE entry.Flags = "USABLE" /\ entry.Address = framesBase ->
                   Generate(c, "UNTYPED_FRAMES", rest,
                            entry.Length - (rest - entry.Address),
                            {"ACCESS", "RETYPE", "GRANT"})
              [] entry.Flags = "USABLE" /\ entry.Address # framesBase ->
                   Generate(c, "UNTYPED_FRAMES", entry.Address, entry.Length,
                            {"ACCESS", "RETYPE", "GRANT"})
              [] entry.Flags \in {"RESERVED", "ACPI_RECLAIMABLE", "FRAMEBUFFER"} ->
                   Generate(c, "UNTYPED_DMA", entry.Address, entry.Length,
                            {"ACCESS", "RETYPE", "GRANT"})
              [] OTHER -> c
        entries[k \in 0 .. Len(memoryMap)] ==
            IF k = 0 THEN start ELSE AddEntry(entries[k - 1], memoryMap[k])
    IN  Generate(Generate(entries[Len(memoryMap)],
                          "CONTAINER", framesBase, GetObjectSize("CONTAINER"), {"ACCESS"}),
                 "CAPABILITY_SPACE", framesBase + 1, GetObjectSize("CAPABILITY_SPACE"),
                 {"ACCESS"})

=============================================================================
