-------------------------------- MODULE Slab --------------------------------
(***************************************************************************)
(* The slab of capability slots of src/generic/slab.cpp.  A CapabilityNode *)
(* is a page of CAPABILITIES_PER_NODE slots that sits on one of three      *)
(* lists, chosen by how many of its slots are free.                        *)
(*                                                                         *)
(* A slab s is a record: s.links is the heap of LinkedList (the elements   *)
(* are the nodes, the lists are FreeSlabs, UsedSlabs and FullSlabs),       *)
(* s.FreeElements and s.Slots are the fields of the nodes, and s.Spins     *)
(* records that AllocateSlabSlot has entered its loop on a node without a  *)
(* free slot, which it never leaves.                                       *)
(***************************************************************************)
EXTENDS LinkedList, FiniteSets

CONSTANT CAPABILITIES_PER_NODE

(* A page holds 99 slots; one slot per node would never reach FullSlabs.   *)
ASSUME CapabilitiesAssumption == CAPABILITIES_PER_NODE \in Nat \ {0, 1}

SlabLists == {"FreeSlabs", "UsedSlabs", "FullSlabs"}

SlotIndex == 0 .. CAPABILITIES_PER_NODE - 1

FreeIndices(s, n) == {i \in SlotIndex : s.Slots[n][i].Type = "NULL_CAPABILITY"}

Least(S) == CHOOSE i \in S : \A j \in S : i <= j

MoveNode(s, n, from, to) ==
    [s EXCEPT !.links =
        AddElementToList(RemoveElementFromList(s.links, n, from), n, to)]

-----------------------------------------------------------------------------

(* Mutation: the counter of a new node is not set.                         *)
AddSlabNodeUncounted(s, n) ==
    LET unlinked == SetPrevious(SetNext(s.links, n, NULL), n, NULL)
    IN  [s EXCEPT !.links = AddElementToList(unlinked, n, "FreeSlabs"),
                  !.Slots[n] = [i \in SlotIndex |->
                      [@[i] EXCEPT !.IsMasked = FALSE, !.Type = "NULL_CAPABILITY"]]]

(* Mutation: the loop over the slots stops one short.                      *)
AddSlabNodeShort(s, n) ==
    LET unlinked == SetPrevious(SetNext(s.links, n, NULL), n, NULL)
    IN  [s EXCEPT !.links = AddElementToList(unlinked, n, "FreeSlabs"),
                  !.FreeElements[n] = CAPABILITIES_PER_NODE,
                  !.Slots[n] = [i \in SlotIndex |->
                      IF i = CAPABILITIES_PER_NODE - 1 THEN @[i]
                      ELSE [@[i] EXCEPT !.IsMasked = FALSE, !.Type = "NULL_CAPABILITY"]]]

AddSlabNode(s, n) ==
    LET unlinked == SetPrevious(SetNext(s.links, n, NULL), n, NULL)
    IN  [s EXCEPT !.links = AddElementToList(unlinked, n, "FreeSlabs"),
                  !.FreeElements[n] = CAPABILITIES_PER_NODE,
                  !.Slots[n] = [i \in SlotIndex |->
                      [@[i] EXCEPT !.IsMasked = FALSE, !.Type = "NULL_CAPABILITY"]]]

(* Mutation: only nodes that are wholly free are looked into.              *)
FreeAllocationNode(s) == s.links.Head["FreeSlabs"]

(* The node AllocateSlabSlot looks into: it looks into no other.           *)
AllocationNode(s) ==
    IF s.links.Head["UsedSlabs"] # NULL
    THEN s.links.Head["UsedSlabs"]
    ELSE s.links.Head["FreeSlabs"]

(* Mutation: the counter is tested after it has been decremented.          *)
AllocateCountingFirst(s) ==
    LET n == AllocationNode(s)
        i == Least(FreeIndices(s, n))
        reserved == [s EXCEPT !.Slots[n][i].Type = "RESERVED_SLOT",
                              !.FreeElements[n] = @ - 1]
    IN  IF n = NULL
        THEN [slab |-> s, slot |-> NULL]
        ELSE IF FreeIndices(s, n) = {}
        THEN [slab |-> [s EXCEPT !.Spins = TRUE], slot |-> NULL]
        ELSE [slab |-> IF reserved.FreeElements[n] = 1
                       THEN MoveNode(reserved, n, "UsedSlabs", "FullSlabs")
                       ELSE reserved,
              slot |-> <<n, i>>]

(* Mutation: a node that becomes full stays on UsedSlabs.                  *)
AllocateKeepingFull(s) ==
    LET n == AllocationNode(s)
        i == Least(FreeIndices(s, n))
        reserved == [s EXCEPT !.Slots[n][i].Type = "RESERVED_SLOT"]
        moved == IF s.FreeElements[n] = CAPABILITIES_PER_NODE
                 THEN MoveNode(reserved, n, "FreeSlabs", "UsedSlabs")
                 ELSE reserved
    IN  IF n = NULL
        THEN [slab |-> s, slot |-> NULL]
        ELSE IF FreeIndices(s, n) = {}
        THEN [slab |-> [s EXCEPT !.Spins = TRUE], slot |-> NULL]
        ELSE [slab |-> [moved EXCEPT !.FreeElements[n] = @ - 1], slot |-> <<n, i>>]

(* The slab left behind and the slot <<node, index>> returned, or NULL.    *)
AllocateSlabSlot(s) ==
    LET n == AllocationNode(s)
        i == Least(FreeIndices(s, n))
        reserved == [s EXCEPT !.Slots[n][i].Type = "RESERVED_SLOT"]
        moved == IF s.FreeElements[n] = CAPABILITIES_PER_NODE
                 THEN MoveNode(reserved, n, "FreeSlabs", "UsedSlabs")
                 ELSE IF s.FreeElements[n] = 1
                 THEN MoveNode(reserved, n, "UsedSlabs", "FullSlabs")
                 ELSE reserved
    IN  IF n = NULL
        THEN [slab |-> s, slot |-> NULL]
        ELSE IF FreeIndices(s, n) = {}
        THEN [slab |-> [s EXCEPT !.Spins = TRUE], slot |-> NULL]
        ELSE [slab |-> [moved EXCEPT !.FreeElements[n] = @ - 1], slot |-> <<n, i>>]

(* Mutation: a full node stays on FullSlabs.                               *)
FreeSlabSlotInFull(s, slot) ==
    LET n == slot[1]
        freed == [s EXCEPT !.Slots[n][slot[2]].Type = "NULL_CAPABILITY",
                           !.FreeElements[n] = @ + 1]
    IN  IF freed.FreeElements[n] = CAPABILITIES_PER_NODE
        THEN MoveNode(freed, n, "UsedSlabs", "FreeSlabs")
        ELSE freed

FreeSlabSlot(s, slot) ==
    LET n == slot[1]
        freed == [s EXCEPT !.Slots[n][slot[2]].Type = "NULL_CAPABILITY",
                           !.FreeElements[n] = @ + 1]
    IN  IF freed.FreeElements[n] = CAPABILITIES_PER_NODE
        THEN MoveNode(freed, n, "UsedSlabs", "FreeSlabs")
        ELSE IF freed.FreeElements[n] = 1
        THEN MoveNode(freed, n, "FullSlabs", "UsedSlabs")
        ELSE freed

(* The free elements of the nodes from n to the end of its list.           *)
FreeElementsFrom(s, n) ==
    LET sum[m \in DOMAIN s.links.Next \cup {NULL}] ==
            IF m = NULL THEN 0 ELSE s.FreeElements[m] + sum[s.links.Next[m]]
    IN  sum[n]

GetFreeSlabSlots(s) ==
    FreeElementsFrom(s, s.links.Head["UsedSlabs"])
    + FreeElementsFrom(s, s.links.Head["FreeSlabs"])

(* The slab of one node InitializeRootSpace builds in place; blank is the  *)
(* contents of the slots of a page before it becomes a node.               *)
RootSlab(pages, root, blank) ==
    AddSlabNode([links |-> EmptyHeap(pages, SlabLists),
                 FreeElements |-> [n \in pages |-> 0],
                 Slots |-> [n \in pages |-> [i \in SlotIndex |-> blank]],
                 Spins |-> FALSE], root)

=============================================================================
