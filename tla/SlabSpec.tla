------------------------------ MODULE SlabSpec ------------------------------
(***************************************************************************)
(* The slab driven by its callers: nodes are added, slots allocated and    *)
(* slots freed.  A slot may be freed when its node, if that moves it to    *)
(* another list, is the first or the last node of the list it leaves: this *)
(* is what RemoveElementFromList can do.  RetypeUntyped frees whichever    *)
(* slot it is given: what becomes of the lists then is a question of PMM.  *)
(*                                                                         *)
(* A page holds anything before it becomes a node.                         *)
(***************************************************************************)
EXTENDS Slab

CONSTANTS Pages,        \* the pages that can become nodes
          RootNode      \* the node of InitializeRootSpace

ASSUME PagesAssumption ==
    /\ IsFiniteSet(Pages)
    /\ NULL \notin Pages \cup (Pages \X SlotIndex)
    /\ RootNode \in Pages

VARIABLES slab,
          nodes         \* the pages added so far: what the lists should hold

vars == <<slab, nodes>>

Slots == nodes \X SlotIndex

Allocated(slot) == slab.Slots[slot[1]][slot[2]].Type # "NULL_CAPABILITY"

(* The list on which a node with f free elements belongs.                  *)
ListFor(f) == IF f = CAPABILITIES_PER_NODE THEN "FreeSlabs"
              ELSE IF f = 0 THEN "FullSlabs"
              ELSE "UsedSlabs"

AtAnEnd(n, l) == n \in {slab.links.Head[l], slab.links.Tail[l]}

(* Freeing one more slot of n moves it, if at all, from an end of a list.  *)
MovesFromAnEnd(n) ==
    LET f == slab.FreeElements[n]
    IN  ListFor(f) # ListFor(f + 1) => AtAnEnd(n, ListFor(f))

-----------------------------------------------------------------------------

Init ==
    /\ slab = RootSlab(Pages, RootNode, [IsMasked |-> TRUE, Type |-> "RESERVED_SLOT"])
    /\ nodes = {RootNode}

AddNode(n) ==
    /\ n \notin nodes
    /\ slab' = AddSlabNode(slab, n)
    /\ nodes' = nodes \cup {n}

Allocate ==
    /\ slab' = AllocateSlabSlot(slab).slab
    /\ UNCHANGED nodes

Free(slot) ==
    /\ Allocated(slot)
    /\ slab' = FreeSlabSlot(slab, slot)
    /\ UNCHANGED nodes

Next ==
    \/ \E n \in Pages : AddNode(n)
    \/ Allocate
    \/ \E slot \in Slots : MovesFromAnEnd(slot[1]) /\ Free(slot)

Spec == Init /\ [][Next]_vars

-----------------------------------------------------------------------------

(* The counter of a node stays within the capacity of the page, which the  *)
(* unsigned FreeElements would leave by wrapping around.                   *)
TypeOK ==
    /\ nodes \subseteq Pages
    /\ slab \in [links : [Next : [Pages -> Pages \cup {NULL}],
                          Previous : [Pages -> Pages \cup {NULL}],
                          Head : [SlabLists -> Pages \cup {NULL}],
                          Tail : [SlabLists -> Pages \cup {NULL}],
                          Fault : BOOLEAN],
                 FreeElements : [Pages -> 0 .. CAPABILITIES_PER_NODE],
                 Slots : [Pages -> [SlotIndex -> [IsMasked : BOOLEAN,
                             Type : {"NULL_CAPABILITY", "RESERVED_SLOT"}]]],
                 Spins : BOOLEAN]

(* The counter a node carries is the number of its free slots, although    *)
(* allocation tests it before and freeing after it changes.                *)
Accounting ==
    \A n \in nodes : slab.FreeElements[n] = Cardinality(FreeIndices(slab, n))

(* The sequences of distinct nodes.                                        *)
Chains ==
    {s \in UNION {[1 .. n -> nodes] : n \in 0 .. Cardinality(nodes)} :
        \A i, j \in 1 .. Len(s) : s[i] = s[j] => i = j}

(* The list l is an intact doubly linked list of just the nodes that their *)
(* counters place on it.                                                   *)
Intact(l) ==
    \E s \in Chains :
        /\ IsChain(slab.links, l, s)
        /\ {s[i] : i \in 1 .. Len(s)} = {n \in nodes : ListFor(slab.FreeElements[n]) = l}

(* Every node is linked into exactly the list its counter calls for.       *)
OnMatchingList == \A l \in SlabLists : Intact(l)

(* AllocateSlabSlot returns, and writes through no NULL node: its loop     *)
(* never meets a node whose slots are all taken.                           *)
AllocateReturns == ~AllocateSlabSlot(slab).slab.Spins /\ ~slab.links.Fault

(* AllocateSlabSlot looks into a single node, yet fails only when no slot  *)
(* of any node is free.                                                    *)
AllocateFailsOnlyWhenFull ==
    AllocateSlabSlot(slab).slot = NULL => \A slot \in Slots : Allocated(slot)

(* What PMM::CheckSpace relies on: GetFreeSlabSlots counts every free slot *)
(* once, walking two of the three lists.                                   *)
FreeSlotsAreCounted ==
    GetFreeSlabSlots(slab) = Cardinality({slot \in Slots : ~Allocated(slot)})

Pool == INSTANCE SlotPool
          WITH all <- Slots, taken <- {slot \in Slots : Allocated(slot)}

(* What the functions of slab.cpp promise: a pool of slots from which an   *)
(* allocation takes one free slot, and to which a free returns one.        *)
ImplementsPool == Pool!Spec

=============================================================================
