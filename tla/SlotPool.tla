------------------------------ MODULE SlotPool ------------------------------
(***************************************************************************)
(* What the slab promises the capability space: a growing pool of slots,   *)
(* each free or taken.  An allocation takes exactly one free slot, a call  *)
(* to free returns exactly one, a new node brings only free slots.         *)
(***************************************************************************)
EXTENDS Naturals

CONSTANT CAPABILITIES_PER_NODE, Pages, RootNode

VARIABLES all, taken

NodeSlots(n) == {n} \X (0 .. CAPABILITIES_PER_NODE - 1)

Init == all = NodeSlots(RootNode) /\ taken = {}

AddNode(n) ==
    /\ all \cap NodeSlots(n) = {}
    /\ all' = all \cup NodeSlots(n)
    /\ UNCHANGED taken

Allocate(slot) ==
    /\ slot \in all \ taken
    /\ taken' = taken \cup {slot}
    /\ UNCHANGED all

Free(slot) ==
    /\ slot \in taken
    /\ taken' = taken \ {slot}
    /\ UNCHANGED all

Next ==
    \/ \E n \in Pages : AddNode(n)
    \/ \E slot \in all : Allocate(slot) \/ Free(slot)

Spec == Init /\ [][Next]_<<all, taken>>

=============================================================================
