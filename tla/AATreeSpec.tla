----------------------------- MODULE AATreeSpec -----------------------------
(***************************************************************************)
(* The address tree as GenerateCapability grows it: a slot outside the     *)
(* tree is filled and inserted.  Which slot that is makes no difference to *)
(* the tree; the first capability at address k takes slot k, a later one   *)
(* at the same address takes the slot Spare, which is never linked.        *)
(***************************************************************************)
EXTENDS AATree, FiniteSets

CONSTANTS Keys, Types

ASSUME KeysAssumption == Keys \subseteq Nat \ {0} /\ IsFiniteSet(Keys)

VARIABLES heap, tree

vars == <<heap, tree>>

Spare == 0

SlotSet == Keys \cup {Spare}

RECURSIVE Subtree(_)
Subtree(n) ==
    IF n = NULL THEN {} ELSE {n} \cup Subtree(heap.Left[n]) \cup Subtree(heap.Right[n])

Linked == Subtree(tree)

-----------------------------------------------------------------------------

Init ==
    /\ heap = [Left |-> [n \in SlotSet |-> NULL], Right |-> [n \in SlotSet |-> NULL],
               Level |-> [n \in SlotSet |-> 0],
               Cap |-> [n \in SlotSet |-> [Object |-> 0, Type |-> "NULL_CAPABILITY"]]]
    /\ tree = NULL

(* The tail of GenerateCapability: space->CapabilityTree = Insert(...).    *)
Generate(key, type) ==
    LET slot == IF key \in Linked THEN Spare ELSE key
        filled == [heap EXCEPT !.Cap[slot] = [Object |-> key, Type |-> type]]
        inserted == Insert(filled, tree, slot)
    IN  /\ heap' = inserted.heap
        /\ tree' = inserted.root

Next == \E key \in Keys, type \in Types : Generate(key, type)

Spec == Init /\ [][Next]_vars

-----------------------------------------------------------------------------

(* The fields of a slot are slots or NULL, and no Level exceeds what a     *)
(* balanced tree of so many addresses needs.                               *)
TypeOK ==
    /\ tree \in SlotSet \cup {NULL}
    /\ heap \in [Left : [SlotSet -> SlotSet \cup {NULL}],
                 Right : [SlotSet -> SlotSet \cup {NULL}],
                 Level : [SlotSet -> {k \in 0 .. Cardinality(Keys) :
                                      2 ^ k <= Cardinality(Keys) + 1}],
                 Cap : [SlotSet -> [Object : Keys \cup {0},
                                    Type : Types \cup {"NULL_CAPABILITY"}]]]

(* Rotations keep the tree a search tree by address.                       *)
Ordered ==
    /\ TypeOK
    /\ \A n \in Linked :
        /\ \A m \in Subtree(heap.Left[n]) : Key(heap, m) < Key(heap, n)
        /\ \A m \in Subtree(heap.Right[n]) : Key(heap, m) > Key(heap, n)

Level(n) == IF n = NULL THEN 0 ELSE heap.Level[n]

RECURSIVE Height(_)
Height(n) ==
    IF n = NULL THEN 0
    ELSE 1 + LET l == Height(heap.Left[n])
                 r == Height(heap.Right[n])
             IN  IF l > r THEN l ELSE r

(* The levels of an AA tree: a left child is one level down, a right child *)
(* at most one, and two right steps go down at least one.  A look-up then  *)
(* takes no more than 2 log2 (n + 1) steps, in whatever order the          *)
(* addresses came.                                                         *)
Levelled ==
    /\ \A n \in Linked :
         /\ Level(heap.Left[n]) = Level(n) - 1
         /\ Level(heap.Right[n]) \in {Level(n) - 1, Level(n)}
         /\ heap.Right[n] # NULL => Level(heap.Right[heap.Right[n]]) < Level(n)
    /\ 2 ^ Height(tree) <= (Cardinality(Linked) + 1) ^ 2

(* The tree of slab.cpp is the AA tree its functions are named after.      *)
SearchTree == Ordered /\ Levelled

(* AddressFirstCapability finds what AddressCapability finds, for every    *)
(* address in the tree, and for any other a leaf, with no other address    *)
(* between the two, or nothing: module Syscall relies on just this.        *)
SearchesAgree ==
    \A key \in Keys :
        LET close == SearchClose(heap, tree, key)
        IN  IF Search(heap, tree, key) # NULL
            THEN close = Search(heap, tree, key)
            ELSE close # NULL =>
                   /\ heap.Left[close] = NULL /\ heap.Right[close] = NULL
                   /\ \A n \in Linked :
                        \/ Key(heap, n) >= key /\ Key(heap, n) >= Key(heap, close)
                        \/ Key(heap, n) <= key /\ Key(heap, n) <= Key(heap, close)

Index == INSTANCE AddressIndex
           WITH index <- [key \in {k \in Keys : Search(heap, tree, k) # NULL} |->
                              heap.Cap[Search(heap, tree, key)].Type]

(* What capability.cpp uses the tree for: the capability generated last at *)
(* an address is the one found there, and no other is lost.                *)
ImplementsIndex == Index!Spec

=============================================================================
