--------------------------- MODULE LinkedListSpec ---------------------------
(***************************************************************************)
(* Clients of the lists of list.cpp: a fixed set of elements that are put  *)
(* on, taken off and moved between lists.  ListSpec keeps to the calls for *)
(* which list.cpp is a list: what is removed is the first or the last      *)
(* element of a list it is on, an insertion has a successor, and a move    *)
(* goes to a list that is not empty: list.cpp:79 leaves an empty one with  *)
(* a Head and no Tail.                                                     *)
(***************************************************************************)
EXTENDS LinkedList, FiniteSets

CONSTANTS Elements, Lists

ASSUME ElementsAssumption == IsFiniteSet(Elements) /\ NULL \notin Elements

VARIABLE heap

(* The sequences of distinct elements.                                     *)
ElementChains ==
    {s \in UNION {[1 .. n -> Elements] : n \in 0 .. Cardinality(Elements)} :
        \A i, j \in 1 .. Len(s) : s[i] = s[j] => i = j}

Contents(h, l) == CHOOSE s \in ElementChains : IsChain(h, l, s)

Members(l) == {Contents(heap, l)[i] : i \in 1 .. Len(Contents(heap, l))}

Unlinked(e) == \A l \in Lists : e \notin Members(l)

Ends(l) == {heap.Head[l], heap.Tail[l]} \ {NULL}

-----------------------------------------------------------------------------

ListInit == heap = EmptyHeap(Elements, Lists)

Add(e, l) ==
    /\ Unlinked(e)
    /\ heap' = AddElementToList(heap, e, l)

AddAfter(e, prev, l) ==
    /\ Unlinked(e)
    /\ prev \in Members(l) \ {heap.Tail[l]}
    /\ heap' = AddElementAfter(heap, e, prev, l)

Remove(e, l) == heap' = RemoveElementFromList(heap, e, l)

Move(e, origin, destination) ==
    /\ e \in Ends(origin)
    /\ origin # destination
    /\ heap' = MoveElementToList(heap, e, origin, destination)

PopHead(l) == heap' = PopListHead(heap, l)

PopTail(l) == heap' = PopListTail(heap, l)

ListNext ==
    \E l \in Lists :
        \/ \E e \in Elements : Add(e, l)
        \/ \E e, prev \in Elements : AddAfter(e, prev, l)
        \/ \E e \in Ends(l) : Remove(e, l)
        \/ \E m \in Lists, e \in Elements : heap.Head[m] # NULL /\ Move(e, l, m)
        \/ PopHead(l)
        \/ PopTail(l)

ListSpec == ListInit /\ [][ListNext]_heap

-----------------------------------------------------------------------------

(* The links of list.cpp lead to elements or are NULL: a link is never to  *)
(* the List itself, as it is in circular lists.                            *)
HeapTypeOK ==
    heap \in [Next : [Elements -> Elements \cup {NULL}],
              Previous : [Elements -> Elements \cup {NULL}],
              Head : [Lists -> Elements \cup {NULL}],
              Tail : [Lists -> Elements \cup {NULL}],
              Fault : BOOLEAN]

(* list.cpp never writes through a NULL element.                           *)
NoFault == ~heap.Fault

(* Every List is the doubly linked list object.hpp says it encompasses:    *)
(* the chain of Next from Head is the chain of Previous from Tail read     *)
(* backwards, and no element is on two lists.  No NULL was written through. *)
WellFormed ==
    /\ HeapTypeOK /\ NoFault
    /\ \A l \in Lists : \E s \in ElementChains : IsChain(heap, l, s)
    /\ \A l, m \in Lists : l # m => Members(l) \cap Members(m) = {}

(* An element that leaves its list keeps no link into it, which is what    *)
(* AddElementToList relies on when it does not write element->Next.        *)
UnlinkedIsClean ==
    \A e \in Elements : Unlinked(e) => heap.Next[e] = NULL /\ heap.Previous[e] = NULL

Sequences == INSTANCE ListContents WITH contents <- [l \in Lists |-> Contents(heap, l)]

(* What the functions of list.cpp promise: each call is one operation on   *)
(* sequences of elements, and touches no list but the one it is given.     *)
ImplementsSequences == Sequences!Spec

=============================================================================
