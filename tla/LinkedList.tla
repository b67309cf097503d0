----------------------------- MODULE LinkedList -----------------------------
(***************************************************************************)
(* The intrusive doubly linked lists of src/generic/list.cpp.              *)
(*                                                                         *)
(* A heap h stands for the memory the functions touch: h.Next[e] and       *)
(* h.Previous[e] are the two fields of the ListHead e, h.Head[l] and       *)
(* h.Tail[l] those of the List l.  Every operator returns the heap its     *)
(* function leaves behind, in the order of the function's assignments.     *)
(* h.Fault records that a NULL element has been written through.           *)
(***************************************************************************)
EXTENDS Naturals, Sequences

CONSTANT NULL

SetHead(h, l, e) == [h EXCEPT !.Head[l] = e]
SetTail(h, l, e) == [h EXCEPT !.Tail[l] = e]

SetNext(h, e, v) ==
    IF e = NULL THEN [h EXCEPT !.Fault = TRUE] ELSE [h EXCEPT !.Next[e] = v]

SetPrevious(h, e, v) ==
    IF e = NULL THEN [h EXCEPT !.Fault = TRUE] ELSE [h EXCEPT !.Previous[e] = v]

EmptyHeap(E, L) ==
    [Next |-> [e \in E |-> NULL], Previous |-> [e \in E |-> NULL],
     Head |-> [l \in L |-> NULL], Tail |-> [l \in L |-> NULL],
     Fault |-> FALSE]

-----------------------------------------------------------------------------

(* Mutation: Tail is set before the old one has been read.                 *)
AddElementTailFirst(h, e, l) ==
    LET g == IF h.Head[l] = NULL THEN SetPrevious(SetHead(h, l, e), e, NULL) ELSE h
        t == SetTail(g, l, e)
    IN  IF g.Tail[l] = NULL THEN SetNext(t, e, NULL)
        ELSE SetPrevious(SetNext(t, t.Tail[l], e), e, t.Tail[l])

(* The Next of an appended element is only written when the list is empty. *)
AddElementToList(h, e, l) ==
    LET g == IF h.Head[l] = NULL
             THEN SetPrevious(SetHead(h, l, e), e, NULL)
             ELSE h
    IN  IF g.Tail[l] = NULL
        THEN SetNext(SetTail(g, l, e), e, NULL)
        ELSE SetTail(SetPrevious(SetNext(g, g.Tail[l], e), e, g.Tail[l]), l, e)

(* The overload with a predecessor.  Behind the last element it leaves the *)
(* Previous of the new one as it was.                                      *)
AddElementAfter(h, e, prev, l) ==
    IF prev = NULL
    THEN AddElementToList(h, e, l)
    ELSE LET oldNext == h.Next[prev]
         IN  IF oldNext = NULL
             THEN SetNext(SetTail(h, l, e), prev, e)
             ELSE SetNext(SetPrevious(SetPrevious(SetNext(h, prev, e),
                                                  oldNext, e), e, prev),
                          e, oldNext)

(* Mutation: any first element is taken for the only one.                  *)
RemoveElementAsOnly(h, e, l) ==
    IF e = h.Head[l]
    THEN SetTail(SetHead(h, l, NULL), l, NULL)
    ELSE SetNext(SetPrevious(SetNext(SetTail(h, l, h.Previous[e]), h.Previous[e], NULL),
                             e, NULL), e, NULL)

(* An element that is neither first nor last is not unlinked from its      *)
(* neighbours, and a list of one element is emptied whatever the element.  *)
RemoveElementFromList(h, e, l) ==
    IF h.Head[l] = h.Tail[l]
    THEN SetTail(SetHead(h, l, NULL), l, NULL)
    ELSE LET g == IF e = h.Head[l]
                  THEN SetPrevious(SetHead(h, l, h.Next[e]), h.Next[e], NULL)
                  ELSE IF e = h.Tail[l]
                  THEN SetNext(SetTail(h, l, h.Previous[e]), h.Previous[e], NULL)
                  ELSE h
         IN  SetNext(SetPrevious(g, e, NULL), e, NULL)

MoveElementToList(h, e, origin, destination) ==
    LET h1 == IF e # h.Head[origin] THEN h
              ELSE LET g == SetHead(h, origin, h.Next[e])
                   IN  IF g.Next[e] = NULL THEN g ELSE SetPrevious(g, g.Next[e], NULL)
        h2 == IF e # h1.Tail[origin] THEN h1
              ELSE LET g == SetTail(h1, origin, h1.Previous[e])
                   IN  IF g.Previous[e] = NULL THEN g ELSE SetNext(g, g.Previous[e], NULL)
        h3 == IF h2.Head[destination] = NULL
              THEN SetHead(SetPrevious(h2, e, NULL), destination, e)
              ELSE h2
        h4 == SetNext(h3, e, NULL)
        oldTail == h4.Tail[destination]
    IN  IF oldTail = NULL
        THEN SetTail(h4, destination, NULL)
        ELSE SetTail(SetNext(SetPrevious(h4, e, oldTail), oldTail, e),
                     destination, e)

(* Mutation: the popped element keeps its link.                            *)
PopListHeadLinked(h, l) ==
    LET e == h.Head[l]
    IN  IF e = NULL THEN h
        ELSE IF e = h.Tail[l] THEN SetTail(SetHead(h, l, NULL), l, NULL)
        ELSE SetPrevious(SetHead(h, l, h.Next[e]), h.Next[e], NULL)

(* PopListHead and PopListTail return the old h.Head[l] and h.Tail[l].     *)
PopListHead(h, l) ==
    LET e == h.Head[l]
    IN  IF e = NULL THEN h
        ELSE IF e = h.Tail[l] THEN SetTail(SetHead(h, l, NULL), l, NULL)
        ELSE SetNext(SetPrevious(SetHead(h, l, h.Next[e]), h.Next[e], NULL), e, NULL)

PopListTail(h, l) ==
    LET e == h.Tail[l]
    IN  IF e = NULL THEN h
        ELSE IF e = h.Head[l] THEN SetTail(SetHead(h, l, NULL), l, NULL)
        ELSE SetPrevious(SetNext(SetTail(h, l, h.Previous[e]), h.Previous[e], NULL),
                         e, NULL)

-----------------------------------------------------------------------------

(* The list l of h holds exactly the elements of s, in that order: walking *)
(* Next from Head and walking Previous from Tail meet the same elements    *)
(* and both end in NULL.                                                   *)
IsChain(h, l, s) ==
    /\ h.Head[l] = IF s = <<>> THEN NULL ELSE s[1]
    /\ h.Tail[l] = IF s = <<>> THEN NULL ELSE s[Len(s)]
    /\ \A i \in 1 .. Len(s) :
         /\ h.Next[s[i]] = IF i = Len(s) THEN NULL ELSE s[i + 1]
         /\ h.Previous[s[i]] = IF i = 1 THEN NULL ELSE s[i - 1]

=============================================================================
