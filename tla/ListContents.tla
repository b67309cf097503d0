---------------------------- MODULE ListContents ----------------------------
(***************************************************************************)
(* What list.cpp promises its callers: each list is a sequence of distinct *)
(* elements, and no element is on two of them.                             *)
(***************************************************************************)
EXTENDS Naturals, SequencesExt

CONSTANTS Elements, Lists

VARIABLE contents

On(e, l) == \E i \in 1 .. Len(contents[l]) : contents[l][i] = e

Init == contents = [l \in Lists |-> <<>>]

Add(e, l) ==
    /\ \A m \in Lists : ~On(e, m)
    /\ contents' = [contents EXCEPT ![l] = Append(@, e)]

(* The new element becomes the one at position i + 1.                      *)
AddAfter(e, l, i) ==
    /\ \A m \in Lists : ~On(e, m)
    /\ contents' = [contents EXCEPT ![l] = InsertAt(@, i + 1, e)]

TakeOff(l, i) == contents' = [contents EXCEPT ![l] = RemoveAt(@, i)]

Move(l, i, m) ==
    contents' = [contents EXCEPT ![l] = RemoveAt(@, i), ![m] = Append(@, contents[l][i])]

Next ==
    \E l \in Lists :
        \/ \E e \in Elements : Add(e, l)
        \/ \E i \in 1 .. Len(contents[l]) :
              \/ \E e \in Elements : AddAfter(e, l, i)
              \/ TakeOff(l, i)
              \/ \E m \in Lists \ {l} : Move(l, i, m)

Spec == Init /\ [][Next]_contents

=============================================================================
