----------------------------- MODULE PMMProofs -----------------------------
(***************************************************************************)
(* The physical memory manager of pmm.cpp, for every memory map that the   *)
(* boot protocol allows, every size of page and node and every reserve:    *)
(* what it does to the slab, the capability space and the region is        *)
(* followed call by call from InitializeRootSpace on.                      *)
(*                                                                         *)
(* The invariant, Inv(u), says that the pages of the region up to number u *)
(* have been handed out, each to one owner and each with its capability,   *)
(* that the capability of the rest is UntypedArea, and that the slots free *)
(* suffice for the call in progress.  From the bottom up: lists of which   *)
(* FullSlabs is only known by its ends, slots, the sum GetFreeSlabSlots    *)
(* walks, capabilities and the tree, splits and retypings, the steps of    *)
(* PMM, the loops of InitializeRootSpace, and the theorems.                *)
(***************************************************************************)
EXTENDS PMM, LinkedListProofs

(* Both ends of a list are NULL or neither is.                             *)
Ended(h, l) == h.Head[l] = NULL <=> h.Tail[l] = NULL

(* A list that holds the elements of S stays one as long as its ends and   *)
(* the links of its elements are left alone.                               *)
LEMMA HoldsFrame ==
    ASSUME NEW E, NEW h, NEW g, NEW l, NEW S, Holds(E, h, l, S),
           g.Head[l] = h.Head[l], g.Tail[l] = h.Tail[l],
           \A x \in S : g.Next[x] = h.Next[x] /\ g.Previous[x] = h.Previous[x]
    PROVE  Holds(E, g, l, S)
<1>1. PICK s \in Seq(E) : Distinct(s) /\ Items(s) = S /\ IsChain(h, l, s)
  BY DEF Holds
<1>2. \A i \in 1 .. Len(s) : s[i] \in S
  BY <1>1 DEF Items
<1>3. IsChain(g, l, s)
  BY <1>1, <1>2, SameChain
<1> QED
  BY <1>1, <1>3 DEF Holds

(* The ends of a list are elements it holds.                               *)
LEMMA EndsAreHeld ==
    ASSUME NEW E, NULL \notin E, NEW h, NEW l, NEW S, Holds(E, h, l, S)
    PROVE  /\ Ended(h, l)
           /\ S \subseteq E
           /\ h.Head[l] = NULL <=> S = {}
           /\ h.Head[l] # NULL => h.Head[l] \in S /\ h.Tail[l] \in S
<1>1. PICK s \in Seq(E) : Items(s) = S /\ IsChain(h, l, s)
  BY DEF Holds
<1>2. S \subseteq E
  BY <1>1, ElementOfSeq DEF Items
<1>3. CASE s = <<>>
  <2>1. h.Head[l] = NULL /\ h.Tail[l] = NULL /\ S = {}
    BY <1>1, <1>3, EmptySeq DEF IsChain, Items
  <2> QED
    BY <1>2, <2>1 DEF Ended
<1>4. CASE s # <<>>
  <2>1. Len(s) \in Nat \ {0} /\ h.Head[l] = s[1] /\ h.Tail[l] = s[Len(s)]
    BY <1>1, <1>4, EmptySeq DEF IsChain
  <2>2. 1 \in 1 .. Len(s) /\ Len(s) \in 1 .. Len(s)
    BY <2>1
  <2>3. s[1] \in S /\ s[Len(s)] \in S
    BY <1>1, <2>2 DEF Items
  <2> QED
    BY <1>2, <2>1, <2>3 DEF Ended
<1> QED
  BY <1>3, <1>4

(* A list of one element has no links.                                     *)
LEMMA NeighboursAreHeld ==
    ASSUME NEW E, NULL \notin E, NEW h, NEW l, NEW S, Holds(E, h, l, S), NEW e \in S
    PROVE  /\ h.Next[e] \in S \cup {NULL}
           /\ h.Previous[e] \in S \cup {NULL}
           /\ h.Next[e] = NULL => e = h.Tail[l]
           /\ h.Previous[e] = NULL => e = h.Head[l]
<1>1. PICK s \in Seq(E) : Items(s) = S /\ IsChain(h, l, s)
  BY DEF Holds
<1>2. PICK i \in 1 .. Len(s) : e = s[i]
  BY <1>1 DEF Items
<1>3. Len(s) \in Nat /\ i \in Nat /\ s # <<>> /\ 1 \in 1 .. Len(s)
  BY <1>2, EmptySeq, LenProperties
<1>4. /\ h.Head[l] = s[1] /\ h.Tail[l] = s[Len(s)]
      /\ h.Next[s[i]] = IF i = Len(s) THEN NULL ELSE s[i + 1]
      /\ h.Previous[s[i]] = IF i = 1 THEN NULL ELSE s[i - 1]
  BY <1>1, <1>2, <1>3 DEF IsChain
<1>5. i # Len(s) => s[i + 1] \in S /\ s[i + 1] \in E
  <2>1. i # Len(s) => i + 1 \in 1 .. Len(s)
    BY <1>2, <1>3
  <2> QED
    BY <1>1, <2>1, ElementOfSeq DEF Items
<1>6. i # 1 => s[i - 1] \in S /\ s[i - 1] \in E
  <2>1. i # 1 => i - 1 \in 1 .. Len(s)
    BY <1>2, <1>3
  <2> QED
    BY <1>1, <2>1, ElementOfSeq DEF Items
<1> QED
  BY <1>2, <1>4, <1>5, <1>6

(* Removing an end of a list touches the links of its elements only.       *)
LEMMA RemoveTouches ==
    ASSUME NEW E, NEW L, NEW h \in Heaps(E, E, L), NULL \notin E,
           NEW l \in L, NEW S, Holds(E, h, l, S),
           NEW e \in E, e \in {h.Head[l], h.Tail[l]},
           NEW r, r = RemoveElementFromList(h, e, l)
    PROVE  /\ \A m \in L \ {l} : r.Head[m] = h.Head[m] /\ r.Tail[m] = h.Tail[m]
           /\ \A x \in E \ S : r.Next[x] = h.Next[x] /\ r.Previous[x] = h.Previous[x]
<1>1. e \in S /\ S \subseteq E /\ e # NULL
  BY EndsAreHeld DEF Ended
<1>2. /\ h.Next[e] \in S \cup {NULL} /\ h.Previous[e] \in S \cup {NULL}
      /\ h.Next[e] = NULL => e = h.Tail[l]
      /\ h.Previous[e] = NULL => e = h.Head[l]
  BY <1>1, NeighboursAreHeld
<1>3. CASE h.Head[l] = h.Tail[l]
  BY <1>3, RemoveElementEffect
<1>4. CASE h.Head[l] # h.Tail[l] /\ e = h.Head[l]
  BY <1>1, <1>2, <1>4, RemoveElementEffect
<1>5. CASE h.Head[l] # h.Tail[l] /\ e = h.Tail[l]
  BY <1>1, <1>2, <1>5, RemoveElementEffect
<1> QED
  BY <1>3, <1>4, <1>5

(* Appending an element to a list touches its own links and those of the   *)
(* last element.                                                           *)
LEMMA AppendTouches ==
    ASSUME NEW E, NEW L, NEW h \in Heaps(E, E, L), NULL \notin E,
           NEW l \in L, Ended(h, l), NEW e \in E,
           NEW a, a = AddElementToList(h, e, l)
    PROVE  /\ \A m \in L \ {l} : a.Head[m] = h.Head[m] /\ a.Tail[m] = h.Tail[m]
           /\ a.Tail[l] = e
           /\ a.Head[l] = IF h.Head[l] = NULL THEN e ELSE h.Head[l]
           /\ \A x \in E \ {e} : a.Previous[x] = h.Previous[x]
           /\ a.Previous[e] = h.Tail[l]
           /\ \A x \in E \ {e, h.Tail[l]} : a.Next[x] = h.Next[x]
           /\ h.Tail[l] # NULL => a.Next[h.Tail[l]] = e
           /\ h.Next[e] = NULL /\ h.Tail[l] # e => a.Next[e] = NULL
           /\ a.Fault = h.Fault
<1>1. h.Tail[l] \in E \cup {NULL}
  BY FieldsType
<1>2. CASE h.Head[l] = NULL /\ h.Tail[l] = NULL
  BY <1>1, <1>2, AddElementEffect
<1>3. CASE h.Head[l] # NULL /\ h.Tail[l] # NULL
  BY <1>1, <1>3, AddElementEffect
<1> QED
  BY <1>2, <1>3 DEF Ended

(* Appending an element to one list leaves the others what they hold.      *)
LEMMA AppendElsewhere ==
    ASSUME NEW E, NEW L, NEW h \in Heaps(E, E, L), NULL \notin E,
           NEW l \in L, NEW S, Holds(E, h, l, S),
           NEW e \in E, e \notin S, h.Next[e] = NULL,
           NEW a, a = AddElementToList(h, e, l),
           NEW m \in L, m # l, NEW T, Holds(E, h, m, T), e \notin T, S \cap T = {}
    PROVE  /\ a \in Heaps(E, E, L) /\ a.Fault = h.Fault
           /\ Holds(E, a, l, S \cup {e})
           /\ Holds(E, a, m, T)
<1>1. /\ a \in Heaps(E, E, L) /\ a.Fault = h.Fault
      /\ Holds(E, a, l, S \cup {e})
      /\ \A k \in L \ {l} : \A U :
            Holds(E, h, k, U) /\ e \notin U /\ S \cap U = {} => Holds(E, a, k, U)
  BY HoldsAppend
<1> QED
  BY <1>1

(* Removing an end of one list leaves the others what they hold.           *)
LEMMA RemoveElsewhere ==
    ASSUME NEW E, NEW L, NEW h \in Heaps(E, E, L), NULL \notin E,
           NEW l \in L, NEW S, Holds(E, h, l, S),
           NEW e \in E, e \in {h.Head[l], h.Tail[l]},
           NEW r, r = RemoveElementFromList(h, e, l),
           NEW m \in L, m # l, NEW T, Holds(E, h, m, T), S \cap T = {}
    PROVE  /\ r \in Heaps(E, E, L) /\ r.Fault = h.Fault
           /\ Holds(E, r, l, S \ {e})
           /\ r.Next[e] = NULL
           /\ Holds(E, r, m, T)
<1>1. /\ r \in Heaps(E, E, L) /\ r.Fault = h.Fault
      /\ Holds(E, r, l, S \ {e})
      /\ r.Next[e] = NULL
  BY HoldsRemove
<1>2. PICK s \in Seq(E) : Distinct(s) /\ Items(s) = S /\ IsChain(h, l, s)
  BY DEF Holds
<1>3. PICK t \in Seq(E) : Distinct(t) /\ Items(t) = T /\ IsChain(h, m, t)
  BY DEF Holds
<1>4. m \in L \ {l} /\ Items(s) \cap Items(t) = {}
  BY <1>2, <1>3
<1>5. IsChain(r, m, t)
  BY <1>2, <1>3, <1>4, RemoveFrame
<1> QED
  BY <1>1, <1>3, <1>5 DEF Holds

(* Removing an element from the middle of a list clears its own links.     *)
LEMMA RemoveMiddle ==
    ASSUME NEW E, NEW L, NEW h \in Heaps(E, E, L), NULL \notin E,
           NEW l \in L, NEW e \in E, e # h.Head[l], e # h.Tail[l], h.Head[l] # h.Tail[l],
           NEW r, r = RemoveElementFromList(h, e, l)
    PROVE  /\ r.Head = h.Head /\ r.Tail = h.Tail /\ r.Fault = h.Fault
           /\ r.Next[e] = NULL
           /\ \A x \in E \ {e} : r.Next[x] = h.Next[x] /\ r.Previous[x] = h.Previous[x]
<1>1. r = SetNext(SetPrevious(h, e, NULL), e, NULL) /\ e # NULL
  BY DEF RemoveElementFromList
<1>2. SetPrevious(h, e, NULL) \in Heaps(E, E, L)
  BY SetPreviousType
<1> QED
  BY <1>1, <1>2, SetPreviousEffect, SetNextEffect

-----------------------------------------------------------------------------

PageHeaps == Heaps(Pages, Pages, SlabLists)

(* The nodes fall into the free ones, V, the used ones, U, and the full    *)
(* ones, Z.  The two lists that are allocated from hold what they should;  *)
(* of the third only the ends are known, as nodes are taken out of its     *)
(* middle.                                                                 *)
Listed(h, V, U, Z) ==
    /\ h \in PageHeaps
    /\ ~h.Fault
    /\ NULL \notin Pages
    /\ V \in SUBSET Pages /\ U \in SUBSET Pages /\ Z \in SUBSET Pages
    /\ V \cap U = {} /\ V \cap Z = {} /\ U \cap Z = {}
    /\ Holds(Pages, h, "FreeSlabs", V)
    /\ Holds(Pages, h, "UsedSlabs", U)
    /\ Ended(h, "FullSlabs")
    /\ h.Head["FullSlabs"] \in Z \cup {NULL}
    /\ h.Tail["FullSlabs"] \in Z \cup {NULL}

Relinked(h, n, l, m) == AddElementToList(RemoveElementFromList(h, n, l), n, m)

(* What can be taken off FullSlabs, of whose nodes Z is made.              *)
Detachable(h, Z, n) ==
    LET first == h.Head["FullSlabs"]
        last == h.Tail["FullSlabs"]
    IN  n \in Z =>
          \/ last = n /\ first = n /\ h.Next[n] = NULL
          \/ last = n /\ first # n /\ h.Previous[n] \in Z \ {n}
          \/ last # n /\ first = n /\ h.Next[n] \in Z \ {n}
          \/ last # n /\ first # n /\ first # last

(* FullSlabs and the links of the nodes of Z are the same.                 *)
SameFull(h, g, Z) ==
    /\ g.Head["FullSlabs"] = h.Head["FullSlabs"]
    /\ g.Tail["FullSlabs"] = h.Tail["FullSlabs"]
    /\ \A x \in Z : g.Next[x] = h.Next[x] /\ g.Previous[x] = h.Previous[x]

(* The node n has been appended to FullSlabs.                              *)
Filled(h, g, Z, n) ==
    /\ g.Head["FullSlabs"] = IF h.Head["FullSlabs"] = NULL THEN n ELSE h.Head["FullSlabs"]
    /\ g.Tail["FullSlabs"] = n
    /\ g.Next[n] = NULL /\ g.Previous[n] = h.Tail["FullSlabs"]
    /\ \A x \in Z : /\ g.Previous[x] = h.Previous[x]
                    /\ g.Next[x] = IF x = h.Tail["FullSlabs"] THEN n ELSE h.Next[x]

(* The three lists are different ones.                                     *)
LEMMA ThreeLists ==
    /\ "FreeSlabs" \in SlabLists /\ "UsedSlabs" \in SlabLists /\ "FullSlabs" \in SlabLists
    /\ "FreeSlabs" # "UsedSlabs" /\ "FreeSlabs" # "FullSlabs" /\ "UsedSlabs" # "FullSlabs"
BY DEF SlabLists

(* AllocateSlabSlot takes the last slot of a node.                         *)
LEMMA UsedBecomesFull ==
    ASSUME NEW h, NEW V, NEW U, NEW Z, Listed(h, V, U, Z),
           NEW n \in U, n = h.Head["UsedSlabs"],
           NEW g, g = Relinked(h, n, "UsedSlabs", "FullSlabs")
    PROVE  Listed(g, V, U \ {n}, Z \cup {n}) /\ Filled(h, g, Z, n)
<1> DEFINE r == RemoveElementFromList(h, n, "UsedSlabs")
<1>1. /\ h \in PageHeaps /\ ~h.Fault
      /\ Holds(Pages, h, "FreeSlabs", V) /\ Holds(Pages, h, "UsedSlabs", U)
      /\ Ended(h, "FullSlabs")
      /\ h.Head["FullSlabs"] \in Z \cup {NULL} /\ h.Tail["FullSlabs"] \in Z \cup {NULL}
  BY DEF Listed
<1>2. /\ V \cap U = {} /\ U \cap V = {} /\ V \cap Z = {} /\ U \cap Z = {} /\ NULL \notin Pages
      /\ U \subseteq Pages /\ V \subseteq Pages /\ Z \subseteq Pages
      /\ n \in U /\ n \in Pages /\ n # NULL /\ n \notin Z
  BY DEF Listed
<1>4. /\ r \in PageHeaps
      /\ Holds(Pages, r, "UsedSlabs", U \ {n})
      /\ r.Next[n] = NULL /\ r.Fault = h.Fault
      /\ Holds(Pages, r, "FreeSlabs", V)
  <2>1. PICK m \in SlabLists : m = "FreeSlabs" /\ m # "UsedSlabs"
    BY ThreeLists
  <2>2. Holds(Pages, h, m, V)
    BY <1>1, <2>1
  <2>3. /\ r \in PageHeaps
        /\ Holds(Pages, r, "UsedSlabs", U \ {n})
        /\ r.Next[n] = NULL /\ r.Fault = h.Fault
        /\ Holds(Pages, r, m, V)
    <3>1. PICK q : q = r /\ q = RemoveElementFromList(h, n, "UsedSlabs")
      OBVIOUS
    <3>2. n \in {h.Head["UsedSlabs"], h.Tail["UsedSlabs"]}
      OBVIOUS
    <3>3. h \in Heaps(Pages, Pages, SlabLists)
      BY <1>1 DEF PageHeaps
    <3> HIDE DEF r
    <3>4. /\ q \in Heaps(Pages, Pages, SlabLists)
        /\ Holds(Pages, q, "UsedSlabs", U \ {n})
        /\ q.Next[n] = NULL /\ q.Fault = h.Fault
        /\ Holds(Pages, q, m, V)
      BY <1>1, <1>2, <2>1, <2>2, <3>1, <3>2, <3>3, ThreeLists, RemoveElsewhere
    <3> QED
      BY <3>1, <3>4 DEF PageHeaps
  <2> QED
    BY <2>1, <2>3
<1>5. /\ r.Head["FullSlabs"] = h.Head["FullSlabs"] /\ r.Tail["FullSlabs"] = h.Tail["FullSlabs"]
      /\ \A x \in Z : r.Next[x] = h.Next[x] /\ r.Previous[x] = h.Previous[x]
  <2>1. /\ \A m \in SlabLists \ {"UsedSlabs"} : r.Head[m] = h.Head[m] /\ r.Tail[m] = h.Tail[m]
        /\ \A x \in Pages \ U : r.Next[x] = h.Next[x] /\ r.Previous[x] = h.Previous[x]
    BY <1>1, <1>2, ThreeLists, RemoveTouches DEF PageHeaps
  <2> QED
    BY <1>2, <2>1, ThreeLists
<1> HIDE DEF r
<1>6. g = AddElementToList(r, n, "FullSlabs")
  BY DEF Relinked, r
<1>7. g \in PageHeaps
  BY <1>2, <1>4, <1>6, ThreeLists, AddElementType DEF PageHeaps
<1>8. /\ \A m \in SlabLists \ {"FullSlabs"} : g.Head[m] = r.Head[m] /\ g.Tail[m] = r.Tail[m]
      /\ g.Tail["FullSlabs"] = n
      /\ g.Head["FullSlabs"] = IF r.Head["FullSlabs"] = NULL THEN n ELSE r.Head["FullSlabs"]
      /\ \A x \in Pages \ {n} : g.Previous[x] = r.Previous[x]
      /\ g.Previous[n] = r.Tail["FullSlabs"]
      /\ \A x \in Pages \ {n, r.Tail["FullSlabs"]} : g.Next[x] = r.Next[x]
      /\ r.Tail["FullSlabs"] # NULL => g.Next[r.Tail["FullSlabs"]] = n
      /\ r.Next[n] = NULL /\ r.Tail["FullSlabs"] # n => g.Next[n] = NULL
      /\ g.Fault = r.Fault
  <2>1. Ended(r, "FullSlabs")
    BY <1>1, <1>5 DEF Ended
  <2> QED
    BY <1>2, <1>4, <1>6, <2>1, ThreeLists, AppendTouches DEF PageHeaps
<1>9. Holds(Pages, g, "UsedSlabs", U \ {n}) /\ Holds(Pages, g, "FreeSlabs", V)
  <2>1. \A x \in (U \ {n}) \cup V : g.Next[x] = r.Next[x] /\ g.Previous[x] = r.Previous[x]
    BY <1>1, <1>2, <1>5, <1>8
  <2>2. \A m \in {"UsedSlabs", "FreeSlabs"} : g.Head[m] = r.Head[m] /\ g.Tail[m] = r.Tail[m]
    BY <1>8, ThreeLists
  <2> QED
    BY <1>4, <2>1, <2>2, HoldsFrame
<1>10. Filled(h, g, Z, n)
  BY <1>1, <1>2, <1>4, <1>5, <1>8 DEF Filled, Ended
<1>11. Listed(g, V, U \ {n}, Z \cup {n})
  BY <1>1, <1>2, <1>4, <1>5, <1>7, <1>8, <1>9 DEF Listed, Ended
<1> QED
  BY <1>10, <1>11

-----------------------------------------------------------------------------

(* AllocateSlabSlot takes the first slot of a node.                        *)
LEMMA FreeBecomesUsed ==
    ASSUME NEW h, NEW V, NEW U, NEW Z, Listed(h, V, U, Z),
           NEW n \in V, n = h.Head["FreeSlabs"], h.Head["UsedSlabs"] = NULL,
           NEW g, g = Relinked(h, n, "FreeSlabs", "UsedSlabs")
    PROVE  /\ Listed(g, V \ {n}, U \cup {n}, Z)
           /\ SameFull(h, g, Z)
           /\ g.Head["UsedSlabs"] = n
<1> DEFINE r == RemoveElementFromList(h, n, "FreeSlabs")
<1>1. /\ h \in PageHeaps /\ ~h.Fault
      /\ Holds(Pages, h, "FreeSlabs", V) /\ Holds(Pages, h, "UsedSlabs", U)
      /\ Ended(h, "FullSlabs")
      /\ h.Head["FullSlabs"] \in Z \cup {NULL} /\ h.Tail["FullSlabs"] \in Z \cup {NULL}
  BY DEF Listed
<1>2. /\ V \cap U = {} /\ U \cap V = {} /\ V \cap Z = {} /\ U \cap Z = {} /\ NULL \notin Pages
      /\ U \subseteq Pages /\ V \subseteq Pages /\ Z \subseteq Pages
      /\ n \in V /\ n \in Pages /\ n # NULL /\ n \notin Z /\ n \notin U
  BY DEF Listed
<1>4. U = {}
  BY <1>1, <1>2, EndsAreHeld
<1>5. /\ r \in PageHeaps
      /\ Holds(Pages, r, "FreeSlabs", V \ {n})
      /\ r.Next[n] = NULL /\ r.Fault = h.Fault
      /\ Holds(Pages, r, "UsedSlabs", U)
  BY <1>1, <1>2, ThreeLists, RemoveElsewhere DEF PageHeaps
<1>6. /\ \A m \in SlabLists \ {"FreeSlabs"} : r.Head[m] = h.Head[m] /\ r.Tail[m] = h.Tail[m]
      /\ \A x \in Pages \ V : r.Next[x] = h.Next[x] /\ r.Previous[x] = h.Previous[x]
  BY <1>1, <1>2, ThreeLists, RemoveTouches DEF PageHeaps
<1> HIDE DEF r
<1>7. g = AddElementToList(r, n, "UsedSlabs")
  BY DEF Relinked, r
<1>8. /\ g \in PageHeaps /\ g.Fault = r.Fault
      /\ Holds(Pages, g, "UsedSlabs", U \cup {n})
      /\ Holds(Pages, g, "FreeSlabs", V \ {n})
  <2>1. PICK T : T = V \ {n}
    OBVIOUS
  <2>4. n \notin T /\ U \cap T = {}
    BY <1>2, <2>1
  <2>2. Holds(Pages, r, "FreeSlabs", T)
    BY <1>5, <2>1
  <2>3. /\ g \in PageHeaps /\ g.Fault = r.Fault
        /\ Holds(Pages, g, "UsedSlabs", U \cup {n})
        /\ Holds(Pages, g, "FreeSlabs", T)
    <3>1. PICK m \in SlabLists : m = "FreeSlabs" /\ m # "UsedSlabs"
      BY ThreeLists
    <3>2. Holds(Pages, r, m, T)
      BY <2>2, <3>1
    <3>3. /\ g \in PageHeaps /\ g.Fault = r.Fault
          /\ Holds(Pages, g, "UsedSlabs", U \cup {n})
          /\ Holds(Pages, g, m, T)
      BY <1>2, <1>5, <1>7, <2>4, <3>1, <3>2, ThreeLists, AppendElsewhere DEF PageHeaps
    <3> QED
      BY <3>1, <3>3
  <2> QED
    BY <2>1, <2>3
<1>9. /\ \A m \in SlabLists \ {"UsedSlabs"} : g.Head[m] = r.Head[m] /\ g.Tail[m] = r.Tail[m]
      /\ g.Head["UsedSlabs"] = IF r.Head["UsedSlabs"] = NULL THEN n ELSE r.Head["UsedSlabs"]
      /\ \A x \in Pages \ {n} : g.Previous[x] = r.Previous[x]
      /\ \A x \in Pages \ {n, r.Tail["UsedSlabs"]} : g.Next[x] = r.Next[x]
  <2>1. Ended(r, "UsedSlabs")
    BY <1>2, <1>5, EndsAreHeld
  <2> QED
    BY <1>2, <1>5, <1>7, <2>1, ThreeLists, AppendTouches DEF PageHeaps
<1>10. r.Head["UsedSlabs"] = NULL /\ r.Tail["UsedSlabs"] = NULL
  BY <1>2, <1>4, <1>5, EndsAreHeld DEF Ended
<1>11. SameFull(h, g, Z)
  BY <1>2, <1>6, <1>9, <1>10, ThreeLists DEF SameFull
<1>12. Listed(g, V \ {n}, U \cup {n}, Z)
  BY <1>1, <1>5, <1>8, <1>11 DEF Listed, Ended, SameFull
<1> QED
  BY <1>9, <1>10, <1>11, <1>12

(* FreeSlabSlot takes a node off FullSlabs, of which only an end need be   *)
(* in place.                                                               *)
LEMMA FullBecomesUsed ==
    ASSUME NEW h, NEW V, NEW U, NEW Z, Listed(h, V, U, Z),
           NEW n \in Z, Detachable(h, Z, n),
           NEW g, g = Relinked(h, n, "FullSlabs", "UsedSlabs")
    PROVE  Listed(g, V, U \cup {n}, Z \ {n})
<1> DEFINE r == RemoveElementFromList(h, n, "FullSlabs")
<1>1. /\ h \in PageHeaps /\ ~h.Fault
      /\ Holds(Pages, h, "FreeSlabs", V) /\ Holds(Pages, h, "UsedSlabs", U)
      /\ Ended(h, "FullSlabs")
      /\ h.Head["FullSlabs"] \in Z \cup {NULL} /\ h.Tail["FullSlabs"] \in Z \cup {NULL}
  BY DEF Listed
<1>2. /\ V \cap U = {} /\ U \cap V = {} /\ V \cap Z = {} /\ U \cap Z = {} /\ NULL \notin Pages
      /\ U \subseteq Pages /\ V \subseteq Pages /\ Z \subseteq Pages
      /\ n \in Z /\ n \in Pages /\ n # NULL /\ n \notin V /\ n \notin U
  BY DEF Listed
<1>5. /\ r \in PageHeaps
      /\ r.Fault = h.Fault
      /\ r.Next[n] = NULL
      /\ \A m \in SlabLists \ {"FullSlabs"} : r.Head[m] = h.Head[m] /\ r.Tail[m] = h.Tail[m]
      /\ \A x \in U \cup V : r.Next[x] = h.Next[x] /\ r.Previous[x] = h.Previous[x]
      /\ Ended(r, "FullSlabs")
      /\ r.Head["FullSlabs"] \in (Z \ {n}) \cup {NULL}
      /\ r.Tail["FullSlabs"] \in (Z \ {n}) \cup {NULL}
  <2>0. r \in PageHeaps
    BY <1>1, <1>2, ThreeLists, RemoveElementType DEF PageHeaps
  <2>1. CASE h.Tail["FullSlabs"] = n /\ h.Head["FullSlabs"] = n /\ h.Next[n] = NULL
    BY <1>1, <1>2, <2>0, <2>1, ThreeLists, RemoveElementEffect DEF PageHeaps, Ended
  <2>2. CASE h.Tail["FullSlabs"] = n /\ h.Head["FullSlabs"] # n /\ h.Previous[n] \in Z \ {n}
    BY <1>1, <1>2, <2>0, <2>2, ThreeLists, RemoveElementEffect DEF PageHeaps, Ended
  <2>3. CASE h.Tail["FullSlabs"] # n /\ h.Head["FullSlabs"] = n /\ h.Next[n] \in Z \ {n}
    BY <1>1, <1>2, <2>0, <2>3, ThreeLists, RemoveElementEffect DEF PageHeaps, Ended
  <2>4. CASE /\ h.Tail["FullSlabs"] # n /\ h.Head["FullSlabs"] # n
             /\ h.Head["FullSlabs"] # h.Tail["FullSlabs"]
    BY <1>1, <1>2, <2>0, <2>4, ThreeLists, RemoveMiddle DEF PageHeaps, Ended
  <2> QED
    BY <1>2, <2>1, <2>2, <2>3, <2>4 DEF Detachable
<1>6. Holds(Pages, r, "FreeSlabs", V) /\ Holds(Pages, r, "UsedSlabs", U)
  BY <1>1, <1>5, ThreeLists, HoldsFrame
<1> HIDE DEF r
<1>7. g = AddElementToList(r, n, "UsedSlabs")
  BY DEF Relinked, r
<1>8. /\ g \in PageHeaps /\ g.Fault = r.Fault
      /\ Holds(Pages, g, "UsedSlabs", U \cup {n})
      /\ Holds(Pages, g, "FreeSlabs", V)
  BY <1>2, <1>5, <1>6, <1>7, ThreeLists, AppendElsewhere DEF PageHeaps
<1>9. \A m \in SlabLists \ {"UsedSlabs"} : g.Head[m] = r.Head[m] /\ g.Tail[m] = r.Tail[m]
  <2>1. Ended(r, "UsedSlabs")
    BY <1>2, <1>6, EndsAreHeld
  <2> QED
    BY <1>2, <1>5, <1>7, <2>1, ThreeLists, AppendTouches DEF PageHeaps
<1> QED
  BY <1>1, <1>5, <1>8, <1>9, ThreeLists DEF Listed, Ended

(* AddSlabNode appends a new node to FreeSlabs.                            *)
LEMMA NodeBecomesFree ==
    ASSUME NEW h, NEW V, NEW U, NEW Z, Listed(h, V, U, Z),
           NEW n \in Pages \ (V \cup U \cup Z),
           NEW g, g = AddElementToList(SetPrevious(SetNext(h, n, NULL), n, NULL), n, "FreeSlabs")
    PROVE  Listed(g, V \cup {n}, U, Z)
<1> DEFINE r == SetPrevious(SetNext(h, n, NULL), n, NULL)
<1>1. /\ h \in PageHeaps /\ ~h.Fault
      /\ Holds(Pages, h, "FreeSlabs", V) /\ Holds(Pages, h, "UsedSlabs", U)
      /\ Ended(h, "FullSlabs")
      /\ h.Head["FullSlabs"] \in Z \cup {NULL} /\ h.Tail["FullSlabs"] \in Z \cup {NULL}
  BY DEF Listed
<1>2. /\ V \cap U = {} /\ U \cap V = {} /\ NULL \notin Pages
      /\ U \subseteq Pages /\ V \subseteq Pages /\ Z \subseteq Pages
      /\ n \in Pages /\ n # NULL /\ n \notin V /\ n \notin U
  BY DEF Listed
<1>4. /\ r \in PageHeaps /\ r.Fault = h.Fault /\ r.Head = h.Head /\ r.Tail = h.Tail
      /\ r.Next[n] = NULL
      /\ \A x \in Pages \ {n} : r.Next[x] = h.Next[x] /\ r.Previous[x] = h.Previous[x]
  BY <1>1, <1>2 DEF PageHeaps, Heaps, SetPrevious, SetNext
<1>5. Holds(Pages, r, "FreeSlabs", V) /\ Holds(Pages, r, "UsedSlabs", U)
  BY <1>1, <1>2, <1>4, HoldsFrame
<1> HIDE DEF r
<1>6. g = AddElementToList(r, n, "FreeSlabs")
  BY DEF r
<1>7. /\ g \in PageHeaps /\ g.Fault = r.Fault
      /\ Holds(Pages, g, "FreeSlabs", V \cup {n})
      /\ Holds(Pages, g, "UsedSlabs", U)
  BY <1>2, <1>4, <1>5, <1>6, ThreeLists, AppendElsewhere DEF PageHeaps
<1>8. \A m \in SlabLists \ {"FreeSlabs"} : g.Head[m] = r.Head[m] /\ g.Tail[m] = r.Tail[m]
  <2>1. Ended(r, "FreeSlabs")
    BY <1>2, <1>5, EndsAreHeld
  <2> QED
    BY <1>2, <1>4, <1>6, <2>1, ThreeLists, AppendTouches DEF PageHeaps
<1> QED
  BY <1>1, <1>4, <1>7, <1>8, ThreeLists DEF Listed, Ended

-----------------------------------------------------------------------------

(* What a slot can hold, and the slots of a slab.                          *)
Caps == [IsMasked : BOOLEAN, Type : SlotTypes, Object : Nat, Size : Nat,
         AccessRights : SUBSET CAPABILITY_RIGHTS,
         AccessRightsMask : SUBSET CAPABILITY_RIGHTS]

Counters == [Pages -> 0 .. CAPABILITIES_PER_NODE]

SlabStates == [links : PageHeaps,
               FreeElements : Counters,
               Slots : [Pages -> [SlotIndex -> Caps]],
               Spins : BOOLEAN]

AllSlots == Pages \X SlotIndex

View(s) == [x \in AllSlots |-> s.Slots[x[1]][x[2]]]

(* The nodes of N by their counters F: where they are listed.              *)
FreeNodes(N, F) == {n \in N : F[n] = CAPABILITIES_PER_NODE}
FullNodes(N, F) == {n \in N : F[n] = 0}
UsedNodes(N, F) == {n \in N : F[n] # 0 /\ F[n] # CAPABILITIES_PER_NODE}

Recounted(F, n, f) == [F EXCEPT ![n] = f]

(* The slab s with the nodes N: the counter of each node is the number of  *)
(* its free slots and places it, and the other pages count for nothing.    *)
SlabOK(s, N) ==
    /\ s \in SlabStates
    /\ N \in SUBSET Pages
    /\ \A n \in N : s.FreeElements[n] = Cardinality(FreeIndices(s, n))
    /\ \A m \in Pages \ N : s.FreeElements[m] = 0
    /\ Listed(s.links, FreeNodes(N, s.FreeElements), UsedNodes(N, s.FreeElements),
              FullNodes(N, s.FreeElements))
    /\ ~s.Spins

OpenSlots(s, N) == {x \in N \X SlotIndex : View(s)[x].Type = "NULL_CAPABILITY"}

(* One slot, the counter of its node and the links are rewritten.          *)
Rewritten(s, n, i, w, f, g) ==
    [s EXCEPT !.Slots[n][i] = w, !.FreeElements[n] = f, !.links = g]

(* It leaves the slab t.                                                   *)
RewritesOK(s, t, N, n, i, w, G, g) ==
    /\ SlabOK(t, N)
    /\ t.FreeElements = G /\ t.links = g
    /\ View(t) = [View(s) EXCEPT ![<<n, i>>] = w]
    /\ w.Type = "NULL_CAPABILITY" => OpenSlots(t, N) = OpenSlots(s, N) \cup {<<n, i>>}
    /\ w.Type # "NULL_CAPABILITY" => OpenSlots(t, N) = OpenSlots(s, N) \ {<<n, i>>}

(* A nonempty set of indices has a least element.                          *)
LEMMA LeastIndex ==
    ASSUME NEW S \in SUBSET Nat, S # {}
    PROVE  Least(S) \in S
BY LeastElement DEF Least

(* The slots of a node are finitely many.                                  *)
LEMMA SlotCount ==
    /\ CAPABILITIES_PER_NODE \in Nat \ {0, 1}
    /\ SlotIndex \in SUBSET Nat
    /\ IsFiniteSet(SlotIndex)
    /\ Cardinality(SlotIndex) = CAPABILITIES_PER_NODE
BY CapabilitiesAssumption, FS_Interval DEF SlotIndex

(* The free slots of a node are counted by a number in range.              *)
LEMMA FreeCount ==
    ASSUME NEW s, NEW n
    PROVE  /\ FreeIndices(s, n) \in SUBSET SlotIndex
           /\ IsFiniteSet(FreeIndices(s, n))
           /\ Cardinality(FreeIndices(s, n)) \in 0 .. CAPABILITIES_PER_NODE
           /\ Cardinality(FreeIndices(s, n)) = 0 <=> FreeIndices(s, n) = {}
<1>1. FreeIndices(s, n) \in SUBSET SlotIndex
  BY DEF FreeIndices
<1>2. /\ IsFiniteSet(FreeIndices(s, n))
      /\ Cardinality(FreeIndices(s, n)) <= CAPABILITIES_PER_NODE
  BY <1>1, SlotCount, FS_Subset
<1>3. Cardinality(FreeIndices(s, n)) = 0 <=> FreeIndices(s, n) = {}
  BY <1>2, FS_EmptySet
<1> QED
  BY <1>1, <1>2, <1>3, SlotCount, FS_CardinalityType

(* The view determines which slots of a node are free.                     *)
LEMMA FreeInView ==
    ASSUME NEW s, NEW n \in Pages
    PROVE  FreeIndices(s, n) = {i \in SlotIndex : View(s)[<<n, i>>].Type = "NULL_CAPABILITY"}
BY DEF FreeIndices, View, AllSlots

(* What rewriting leaves, as long as the new parts are typed.              *)
WellWritten(s, t, n, i, w, f, g) ==
    /\ t \in SlabStates
    /\ t.links = g
    /\ t.Spins = s.Spins
    /\ t.FreeElements = Recounted(s.FreeElements, n, f)
    /\ View(t) = [View(s) EXCEPT ![<<n, i>>] = w]

(* Rewriting touches one slot and one counter.                             *)
LEMMA RewrittenEffect ==
    ASSUME NEW s \in SlabStates, NEW n \in Pages, NEW i \in SlotIndex, NEW w \in Caps,
           NEW f \in 0 .. CAPABILITIES_PER_NODE, NEW g \in PageHeaps,
           NEW t, t = Rewritten(s, n, i, w, f, g)
    PROVE  WellWritten(s, t, n, i, w, f, g)
<1> DEFINE X == s.Slots
           G == Recounted(s.FreeElements, n, f)
           y == [X[n] EXCEPT ![i] = w]
           Y == [X EXCEPT ![n] = y]
<1>1. /\ s.FreeElements \in Counters
      /\ X \in [Pages -> [SlotIndex -> Caps]]
  BY DEF SlabStates
<1>2. G \in Counters
  BY <1>1 DEF Recounted, Counters
<1>3. t = [s EXCEPT !.Slots = Y, !.FreeElements = G, !.links = g]
  BY DEF Rewritten, Recounted, SlabStates
<1> HIDE DEF X, G
<1>4. y \in [SlotIndex -> Caps] /\ y[i] = w /\ \A j \in SlotIndex \ {i} : y[j] = X[n][j]
  BY <1>1
<1> HIDE DEF y
<1>5. /\ Y \in [Pages -> [SlotIndex -> Caps]]
      /\ \A m \in Pages \ {n} : Y[m] = X[m]
      /\ Y[n] = y
  BY <1>1, <1>4
<1> HIDE DEF Y
<1>6. /\ t \in SlabStates
      /\ t.Slots = Y /\ t.FreeElements = G /\ t.links = g /\ t.Spins = s.Spins
  BY <1>2, <1>3, <1>5 DEF SlabStates
<1>7. ASSUME NEW x \in AllSlots
      PROVE  View(t)[x] = [View(s) EXCEPT ![<<n, i>>] = w][x]
  <2>1. PICK m \in Pages, j \in SlotIndex : x = <<m, j>>
    BY DEF AllSlots
  <2>2. View(t)[x] = Y[m][j] /\ View(s)[x] = X[m][j]
    BY <1>6, <2>1 DEF View, AllSlots, X
  <2>3. Y[m][j] = IF m = n /\ j = i THEN w ELSE X[m][j]
    BY <1>4, <1>5
  <2>4. x = <<n, i>> <=> m = n /\ j = i
    BY <2>1
  <2>5. [View(s) EXCEPT ![<<n, i>>] = w][x] = IF x = <<n, i>> THEN w ELSE View(s)[x]
    BY DEF View, AllSlots
  <2> QED
    BY <2>2, <2>3, <2>4, <2>5
<1>8. View(t) = [View(s) EXCEPT ![<<n, i>>] = w]
  BY <1>7 DEF View
<1> QED
  BY <1>6, <1>8 DEF G, WellWritten

(* A counter that follows its slots, and lists that follow the counter.    *)
LEMMA RewrittenOK ==
    ASSUME NEW s, NEW N, SlabOK(s, N), NEW n \in N, NEW i \in SlotIndex, NEW w \in Caps,
           NEW f \in 0 .. CAPABILITIES_PER_NODE,
           w.Type = "NULL_CAPABILITY" => f = Cardinality(FreeIndices(s, n) \cup {i}),
           w.Type # "NULL_CAPABILITY" => f = Cardinality(FreeIndices(s, n) \ {i}),
           NEW g, NEW t, t = Rewritten(s, n, i, w, f, g),
           NEW G, G = Recounted(s.FreeElements, n, f),
           Listed(g, FreeNodes(N, G), UsedNodes(N, G), FullNodes(N, G))
    PROVE  RewritesOK(s, t, N, n, i, w, G, g)
<1>1. /\ s \in SlabStates /\ N \in SUBSET Pages /\ ~s.Spins
      /\ \A m \in N : s.FreeElements[m] = Cardinality(FreeIndices(s, m))
      /\ \A m \in Pages \ N : s.FreeElements[m] = 0
  BY DEF SlabOK
<1>2. g \in PageHeaps /\ n \in Pages
  BY <1>1 DEF Listed
<1>3. /\ t \in SlabStates /\ t.links = g /\ t.Spins = s.Spins
      /\ t.FreeElements = G
      /\ View(t) = [View(s) EXCEPT ![<<n, i>>] = w]
  <2>1. WellWritten(s, t, n, i, w, f, g)
    BY <1>1, <1>2, RewrittenEffect
  <2> QED
    BY <2>1 DEF WellWritten
<1>4. \A x \in AllSlots : View(t)[x] = IF x = <<n, i>> THEN w ELSE View(s)[x]
  BY <1>3 DEF View
<1>5. \A m \in Pages, j \in SlotIndex :
        View(t)[<<m, j>>] = IF m = n /\ j = i THEN w ELSE View(s)[<<m, j>>]
  <2> SUFFICES ASSUME NEW m \in Pages, NEW j \in SlotIndex
               PROVE  View(t)[<<m, j>>] = IF m = n /\ j = i THEN w ELSE View(s)[<<m, j>>]
    OBVIOUS
  <2>1. <<m, j>> \in AllSlots /\ (<<m, j>> = <<n, i>> <=> m = n /\ j = i)
    BY DEF AllSlots
  <2> QED
    BY <1>4, <2>1
<1>12. \A m \in Pages :
        /\ FreeIndices(t, m) = {j \in SlotIndex : View(t)[<<m, j>>].Type = "NULL_CAPABILITY"}
        /\ FreeIndices(s, m) = {j \in SlotIndex : View(s)[<<m, j>>].Type = "NULL_CAPABILITY"}
  BY FreeInView
<1>6. FreeIndices(t, n) = IF w.Type = "NULL_CAPABILITY" THEN FreeIndices(s, n) \cup {i}
                          ELSE FreeIndices(s, n) \ {i}
  BY <1>2, <1>5, <1>12
<1>7. \A m \in Pages \ {n} : FreeIndices(t, m) = FreeIndices(s, m)
  <2> SUFFICES ASSUME NEW m \in Pages \ {n} PROVE FreeIndices(t, m) = FreeIndices(s, m)
    OBVIOUS
  <2>1. \A j \in SlotIndex : View(t)[<<m, j>>] = View(s)[<<m, j>>]
    BY <1>5
  <2> QED
    <3>1. FreeIndices(t, m) = {j \in SlotIndex : View(t)[<<m, j>>].Type = "NULL_CAPABILITY"}
      BY FreeInView
    <3>2. FreeIndices(s, m) = {j \in SlotIndex : View(s)[<<m, j>>].Type = "NULL_CAPABILITY"}
      BY FreeInView
    <3> QED
      BY <2>1, <3>1, <3>2
<1>8. \A m \in Pages : G[m] = IF m = n THEN f ELSE s.FreeElements[m]
  BY <1>1 DEF Recounted, SlabStates, Counters
<1>9. /\ \A m \in N : t.FreeElements[m] = Cardinality(FreeIndices(t, m))
      /\ \A m \in Pages \ N : t.FreeElements[m] = 0
  BY <1>1, <1>3, <1>6, <1>7, <1>8
<1>10. SlabOK(t, N)
  BY <1>1, <1>3, <1>9 DEF SlabOK
<1>11. OpenSlots(t, N) = IF w.Type = "NULL_CAPABILITY" THEN OpenSlots(s, N) \cup {<<n, i>>}
                         ELSE OpenSlots(s, N) \ {<<n, i>>}
  <2>1. \A x \in N \X SlotIndex : View(t)[x] = IF x = <<n, i>> THEN w ELSE View(s)[x]
    BY <1>1, <1>4 DEF AllSlots
  <2>2. <<n, i>> \in N \X SlotIndex
    OBVIOUS
  <2> QED
    BY <2>1, <2>2 DEF OpenSlots
<1> QED
  BY <1>3, <1>10, <1>11 DEF RewritesOK

-----------------------------------------------------------------------------

(* What an allocation does to FullSlabs and UsedSlabs, by the counter of   *)
(* the node it looks into.                                                 *)
AllocationLinks(h, g, N, F, n) ==
    \/ F[n] = 1 /\ Filled(h, g, FullNodes(N, F), n)
    \/ F[n] # 1 /\ SameFull(h, g, FullNodes(N, F)) /\ g.Head["UsedSlabs"] = n

(* The slot x of s has been allocated and holds w in t.                    *)
Allocates(s, t, N, x, w) ==
    /\ x \in OpenSlots(s, N)
    /\ x[1] = AllocationNode(s)
    /\ SlabOK(t, N)
    /\ View(t) = [View(s) EXCEPT ![x] = w]
    /\ OpenSlots(t, N) = OpenSlots(s, N) \ {x}
    /\ t.FreeElements = Recounted(s.FreeElements, x[1], s.FreeElements[x[1]] - 1)
    /\ AllocationLinks(s.links, t.links, N, s.FreeElements, x[1])

(* The nodes of N fall into the free, the used and the full ones.          *)
Sorted(N, F, V, U, Z) ==
    FreeNodes(N, F) = V /\ UsedNodes(N, F) = U /\ FullNodes(N, F) = Z

(* A node whose counter drops to zero is full.                             *)
LEMMA NodeFills ==
    ASSUME NEW N \in SUBSET Pages, NEW F \in Counters, NEW n \in N,
           NEW G, G = Recounted(F, n, 0), NEW V, NEW U, NEW Z, Sorted(N, F, V, U, Z)
    PROVE  Sorted(N, G, V \ {n}, U \ {n}, Z \cup {n})
<1>1. \A x \in Pages : G[x] = IF x = n THEN 0 ELSE F[x]
  BY DEF Counters, Recounted
<1>2. CAPABILITIES_PER_NODE # 0
  BY CapabilitiesAssumption
<1> QED
  BY <1>1, <1>2 DEF FreeNodes, UsedNodes, FullNodes, Sorted

(* A node whose counter is neither zero nor the capacity is in use.        *)
LEMMA NodeIsUsed ==
    ASSUME NEW N \in SUBSET Pages, NEW F \in Counters, NEW n \in N,
           NEW f, f # 0, f # CAPABILITIES_PER_NODE, NEW G, G = Recounted(F, n, f),
           NEW V, NEW U, NEW Z, Sorted(N, F, V, U, Z)
    PROVE  Sorted(N, G, V \ {n}, U \cup {n}, Z \ {n})
<1>1. \A x \in Pages : G[x] = IF x = n THEN f ELSE F[x]
  BY DEF Counters, Recounted
<1> QED
  BY <1>1 DEF FreeNodes, UsedNodes, FullNodes, Sorted

(* Which of the three a node is among.                                     *)
LEMMA NodeKinds ==
    ASSUME NEW N \in SUBSET Pages, NEW F \in Counters, NEW n \in N,
           NEW V, NEW U, NEW Z, Sorted(N, F, V, U, Z)
    PROVE  /\ n \in V <=> F[n] = CAPABILITIES_PER_NODE
           /\ n \in Z <=> F[n] = 0
           /\ n \in U <=> F[n] # 0 /\ F[n] # CAPABILITIES_PER_NODE
BY DEF FreeNodes, UsedNodes, FullNodes, Sorted

(* As long as a slot is free, allocation finds a node with a free slot, at *)
(* the head of the list its counter calls for.                             *)
LEMMA AllocationNodeIsFree ==
    ASSUME NEW s, NEW N, SlabOK(s, N), OpenSlots(s, N) # {}, NEW n, n = AllocationNode(s)
    PROVE  /\ n \in N /\ n # NULL
           /\ \/ n = s.links.Head["UsedSlabs"] /\ n \in UsedNodes(N, s.FreeElements)
              \/ /\ n = s.links.Head["FreeSlabs"] /\ n \in FreeNodes(N, s.FreeElements)
                 /\ s.links.Head["UsedSlabs"] = NULL
           /\ FreeIndices(s, n) # {}
           /\ s.FreeElements[n] = Cardinality(FreeIndices(s, n))
<1> DEFINE F == s.FreeElements
           h == s.links
           U == UsedNodes(N, F)
           V == FreeNodes(N, F)
<1>1. /\ F \in Counters /\ N \in SUBSET Pages
      /\ \A m \in N : F[m] = Cardinality(FreeIndices(s, m))
      /\ Holds(Pages, h, "UsedSlabs", U) /\ Holds(Pages, h, "FreeSlabs", V)
      /\ NULL \notin Pages
  BY DEF SlabOK, Listed, SlabStates
<1>2. PICK x \in OpenSlots(s, N) : TRUE
  OBVIOUS
<1>3. /\ x[1] \in N /\ x[2] \in SlotIndex /\ x = <<x[1], x[2]>>
      /\ View(s)[<<x[1], x[2]>>].Type = "NULL_CAPABILITY"
  BY <1>2 DEF OpenSlots
<1>4. x[2] \in FreeIndices(s, x[1])
  BY <1>1, <1>3, FreeInView
<1>5. x[1] \in U \cup V
  <2>1. F[x[1]] # 0
    BY <1>1, <1>3, <1>4, FreeCount
  <2>2. F[x[1]] \in 0 .. CAPABILITIES_PER_NODE
    BY <1>1, <1>3 DEF Counters
  <2> QED
    BY <1>3, <2>1, <2>2 DEF UsedNodes, FreeNodes
<1>6. /\ U \subseteq N /\ V \subseteq N
      /\ \A m \in U \cup V : F[m] # 0
  BY CapabilitiesAssumption DEF UsedNodes, FreeNodes
<1> HIDE DEF U, V
<1>7. /\ h.Head["UsedSlabs"] = NULL <=> U = {}
      /\ h.Head["UsedSlabs"] # NULL => h.Head["UsedSlabs"] \in U
      /\ h.Head["FreeSlabs"] = NULL <=> V = {}
      /\ h.Head["FreeSlabs"] # NULL => h.Head["FreeSlabs"] \in V
  <2>1. /\ h.Head["UsedSlabs"] = NULL <=> U = {}
        /\ h.Head["UsedSlabs"] # NULL => h.Head["UsedSlabs"] \in U
    BY <1>1, EndsAreHeld
  <2>2. /\ h.Head["FreeSlabs"] = NULL <=> V = {}
        /\ h.Head["FreeSlabs"] # NULL => h.Head["FreeSlabs"] \in V
    BY <1>1, EndsAreHeld
  <2> QED
    BY <2>1, <2>2
<1>8. \/ n = h.Head["UsedSlabs"] /\ n \in U
      \/ n = h.Head["FreeSlabs"] /\ n \in V /\ h.Head["UsedSlabs"] = NULL
  BY <1>5, <1>7 DEF AllocationNode
<1>9. n \in N /\ n # NULL /\ F[n] # 0
  BY <1>1, <1>6, <1>8
<1>10. FreeIndices(s, n) # {} /\ F[n] = Cardinality(FreeIndices(s, n))
  BY <1>1, <1>9, FreeCount
<1> QED
  BY <1>8, <1>9, <1>10 DEF U, V

(* AllocateSlabSlot once its caller has filled the slot.                   *)
LEMMA AllocationIsRewriting ==
    ASSUME NEW s, NEW N, SlabOK(s, N), OpenSlots(s, N) # {}, NEW w,
           NEW r, r = AllocateSlabSlot(s),
           NEW n, n = AllocationNode(s), NEW i, i = Least(FreeIndices(s, n)),
           NEW f, f = s.FreeElements[n],
           NEW g, g = IF f = CAPABILITIES_PER_NODE
                      THEN Relinked(s.links, n, "FreeSlabs", "UsedSlabs")
                      ELSE IF f = 1 THEN Relinked(s.links, n, "UsedSlabs", "FullSlabs")
                      ELSE s.links
    PROVE  /\ r.slot = <<n, i>>
           /\ [r.slab EXCEPT !.Slots[n][i] = w] = Rewritten(s, n, i, w, f - 1, g)
<1>1. n # NULL /\ FreeIndices(s, n) # {} /\ n \in Pages /\ s \in SlabStates
  BY AllocationNodeIsFree DEF SlabOK
<1>2. i \in SlotIndex
  BY <1>1, FreeCount, SlotCount, LeastIndex
<1> DEFINE reserved == [s EXCEPT !.Slots[n][i].Type = "RESERVED_SLOT"]
           moved == IF f = CAPABILITIES_PER_NODE
                    THEN MoveNode(reserved, n, "FreeSlabs", "UsedSlabs")
                    ELSE IF f = 1
                    THEN MoveNode(reserved, n, "UsedSlabs", "FullSlabs")
                    ELSE reserved
<1>3. r = [slab |-> [moved EXCEPT !.FreeElements[n] = @ - 1], slot |-> <<n, i>>]
  BY <1>1 DEF AllocateSlabSlot
<1>4. moved = [s EXCEPT !.Slots[n][i].Type = "RESERVED_SLOT", !.links = g]
  BY <1>1 DEF MoveNode, Relinked, SlabStates
<1> HIDE DEF moved
<1>5. r.slot = <<n, i>> /\ r.slab = [moved EXCEPT !.FreeElements[n] = @ - 1]
  BY <1>3
<1> DEFINE c == [s.Slots[n] EXCEPT ![i] = [s.Slots[n][i] EXCEPT !.Type = "RESERVED_SLOT"]]
           Y == [s.Slots EXCEPT ![n] = c]
           G == [s.FreeElements EXCEPT ![n] = f - 1]
           X == [s.Slots EXCEPT ![n] = [s.Slots[n] EXCEPT ![i] = w]]
<1>6. /\ s.Slots \in [Pages -> [SlotIndex -> Caps]] /\ s.FreeElements \in Counters
      /\ s = [links |-> s.links, FreeElements |-> s.FreeElements, Slots |-> s.Slots, Spins |-> s.Spins]
  BY <1>1 DEF SlabStates
<1>7. moved = [links |-> g, FreeElements |-> s.FreeElements, Slots |-> Y, Spins |-> s.Spins]
  BY <1>4, <1>6
<1>8. r.slab = [links |-> g, FreeElements |-> G, Slots |-> Y, Spins |-> s.Spins]
  BY <1>5, <1>7
<1>9. [Y EXCEPT ![n][i] = w] = X
  <2>1. Y[n] = c /\ [c EXCEPT ![i] = w] = [s.Slots[n] EXCEPT ![i] = w]
    BY <1>1, <1>2, <1>6
  <2> HIDE DEF c
  <2> QED
    BY <1>1, <1>6, <2>1
<1> HIDE DEF Y, X, G
<1>10. [r.slab EXCEPT !.Slots[n][i] = w]
         = [links |-> g, FreeElements |-> G, Slots |-> X, Spins |-> s.Spins]
  BY <1>8, <1>9
<1>11. Rewritten(s, n, i, w, f - 1, g)
         = [links |-> g, FreeElements |-> G, Slots |-> X, Spins |-> s.Spins]
  <2>1. Rewritten(s, n, i, w, f - 1, g) = [s EXCEPT !.Slots = X, !.FreeElements = G, !.links = g]
    BY DEF Rewritten, X, G
  <2> QED
    BY <1>1, <2>1 DEF SlabStates
<1> QED
  BY <1>5, <1>10, <1>11

(* The lists follow the counter of the node allocated from.                *)
LEMMA AllocationKeepsLists ==
    ASSUME NEW s, NEW N, SlabOK(s, N), OpenSlots(s, N) # {},
           NEW n, n = AllocationNode(s), NEW f, f = s.FreeElements[n],
           NEW g, g = IF f = CAPABILITIES_PER_NODE
                      THEN Relinked(s.links, n, "FreeSlabs", "UsedSlabs")
                      ELSE IF f = 1 THEN Relinked(s.links, n, "UsedSlabs", "FullSlabs")
                      ELSE s.links,
           NEW G, G = Recounted(s.FreeElements, n, f - 1)
    PROVE  /\ Listed(g, FreeNodes(N, G), UsedNodes(N, G), FullNodes(N, G))
           /\ AllocationLinks(s.links, g, N, s.FreeElements, n)
<1>1. PICK F, h, V, U, Z : /\ F = s.FreeElements /\ h = s.links
                           /\ V = FreeNodes(N, F) /\ U = UsedNodes(N, F) /\ Z = FullNodes(N, F)
  OBVIOUS
<1>2. /\ F \in Counters /\ N \in SUBSET Pages /\ Listed(h, V, U, Z) /\ Sorted(N, F, V, U, Z)
  BY <1>1 DEF SlabOK, SlabStates, Sorted
<1>3. /\ n \in N
      /\ \/ n = h.Head["UsedSlabs"] /\ n \in U
         \/ n = h.Head["FreeSlabs"] /\ n \in V /\ h.Head["UsedSlabs"] = NULL
  BY <1>1, AllocationNodeIsFree
<1>4. /\ f = F[n] /\ f \in 0 .. CAPABILITIES_PER_NODE
      /\ n \in V <=> f = CAPABILITIES_PER_NODE
      /\ n \in Z <=> f = 0
      /\ n \in U <=> f # 0 /\ f # CAPABILITIES_PER_NODE
  BY <1>1, <1>2, <1>3, NodeKinds DEF Counters
<1>5. CAPABILITIES_PER_NODE \in Nat \ {0, 1}
  BY CapabilitiesAssumption
<1>6. PICK q : q = f - 1
  OBVIOUS
<1>7. G = Recounted(F, n, q) /\ Z = FullNodes(N, F)
  BY <1>1, <1>6
<1>8. CASE n = h.Head["FreeSlabs"] /\ n \in V /\ h.Head["UsedSlabs"] = NULL
  <2>1. f = CAPABILITIES_PER_NODE /\ f # 1 /\ q # 0 /\ q # CAPABILITIES_PER_NODE /\ n \notin Z
    BY <1>4, <1>5, <1>6, <1>8
  <2>2. Sorted(N, G, V \ {n}, U \cup {n}, Z \ {n})
    BY <1>2, <1>3, <1>7, <2>1, NodeIsUsed
  <2>3. Z \ {n} = Z
    BY <2>1
  <2>4. g = Relinked(h, n, "FreeSlabs", "UsedSlabs")
    BY <1>1, <2>1
  <2>5. Listed(g, V \ {n}, U \cup {n}, Z) /\ SameFull(h, g, Z) /\ g.Head["UsedSlabs"] = n
    BY <1>2, <1>8, <2>4, FreeBecomesUsed
  <2>6. Listed(g, FreeNodes(N, G), UsedNodes(N, G), FullNodes(N, G))
    BY <2>2, <2>3, <2>5 DEF Sorted
  <2> QED
    BY <1>1, <1>4, <1>7, <2>1, <2>5, <2>6 DEF AllocationLinks
<1>9. CASE n = h.Head["UsedSlabs"] /\ n \in U /\ f = 1
  <2>1. f # CAPABILITIES_PER_NODE /\ q = 0 /\ n \notin V
    BY <1>4, <1>5, <1>6, <1>9
  <2>2. Sorted(N, G, V \ {n}, U \ {n}, Z \cup {n})
    BY <1>2, <1>3, <1>7, <2>1, NodeFills
  <2>3. V \ {n} = V
    BY <2>1
  <2>4. g = Relinked(h, n, "UsedSlabs", "FullSlabs")
    BY <1>1, <1>9, <2>1
  <2>5. Listed(g, V, U \ {n}, Z \cup {n}) /\ Filled(h, g, Z, n)
    BY <1>2, <1>9, <2>4, UsedBecomesFull
  <2>6. Listed(g, FreeNodes(N, G), UsedNodes(N, G), FullNodes(N, G))
    BY <2>2, <2>3, <2>5 DEF Sorted
  <2> QED
    BY <1>1, <1>4, <1>7, <1>9, <2>5, <2>6 DEF AllocationLinks
<1>10. CASE n = h.Head["UsedSlabs"] /\ n \in U /\ f # 1
  <2>1. /\ f # CAPABILITIES_PER_NODE /\ q # 0 /\ q # CAPABILITIES_PER_NODE
        /\ n \notin V /\ n \notin Z
    BY <1>4, <1>5, <1>6, <1>10
  <2>2. Sorted(N, G, V \ {n}, U \cup {n}, Z \ {n})
    BY <1>2, <1>3, <1>7, <2>1, NodeIsUsed
  <2>3. V \ {n} = V /\ U \cup {n} = U /\ Z \ {n} = Z
    BY <1>10, <2>1
  <2>4. g = h
    BY <1>1, <1>10, <2>1
  <2>5. Listed(g, FreeNodes(N, G), UsedNodes(N, G), FullNodes(N, G))
    BY <1>2, <2>2, <2>3, <2>4 DEF Sorted
  <2> QED
    BY <1>1, <1>4, <1>10, <2>4, <2>5 DEF AllocationLinks, SameFull
<1> QED
  BY <1>3, <1>8, <1>9, <1>10

(* AllocateSlabSlot finds a slot as long as there is one.                  *)
LEMMA AllocateOK ==
    ASSUME NEW s, NEW N, SlabOK(s, N), OpenSlots(s, N) # {},
           NEW w \in Caps, w.Type # "NULL_CAPABILITY",
           NEW r, r = AllocateSlabSlot(s), NEW x, x = r.slot,
           NEW t, t = [r.slab EXCEPT !.Slots[x[1]][x[2]] = w]
    PROVE  x # NULL /\ x \in AllSlots /\ Allocates(s, t, N, x, w)
<1> DEFINE n == AllocationNode(s)
           i == Least(FreeIndices(s, n))
           f == s.FreeElements[n]
           g == IF f = CAPABILITIES_PER_NODE
                THEN Relinked(s.links, n, "FreeSlabs", "UsedSlabs")
                ELSE IF f = 1 THEN Relinked(s.links, n, "UsedSlabs", "FullSlabs")
                ELSE s.links
           G == Recounted(s.FreeElements, n, f - 1)
<1>1. n \in N /\ FreeIndices(s, n) # {} /\ f = Cardinality(FreeIndices(s, n))
  BY AllocationNodeIsFree
<1>2. i \in FreeIndices(s, n)
  BY <1>1, FreeCount, SlotCount, LeastIndex
<1>3. x = <<n, i>> /\ t = Rewritten(s, n, i, w, f - 1, g)
  <2>1. /\ r.slot = <<n, i>>
        /\ [r.slab EXCEPT !.Slots[n][i] = w] = Rewritten(s, n, i, w, f - 1, g)
    BY AllocationIsRewriting
  <2> QED
    BY <2>1
<1>4. /\ Listed(g, FreeNodes(N, G), UsedNodes(N, G), FullNodes(N, G))
      /\ AllocationLinks(s.links, g, N, s.FreeElements, n)
  BY AllocationKeepsLists
<1>5. s \in SlabStates /\ N \in SUBSET Pages /\ s.FreeElements \in Counters
  BY DEF SlabOK, SlabStates
<1>6. f \in 1 .. CAPABILITIES_PER_NODE /\ i \in SlotIndex
  BY <1>1, <1>2, FreeCount, SlotCount
<1> HIDE DEF g, G, i, n
<1>7. f - 1 \in 0 .. CAPABILITIES_PER_NODE /\ f - 1 = Cardinality(FreeIndices(s, n) \ {i})
  <2>1. IsFiniteSet(FreeIndices(s, n))
    BY FreeCount
  <2>2. Cardinality(FreeIndices(s, n) \ {i}) = Cardinality(FreeIndices(s, n)) - 1
    BY <1>2, <2>1, FS_RemoveElement
  <2> QED
    BY <1>1, <1>6, <2>2, SlotCount
<1> HIDE DEF f
<1>8. PICK q : q = f - 1
  OBVIOUS
<1>9. /\ SlabOK(t, N)
      /\ t.FreeElements = G /\ t.links = g
      /\ View(t) = [View(s) EXCEPT ![<<n, i>>] = w]
      /\ OpenSlots(t, N) = OpenSlots(s, N) \ {<<n, i>>}
  <2>1. G = Recounted(s.FreeElements, n, q)
    BY <1>8 DEF G
  <2>2. q \in 0 .. CAPABILITIES_PER_NODE /\ q = Cardinality(FreeIndices(s, n) \ {i})
    BY <1>7, <1>8
  <2>3. t = Rewritten(s, n, i, w, q, g)
    BY <1>3, <1>8
  <2> QED
    <3>1. RewritesOK(s, t, N, n, i, w, G, g)
      BY <1>1, <1>4, <1>6, <2>1, <2>2, <2>3, RewrittenOK
    <3> QED
      BY <3>1 DEF RewritesOK
<1>11. <<n, i>> \in OpenSlots(s, N) /\ <<n, i>> \in AllSlots /\ <<n, i>> # NULL
  <2>1. <<n, i>> \in N \X SlotIndex /\ <<n, i>> \in AllSlots
    BY <1>1, <1>5, <1>6 DEF AllSlots
  <2>2. View(s)[<<n, i>>].Type = "NULL_CAPABILITY"
    BY <1>1, <1>2, <1>5, FreeInView
  <2> QED
    BY <2>1, <2>2, NullAssumption DEF OpenSlots, AllSlots
<1>12. x[1] = n
  BY <1>3
<1> QED
  BY <1>3, <1>4, <1>9, <1>11, <1>12 DEF Allocates, n, G, f

-----------------------------------------------------------------------------

(* A slot of node n can be freed: the node is on UsedSlabs and stays       *)
(* there, or it is full and can be taken off FullSlabs.                    *)
Freeable(s, N, n) ==
    /\ s.FreeElements[n] + 1 # CAPABILITIES_PER_NODE
    /\ Detachable(s.links, FullNodes(N, s.FreeElements), n)

(* The slot x of s has been freed in t.                                    *)
Frees(s, t, N, x) ==
    /\ SlabOK(t, N)
    /\ View(t) = [View(s) EXCEPT ![x].Type = "NULL_CAPABILITY"]
    /\ OpenSlots(t, N) = OpenSlots(s, N) \cup {x}

(* The page n has joined the nodes N of s in t.                            *)
Joins(s, t, N, n) ==
    /\ SlabOK(t, N \cup {n})
    /\ \A x \in AllSlots : View(t)[x] =
          IF x[1] = n THEN [View(s)[x] EXCEPT !.IsMasked = FALSE, !.Type = "NULL_CAPABILITY"]
          ELSE View(s)[x]
    /\ OpenSlots(t, N \cup {n}) = OpenSlots(s, N) \cup ({n} \X SlotIndex)

(* The view of a typed slab.                                               *)
LEMMA ViewType ==
    ASSUME NEW s \in SlabStates
    PROVE  View(s) \in [AllSlots -> Caps]
<1>1. \A x \in AllSlots : s.Slots[x[1]][x[2]] \in Caps
  BY DEF SlabStates, AllSlots
<1> QED
  BY <1>1 DEF View

(* FreeSlabSlot.                                                           *)
LEMMA FreeOK ==
    ASSUME NEW s, NEW N, SlabOK(s, N), NEW x \in N \X SlotIndex, x \notin OpenSlots(s, N),
           Freeable(s, N, x[1]), NEW t, t = FreeSlabSlot(s, x)
    PROVE  Frees(s, t, N, x)
<1>1. PICK n \in N, i \in SlotIndex : x = <<n, i>> /\ x[1] = n /\ x[2] = i
  OBVIOUS
<1>2. PICK F, h, V, U, Z : /\ F = s.FreeElements /\ h = s.links
                           /\ V = FreeNodes(N, F) /\ U = UsedNodes(N, F) /\ Z = FullNodes(N, F)
  OBVIOUS
<1>3. /\ F \in Counters /\ N \in SUBSET Pages /\ Listed(h, V, U, Z) /\ Sorted(N, F, V, U, Z)
      /\ s \in SlabStates /\ n \in Pages /\ F[n] = Cardinality(FreeIndices(s, n))
  BY <1>2 DEF SlabOK, SlabStates, Sorted
<1>4. F[n] + 1 # CAPABILITIES_PER_NODE /\ Detachable(h, Z, n)
  BY <1>1, <1>2 DEF Freeable
<1>5. i \notin FreeIndices(s, n)
  BY <1>1, <1>3, FreeInView DEF OpenSlots
<1>6. PICK f : f = F[n] + 1
  OBVIOUS
<1>7. /\ f \in 1 .. CAPABILITIES_PER_NODE /\ F[n] \in 0 .. CAPABILITIES_PER_NODE
      /\ f = Cardinality(FreeIndices(s, n) \cup {i})
  <2> DEFINE I == FreeIndices(s, n)
  <2>1. IsFiniteSet(I) /\ I \in SUBSET SlotIndex /\ i \notin I
    BY <1>5, FreeCount
  <2>2. Cardinality(I \cup {i}) = Cardinality(I) + 1
    BY <2>1, FS_AddElement
  <2>3. Cardinality(I \cup {i}) <= Cardinality(SlotIndex)
    BY <2>1, SlotCount, FS_Subset
  <2>4. F[n] \in 0 .. CAPABILITIES_PER_NODE
    BY <1>3 DEF Counters
  <2> QED
    BY <1>3, <1>6, <2>2, <2>3, <2>4, SlotCount
<1>8. PICK w : w = [s.Slots[n][i] EXCEPT !.Type = "NULL_CAPABILITY"]
  OBVIOUS
<1>9. w \in Caps /\ w.Type = "NULL_CAPABILITY" /\ [View(s) EXCEPT ![x].Type = "NULL_CAPABILITY"] = [View(s) EXCEPT ![x] = w]
  <2>1. s.Slots[n][i] \in Caps /\ x \in AllSlots /\ View(s)[x] = s.Slots[n][i]
    BY <1>1, <1>3 DEF SlabStates, View, AllSlots
  <2>2. w \in Caps /\ w.Type = "NULL_CAPABILITY"
    BY <1>8, <2>1 DEF Caps, SlotTypes
  <2> QED
    BY <1>8, <2>1, <2>2
<1>10. PICK g : g = IF F[n] = 0 THEN Relinked(h, n, "FullSlabs", "UsedSlabs") ELSE h
  OBVIOUS
<1>11. t = Rewritten(s, n, i, w, f, g)
  <2> DEFINE freed == [s EXCEPT !.Slots[n][i].Type = "NULL_CAPABILITY",
                                !.FreeElements[n] = @ + 1]
             X == [s.Slots EXCEPT ![n] = [s.Slots[n] EXCEPT ![i] = w]]
             G == [F EXCEPT ![n] = f]
  <2>1. freed = [s EXCEPT !.Slots = X, !.FreeElements = G]
    BY <1>2, <1>3, <1>6, <1>8 DEF SlabStates
  <2>2. Rewritten(s, n, i, w, f, g) = [s EXCEPT !.Slots = X, !.FreeElements = G, !.links = g]
    BY <1>2 DEF Rewritten
  <2> HIDE DEF X
  <2>3. freed.FreeElements[n] = f /\ freed.links = h
    BY <1>2, <1>3, <2>1 DEF SlabStates, Counters
  <2>4. t = IF freed.FreeElements[n] = CAPABILITIES_PER_NODE
            THEN MoveNode(freed, n, "UsedSlabs", "FreeSlabs")
            ELSE IF freed.FreeElements[n] = 1
            THEN MoveNode(freed, n, "FullSlabs", "UsedSlabs")
            ELSE freed
    BY <1>1 DEF FreeSlabSlot
  <2> HIDE DEF freed, G
  <2>5. f # CAPABILITIES_PER_NODE /\ (f = 1 <=> F[n] = 0)
    BY <1>4, <1>6, <1>7
  <2>6. t = [freed EXCEPT !.links = g]
    <3>1. CASE F[n] = 0
      BY <1>10, <2>3, <2>4, <2>5, <3>1 DEF MoveNode, Relinked
    <3>2. CASE F[n] # 0
      <4>1. t = freed /\ g = h
        BY <1>10, <2>3, <2>4, <2>5, <3>2
      <4>2. freed = [freed EXCEPT !.links = h]
        BY <1>2, <1>3, <2>1 DEF SlabStates
      <4> QED
        BY <4>1, <4>2
    <3> QED
      BY <3>1, <3>2
  <2> QED
    BY <1>3, <2>1, <2>2, <2>6 DEF SlabStates
<1>12. PICK G : G = Recounted(F, n, f)
  OBVIOUS
<1>13. Listed(g, FreeNodes(N, G), UsedNodes(N, G), FullNodes(N, G))
  <2>1. f # 0 /\ f # CAPABILITIES_PER_NODE
    BY <1>4, <1>6, <1>7
  <2>2. Sorted(N, G, V \ {n}, U \cup {n}, Z \ {n})
    BY <1>3, <1>12, <2>1, NodeIsUsed
  <2>3. /\ n \in V <=> F[n] = CAPABILITIES_PER_NODE
        /\ n \in Z <=> F[n] = 0
        /\ n \in U <=> F[n] # 0 /\ F[n] # CAPABILITIES_PER_NODE
    BY <1>3, NodeKinds
  <2>4. n \notin V /\ CAPABILITIES_PER_NODE # 0
    BY <1>6, <1>7, <2>3, CapabilitiesAssumption
  <2>5. V \ {n} = V
    BY <2>4
  <2>6. CASE F[n] = 0
    <3>1. n \in Z /\ g = Relinked(h, n, "FullSlabs", "UsedSlabs")
      BY <1>10, <2>3, <2>6
    <3>2. Listed(g, V, U \cup {n}, Z \ {n})
      BY <1>3, <1>4, <3>1, FullBecomesUsed
    <3> QED
      BY <2>2, <2>5, <3>2 DEF Sorted
  <2>7. CASE F[n] # 0
    <3>1. n \in U /\ n \notin Z
      BY <2>3, <2>4, <2>7
    <3>2. U \cup {n} = U /\ Z \ {n} = Z
      BY <3>1
    <3> QED
      BY <1>3, <1>10, <2>2, <2>5, <2>7, <3>2 DEF Sorted
  <2> QED
    BY <2>6, <2>7
<1>14. RewritesOK(s, t, N, n, i, w, G, g)
  <2>1. f \in 0 .. CAPABILITIES_PER_NODE
    BY <1>7
  <2>2. G = Recounted(s.FreeElements, n, f)
    BY <1>2, <1>12
  <2> QED
    BY <1>7, <1>9, <1>11, <1>13, <2>1, <2>2, RewrittenOK
<1> QED
  BY <1>1, <1>9, <1>14 DEF RewritesOK, Frees

(* AddSlabNode, for a page that is no node yet.                            *)
LEMMA JoinOK ==
    ASSUME NEW s, NEW N, SlabOK(s, N), NEW n \in Pages \ N, NEW t, t = AddSlabNode(s, n)
    PROVE  Joins(s, t, N, n)
<1>1. /\ s \in SlabStates /\ N \in SUBSET Pages /\ ~s.Spins
      /\ s.links \in PageHeaps /\ s.FreeElements \in Counters
      /\ s.Slots \in [Pages -> [SlotIndex -> Caps]]
      /\ \A m \in N : s.FreeElements[m] = Cardinality(FreeIndices(s, m))
      /\ \A m \in Pages \ N : s.FreeElements[m] = 0
  BY DEF SlabOK, SlabStates
<1>2. PICK g : g = AddElementToList(SetPrevious(SetNext(s.links, n, NULL), n, NULL), n, "FreeSlabs")
  OBVIOUS
<1>3. PICK G : G = Recounted(s.FreeElements, n, CAPABILITIES_PER_NODE)
  OBVIOUS
<1>4. \A m \in Pages : G[m] = IF m = n THEN CAPABILITIES_PER_NODE ELSE s.FreeElements[m]
  BY <1>1, <1>3 DEF Recounted, Counters
<1>5. PICK fresh : fresh = [i \in SlotIndex |->
               [s.Slots[n][i] EXCEPT !.IsMasked = FALSE, !.Type = "NULL_CAPABILITY"]]
  OBVIOUS
<1>6. /\ fresh \in [SlotIndex -> Caps]
      /\ \A i \in SlotIndex : fresh[i].Type = "NULL_CAPABILITY"
  <2>1. ASSUME NEW i \in SlotIndex
        PROVE  /\ [s.Slots[n][i] EXCEPT !.IsMasked = FALSE, !.Type = "NULL_CAPABILITY"] \in Caps
               /\ fresh[i].Type = "NULL_CAPABILITY"
    <3>1. s.Slots[n][i] \in Caps
      BY <1>1
    <3> QED
      BY <1>5, <3>1 DEF Caps, SlotTypes
  <2> QED
    BY <1>5, <2>1
<1>7. PICK X : X = [s.Slots EXCEPT ![n] = fresh]
  OBVIOUS
<1>8. /\ X \in [Pages -> [SlotIndex -> Caps]] /\ X[n] = fresh
      /\ \A m \in Pages \ {n} : X[m] = s.Slots[m]
  BY <1>1, <1>6, <1>7
<1>9. Listed(g, FreeNodes(N \cup {n}, G), UsedNodes(N \cup {n}, G), FullNodes(N \cup {n}, G))
  <2> DEFINE F == s.FreeElements
  <2>1. PICK V, U, Z : V = FreeNodes(N, F) /\ U = UsedNodes(N, F) /\ Z = FullNodes(N, F)
    OBVIOUS
  <2>2. Listed(s.links, V, U, Z)
    BY <2>1 DEF SlabOK
  <2>3. n \in Pages \ (V \cup U \cup Z)
    BY <2>1 DEF FreeNodes, UsedNodes, FullNodes
  <2>4. Listed(g, V \cup {n}, U, Z)
    BY <1>2, <2>2, <2>3, NodeBecomesFree
  <2>5. /\ FreeNodes(N \cup {n}, G) = V \cup {n}
        /\ UsedNodes(N \cup {n}, G) = U
        /\ FullNodes(N \cup {n}, G) = Z
    <3>1. \A m \in N : m \in Pages /\ m # n
      BY <1>1
    <3> QED
      BY <1>1, <1>4, <2>1, <3>1, CapabilitiesAssumption DEF FreeNodes, UsedNodes, FullNodes
  <2> QED
    BY <2>4, <2>5
<1>10. /\ t \in SlabStates
       /\ t.links = g /\ t.FreeElements = G /\ t.Slots = X /\ t.Spins = s.Spins
  <2>1. t = [s EXCEPT !.links = g, !.FreeElements = G, !.Slots = X]
    <3>1. t = [s EXCEPT !.links = g, !.FreeElements[n] = CAPABILITIES_PER_NODE, !.Slots[n] = fresh]
      BY <1>2, <1>5 DEF AddSlabNode
    <3> QED
      BY <1>3, <1>7, <3>1 DEF Recounted
  <2>2. G \in Counters
    BY <1>1, <1>3, SlotCount DEF Recounted, Counters
  <2>3. g \in PageHeaps
    BY <1>9 DEF Listed
  <2> QED
    BY <1>1, <1>8, <2>1, <2>2, <2>3 DEF SlabStates
<1>11. \A x \in AllSlots : View(t)[x] =
          IF x[1] = n THEN [View(s)[x] EXCEPT !.IsMasked = FALSE, !.Type = "NULL_CAPABILITY"]
          ELSE View(s)[x]
  <2> SUFFICES ASSUME NEW x \in AllSlots
               PROVE  View(t)[x] =
                  IF x[1] = n THEN [View(s)[x] EXCEPT !.IsMasked = FALSE, !.Type = "NULL_CAPABILITY"]
                  ELSE View(s)[x]
    OBVIOUS
  <2>1. x[1] \in Pages /\ x[2] \in SlotIndex
    BY DEF AllSlots
  <2>2. View(t)[x] = X[x[1]][x[2]] /\ View(s)[x] = s.Slots[x[1]][x[2]]
    BY <1>10 DEF View
  <2>3. CASE x[1] = n
    <3>1. /\ View(t)[x] = fresh[x[2]]
          /\ [View(s)[x] EXCEPT !.IsMasked = FALSE, !.Type = "NULL_CAPABILITY"]
               = [s.Slots[n][x[2]] EXCEPT !.IsMasked = FALSE, !.Type = "NULL_CAPABILITY"]
      BY <1>8, <2>2, <2>3
    <3> QED
      BY <1>5, <2>1, <2>3, <3>1
  <2>4. CASE x[1] # n
    BY <1>8, <2>1, <2>2, <2>4
  <2> QED
    BY <2>3, <2>4
<1>12. \A x \in AllSlots : x[1] = n => View(t)[x].Type = "NULL_CAPABILITY"
  BY <1>6, <1>8, <1>10 DEF View, AllSlots
<1>13. ASSUME NEW m \in N \cup {n}
       PROVE  t.FreeElements[m] = Cardinality(FreeIndices(t, m))
  <2>1. CASE m = n
    <3>1. FreeIndices(t, n) = SlotIndex
      BY <1>6, <1>8, <1>10 DEF FreeIndices
    <3> QED
      BY <1>4, <1>10, <2>1, <3>1, SlotCount
  <2>2. CASE m # n
    <3>1. FreeIndices(t, m) = FreeIndices(s, m)
      BY <1>1, <1>8, <1>10, <2>2 DEF FreeIndices
    <3> QED
      BY <1>1, <1>4, <1>10, <2>2, <3>1
  <2> QED
    BY <2>1, <2>2
<1>14. SlabOK(t, N \cup {n})
  <2>1. \A m \in Pages \ (N \cup {n}) : t.FreeElements[m] = 0
    BY <1>1, <1>4, <1>10
  <2> QED
    BY <1>1, <1>9, <1>10, <1>13, <2>1 DEF SlabOK
<1>15. OpenSlots(t, N \cup {n}) = OpenSlots(s, N) \cup ({n} \X SlotIndex)
  <2>1. \A x \in N \X SlotIndex : x \in AllSlots /\ x[1] # n /\ View(t)[x] = View(s)[x]
    BY <1>1, <1>11 DEF AllSlots
  <2>2. \A x \in {n} \X SlotIndex : View(t)[x].Type = "NULL_CAPABILITY"
    BY <1>12 DEF AllSlots
  <2> QED
    BY <2>1, <2>2 DEF OpenSlots
<1> QED
  BY <1>11, <1>14, <1>15 DEF Joins

-----------------------------------------------------------------------------

(* The slot x of s has been overwritten with w in t.                       *)
Overwrites(s, t, N, x, w) ==
    /\ SlabOK(t, N)
    /\ View(t) = [View(s) EXCEPT ![x] = w]
    /\ OpenSlots(t, N) = OpenSlots(s, N)
    /\ t.links = s.links /\ t.FreeElements = s.FreeElements

(* A slot is overwritten without becoming free or taken.                   *)
LEMMA OverwriteOK ==
    ASSUME NEW s, NEW N, SlabOK(s, N), NEW x \in AllSlots, NEW w \in Caps,
           w.Type = "NULL_CAPABILITY" <=> View(s)[x].Type = "NULL_CAPABILITY",
           NEW t, t = [s EXCEPT !.Slots[x[1]][x[2]] = w]
    PROVE  Overwrites(s, t, N, x, w)
<1>1. PICK n \in Pages, i \in SlotIndex : x = <<n, i>> /\ x[1] = n /\ x[2] = i
  BY DEF AllSlots
<1>2. /\ s \in SlabStates /\ N \in SUBSET Pages /\ ~s.Spins
      /\ s.links \in PageHeaps /\ s.FreeElements \in Counters
      /\ \A m \in N : s.FreeElements[m] = Cardinality(FreeIndices(s, m))
      /\ \A m \in Pages \ N : s.FreeElements[m] = 0
  BY DEF SlabOK, SlabStates
<1>3. PICK f : f = s.FreeElements[n] /\ f \in 0 .. CAPABILITIES_PER_NODE
  BY <1>2 DEF Counters
<1>4. t = Rewritten(s, n, i, w, f, s.links)
  <2> DEFINE X == [s.Slots EXCEPT ![n] = [s.Slots[n] EXCEPT ![i] = w]]
  <2>1. t = [s EXCEPT !.Slots = X]
    BY <1>1
  <2>2. Rewritten(s, n, i, w, f, s.links)
          = [s EXCEPT !.Slots = X, !.FreeElements = [s.FreeElements EXCEPT ![n] = f], !.links = s.links]
    BY DEF Rewritten
  <2> HIDE DEF X
  <2>3. [s.FreeElements EXCEPT ![n] = f] = s.FreeElements
    BY <1>2, <1>3 DEF Counters
  <2> QED
    <3>1. t = [links |-> s.links, FreeElements |-> s.FreeElements, Slots |-> X, Spins |-> s.Spins]
      BY <1>2, <2>1 DEF SlabStates
    <3>2. Rewritten(s, n, i, w, f, s.links)
            = [links |-> s.links, FreeElements |-> s.FreeElements, Slots |-> X, Spins |-> s.Spins]
      BY <1>2, <2>2, <2>3 DEF SlabStates
    <3> QED
      BY <3>1, <3>2
<1>5. /\ t \in SlabStates /\ t.links = s.links /\ t.Spins = s.Spins
      /\ t.FreeElements = Recounted(s.FreeElements, n, f)
      /\ View(t) = [View(s) EXCEPT ![x] = w]
  <2>1. /\ t \in SlabStates /\ t.links = s.links /\ t.Spins = s.Spins
        /\ t.FreeElements = Recounted(s.FreeElements, n, f)
        /\ View(t) = [View(s) EXCEPT ![<<n, i>>] = w]
    <3>1. PICK g \in PageHeaps : g = s.links
      BY <1>2
    <3>2. t = Rewritten(s, n, i, w, f, g)
      BY <1>4, <3>1
    <3>3. f \in 0 .. CAPABILITIES_PER_NODE
      BY <1>3
    <3>4. s \in SlabStates
      BY <1>2
    <3>5. WellWritten(s, t, n, i, w, f, g)
      BY <3>2, <3>3, <3>4, RewrittenEffect
    <3> QED
      BY <3>1, <3>5 DEF WellWritten
  <2> QED
    BY <1>1, <2>1
<1>6. t.FreeElements = s.FreeElements
  BY <1>2, <1>3, <1>5 DEF Recounted, Counters
<1>7. \A y \in AllSlots :
        View(t)[y].Type = "NULL_CAPABILITY" <=> View(s)[y].Type = "NULL_CAPABILITY"
  <2>1. \A y \in AllSlots : View(t)[y] = IF y = x THEN w ELSE View(s)[y]
    <3>1. View(s) \in [AllSlots -> Caps]
      BY <1>2, ViewType
    <3> QED
      BY <1>5, <3>1
  <2> QED
    BY <2>1
<1>8. \A m \in N : FreeIndices(t, m) = FreeIndices(s, m)
  <2> SUFFICES ASSUME NEW m \in N PROVE FreeIndices(t, m) = FreeIndices(s, m)
    OBVIOUS
  <2>1. m \in Pages
    BY <1>2
  <2>2. /\ FreeIndices(t, m) = {j \in SlotIndex : View(t)[<<m, j>>].Type = "NULL_CAPABILITY"}
        /\ FreeIndices(s, m) = {j \in SlotIndex : View(s)[<<m, j>>].Type = "NULL_CAPABILITY"}
    BY <2>1, FreeInView
  <2>3. \A j \in SlotIndex : <<m, j>> \in AllSlots
    BY <2>1 DEF AllSlots
  <2> QED
    BY <1>7, <2>2, <2>3
<1>9. SlabOK(t, N)
  <2>1. \A m \in N : t.FreeElements[m] = Cardinality(FreeIndices(t, m))
    BY <1>2, <1>6, <1>8
  <2>2. Listed(t.links, FreeNodes(N, t.FreeElements), UsedNodes(N, t.FreeElements),
               FullNodes(N, t.FreeElements))
    BY <1>5, <1>6 DEF SlabOK
  <2> QED
    BY <1>2, <1>5, <1>6, <2>1, <2>2 DEF SlabOK
<1>10. OpenSlots(t, N) = OpenSlots(s, N)
  BY <1>2, <1>7 DEF OpenSlots, AllSlots
<1> QED
  BY <1>5, <1>6, <1>9, <1>10 DEF Overwrites

(* After two allocations the slot of the first can be freed: its node is   *)
(* on UsedSlabs, where it stays, or last or second to last on FullSlabs.   *)
LEMMA TwoAllocations ==
    ASSUME NEW N, NEW s0, SlabOK(s0, N),
           NEW s1, NEW p, NEW v, Allocates(s0, s1, N, p, v),
           NEW s2, SlabOK(s2, N), s2.links = s1.links, s2.FreeElements = s1.FreeElements,
           NEW s3, NEW r, NEW w, Allocates(s2, s3, N, r, w),
           NEW s4, s4.links = s3.links, s4.FreeElements = s3.FreeElements
    PROVE  Freeable(s4, N, p[1])
<1>1. PICK F, h, Z, b : /\ F = s0.FreeElements /\ h = s0.links /\ Z = FullNodes(N, F) /\ b = p[1]
  OBVIOUS
<1>2. PICK G, g, Y, c : /\ G = s1.FreeElements /\ g = s1.links /\ Y = FullNodes(N, G) /\ c = r[1]
  OBVIOUS
<1>3. PICK H, k, X : /\ H = s3.FreeElements /\ k = s3.links /\ X = FullNodes(N, H)
  OBVIOUS
<1>4. /\ F \in Counters /\ G \in Counters /\ H \in Counters /\ N \in SUBSET Pages
      /\ \A x \in Z \cup Y \cup X : x # NULL
      /\ Ended(h, "FullSlabs") /\ h.Tail["FullSlabs"] \in Z \cup {NULL}
      /\ h.Head["FullSlabs"] \in Z \cup {NULL}
      /\ Ended(g, "FullSlabs") /\ g.Tail["FullSlabs"] \in Y \cup {NULL}
      /\ g.Head["FullSlabs"] \in Y \cup {NULL}
  <2>1. F \in Counters /\ G \in Counters /\ H \in Counters /\ N \in SUBSET Pages
    BY <1>1, <1>2, <1>3 DEF Allocates, SlabOK, SlabStates
  <2>2. Listed(h, FreeNodes(N, F), UsedNodes(N, F), Z)
    BY <1>1 DEF SlabOK
  <2>3. Listed(g, FreeNodes(N, G), UsedNodes(N, G), Y)
    BY <1>2 DEF Allocates, SlabOK
  <2>4. Listed(k, FreeNodes(N, H), UsedNodes(N, H), X)
    BY <1>3 DEF Allocates, SlabOK
  <2> QED
    BY <2>1, <2>2, <2>3, <2>4 DEF Listed
<1>5. /\ b \in N /\ G = Recounted(F, b, F[b] - 1) /\ AllocationLinks(h, g, N, F, b)
  BY <1>1, <1>2 DEF Allocates, OpenSlots
<1>6. /\ c \in N /\ H = Recounted(G, c, G[c] - 1) /\ AllocationLinks(g, k, N, G, c)
      /\ c = IF g.Head["UsedSlabs"] # NULL THEN g.Head["UsedSlabs"] ELSE g.Head["FreeSlabs"]
  BY <1>2, <1>3 DEF Allocates, OpenSlots, AllocationNode
<1>7. /\ \A x \in Pages : F[x] \in 0 .. CAPABILITIES_PER_NODE
      /\ \A x \in Pages : G[x] = IF x = b THEN F[b] - 1 ELSE F[x]
      /\ \A x \in Pages : H[x] = IF x = c THEN G[c] - 1 ELSE G[x]
      /\ \A x \in Pages : G[x] \in 0 .. CAPABILITIES_PER_NODE /\ H[x] \in 0 .. CAPABILITIES_PER_NODE
  BY <1>4, <1>5, <1>6 DEF Recounted, Counters
<1>8. b \in Pages /\ c \in Pages /\ b # NULL /\ CAPABILITIES_PER_NODE \in Nat \ {0, 1}
  BY <1>4, <1>5, <1>6, NullAssumption, CapabilitiesAssumption
<1>9. /\ \A x : x \in Z <=> x \in N /\ F[x] = 0
      /\ \A x : x \in Y <=> x \in N /\ G[x] = 0
      /\ \A x : x \in X <=> x \in N /\ H[x] = 0
  BY <1>1, <1>2, <1>3 DEF FullNodes
<1>10. F[b] # 0 /\ G[c] # 0 /\ b \notin Z /\ c \notin Y
  BY <1>5, <1>6, <1>7, <1>8, <1>9
<1>11. H[b] + 1 # CAPABILITIES_PER_NODE /\ Detachable(k, X, b)
  <2>1. CASE F[b] # 1
    <3>1. g.Head["UsedSlabs"] = b
      BY <1>5, <2>1 DEF AllocationLinks
    <3>2. c = b
      BY <1>6, <1>8, <3>1
    <3>3. H[b] + 1 # CAPABILITIES_PER_NODE
      BY <1>7, <1>8, <3>2
    <3>4. CASE G[b] = 1
      <4>1. Filled(g, k, Y, b)
        BY <1>2, <1>6, <3>2, <3>4 DEF AllocationLinks
      <4>2. Y \subseteq X \ {b}
        BY <1>4, <1>7, <1>9, <1>10, <3>2
      <4>3. Detachable(k, X, b)
        BY <1>4, <1>8, <4>1, <4>2 DEF Filled, Detachable, Ended
      <4> QED
        BY <3>3, <4>3
    <3>5. CASE G[b] # 1
      <4>1. b \notin X
        BY <1>7, <1>8, <1>9, <3>2, <3>5
      <4> QED
        BY <3>3, <4>1 DEF Detachable
    <3> QED
      BY <3>4, <3>5
  <2>2. CASE F[b] = 1
    <3>1. Filled(h, g, Z, b) /\ G[b] = 0 /\ c # b
      BY <1>1, <1>5, <1>7, <1>8, <1>10, <2>2 DEF AllocationLinks
    <3>2. H[b] = 0 /\ H[b] + 1 # CAPABILITIES_PER_NODE
      BY <1>7, <1>8, <3>1
    <3>3. Z \subseteq Y /\ b \in Y /\ b \in X /\ Z \subseteq X \ {b}
      <4>1. \A x \in Z : x \in N /\ x \in Pages /\ G[x] = 0 /\ H[x] = 0 /\ x # b
        BY <1>4, <1>7, <1>9, <1>10
      <4> QED
        BY <1>5, <1>9, <3>1, <3>2, <4>1
    <3>4. CASE G[c] = 1
      <4>1. Filled(g, k, Y, c) /\ c \in X \ {b}
        BY <1>2, <1>6, <1>7, <1>8, <1>9, <3>1, <3>4 DEF AllocationLinks
      <4>2. Detachable(k, X, b)
        BY <1>4, <1>8, <1>10, <3>1, <3>3, <4>1 DEF Filled, Detachable, Ended
      <4> QED
        BY <3>2, <4>2
    <3>5. CASE G[c] # 1
      <4>1. SameFull(g, k, Y)
        BY <1>2, <1>6, <3>5 DEF AllocationLinks
      <4>2. Detachable(k, X, b)
        BY <1>4, <1>8, <1>10, <3>1, <3>3, <4>1 DEF Filled, SameFull, Detachable, Ended
      <4> QED
        BY <3>2, <4>2
    <3> QED
      BY <3>4, <3>5
  <2> QED
    BY <2>1, <2>2
<1> QED
  BY <1>1, <1>3, <1>11 DEF Freeable

-----------------------------------------------------------------------------

(* Where a walk along Next can be.                                         *)
Stops == Pages \cup {NULL}

(* What the recursion of FreeElementsFrom asks of its function.            *)
Sums(F, X, g) == g = [m \in Stops |-> IF m = NULL THEN 0 ELSE F[m] + g[X[m]]]

(* The nodes of R from which a walk leaves R at v.                         *)
Leaves(R, X, v) ==
    {m \in R : \A S \in SUBSET R :
        (\A k \in R : X[k] = v \/ X[k] \in S => k \in S) => m \in S}

(* A node leaves at v when its successor is v or leaves at v.              *)
LEMMA LeavesStep ==
    ASSUME NEW R, NEW X, NEW v, NEW m \in R
    PROVE  m \in Leaves(R, X, v) <=> X[m] = v \/ X[m] \in Leaves(R, X, v)
<1> DEFINE L == Leaves(R, X, v)
           Closed(S) == \A k \in R : X[k] = v \/ X[k] \in S => k \in S
<1>1. Closed(L)
  <2> SUFFICES ASSUME NEW k \in R, X[k] = v \/ X[k] \in L PROVE k \in L
    OBVIOUS
  <2> SUFFICES ASSUME NEW S \in SUBSET R, Closed(S) PROVE k \in S
    BY DEF Leaves
  <2>1. X[k] \in L => X[k] \in S
    BY DEF Leaves
  <2> QED
    BY <2>1
<1>2. ASSUME m \in L, X[m] # v, X[m] \notin L PROVE FALSE
  <2>1. Closed(L \ {m})
    BY <1>1, <1>2
  <2>2. L \ {m} \in SUBSET R
    BY DEF Leaves
  <2> QED
    BY <1>2, <2>1, <2>2 DEF Leaves
<1> QED
  BY <1>1, <1>2

(* A walk leaves R at one place.                                           *)
LEMMA LeavesOnce ==
    ASSUME NEW R, NEW X, NEW v, v \notin R, NEW w, w \notin R, v # w
    PROVE  Leaves(R, X, v) \cap Leaves(R, X, w) = {}
<1> DEFINE S == R \ Leaves(R, X, w)
<1>1. \A k \in R : X[k] = v \/ X[k] \in S => k \in S
  <2> SUFFICES ASSUME NEW k \in R, X[k] = v \/ X[k] \in S PROVE k \in S
    OBVIOUS
  <2>1. X[k] # w /\ X[k] \notin Leaves(R, X, w)
    BY DEF Leaves
  <2> QED
    BY <2>1, LeavesStep
<1>2. S \in SUBSET R
  OBVIOUS
<1> QED
  BY <1>1, <1>2 DEF Leaves

(* Sums that are known outside R, where all counters are zero, extend to   *)
(* R, whatever the links of its nodes are.                                 *)
LEMMA SumsExtend ==
    ASSUME NEW F, NEW X \in [Pages -> Stops], NULL \notin Pages,
           NEW R \in SUBSET Pages, \A m \in R : F[m] = 0,
           NEW e, \A m \in Stops : e[m] \in Nat, e[NULL] = 0,
           \A m \in Pages \ R : X[m] \in Stops \ R /\ e[m] = F[m] + e[X[m]]
    PROVE  \E g : Sums(F, X, g) /\ \A m \in Stops : g[m] \in Nat
<1> DEFINE Exit(m) == CHOOSE v \in Stops \ R : m \in Leaves(R, X, v)
           Out(m) == \E v \in Stops \ R : m \in Leaves(R, X, v)
           g == [m \in Stops |-> IF m \notin R THEN e[m] ELSE IF Out(m) THEN e[Exit(m)] ELSE 0]
<1>1. \A m \in R, v \in Stops \ R : m \in Leaves(R, X, v) => Out(m) /\ Exit(m) = v
  <2> SUFFICES ASSUME NEW m \in R, NEW v \in Stops \ R, m \in Leaves(R, X, v)
               PROVE  Out(m) /\ Exit(m) = v
    OBVIOUS
  <2>1. Exit(m) \in Stops \ R /\ m \in Leaves(R, X, Exit(m))
    OBVIOUS
  <2>2. Exit(m) # v => Leaves(R, X, Exit(m)) \cap Leaves(R, X, v) = {}
    BY <2>1, LeavesOnce
  <2> QED
    BY <2>1, <2>2
<1>2. \A m \in R : Out(m) => Exit(m) \in Stops \ R /\ m \in Leaves(R, X, Exit(m))
  OBVIOUS
<1>3. \A m \in Stops : g[m] \in Nat
  BY <1>2
<1>4. ASSUME NEW m \in Stops
      PROVE  g[m] = IF m = NULL THEN 0 ELSE F[m] + g[X[m]]
  <2>1. CASE m \notin R
    <3>1. g[m] = e[m]
      BY <2>1
    <3>2. CASE m = NULL
      BY <3>1, <3>2
    <3>3. CASE m # NULL
      <4>1. X[m] \in Stops \ R /\ e[m] = F[m] + e[X[m]]
        BY <2>1, <3>3 DEF Stops
      <4>2. g[X[m]] = e[X[m]]
        BY <4>1
      <4> QED
        BY <3>1, <3>3, <4>1, <4>2
    <3> QED
      BY <3>2, <3>3
  <2>2. CASE m \in R
    <3>1. m # NULL /\ F[m] = 0 /\ X[m] \in Stops
      BY <2>2
    <3>2. g[m] = g[X[m]]
      <4>1. CASE X[m] \notin R
        <5>1. m \in Leaves(R, X, X[m])
          BY <2>2, LeavesStep
        <5>2. Out(m) /\ Exit(m) = X[m]
          BY <1>1, <2>2, <3>1, <4>1, <5>1
        <5> QED
          BY <2>2, <3>1, <4>1, <5>2
      <4>2. CASE X[m] \in R
        <5>1. \A v \in Stops \ R : m \in Leaves(R, X, v) <=> X[m] \in Leaves(R, X, v)
          BY <2>2, <4>2, LeavesStep
        <5>2. CASE Out(m)
          <6>1. PICK v \in Stops \ R : m \in Leaves(R, X, v)
            BY <5>2
          <6>2. Out(m) /\ Exit(m) = v /\ Out(X[m]) /\ Exit(X[m]) = v
            BY <1>1, <2>2, <4>2, <5>1, <6>1
          <6> QED
            BY <2>2, <3>1, <4>2, <6>2
        <5>3. CASE ~Out(m)
          <6>1. ~Out(X[m])
            BY <5>1, <5>3
          <6> QED
            BY <2>2, <3>1, <4>2, <5>3, <6>1
        <5> QED
          BY <5>2, <5>3
      <4> QED
        BY <4>1, <4>2
    <3>3. g[X[m]] \in Nat
      BY <1>3, <3>1
    <3> HIDE DEF g
    <3> QED
      BY <3>1, <3>2, <3>3
  <2> QED
    BY <2>1, <2>2
<1> HIDE DEF g
<1>5. g = [m \in Stops |-> g[m]]
  BY DEF g
<1>6. Sums(F, X, g)
  BY <1>4, <1>5 DEF Sums
<1> QED
  BY <1>3, <1>6

-----------------------------------------------------------------------------

(* The slots of O in the nodes of u from the i-th on.                      *)
Behind(O, u, i) == {x \in O : \E j \in i .. Len(u) : x[1] = u[j]}

(* A sequence lists distinct nodes, whose counters F count their slots     *)
(* of O.                                                                   *)
Counts(F, O, u) ==
    /\ Distinct(u)
    /\ \A i \in 1 .. Len(u) :
         LET own == {x \in O : x[1] = u[i]}
         IN  IsFiniteSet(own) /\ F[u[i]] = Cardinality(own)

(* The slots behind a node are its own and those behind the next one.      *)
LEMMA BehindStep ==
    ASSUME NEW F, NEW O, IsFiniteSet(O), NEW u \in Seq(Pages), Counts(F, O, u),
           NEW i \in 1 .. Len(u)
    PROVE  Cardinality(Behind(O, u, i)) = F[u[i]] + Cardinality(Behind(O, u, i + 1))
<1> DEFINE own == {x \in O : x[1] = u[i]}
           S == Behind(O, u, i + 1)
<1>1. Len(u) \in Nat
  OBVIOUS
<1>2. Behind(O, u, i) = own \cup S
  <2>1. \A j : j \in i .. Len(u) <=> j = i \/ j \in i + 1 .. Len(u)
    BY <1>1
  <2> QED
    BY <2>1 DEF Behind
<1>3. own \cap S = {}
  <2>1. \A j \in i + 1 .. Len(u) : j \in 1 .. Len(u) /\ j # i
    BY <1>1
  <2>2. \A j \in i + 1 .. Len(u) : u[j] # u[i]
    BY <2>1 DEF Counts, Distinct
  <2> QED
    BY <2>2 DEF Behind
<1>4. IsFiniteSet(own) /\ IsFiniteSet(S) /\ F[u[i]] = Cardinality(own)
  <2>1. S \in SUBSET O
    BY DEF Behind
  <2> QED
    BY <2>1, FS_Subset DEF Counts
<1>5. Cardinality(own \cup S) = Cardinality(own) + Cardinality(S) - Cardinality(own \cap S)
  BY <1>4, FS_Union
<1>6. Cardinality(own \cap S) = 0
  BY <1>3, FS_EmptySet
<1>7. Cardinality(own) \in Nat /\ Cardinality(S) \in Nat
  BY <1>4, FS_CardinalityType
<1> HIDE DEF own, S
<1>8. Cardinality(own \cup S) = Cardinality(own) + Cardinality(S)
  BY <1>5, <1>6, <1>7
<1> QED
  BY <1>2, <1>4, <1>8 DEF S

(* Nothing is behind the last node.                                        *)
LEMMA BehindEnd ==
    ASSUME NEW O, NEW u \in Seq(Pages)
    PROVE  Cardinality(Behind(O, u, Len(u) + 1)) = 0
<1>1. \A j : j \notin Len(u) + 1 .. Len(u)
  OBVIOUS
<1>2. Behind(O, u, Len(u) + 1) = {}
  BY <1>1 DEF Behind
<1> QED
  BY <1>2, FS_EmptySet

(* What stands behind the i-th place of a list.                            *)
Place(u, i) == IF i = Len(u) + 1 THEN NULL ELSE u[i]

(* The recursion along a list adds up the slots behind its place.          *)
LEMMA SumBehind ==
    ASSUME NEW F, NEW X, NULL \notin Pages, NEW O, IsFiniteSet(O), NEW u \in Seq(Pages),
           Counts(F, O, u), \A j \in 1 .. Len(u) : X[u[j]] = Place(u, j + 1),
           NEW g, Sums(F, X, g), NEW i \in 1 .. Len(u) + 1
    PROVE  g[Place(u, i)] = Cardinality(Behind(O, u, i))
<1> DEFINE Wrong(d) == /\ Len(u) + 1 - d \in 1 .. Len(u) + 1
                       /\ g[Place(u, Len(u) + 1 - d)] # Cardinality(Behind(O, u, Len(u) + 1 - d))
           B == {d \in Nat : Wrong(d)}
<1>1. Len(u) \in Nat
  OBVIOUS
<1>2. g[NULL] = 0 /\ \A m \in Pages : g[m] = F[m] + g[X[m]]
  BY DEF Sums, Stops
<1>3. ASSUME B # {} PROVE FALSE
  <2>1. PICK d \in B : \A c \in B : d <= c
    <3>1. B \in SUBSET Nat
      OBVIOUS
    <3> HIDE DEF B
    <3> QED
      BY <1>3, <3>1, LeastElement
  <2>2. d \in Nat /\ Wrong(d)
    BY <2>1
  <2>3. PICK j : j = Len(u) + 1 - d
    OBVIOUS
  <2>4. CASE d = 0
    <3>1. Place(u, Len(u) + 1) = NULL /\ Len(u) + 1 - d = Len(u) + 1
      BY <1>1, <2>4 DEF Place
    <3> QED
      BY <1>2, <2>2, <3>1, BehindEnd
  <2>5. CASE d # 0
    <3>1. j \in 1 .. Len(u) /\ d - 1 \in Nat /\ Len(u) + 1 - (d - 1) = j + 1
          /\ j + 1 \in 1 .. Len(u) + 1
      BY <1>1, <2>2, <2>3, <2>5
    <3>2. g[Place(u, j + 1)] = Cardinality(Behind(O, u, j + 1))
      <4>1. d - 1 \notin B
        <5>1. d \in Nat /\ ~(d <= d - 1)
          BY <2>2
        <5> HIDE DEF B
        <5> QED
          BY <2>1, <5>1
      <4> QED
        BY <3>1, <4>1
    <3>3. g[u[j]] = F[u[j]] + g[Place(u, j + 1)] /\ Place(u, j) = u[j]
      <4>1. u[j] \in Pages /\ j # Len(u) + 1
        BY <1>1, <3>1, ElementOfSeq
      <4> QED
        BY <1>2, <3>1, <4>1 DEF Place
    <3>4. Cardinality(Behind(O, u, j)) = F[u[j]] + Cardinality(Behind(O, u, j + 1))
      BY <3>1, BehindStep
    <3> QED
      BY <2>2, <2>3, <3>2, <3>3, <3>4
  <2> QED
    BY <2>4, <2>5
<1>4. PICK d \in Nat : i = Len(u) + 1 - d
  <2>1. Len(u) + 1 - i \in Nat /\ i = Len(u) + 1 - (Len(u) + 1 - i)
    BY <1>1
  <2> QED
    BY <2>1
<1>5. ~Wrong(d)
  BY <1>3
<1> QED
  BY <1>4, <1>5

-----------------------------------------------------------------------------

Entries == [Address : Nat, Length : Nat \ {0}, Flags : STRING]

(* The memory map is a sequence of entries.                                *)
LEMMA MapType ==
    /\ Len(MemoryMap) \in Nat /\ DOMAIN MemoryMap = 1 .. Len(MemoryMap)
    /\ \A k \in DOMAIN MemoryMap :
         /\ MemoryMap[k] \in Entries
         /\ MemoryMap[k].Address \in Nat /\ MemoryMap[k].Length \in Nat \ {0}
<1>1. PICK E : E = Entries
  OBVIOUS
<1>2. MemoryMap \in Seq(E)
  BY <1>1, MapAssumption DEF Entries
<1>3. Len(MemoryMap) \in Nat /\ DOMAIN MemoryMap = 1 .. Len(MemoryMap)
  BY <1>2
<1>4. \A k \in DOMAIN MemoryMap : MemoryMap[k] \in Entries
  BY <1>1, <1>2, <1>3, ElementOfSeq
<1> QED
  BY <1>3, <1>4 DEF Entries

(* The region is one entry of the memory map.                              *)
LEMMA AreaFact ==
    /\ Area \in {MemoryMap[k] : k \in DOMAIN MemoryMap}
    /\ Area.Flags = "USABLE" /\ Area.Address = FramesBase /\ Area.Length \in Nat \ {0}
<1> DEFINE R == {MemoryMap[k] : k \in DOMAIN MemoryMap}
<1>1. \E r \in R : r.Flags = "USABLE" /\ r.Address = FramesBase
  BY MapAssumption
<1>2. Area \in R /\ Area.Flags = "USABLE" /\ Area.Address = FramesBase
  BY <1>1 DEF Area
<1> QED
  BY <1>2, MapType

(* There are finitely many pages and slots.                                *)
LEMMA FinitePages ==
    ASSUME NEW s, NEW N \in SUBSET Pages
    PROVE  IsFiniteSet(Pages) /\ IsFiniteSet(OpenSlots(s, N))
<1>1. FramesBase \in Int /\ FramesBase + Area.Length - 1 \in Int
  BY MemoryAssumption, AreaFact
<1>2. IsFiniteSet(FramesBase .. FramesBase + Area.Length - 1)
  BY <1>1, FS_Interval
<1>3. Pages \in SUBSET (FramesBase .. FramesBase + Area.Length - 1)
  BY DEF Pages, PagesOf
<1>4. IsFiniteSet(Pages)
  BY <1>2, <1>3, FS_Subset
<1>5. IsFiniteSet(N)
  BY <1>4, FS_Subset
<1>6. IsFiniteSet(N \X SlotIndex)
  BY <1>5, SlotCount, FS_Product
<1>7. OpenSlots(s, N) \in SUBSET (N \X SlotIndex)
  BY DEF OpenSlots
<1> QED
  BY <1>4, <1>6, <1>7, FS_Subset

(* The open slots of a node are the free indices.                          *)
LEMMA OwnSlots ==
    ASSUME NEW s, NEW N \in SUBSET Pages, NEW n \in N
    PROVE  LET own == {x \in OpenSlots(s, N) : x[1] = n}
           IN  IsFiniteSet(own) /\ Cardinality(own) = Cardinality(FreeIndices(s, n))
<1> DEFINE own == {x \in OpenSlots(s, N) : x[1] = n}
           I == FreeIndices(s, n)
           f == [i \in I |-> <<n, i>>]
<1>1. I \in SUBSET SlotIndex /\ IsFiniteSet(I)
  BY FreeCount
<1>2. I = {i \in SlotIndex : View(s)[<<n, i>>].Type = "NULL_CAPABILITY"}
  BY FreeInView
<1>3. own = {<<n, i>> : i \in I}
  <2>1. \A x \in own : x = <<n, x[2]>> /\ x[2] \in SlotIndex
                       /\ View(s)[<<n, x[2]>>].Type = "NULL_CAPABILITY"
    BY DEF OpenSlots
  <2>2. \A i \in I : <<n, i>> \in own
    BY <1>2 DEF OpenSlots
  <2> QED
    BY <1>2, <2>1, <2>2
<1>4. f \in Bijection(I, own)
  <2>1. f \in [I -> own]
    BY <1>3
  <2>2. \A i, j \in I : f[i] = f[j] => i = j
    OBVIOUS
  <2>3. \A x \in own : \E i \in I : f[i] = x
    BY <1>3
  <2> HIDE DEF f, own, I
  <2>4. f \in Injection(I, own)
    BY <2>1, <2>2 DEF Injection, IsInjective
  <2>5. f \in Surjection(I, own)
    BY <2>1, <2>3 DEF Surjection
  <2> QED
    BY <2>4, <2>5 DEF Bijection
<1>5. ExistsBijection(I, own)
  BY <1>4 DEF ExistsBijection
<1> QED
  BY <1>1, <1>5, FS_Bijection

SumsUp(s, F, X, g) == Sums(F, X, g) /\ \A n \in Stops : FreeElementsFrom(s, n) = g[n]

(* FreeElementsFrom is some function that sums up, if there is one.        *)
LEMMA FreeElementsSum ==
    ASSUME NEW s, NEW F, F = s.FreeElements, NEW X, X = s.links.Next, DOMAIN X = Pages,
           \E g : Sums(F, X, g)
    PROVE  \E g : SumsUp(s, F, X, g)
<1> DEFINE sum[m \in DOMAIN s.links.Next \cup {NULL}] ==
            IF m = NULL THEN 0 ELSE s.FreeElements[m] + sum[s.links.Next[m]]
<1>1. \A n : FreeElementsFrom(s, n) = sum[n]
  BY DEF FreeElementsFrom
<1>2. sum = CHOOSE g : Sums(F, X, g)
  BY DEF Sums, Stops
<1>3. Sums(F, X, sum)
  BY <1>2
<1> QED
  BY <1>1, <1>3 DEF SumsUp

(* The list l of s is the sequence u of the nodes S.                       *)
Enumerates(s, N, l, S, u) ==
    /\ Items(u) = S
    /\ Counts(s.FreeElements, OpenSlots(s, N), u)
    /\ s.links.Head[l] = Place(u, 1)
    /\ \A j \in 1 .. Len(u) : s.links.Next[u[j]] = Place(u, j + 1)

(* A list that holds the nodes S, as a sequence that counts their slots.   *)
LEMMA ListCounts ==
    ASSUME NEW s, NEW N, SlabOK(s, N), NEW l \in {"FreeSlabs", "UsedSlabs"},
           NEW S \in SUBSET N, Holds(Pages, s.links, l, S)
    PROVE  \E u \in Seq(Pages) : Enumerates(s, N, l, S, u)
<1>1. PICK u \in Seq(Pages) : Distinct(u) /\ Items(u) = S /\ IsChain(s.links, l, u)
  BY DEF Holds
<1>2. N \in SUBSET Pages /\ \A n \in N : s.FreeElements[n] = Cardinality(FreeIndices(s, n))
  BY DEF SlabOK
<1>3. Counts(s.FreeElements, OpenSlots(s, N), u)
  <2> SUFFICES ASSUME NEW i \in 1 .. Len(u)
               PROVE  LET own == {x \in OpenSlots(s, N) : x[1] = u[i]}
                      IN  IsFiniteSet(own) /\ s.FreeElements[u[i]] = Cardinality(own)
    BY <1>1 DEF Counts
  <2>1. PICK n \in N : n = u[i]
    BY <1>1 DEF Items
  <2> QED
    BY <1>2, <2>1, OwnSlots
<1>4. Len(u) \in Nat
  OBVIOUS
<1>5. s.links.Head[l] = Place(u, 1)
  <2>1. u = <<>> <=> Len(u) = 0
    BY EmptySeq
  <2>2. s.links.Head[l] = IF u = <<>> THEN NULL ELSE u[1]
    BY <1>1 DEF IsChain
  <2> QED
    BY <1>4, <2>1, <2>2 DEF Place
<1>6. \A j \in 1 .. Len(u) : s.links.Next[u[j]] = Place(u, j + 1)
  <2> SUFFICES ASSUME NEW j \in 1 .. Len(u) PROVE s.links.Next[u[j]] = Place(u, j + 1)
    OBVIOUS
  <2>1. s.links.Next[u[j]] = IF j = Len(u) THEN NULL ELSE u[j + 1]
    BY <1>1 DEF IsChain
  <2>2. j = Len(u) <=> j + 1 = Len(u) + 1
    BY <1>4
  <2> QED
    BY <2>1, <2>2 DEF Place
<1> QED
  BY <1>1, <1>3, <1>5, <1>6 DEF Enumerates

-----------------------------------------------------------------------------

IndexIn(u, m) == CHOOSE i \in 1 .. Len(u) : u[i] = m

(* The index of an item of a sequence without duplicates.                  *)
LEMMA IndexOfItem ==
    ASSUME NEW u \in Seq(Pages), Distinct(u)
    PROVE  /\ \A m \in Items(u) : IndexIn(u, m) \in 1 .. Len(u) /\ u[IndexIn(u, m)] = m
           /\ \A i \in 1 .. Len(u) : IndexIn(u, u[i]) = i
<1>1. \A m \in Items(u) : \E i \in 1 .. Len(u) : u[i] = m
  BY DEF Items
<1>2. \A m \in Items(u) : IndexIn(u, m) \in 1 .. Len(u) /\ u[IndexIn(u, m)] = m
  BY <1>1 DEF IndexIn
<1>3. \A i \in 1 .. Len(u) : u[i] \in Items(u)
  BY DEF Items
<1> QED
  BY <1>2, <1>3 DEF Distinct

(* The sums along a list.                                                  *)
Total(O, u, m) == Cardinality(Behind(O, u, IndexIn(u, m)))

Advances(F, O, u, m, y) ==
    /\ Total(O, u, m) \in Nat
    /\ \/ y \in Items(u) /\ Total(O, u, m) = F[m] + Total(O, u, y)
       \/ y = NULL /\ Total(O, u, m) = F[m] + 0

(* They obey the recursion at every node of the list.                      *)
LEMMA TotalStep ==
    ASSUME NEW F, NEW O, IsFiniteSet(O), NEW u \in Seq(Pages), Counts(F, O, u),
           NULL \notin Pages, NEW m \in Items(u), NEW y, y = Place(u, IndexIn(u, m) + 1)
    PROVE  Advances(F, O, u, m, y)
<1>1. PICK i : i = IndexIn(u, m) /\ i \in 1 .. Len(u) /\ u[i] = m
  BY IndexOfItem DEF Counts
<1>2. Cardinality(Behind(O, u, i)) = F[u[i]] + Cardinality(Behind(O, u, i + 1))
  BY <1>1, BehindStep
<1>3. Cardinality(Behind(O, u, i)) \in Nat
  <2>1. Behind(O, u, i) \in SUBSET O
    BY DEF Behind
  <2> QED
    BY <2>1, FS_Subset, FS_CardinalityType
<1>4. Len(u) \in Nat
  OBVIOUS
<1>5. CASE i = Len(u)
  <2>1. y = NULL
    BY <1>1, <1>5 DEF Place
  <2>2. Cardinality(Behind(O, u, Len(u) + 1)) = 0
    BY BehindEnd
  <2>3. Total(O, u, m) = F[m] + 0
    BY <1>1, <1>2, <1>5, <2>2 DEF Total
  <2> QED
    BY <1>1, <1>3, <2>1, <2>3 DEF Total, Advances
<1>6. CASE i # Len(u)
  <2>1. i + 1 \in 1 .. Len(u) /\ i + 1 # Len(u) + 1
    BY <1>1, <1>4, <1>6
  <2>2. y = u[i + 1]
    BY <1>1, <2>1 DEF Place
  <2>3. y \in Items(u) /\ IndexIn(u, y) = i + 1
    BY <2>1, <2>2, IndexOfItem DEF Items, Counts
  <2>4. Total(O, u, y) = Cardinality(Behind(O, u, i + 1))
    BY <2>3 DEF Total
  <2> QED
    BY <1>1, <1>2, <1>3, <2>3, <2>4 DEF Total, Advances
<1> QED
  BY <1>5, <1>6

(* All slots of a list are behind its first place.                         *)
LEMMA BehindFirst ==
    ASSUME NEW O, NEW u \in Seq(Pages)
    PROVE  Behind(O, u, 1) = {x \in O : x[1] \in Items(u)}
BY DEF Behind, Items

(* There is a function that sums up the counters along Next.               *)
LEMMA SumsExist ==
    ASSUME NEW s, NEW N, SlabOK(s, N), NEW O, O = OpenSlots(s, N),
           NEW u \in Seq(Pages), NEW v \in Seq(Pages),
           Counts(s.FreeElements, O, u), Counts(s.FreeElements, O, v),
           Items(u) = UsedNodes(N, s.FreeElements), Items(v) = FreeNodes(N, s.FreeElements),
           \A j \in 1 .. Len(u) : s.links.Next[u[j]] = Place(u, j + 1),
           \A j \in 1 .. Len(v) : s.links.Next[v[j]] = Place(v, j + 1)
    PROVE  \E g : Sums(s.FreeElements, s.links.Next, g)
<1>1. PICK F, X : F = s.FreeElements /\ X = s.links.Next
  OBVIOUS
<1>2. PICK U, V : U = Items(u) /\ V = Items(v)
  OBVIOUS
<1>3. N \in SUBSET Pages /\ IsFiniteSet(O)
  BY FinitePages DEF SlabOK
<1>4. X \in [Pages -> Stops] /\ NULL \notin Pages
  BY <1>1 DEF SlabOK, Listed, PageHeaps, Heaps, Stops
<1> DEFINE R == Pages \ (U \cup V)
           e == [m \in Stops |-> IF m \in U THEN Total(O, u, m)
                                 ELSE IF m \in V THEN Total(O, v, m) ELSE 0]
<1>5. \A m \in R : F[m] = 0
  <2>1. \A m \in N \ (U \cup V) : F[m] = 0
    BY <1>1, <1>2 DEF UsedNodes, FreeNodes
  <2>2. \A m \in Pages \ N : F[m] = 0
    BY <1>1 DEF SlabOK
  <2> QED
    BY <2>1, <2>2
<1>6. U \cap V = {} /\ U \in SUBSET Pages /\ V \in SUBSET Pages
  BY <1>2, <1>3 DEF UsedNodes, FreeNodes
<1>7. \A m \in U : /\ X[m] \in U \cup {NULL} /\ Total(O, u, m) \in Nat
                   /\ Total(O, u, m) = F[m] + IF X[m] \in U THEN Total(O, u, X[m]) ELSE 0
  <2> SUFFICES ASSUME NEW m \in U
               PROVE  /\ X[m] \in U \cup {NULL} /\ Total(O, u, m) \in Nat
                      /\ Total(O, u, m) = F[m] + IF X[m] \in U THEN Total(O, u, X[m]) ELSE 0
    OBVIOUS
  <2>1. X[m] = Place(u, IndexIn(u, m) + 1)
    <3>1. IndexIn(u, m) \in 1 .. Len(u) /\ u[IndexIn(u, m)] = m
      BY <1>2, IndexOfItem DEF Counts
    <3> QED
      BY <1>1, <3>1
  <2>2. Advances(F, O, u, m, X[m])
    <3>1. m \in Items(u) /\ Counts(F, O, u)
      BY <1>1, <1>2
    <3> QED
      BY <1>3, <1>4, <2>1, <3>1, TotalStep
  <2> QED
    BY <1>2, <1>4, <1>6, <2>2 DEF Advances
<1>8. \A m \in V : /\ X[m] \in V \cup {NULL} /\ Total(O, v, m) \in Nat
                   /\ Total(O, v, m) = F[m] + IF X[m] \in V THEN Total(O, v, X[m]) ELSE 0
  <2> SUFFICES ASSUME NEW m \in V
               PROVE  /\ X[m] \in V \cup {NULL} /\ Total(O, v, m) \in Nat
                      /\ Total(O, v, m) = F[m] + IF X[m] \in V THEN Total(O, v, X[m]) ELSE 0
    OBVIOUS
  <2>1. X[m] = Place(v, IndexIn(v, m) + 1)
    <3>1. IndexIn(v, m) \in 1 .. Len(v) /\ v[IndexIn(v, m)] = m
      BY <1>2, IndexOfItem DEF Counts
    <3> QED
      BY <1>1, <3>1
  <2>2. Advances(F, O, v, m, X[m])
    <3>1. m \in Items(v) /\ Counts(F, O, v)
      BY <1>1, <1>2
    <3> QED
      BY <1>3, <1>4, <2>1, <3>1, TotalStep
  <2> QED
    BY <1>2, <1>4, <1>6, <2>2 DEF Advances
<1>9. /\ \A m \in Stops : e[m] \in Nat
      /\ e[NULL] = 0
  BY <1>4, <1>6, <1>7, <1>8 DEF Stops
<1>10. ASSUME NEW m \in Pages \ R
       PROVE  X[m] \in Stops \ R /\ e[m] = F[m] + e[X[m]]
  <2>1. CASE m \in U
    <3>1. X[m] \in Stops \ R /\ X[m] \notin V
      BY <1>4, <1>6, <1>7, <2>1 DEF Stops
    <3>2. e[m] = Total(O, u, m) /\ e[X[m]] = IF X[m] \in U THEN Total(O, u, X[m]) ELSE 0
      BY <2>1, <3>1 DEF Stops
    <3> QED
      BY <1>7, <2>1, <3>1, <3>2
  <2>2. CASE m \in V
    <3>1. X[m] \in Stops \ R /\ X[m] \notin U /\ m \notin U
      BY <1>4, <1>6, <1>8, <2>2 DEF Stops
    <3>2. e[m] = Total(O, v, m) /\ e[X[m]] = IF X[m] \in V THEN Total(O, v, X[m]) ELSE 0
      BY <2>2, <3>1 DEF Stops
    <3> QED
      BY <1>8, <2>2, <3>1, <3>2
  <2> QED
    BY <2>1, <2>2
<1>11. R \in SUBSET Pages
  OBVIOUS
<1> HIDE DEF e, R
<1>12. \E g : Sums(F, X, g)
  BY <1>4, <1>5, <1>9, <1>10, <1>11, SumsExtend
<1> QED
  BY <1>1, <1>12

(* GetFreeSlabSlots returns the number of open slots.                      *)
LEMMA FreeSlotsCounted ==
    ASSUME NEW s, NEW N, SlabOK(s, N)
    PROVE  /\ IsFiniteSet(OpenSlots(s, N))
           /\ GetFreeSlabSlots(s) = Cardinality(OpenSlots(s, N))
           /\ GetFreeSlabSlots(s) \in Nat
<1>1. PICK F, X, O, U, V : /\ F = s.FreeElements /\ X = s.links.Next /\ O = OpenSlots(s, N)
                           /\ U = UsedNodes(N, F) /\ V = FreeNodes(N, F)
  OBVIOUS
<1>2. N \in SUBSET Pages /\ IsFiniteSet(O) /\ IsFiniteSet(OpenSlots(s, N))
  BY <1>1, FinitePages DEF SlabOK
<1>3. X \in [Pages -> Stops] /\ NULL \notin Pages
  BY <1>1 DEF SlabOK, Listed, PageHeaps, Heaps, Stops
<1>4. U \in SUBSET N /\ V \in SUBSET N
  BY <1>1 DEF UsedNodes, FreeNodes
<1>40. s.FreeElements = F /\ s.links.Next = X /\ OpenSlots(s, N) = O
  BY <1>1
<1>5. PICK u \in Seq(Pages) : /\ Items(u) = U /\ Counts(F, O, u)
                              /\ s.links.Head["UsedSlabs"] = Place(u, 1)
                              /\ \A j \in 1 .. Len(u) : X[u[j]] = Place(u, j + 1)
  <2>1. Holds(Pages, s.links, "UsedSlabs", U)
    BY <1>1 DEF SlabOK, Listed
  <2>2. \E u \in Seq(Pages) : Enumerates(s, N, "UsedSlabs", U, u)
    BY <1>4, <2>1, ListCounts
  <2> QED
    BY <1>40, <2>2 DEF Enumerates
<1>6. PICK v \in Seq(Pages) : /\ Items(v) = V /\ Counts(F, O, v)
                              /\ s.links.Head["FreeSlabs"] = Place(v, 1)
                              /\ \A j \in 1 .. Len(v) : X[v[j]] = Place(v, j + 1)
  <2>1. Holds(Pages, s.links, "FreeSlabs", V)
    BY <1>1 DEF SlabOK, Listed
  <2>2. \E t \in Seq(Pages) : Enumerates(s, N, "FreeSlabs", V, t)
    BY <1>4, <2>1, ListCounts
  <2> QED
    BY <1>40, <2>2 DEF Enumerates
<1>7. \E g : Sums(F, X, g)
  BY <1>1, <1>5, <1>6, SumsExist
<1>8. PICK g : Sums(F, X, g) /\ \A n \in Stops : FreeElementsFrom(s, n) = g[n]
  <2>1. DOMAIN X = Pages /\ F = s.FreeElements /\ X = s.links.Next
    BY <1>1, <1>3
  <2>2. \E g : SumsUp(s, F, X, g)
    BY <1>7, <2>1, FreeElementsSum
  <2> QED
    BY <2>2 DEF SumsUp
<1>9. /\ 1 \in 1 .. Len(u) + 1 /\ 1 \in 1 .. Len(v) + 1
      /\ Place(u, 1) \in Stops /\ Place(v, 1) \in Stops
  <2>1. /\ Len(u) \in Nat /\ \A j \in 1 .. Len(u) : u[j] \in Pages
        /\ Len(v) \in Nat /\ \A j \in 1 .. Len(v) : v[j] \in Pages
    BY ElementOfSeq
  <2> QED
    BY <2>1 DEF Place, Stops
<1>10. g[Place(u, 1)] = Cardinality(Behind(O, u, 1))
  BY <1>2, <1>3, <1>5, <1>8, <1>9, SumBehind
<1>11. g[Place(v, 1)] = Cardinality(Behind(O, v, 1))
  BY <1>2, <1>3, <1>6, <1>8, <1>9, SumBehind
<1>12. GetFreeSlabSlots(s) = Cardinality(Behind(O, u, 1)) + Cardinality(Behind(O, v, 1))
  BY <1>5, <1>6, <1>8, <1>9, <1>10, <1>11 DEF GetFreeSlabSlots
<1> DEFINE A == Behind(O, u, 1)
           B == Behind(O, v, 1)
<1>13. A = {x \in O : x[1] \in U} /\ B = {x \in O : x[1] \in V}
  BY <1>5, <1>6, BehindFirst
<1>14. O = A \cup B
  <2>1. ASSUME NEW x \in O PROVE x[1] \in U \cup V
    <3>1. x[1] \in N /\ x[2] \in SlotIndex /\ x = <<x[1], x[2]>>
          /\ View(s)[<<x[1], x[2]>>].Type = "NULL_CAPABILITY"
      BY <1>1 DEF OpenSlots
    <3>2. x[2] \in FreeIndices(s, x[1])
      BY <1>2, <3>1, FreeInView
    <3>3. F[x[1]] # 0
      <4>1. F[x[1]] = Cardinality(FreeIndices(s, x[1]))
        BY <1>1, <3>1 DEF SlabOK
      <4> QED
        BY <3>2, <4>1, FreeCount
    <3> QED
      BY <1>1, <3>1, <3>3 DEF UsedNodes, FreeNodes
  <2> QED
    BY <1>13, <2>1
<1>15. A \cap B = {}
  <2>1. U \cap V = {}
    BY <1>1 DEF UsedNodes, FreeNodes
  <2> QED
    BY <1>13, <2>1
<1>16. IsFiniteSet(A) /\ IsFiniteSet(B)
  <2>1. A \in SUBSET O /\ B \in SUBSET O
    BY <1>13
  <2> QED
    BY <1>2, <2>1, FS_Subset
<1> HIDE DEF A, B
<1>17. Cardinality(A \cup B) = Cardinality(A) + Cardinality(B) - Cardinality(A \cap B)
  BY <1>16, FS_Union
<1>18. Cardinality(A) \in Nat /\ Cardinality(B) \in Nat /\ Cardinality(A \cap B) = 0
  BY <1>15, <1>16, FS_CardinalityType, FS_EmptySet
<1>19. Cardinality(O) = Cardinality(A) + Cardinality(B)
  BY <1>14, <1>17, <1>18
<1>20. GetFreeSlabSlots(s) = Cardinality(A) + Cardinality(B)
  BY <1>12 DEF A, B
<1>21. GetFreeSlabSlots(s) = Cardinality(O) /\ GetFreeSlabSlots(s) \in Nat
  BY <1>18, <1>19, <1>20
<1> QED
  BY <1>1, <1>2, <1>21

-----------------------------------------------------------------------------

Held(c) == View(c.slab)

Open(c, N) == OpenSlots(c.slab, N)

(* The space c with the nodes N: the tree leads to capabilities of the     *)
(* address they are linked under, and no page but a node holds any.        *)
SpaceOK(c, N) ==
    /\ c = [slab |-> c.slab, CapabilityTree |-> c.CapabilityTree, Fault |-> c.Fault]
    /\ c.Fault = FALSE
    /\ SlabOK(c.slab, N)
    /\ \A k \in DOMAIN c.CapabilityTree :
         /\ k \in Nat
         /\ c.CapabilityTree[k] \in N \X SlotIndex
         /\ Held(c)[c.CapabilityTree[k]].Object = k
         /\ Held(c)[c.CapabilityTree[k]].Type \in ObjectTypes
    /\ \A x \in AllSlots \ (N \X SlotIndex) : Held(c)[x].Type = "NULL_CAPABILITY"

(* The slot x of c has been overwritten with w in d.                       *)
Covers(c, d, N, x, w) ==
    /\ SpaceOK(d, N)
    /\ d.CapabilityTree = c.CapabilityTree
    /\ Overwrites(c.slab, d.slab, N, x, w)

(* A capability w has been generated in the slot x.                        *)
Generates(c, d, N, x, w) ==
    /\ x \in Open(c, N)
    /\ SpaceOK(d, N)
    /\ Open(d, N) = Open(c, N) \ {x}
    /\ DOMAIN d.CapabilityTree = DOMAIN c.CapabilityTree \cup {w.Object}
    /\ \A k \in DOMAIN c.CapabilityTree : d.CapabilityTree[k] = c.CapabilityTree[k]
    /\ w.Object \notin DOMAIN c.CapabilityTree => d.CapabilityTree[w.Object] = x
    /\ Held(d)[x] = w /\ Held(d)[d.CapabilityTree[w.Object]] = w
    /\ \A y \in AllSlots :
         y # x /\ y # d.CapabilityTree[w.Object] => Held(d)[y] = Held(c)[y]
    /\ \E t : /\ Allocates(c.slab, t, N, x, w)
              /\ d.slab.links = t.links /\ d.slab.FreeElements = t.FreeElements

(* The types of capabilities are none of the other two.                    *)
LEMMA TypeNames ==
    /\ \A t \in ObjectTypes : t # "NULL_CAPABILITY" /\ t # "RESERVED_SLOT" /\ t \in SlotTypes
BY DEF ObjectTypes, SlotTypes

(* A slot under its node is a slot.                                        *)
LEMMA SlotOfNode ==
    ASSUME NEW N \in SUBSET Pages, NEW x \in N \X SlotIndex
    PROVE  /\ x \in AllSlots /\ x[1] \in N /\ x[2] \in SlotIndex /\ x = <<x[1], x[2]>>
           /\ x # NULL
BY NullAssumption DEF AllSlots

(* A slot is overwritten with another capability at the same address.      *)
LEMMA CoverOK ==
    ASSUME NEW c, NEW N, SpaceOK(c, N), NEW x \in N \X SlotIndex,
           NEW w \in Caps, w.Type \in ObjectTypes, Held(c)[x].Type # "NULL_CAPABILITY",
           w.Object = Held(c)[x].Object,
           NEW d, d = [c EXCEPT !.slab.Slots[x[1]][x[2]] = w]
    PROVE  Covers(c, d, N, x, w)
<1>1. PICK s, T, F : s = c.slab /\ T = c.CapabilityTree /\ F = c.Fault /\ F = FALSE
  BY DEF SpaceOK
<1>2. /\ c = [slab |-> s, CapabilityTree |-> T, Fault |-> F]
      /\ SlabOK(s, N) /\ N \in SUBSET Pages
  BY <1>1 DEF SpaceOK, SlabOK
<1>3. PICK t : t = [s EXCEPT !.Slots[x[1]][x[2]] = w]
  OBVIOUS
<1>4. d = [slab |-> t, CapabilityTree |-> T, Fault |-> F]
  BY <1>2, <1>3
<1>5. x \in AllSlots
  BY <1>2, SlotOfNode
<1>6. Overwrites(s, t, N, x, w)
  <2>1. w.Type # "NULL_CAPABILITY" /\ View(s)[x].Type # "NULL_CAPABILITY"
    BY <1>1, TypeNames DEF Held
  <2> QED
    BY <1>2, <1>3, <1>5, <2>1, OverwriteOK
<1>7. \A y \in AllSlots : View(t)[y] = IF y = x THEN w ELSE View(s)[y]
  BY <1>6 DEF Overwrites, View
<1>8. d.slab = t /\ d.CapabilityTree = T
  BY <1>4
<1>9. SpaceOK(d, N)
  <2>1. \A k \in DOMAIN T :
         /\ k \in Nat
         /\ T[k] \in N \X SlotIndex
         /\ View(t)[T[k]].Object = k
         /\ View(t)[T[k]].Type \in ObjectTypes
    <3> SUFFICES ASSUME NEW k \in DOMAIN T
                 PROVE  /\ k \in Nat
                        /\ T[k] \in N \X SlotIndex
                        /\ View(t)[T[k]].Object = k
                        /\ View(t)[T[k]].Type \in ObjectTypes
      OBVIOUS
    <3>1. /\ k \in Nat /\ T[k] \in N \X SlotIndex
          /\ View(s)[T[k]].Object = k /\ View(s)[T[k]].Type \in ObjectTypes
      BY <1>1 DEF SpaceOK, Held
    <3>2. T[k] \in AllSlots
      BY <1>2, <3>1, SlotOfNode
    <3>3. View(t)[T[k]] = IF T[k] = x THEN w ELSE View(s)[T[k]]
      BY <1>7, <3>2
    <3>4. w.Object = View(s)[x].Object
      BY <1>1 DEF Held
    <3> QED
      BY <3>1, <3>3, <3>4
  <2>2. \A y \in AllSlots \ (N \X SlotIndex) : View(t)[y].Type = "NULL_CAPABILITY"
    <3>1. \A y \in AllSlots \ (N \X SlotIndex) : y # x /\ View(s)[y].Type = "NULL_CAPABILITY"
      BY <1>1 DEF SpaceOK, Held
    <3> QED
      BY <1>7, <3>1
  <2>3. SlabOK(t, N)
    BY <1>6 DEF Overwrites
  <2> QED
    BY <1>4, <1>8, <2>1, <2>2, <2>3 DEF SpaceOK, Held
<1> QED
  BY <1>1, <1>6, <1>8, <1>9 DEF Covers

-----------------------------------------------------------------------------

Keyed(T, U, key, x) ==
    /\ DOMAIN U = DOMAIN T \cup {key}
    /\ U[key] = x /\ \A k \in DOMAIN T : U[k] = T[k]

(* SLAB::Insert links a new address.                                       *)
LEMMA WithKeyEffect ==
    ASSUME NEW key, NEW x, NEW T, NEW U, U = WithKey(T, key, x), key \notin DOMAIN T
    PROVE  Keyed(T, U, key, x)
BY DEF WithKey, Keyed

(* A slot that has been allocated and filled is linked.                    *)
LEMMA LinkOK ==
    ASSUME NEW c, NEW N, SpaceOK(c, N), NEW x, NEW w \in Caps, w.Type \in ObjectTypes,
           NEW t, Allocates(c.slab, t, N, x, w), w.Object \notin DOMAIN c.CapabilityTree,
           NEW d, d = [slab |-> t, CapabilityTree |-> WithKey(c.CapabilityTree, w.Object, x),
                       Fault |-> c.Fault]
    PROVE  Generates(c, d, N, x, w)
<1>1. PICK s, T, U, F : /\ s = c.slab /\ T = c.CapabilityTree /\ U = WithKey(T, w.Object, x)
                      /\ F = c.Fault /\ F = FALSE
  BY DEF SpaceOK
<1>2. /\ SlabOK(s, N) /\ N \in SUBSET Pages
  BY <1>1 DEF SpaceOK, SlabOK
<1>3. d.slab = t /\ d.CapabilityTree = U
      /\ d = [slab |-> t, CapabilityTree |-> U, Fault |-> F]
  BY <1>1
<1>4. /\ DOMAIN U = DOMAIN T \cup {w.Object}
      /\ U[w.Object] = x /\ \A k \in DOMAIN T : U[k] = T[k]
  <2>1. PICK key : key = w.Object
    OBVIOUS
  <2>2. U = WithKey(T, key, x) /\ key \notin DOMAIN T
    BY <1>1, <2>1
  <2>3. Keyed(T, U, key, x)
    BY <2>2, WithKeyEffect
  <2> QED
    BY <2>1, <2>3 DEF Keyed
<1>5. /\ x \in OpenSlots(s, N) /\ SlabOK(t, N) /\ OpenSlots(t, N) = OpenSlots(s, N) \ {x}
      /\ View(t) = [View(s) EXCEPT ![x] = w]
  BY <1>1 DEF Allocates
<1>6. x \in N \X SlotIndex /\ View(s)[x].Type = "NULL_CAPABILITY"
  BY <1>5 DEF OpenSlots
<1>7. x \in AllSlots
  BY <1>2, <1>6, SlotOfNode
<1>8. \A y \in AllSlots : View(t)[y] = IF y = x THEN w ELSE View(s)[y]
  BY <1>5 DEF View
<1>9. w.Object \in Nat
  BY DEF Caps
<1>10. ASSUME NEW k \in DOMAIN U
       PROVE  /\ k \in Nat
              /\ U[k] \in N \X SlotIndex
              /\ View(t)[U[k]].Object = k
              /\ View(t)[U[k]].Type \in ObjectTypes
  <2>1. CASE k = w.Object
    BY <1>4, <1>6, <1>7, <1>8, <1>9, <2>1
  <2>2. CASE k # w.Object
    <3>1. k \in DOMAIN T /\ U[k] = T[k]
      BY <1>4, <2>2
    <3>2. /\ k \in Nat /\ T[k] \in N \X SlotIndex
          /\ View(s)[T[k]].Object = k /\ View(s)[T[k]].Type \in ObjectTypes
      BY <1>1, <3>1 DEF SpaceOK, Held
    <3>3. T[k] \in AllSlots /\ T[k] # x
      BY <1>2, <1>6, <3>2, SlotOfNode, TypeNames
    <3> QED
      BY <1>8, <3>1, <3>2, <3>3
  <2> QED
    BY <2>1, <2>2
<1>11. \A y \in AllSlots \ (N \X SlotIndex) : View(t)[y].Type = "NULL_CAPABILITY"
  <2>1. \A y \in AllSlots \ (N \X SlotIndex) : y # x /\ View(s)[y].Type = "NULL_CAPABILITY"
    BY <1>1, <1>6 DEF SpaceOK, Held
  <2> QED
    BY <1>8, <2>1
<1>12. SpaceOK(d, N)
  BY <1>3, <1>5, <1>10, <1>11 DEF SpaceOK, Held
<1>13. View(t)[x] = w /\ \A y \in AllSlots : y # x => View(t)[y] = View(s)[y]
  BY <1>7, <1>8
<1>14. /\ x \in Open(c, N) /\ Open(d, N) = Open(c, N) \ {x}
       /\ Held(d) = View(t) /\ Held(c) = View(s)
  BY <1>1, <1>3, <1>5 DEF Open, Held
<1>15. \E r : /\ Allocates(c.slab, r, N, x, w)
              /\ d.slab.links = r.links /\ d.slab.FreeElements = r.FreeElements
  BY <1>3
<1> QED
  BY <1>1, <1>3, <1>4, <1>12, <1>13, <1>14, <1>15 DEF Generates

(* A slot that has been allocated and filled is copied into the one linked.*)
LEMMA CopyOK ==
    ASSUME NEW c, NEW N, SpaceOK(c, N), NEW x, NEW w \in Caps, w.Type \in ObjectTypes,
           NEW t, Allocates(c.slab, t, N, x, w), w.Object \in DOMAIN c.CapabilityTree,
           NEW a, a = c.CapabilityTree[w.Object],
           NEW d, d = [[c EXCEPT !.slab = t] EXCEPT !.slab.Slots[a[1]][a[2]] = w]
    PROVE  Generates(c, d, N, x, w)
<1>1. PICK s, T, F : s = c.slab /\ T = c.CapabilityTree /\ F = c.Fault /\ F = FALSE
  BY DEF SpaceOK
<1>2. /\ SlabOK(s, N) /\ N \in SUBSET Pages
      /\ c = [slab |-> s, CapabilityTree |-> T, Fault |-> F]
  BY <1>1 DEF SpaceOK, SlabOK
<1>3. PICK e : e = [slab |-> t, CapabilityTree |-> T, Fault |-> F]
  OBVIOUS
<1>4. e = [c EXCEPT !.slab = t] /\ e.slab = t /\ e.CapabilityTree = T
  BY <1>2, <1>3
<1>5. /\ x \in OpenSlots(s, N) /\ SlabOK(t, N) /\ OpenSlots(t, N) = OpenSlots(s, N) \ {x}
      /\ View(t) = [View(s) EXCEPT ![x] = w]
  BY <1>1 DEF Allocates
<1>6. x \in N \X SlotIndex /\ View(s)[x].Type = "NULL_CAPABILITY"
  BY <1>5 DEF OpenSlots
<1>7. x \in AllSlots
  BY <1>2, <1>6, SlotOfNode
<1>8. \A y \in AllSlots : View(t)[y] = IF y = x THEN w ELSE View(s)[y]
  BY <1>5 DEF View
<1>9. ASSUME NEW k \in DOMAIN T
      PROVE  /\ k \in Nat
             /\ T[k] \in N \X SlotIndex /\ T[k] \in AllSlots /\ T[k] # x
             /\ View(t)[T[k]].Object = k
             /\ View(t)[T[k]].Type \in ObjectTypes
  <2>1. /\ k \in Nat /\ T[k] \in N \X SlotIndex
        /\ View(s)[T[k]].Object = k /\ View(s)[T[k]].Type \in ObjectTypes
    BY <1>1 DEF SpaceOK, Held
  <2>2. T[k] \in AllSlots /\ T[k] # x
    BY <1>2, <1>6, <2>1, SlotOfNode, TypeNames
  <2> QED
    BY <1>8, <2>1, <2>2
<1>10. \A y \in AllSlots \ (N \X SlotIndex) : View(t)[y].Type = "NULL_CAPABILITY"
  <2>1. \A y \in AllSlots \ (N \X SlotIndex) : y # x /\ View(s)[y].Type = "NULL_CAPABILITY"
    BY <1>1, <1>6 DEF SpaceOK, Held
  <2> QED
    BY <1>8, <2>1
<1>11. SpaceOK(e, N)
  BY <1>3, <1>4, <1>5, <1>9, <1>10 DEF SpaceOK, Held
<1>12. a \in N \X SlotIndex /\ a \in AllSlots /\ a # x /\ Held(e)[a].Object = w.Object
       /\ Held(e)[a].Type # "NULL_CAPABILITY"
  BY <1>1, <1>4, <1>9, TypeNames DEF Held
<1>13. Covers(e, d, N, a, w)
  BY <1>4, <1>11, <1>12, CoverOK
<1>14. /\ SpaceOK(d, N) /\ d.CapabilityTree = T
       /\ View(d.slab) = [View(t) EXCEPT ![a] = w]
       /\ OpenSlots(d.slab, N) = OpenSlots(t, N)
       /\ d.slab.links = t.links /\ d.slab.FreeElements = t.FreeElements
  BY <1>4, <1>13 DEF Covers, Overwrites
<1>15. \A y \in AllSlots : View(d.slab)[y] = IF y = a THEN w ELSE View(t)[y]
  <2>1. View(t) = [y \in AllSlots |-> View(t)[y]]
    BY DEF View
  <2>2. PICK V, W : V = View(t) /\ W = View(d.slab)
    OBVIOUS
  <2>3. W = [V EXCEPT ![a] = w] /\ V = [y \in AllSlots |-> V[y]]
    BY <1>14, <2>1, <2>2
  <2>4. \A y \in AllSlots : W[y] = IF y = a THEN w ELSE V[y]
    BY <2>3
  <2> QED
    BY <2>2, <2>4
<1>16. /\ x \in Open(c, N) /\ Open(d, N) = Open(c, N) \ {x}
       /\ Held(d) = View(d.slab) /\ Held(c) = View(s)
  BY <1>1, <1>5, <1>14 DEF Open, Held
<1>17. /\ DOMAIN d.CapabilityTree = DOMAIN c.CapabilityTree \cup {w.Object}
       /\ \A k \in DOMAIN c.CapabilityTree : d.CapabilityTree[k] = c.CapabilityTree[k]
       /\ d.CapabilityTree[w.Object] = a
  BY <1>1, <1>14
<1>18. /\ Held(d)[x] = w /\ Held(d)[a] = w
       /\ \A y \in AllSlots : y # x /\ y # a => Held(d)[y] = Held(c)[y]
  BY <1>7, <1>8, <1>12, <1>15, <1>16
<1>19. \E r : /\ Allocates(c.slab, r, N, x, w)
              /\ d.slab.links = r.links /\ d.slab.FreeElements = r.FreeElements
  BY <1>14
<1> QED
  BY <1>14, <1>16, <1>17, <1>18, <1>19 DEF Generates

(* GenerateCapability, as long as a slot is free.                          *)
NewCap(kind, object, size, rights) ==
    [IsMasked |-> FALSE, Type |-> kind, Object |-> object, Size |-> size,
     AccessRights |-> rights, AccessRightsMask |-> CAPABILITY_RIGHTS]

(* GenerateCapability takes a free slot, if there is one, and links it.    *)
LEMMA GenerateOK ==
    ASSUME NEW c, NEW N, SpaceOK(c, N), Open(c, N) # {},
           NEW kind \in ObjectTypes, NEW object \in Nat, NEW size \in Nat,
           NEW rights \in SUBSET CAPABILITY_RIGHTS,
           NEW w, w = NewCap(kind, object, size, rights),
           NEW g, g = GenerateCapability(c, kind, object, size, rights)
    PROVE  g.cap # NULL /\ Generates(c, g.space, N, g.cap, w)
<1>1. PICK s, T, F : s = c.slab /\ T = c.CapabilityTree /\ F = c.Fault /\ F = FALSE
  BY DEF SpaceOK
<1>2. /\ SlabOK(s, N) /\ N \in SUBSET Pages /\ OpenSlots(s, N) # {}
      /\ c = [slab |-> s, CapabilityTree |-> T, Fault |-> F]
  BY <1>1 DEF SpaceOK, SlabOK, Open
<1>3. w \in Caps /\ w.Type \in ObjectTypes /\ w.Type # "NULL_CAPABILITY"
      /\ w.Object = object
  BY TypeNames DEF NewCap, Caps
<1>4. PICK r, x, t : /\ r = AllocateSlabSlot(s) /\ x = r.slot
                     /\ t = [r.slab EXCEPT !.Slots[x[1]][x[2]] = w]
  OBVIOUS
<1>5. x # NULL /\ x \in AllSlots /\ Allocates(s, t, N, x, w)
  BY <1>2, <1>3, <1>4, AllocateOK
<1>6. g = FillSlot(c, r, w)
  BY <1>1, <1>4 DEF GenerateCapability, NewCap
<1>7. PICK e : e = [slab |-> t, CapabilityTree |-> T, Fault |-> F]
  OBVIOUS
<1>8. e = [c EXCEPT !.slab = t]
  BY <1>2, <1>7
<1>9. g = [space |-> Insert(e, x), cap |-> x]
  BY <1>4, <1>5, <1>6, <1>8 DEF FillSlot
<1>10. Cap(e, x) = w
  <2>1. View(t) = [View(s) EXCEPT ![x] = w]
    BY <1>5 DEF Allocates
  <2>2. View(t)[x] = w
    BY <1>5, <2>1 DEF View
  <2> QED
    BY <1>5, <1>7, <2>2 DEF Cap, View
<1>11. CASE w.Object \notin DOMAIN T
  <2>1. AddressCapability(e, w.Object) = NULL
    BY <1>7, <1>11 DEF AddressCapability
  <2>2. Insert(e, x) = [e EXCEPT !.CapabilityTree = WithKey(T, w.Object, x)]
    BY <1>7, <1>10, <2>1 DEF Insert
  <2>3. Insert(e, x) = [slab |-> t, CapabilityTree |-> WithKey(T, w.Object, x), Fault |-> F]
    BY <1>7, <2>2
  <2>4. PICK d : d = Insert(e, x)
    OBVIOUS
  <2>5. Generates(c, d, N, x, w)
    BY <1>1, <1>3, <1>5, <1>11, <2>3, <2>4, LinkOK
  <2> QED
    BY <1>5, <1>9, <2>4, <2>5
<1>12. CASE w.Object \in DOMAIN T
  <2>1. PICK a : a = T[w.Object]
    OBVIOUS
  <2>2. a # NULL /\ AddressCapability(e, w.Object) = a
    <3>1. a \in N \X SlotIndex
      BY <1>1, <1>12, <2>1 DEF SpaceOK
    <3> QED
      BY <1>2, <1>7, <1>12, <2>1, <3>1, SlotOfNode DEF AddressCapability
  <2>3. Insert(e, x) = [e EXCEPT !.slab.Slots[a[1]][a[2]] = w]
    BY <1>10, <2>2 DEF Insert
  <2>4. PICK d : d = [[c EXCEPT !.slab = t] EXCEPT !.slab.Slots[a[1]][a[2]] = w]
    OBVIOUS
  <2>5. Generates(c, d, N, x, w)
    BY <1>1, <1>3, <1>5, <1>12, <2>1, <2>4, CopyOK
  <2> QED
    BY <1>5, <1>8, <1>9, <2>3, <2>4, <2>5
<1> QED
  BY <1>11, <1>12

-----------------------------------------------------------------------------

(* Writing the full mask into a slot that has it changes nothing.          *)
LEMMA SetMaskOK ==
    ASSUME NEW c, NEW N, NEW x, NEW w \in Caps, w.Type \in ObjectTypes,
           w.AccessRightsMask = CAPABILITY_RIGHTS, NEW e, Generates(e, c, N, x, w),
           NEW d, d = SetMask(c, x, CAPABILITY_RIGHTS)
    PROVE  Generates(e, d, N, x, w)
<1>1. SpaceOK(c, N) /\ x \in Open(e, N) /\ Held(c)[x] = w
  BY DEF Generates
<1>2. x \in N \X SlotIndex /\ x \in AllSlots
  <2>1. N \in SUBSET Pages
    BY <1>1 DEF SpaceOK, SlabOK
  <2>2. x \in N \X SlotIndex
    BY <1>1 DEF Open, OpenSlots
  <2> QED
    BY <2>1, <2>2, SlotOfNode
<1>3. PICK v : v = [w EXCEPT !.AccessRightsMask = CAPABILITY_RIGHTS]
  OBVIOUS
<1>4. v = w
  BY <1>3 DEF Caps
<1>5. d = [c EXCEPT !.slab.Slots[x[1]][x[2]] = v]
  <2>1. c.slab.Slots[x[1]][x[2]] = w
    BY <1>1, <1>2 DEF Held, View
  <2> QED
    BY <1>3, <2>1 DEF SetMask
<1>6. /\ w.Type # "NULL_CAPABILITY" /\ Held(c)[x].Type # "NULL_CAPABILITY"
      /\ w.Object = Held(c)[x].Object /\ d = [c EXCEPT !.slab.Slots[x[1]][x[2]] = w]
  BY <1>1, <1>4, <1>5, TypeNames
<1>7. Covers(c, d, N, x, w)
  BY <1>1, <1>2, <1>6, CoverOK
<1>8. /\ SpaceOK(d, N) /\ d.CapabilityTree = c.CapabilityTree
      /\ View(d.slab) = [View(c.slab) EXCEPT ![x] = w]
      /\ OpenSlots(d.slab, N) = OpenSlots(c.slab, N)
      /\ d.slab.links = c.slab.links /\ d.slab.FreeElements = c.slab.FreeElements
  BY <1>7 DEF Covers, Overwrites
<1>9. Held(d) = Held(c) /\ Open(d, N) = Open(c, N)
  <2>1. PICK V : V = View(c.slab) /\ V[x] = w /\ V = [y \in AllSlots |-> V[y]]
    BY <1>1 DEF Held, View
  <2>2. View(d.slab) = [V EXCEPT ![x] = w]
    BY <1>8, <2>1
  <2>3. [V EXCEPT ![x] = w] = V
    BY <2>1
  <2> QED
    BY <1>8, <2>1, <2>2, <2>3 DEF Held, Open
<1> QED
  BY <1>8, <1>9 DEF Generates

(* The run r is q with the capability w in the slot x.                     *)
Extends(d, r, N, q, e, x, w) ==
    Generates(d, e, N, x, w) /\ r = [space |-> e, array |-> Append(q, x)]

(* A run is extended by a capability, as long as a slot is free.           *)
LEMMA ExtendOK ==
    ASSUME NEW run, NEW d, d = run.space, NEW q, q = run.array,
           run = [space |-> d, array |-> q], NEW N, SpaceOK(d, N), Open(d, N) # {},
           NEW kind \in ObjectTypes, NEW object \in Nat, NEW size \in Nat,
           NEW rights \in SUBSET CAPABILITY_RIGHTS,
           NEW w, w = NewCap(kind, object, size, rights),
           NEW r, r = Extend(run, GenerateCapability(d, kind, object, size, rights),
                             CAPABILITY_RIGHTS)
    PROVE  \E e, x : Extends(d, r, N, q, e, x, w)
<1>1. PICK g, x : g = GenerateCapability(d, kind, object, size, rights) /\ x = g.cap
  OBVIOUS
<1>2. x # NULL /\ Generates(d, g.space, N, x, w)
  BY <1>1, GenerateOK
<1>3. PICK e : e = SetMask(g.space, x, CAPABILITY_RIGHTS)
  OBVIOUS
<1>4. r = [space |-> e, array |-> Append(q, x)]
  BY <1>1, <1>2, <1>3 DEF Extend
<1>5. w \in Caps /\ w.Type \in ObjectTypes /\ w.AccessRightsMask = CAPABILITY_RIGHTS
  BY TypeNames DEF NewCap, Caps
<1>6. Generates(d, e, N, x, w)
  BY <1>2, <1>3, <1>5, SetMaskOK
<1> QED
  BY <1>4, <1>6 DEF Extends

(* The run q of k capabilities has been generated at the first addresses   *)
(* of a, the first of which was in the tree.                               *)
Ran(c, d, N, a, q, k, kind, size, rights) ==
    /\ SpaceOK(d, N)
    /\ q \in Seq(AllSlots) /\ Len(q) = k
    /\ \A j \in 1 .. k : q[j] \in Open(c, N)
    /\ \A i, j \in 1 .. k : i # j => q[i] # q[j]
    /\ Open(d, N) = Open(c, N) \ Items(q)
    /\ Cardinality(Open(d, N)) = Cardinality(Open(c, N)) - k
    /\ DOMAIN d.CapabilityTree = DOMAIN c.CapabilityTree \cup {a[j] : j \in 1 .. k}
    /\ \A key \in DOMAIN c.CapabilityTree : d.CapabilityTree[key] = c.CapabilityTree[key]
    /\ \A j \in 2 .. k : d.CapabilityTree[a[j]] = q[j]
    /\ \A j \in 1 .. k : Held(d)[q[j]] = NewCap(kind, a[j], size, rights)
    /\ k # 0 => Held(d)[c.CapabilityTree[a[1]]] = NewCap(kind, a[1], size, rights)
    /\ \A x \in AllSlots :
         x \notin Items(q) /\ x # c.CapabilityTree[a[1]] => Held(d)[x] = Held(c)[x]

(* One more capability of a run.                                           *)
LEMMA RanStep ==
    ASSUME NEW c, NEW N, SpaceOK(c, N), NEW number \in Nat, NEW k \in 0 .. number - 1,
           NEW a \in [1 .. number -> Nat], \A i, j \in 1 .. number : i # j => a[i] # a[j],
           a[1] \in DOMAIN c.CapabilityTree,
           \A j \in 2 .. number : a[j] \notin DOMAIN c.CapabilityTree,
           NEW kind \in ObjectTypes, NEW size \in Nat, NEW rights \in SUBSET CAPABILITY_RIGHTS,
           NEW d, NEW q, Ran(c, d, N, a, q, k, kind, size, rights),
           NEW w, w = NewCap(kind, a[k + 1], size, rights),
           NEW e, NEW x, Generates(d, e, N, x, w)
    PROVE  Ran(c, e, N, a, Append(q, x), k + 1, kind, size, rights)
<1>1. PICK p : p = Append(q, x)
  OBVIOUS
<1>2. PICK T, U, V, O, P, Q : /\ T = c.CapabilityTree /\ U = d.CapabilityTree
                              /\ V = e.CapabilityTree /\ O = Open(c, N)
                              /\ P = Open(d, N) /\ Q = Open(e, N)
  OBVIOUS
<1>3. PICK A : A = T[a[1]]
  OBVIOUS
<1>4. /\ q \in Seq(AllSlots) /\ Len(q) = k
      /\ \A j \in 1 .. k : q[j] \in O
      /\ \A i, j \in 1 .. k : i # j => q[i] # q[j]
      /\ P = O \ Items(q)
      /\ Cardinality(P) = Cardinality(O) - k
      /\ DOMAIN U = DOMAIN T \cup {a[j] : j \in 1 .. k}
      /\ \A key \in DOMAIN T : U[key] = T[key]
      /\ \A j \in 2 .. k : U[a[j]] = q[j]
      /\ \A j \in 1 .. k : Held(d)[q[j]] = NewCap(kind, a[j], size, rights)
      /\ k # 0 => Held(d)[A] = NewCap(kind, a[1], size, rights)
      /\ \A y \in AllSlots : y \notin Items(q) /\ y # A => Held(d)[y] = Held(c)[y]
  BY <1>2, <1>3 DEF Ran
<1>5. w.Object = a[k + 1]
  BY DEF NewCap
<1>6. PICK L : L = V[a[k + 1]]
  OBVIOUS
<1>7. /\ x \in P /\ SpaceOK(e, N) /\ Q = P \ {x}
      /\ DOMAIN V = DOMAIN U \cup {a[k + 1]}
      /\ \A key \in DOMAIN U : V[key] = U[key]
      /\ a[k + 1] \notin DOMAIN U => L = x
      /\ Held(e)[x] = w /\ Held(e)[L] = w
      /\ \A y \in AllSlots : y # x /\ y # L => Held(e)[y] = Held(d)[y]
  BY <1>2, <1>5, <1>6 DEF Generates
<1>8. /\ O \in SUBSET AllSlots /\ N \in SUBSET Pages
      /\ \A y \in O : Held(c)[y].Type = "NULL_CAPABILITY"
  <2>1. N \in SUBSET Pages
    BY DEF SpaceOK, SlabOK
  <2> QED
    BY <1>2, <2>1 DEF Open, OpenSlots, AllSlots, Held
<1>9. A \in AllSlots /\ A \notin O
  <2>1. A \in N \X SlotIndex /\ Held(c)[A].Type \in ObjectTypes
    BY <1>2, <1>3 DEF SpaceOK
  <2> QED
    BY <1>8, <2>1, SlotOfNode, TypeNames
<1>10. x \in AllSlots /\ x \in O /\ x \notin Items(q) /\ x # A
  BY <1>4, <1>7, <1>8, <1>9
<1>11. /\ p \in Seq(AllSlots) /\ Len(p) = k + 1 /\ p[k + 1] = x
       /\ \A j \in 1 .. k : p[j] = q[j]
  BY <1>1, <1>4, <1>10
<1>12. \A j : j \in 1 .. k + 1 <=> j \in 1 .. k \/ j = k + 1
  OBVIOUS
<1>13. k + 1 \in 1 .. number /\ \A j \in 1 .. k : j \in 1 .. number /\ j # k + 1
  OBVIOUS
<1>14. Items(p) = Items(q) \cup {x}
  <2>1. Items(p) = {p[j] : j \in 1 .. k + 1} /\ Items(q) = {q[j] : j \in 1 .. k}
    BY <1>4, <1>11 DEF Items
  <2>2. {p[j] : j \in 1 .. k + 1} = {p[j] : j \in 1 .. k} \cup {p[k + 1]}
    BY <1>12
  <2>3. {p[j] : j \in 1 .. k} = {q[j] : j \in 1 .. k}
    BY <1>11
  <2> QED
    BY <1>11, <2>1, <2>2, <2>3
<1>15. /\ \A j \in 1 .. k + 1 : p[j] \in O
       /\ \A i, j \in 1 .. k + 1 : i # j => p[i] # p[j]
  <2>1. \A j \in 1 .. k : q[j] # x
    BY <1>4, <1>10 DEF Items
  <2>2. \A j \in 1 .. k + 1 : p[j] \in O
    BY <1>4, <1>10, <1>11, <1>12
  <2>3. ASSUME NEW i \in 1 .. k + 1, NEW j \in 1 .. k + 1, i # j PROVE p[i] # p[j]
    <3>1. CASE i \in 1 .. k /\ j \in 1 .. k
      BY <1>4, <1>11, <2>3, <3>1
    <3>2. CASE i = k + 1
      <4>1. j \in 1 .. k
        BY <2>3, <3>2
      <4> QED
        BY <1>11, <2>1, <3>2, <4>1
    <3>3. CASE j = k + 1
      <4>1. i \in 1 .. k
        BY <2>3, <3>3
      <4> QED
        BY <1>11, <2>1, <3>3, <4>1
    <3> QED
      BY <1>12, <3>1, <3>2, <3>3
  <2> QED
    BY <2>2, <2>3
<1>16. Q = O \ Items(p)
  BY <1>4, <1>7, <1>14
<1>17. Cardinality(Q) = Cardinality(O) - (k + 1)
  <2>1. IsFiniteSet(O)
    BY <1>2, <1>8, FinitePages DEF Open
  <2>2. IsFiniteSet(P)
    BY <1>4, <2>1, FS_Subset
  <2>3. Cardinality(Q) = Cardinality(P) - 1
    BY <1>7, <2>2, FS_RemoveElement
  <2>4. Cardinality(O) \in Nat
    BY <2>1, FS_CardinalityType
  <2> QED
    BY <1>4, <2>3, <2>4
<1>18. DOMAIN V = DOMAIN T \cup {a[j] : j \in 1 .. k + 1}
  <2>1. {a[j] : j \in 1 .. k + 1} = {a[j] : j \in 1 .. k} \cup {a[k + 1]}
    BY <1>12
  <2> QED
    BY <1>4, <1>7, <2>1
<1>19. \A key \in DOMAIN T : V[key] = T[key]
  BY <1>4, <1>7
<1>20. k # 0 => a[k + 1] \notin DOMAIN U /\ L = x
  <2>1. k # 0 => a[k + 1] \notin DOMAIN T
    <3>1. k # 0 => k + 1 \in 2 .. number
      OBVIOUS
    <3> QED
      BY <1>2, <3>1
  <2>2. \A j \in 1 .. k : a[j] # a[k + 1]
    BY <1>13
  <2> QED
    BY <1>4, <1>7, <2>1, <2>2
<1>21. k = 0 => L = A
  BY <1>2, <1>3, <1>6, <1>19
<1>22. \A j \in 2 .. k + 1 : V[a[j]] = p[j]
  <2> SUFFICES ASSUME NEW j \in 2 .. k + 1 PROVE V[a[j]] = p[j]
    OBVIOUS
  <2>1. CASE j = k + 1
    <3>1. k # 0
      BY <2>1
    <3> QED
      BY <1>6, <1>11, <1>20, <2>1, <3>1
  <2>2. CASE j # k + 1
    <3>1. j \in 2 .. k /\ j \in 1 .. k
      BY <2>2
    <3>2. U[a[j]] = q[j] /\ a[j] \in DOMAIN U
      BY <1>4, <3>1
    <3> QED
      BY <1>7, <1>11, <3>1, <3>2
  <2> QED
    BY <2>1, <2>2
<1>23. \A j \in 1 .. k + 1 : Held(e)[p[j]] = NewCap(kind, a[j], size, rights)
  <2> SUFFICES ASSUME NEW j \in 1 .. k + 1
               PROVE  Held(e)[p[j]] = NewCap(kind, a[j], size, rights)
    OBVIOUS
  <2>1. CASE j = k + 1
    BY <1>7, <1>11, <2>1
  <2>2. CASE j # k + 1
    <3>1. j \in 1 .. k /\ k # 0
      BY <2>2
    <3>2. q[j] \in AllSlots /\ q[j] # x /\ q[j] # L
      BY <1>4, <1>8, <1>10, <1>20, <3>1 DEF Items
    <3> QED
      BY <1>4, <1>7, <1>11, <3>1, <3>2
  <2> QED
    BY <2>1, <2>2
<1>24. Held(e)[A] = NewCap(kind, a[1], size, rights)
  <2>1. CASE k = 0
    BY <1>7, <1>21, <2>1
  <2>2. CASE k # 0
    BY <1>4, <1>7, <1>9, <1>10, <1>20, <2>2
  <2> QED
    BY <2>1, <2>2
<1>25. \A y \in AllSlots : y \notin Items(p) /\ y # A => Held(e)[y] = Held(c)[y]
  <2>1. L = x \/ L = A
    BY <1>20, <1>21
  <2> QED
    BY <1>4, <1>7, <1>14, <2>1
<1> QED
  BY <1>1, <1>2, <1>3, <1>7, <1>11, <1>15, <1>16, <1>17, <1>18, <1>19, <1>22, <1>23, <1>24, <1>25 DEF Ran

-----------------------------------------------------------------------------

(* One turn of the loops that generate runs, and the function of turns     *)
(* that GenerateRun defines.                                               *)
RunTurn(run, k, kind, start, size, rights) ==
    IF Len(run.array) < k - 1 THEN run
    ELSE Extend(run, GenerateCapability(run.space, kind, (start + (k - 1) * size) % USIZE,
                                        size, rights), CAPABILITY_RIGHTS)

RunTurns(c, kind, start, size, number, rights, f) ==
    f = [k \in 0 .. number |->
            IF k = 0 THEN [space |-> c, array |-> <<>>]
            ELSE RunTurn(f[k - 1], k, kind, start, size, rights)]

(* There is such a function.                                               *)
LEMMA RunTurnsExist ==
    ASSUME NEW c, NEW kind, NEW start, NEW size, NEW rights, NEW number \in Nat
    PROVE  \E f : RunTurns(c, kind, start, size, number, rights, f)
<1> DEFINE B == {n \in Nat : ~\E f : RunTurns(c, kind, start, size, n, rights, f)}
           T(run, k) == RunTurn(run, k, kind, start, size, rights)
<1>1. ASSUME B # {} PROVE FALSE
  <2>1. PICK n \in B : \A m \in B : n <= m
    <3>1. B \in SUBSET Nat
      OBVIOUS
    <3> HIDE DEF B
    <3> QED
      BY <1>1, <3>1, LeastElement
  <2>2. n \in Nat /\ ~\E f : RunTurns(c, kind, start, size, n, rights, f)
    BY <2>1
  <2>3. CASE n = 0
    <3> DEFINE f == [k \in 0 .. 0 |-> [space |-> c, array |-> <<>>]]
    <3>1. f = [k \in 0 .. 0 |-> IF k = 0 THEN [space |-> c, array |-> <<>>] ELSE T(f[k - 1], k)]
      OBVIOUS
    <3> QED
      BY <2>2, <2>3, <3>1 DEF RunTurns
  <2>4. CASE n # 0
    <3>1. n - 1 \in Nat /\ ~(n <= n - 1)
      BY <2>2, <2>4
    <3>2. n - 1 \notin B
      <4> HIDE DEF B
      <4> QED
        BY <2>1, <3>1
    <3>3. PICK f : RunTurns(c, kind, start, size, n - 1, rights, f)
      BY <3>1, <3>2
    <3>4. f = [k \in 0 .. n - 1 |-> IF k = 0 THEN [space |-> c, array |-> <<>>]
                                   ELSE T(f[k - 1], k)]
      BY <3>3 DEF RunTurns
    <3> HIDE DEF T
    <3> DEFINE g == [k \in 0 .. n |-> IF k = n THEN T(f[n - 1], n) ELSE f[k]]
    <3>5. ASSUME NEW k \in 0 .. n
          PROVE  g[k] = IF k = 0 THEN [space |-> c, array |-> <<>>] ELSE T(g[k - 1], k)
      <4>1. CASE k = n
        <5>1. n - 1 \in 0 .. n /\ n - 1 # n
          BY <2>2, <3>1
        <5> QED
          BY <2>4, <4>1, <5>1
      <4>2. CASE k # n
        <5>1. k \in 0 .. n - 1
          BY <2>2, <4>2
        <5>2. k # 0 => k - 1 \in 0 .. n /\ k - 1 # n
          BY <2>2, <4>2
        <5> QED
          BY <3>4, <4>2, <5>1, <5>2
      <4> QED
        BY <4>1, <4>2
    <3> HIDE DEF g
    <3>6. g = [k \in 0 .. n |-> g[k]]
      BY DEF g
    <3>7. g = [k \in 0 .. n |-> IF k = 0 THEN [space |-> c, array |-> <<>>] ELSE T(g[k - 1], k)]
      BY <3>5, <3>6
    <3> QED
      BY <2>2, <3>7 DEF RunTurns, T
  <2> QED
    BY <2>3, <2>4
<1> QED
  BY <1>1

(* GenerateRun is the last turn of such a function.                        *)
LEMMA GenerateRunTurns ==
    ASSUME NEW c, NEW kind, NEW start, NEW size, NEW rights, NEW number \in Nat
    PROVE  \E f : /\ RunTurns(c, kind, start, size, number, rights, f)
                  /\ GenerateRun(c, kind, start, size, number, rights, CAPABILITY_RIGHTS)
                       = f[number]
<1> DEFINE Turn(run, k) ==
               IF Len(run.array) < k - 1 THEN run
               ELSE Extend(run, GenerateCapability(run.space, kind,
                                                   (start + (k - 1) * size) % USIZE,
                                                   size, rights), CAPABILITY_RIGHTS)
           turns[k \in 0 .. number] ==
               IF k = 0 THEN [space |-> c, array |-> <<>>] ELSE Turn(turns[k - 1], k)
<1>1. GenerateRun(c, kind, start, size, number, rights, CAPABILITY_RIGHTS) = turns[number]
  BY DEF GenerateRun
<1>2. turns = CHOOSE f : RunTurns(c, kind, start, size, number, rights, f)
  BY DEF RunTurns, RunTurn
<1>3. RunTurns(c, kind, start, size, number, rights, turns)
  BY <1>2, RunTurnsExist
<1> QED
  BY <1>1, <1>3

-----------------------------------------------------------------------------

(* Arithmetic of machine words that do not wrap around.                    *)
LEMMA NoWrap ==
    ASSUME NEW n \in Nat, n < USIZE
    PROVE  /\ (n % USIZE) = n
           /\ ((n + 2 * USIZE) % USIZE) = n
<1>1. USIZE \in Nat \ {0}
  BY UsizeAssumption, PageSizeAssumption
<1> QED
  BY <1>1

(* The addresses of a run.                                                 *)
RunAddresses(a, start, size, number) ==
    /\ a \in [1 .. number -> Nat]
    /\ \A j \in 1 .. number : a[j] = start + (j - 1) * size /\ a[j] < USIZE
    /\ \A i, j \in 1 .. number : i # j => a[i] # a[j]

(* GenerateRun generates a capability for every address, as long as there  *)
(* are slots.                                                              *)
LEMMA RunOK ==
    ASSUME NEW c, NEW N, SpaceOK(c, N), NEW number \in Nat,
           Cardinality(Open(c, N)) >= number, Cardinality(Open(c, N)) \in Nat,
           NEW kind \in ObjectTypes, NEW size \in Nat, NEW rights \in SUBSET CAPABILITY_RIGHTS,
           NEW start \in Nat, NEW a, RunAddresses(a, start, size, number),
           a[1] \in DOMAIN c.CapabilityTree,
           \A j \in 2 .. number : a[j] \notin DOMAIN c.CapabilityTree,
           NEW r, r = GenerateRun(c, kind, start, size, number, rights, CAPABILITY_RIGHTS)
    PROVE  /\ r = [space |-> r.space, array |-> r.array]
           /\ Ran(c, r.space, N, a, r.array, number, kind, size, rights)
<1>1. PICK f : RunTurns(c, kind, start, size, number, rights, f) /\ r = f[number]
  BY GenerateRunTurns
<1>2. \A k \in 0 .. number :
        f[k] = IF k = 0 THEN [space |-> c, array |-> <<>>]
               ELSE RunTurn(f[k - 1], k, kind, start, size, rights)
  BY <1>1 DEF RunTurns
<1> DEFINE Good(k) == \E d, q : /\ f[k] = [space |-> d, array |-> q]
                                /\ Ran(c, d, N, a, q, k, kind, size, rights)
           B == {k \in 0 .. number : ~Good(k)}
<1>3. Good(0)
  <2>1. f[0] = [space |-> c, array |-> <<>>]
    BY <1>2
  <2>2. PICK q : q = <<>>
    OBVIOUS
  <2>3. /\ q \in Seq(AllSlots) /\ Len(q) = 0 /\ Items(q) = {}
        /\ \A j : j \notin 1 .. 0 /\ j \notin 2 .. 0
    BY <2>2, EmptySeq DEF Items
  <2>4. {a[j] : j \in 1 .. 0} = {}
    BY <2>3
  <2>5. Ran(c, c, N, a, q, 0, kind, size, rights)
    BY <2>3, <2>4 DEF Ran
  <2> QED
    BY <2>1, <2>2, <2>5
<1>4. ASSUME NEW k \in 0 .. number, k # 0, Good(k - 1) PROVE Good(k)
  <2>1. PICK d, q : /\ f[k - 1] = [space |-> d, array |-> q]
                    /\ Ran(c, d, N, a, q, k - 1, kind, size, rights)
    BY <1>4
  <2>2. k - 1 \in 0 .. number - 1 /\ k \in 1 .. number /\ k \in Nat
    BY <1>4
  <2>3. /\ SpaceOK(d, N) /\ Len(q) = k - 1
        /\ Cardinality(Open(d, N)) = Cardinality(Open(c, N)) - (k - 1)
    BY <2>1 DEF Ran
  <2>4. Open(d, N) # {}
    <3>1. Cardinality(Open(d, N)) # 0
      BY <2>2, <2>3
    <3> QED
      BY <3>1, FS_EmptySet
  <2>5. PICK run : run = f[k - 1]
    OBVIOUS
  <2>6. d = run.space /\ q = run.array /\ run = [space |-> d, array |-> q]
    BY <2>1, <2>5
  <2>7. PICK object \in Nat : object = a[k] /\ ((start + (k - 1) * size) % USIZE) = object
    <3>1. a[k] \in Nat /\ a[k] < USIZE /\ a[k] = start + (k - 1) * size
      BY <2>2 DEF RunAddresses
    <3>2. PICK object \in Nat : object = a[k] /\ object < USIZE
      BY <3>1
    <3>3. (object % USIZE) = object
      BY <3>2, NoWrap
    <3> QED
      BY <3>1, <3>2, <3>3
  <2>8. f[k] = RunTurn(run, k, kind, start, size, rights)
    BY <1>2, <1>4, <2>5
  <2>9. f[k] = Extend(run, GenerateCapability(d, kind, object, size, rights), CAPABILITY_RIGHTS)
    BY <2>2, <2>3, <2>6, <2>7, <2>8 DEF RunTurn
  <2>10. PICK w : w = NewCap(kind, object, size, rights)
    OBVIOUS
  <2>11. PICK e, x : Generates(d, e, N, x, w) /\ f[k] = [space |-> e, array |-> Append(q, x)]
    <3>1. PICK v : v = f[k]
      OBVIOUS
    <3>2. v = Extend(run, GenerateCapability(d, kind, object, size, rights), CAPABILITY_RIGHTS)
      BY <2>9, <3>1
    <3>3. \E e, x : Extends(d, v, N, q, e, x, w)
      BY <2>3, <2>4, <2>6, <2>10, <3>2, ExtendOK
    <3> QED
      BY <3>1, <3>3 DEF Extends
  <2>12. Ran(c, e, N, a, Append(q, x), k, kind, size, rights)
    <3>1. PICK i \in 0 .. number - 1 : i = k - 1 /\ i + 1 = k
      BY <2>2
    <3>2. w = NewCap(kind, a[i + 1], size, rights)
      BY <2>7, <2>10, <3>1
    <3>3. Ran(c, d, N, a, q, i, kind, size, rights)
      BY <2>1, <3>1
    <3>4. a \in [1 .. number -> Nat] /\ \A m, j \in 1 .. number : m # j => a[m] # a[j]
      BY DEF RunAddresses
    <3>5. Ran(c, e, N, a, Append(q, x), i + 1, kind, size, rights)
      BY <2>11, <3>2, <3>3, <3>4, RanStep
    <3> QED
      BY <3>1, <3>5
  <2> QED
    BY <2>11, <2>12
<1>5. ASSUME B # {} PROVE FALSE
  <2>1. PICK k \in B : \A m \in B : k <= m
    <3>1. B \in SUBSET Nat
      OBVIOUS
    <3> HIDE DEF B
    <3> QED
      BY <1>5, <3>1, LeastElement
  <2>2. k \in 0 .. number /\ ~Good(k)
    BY <2>1
  <2>3. k # 0
    BY <1>3, <2>2
  <2>4. k - 1 \in 0 .. number /\ ~(k <= k - 1)
    BY <2>2, <2>3
  <2>5. k - 1 \notin B
    <3> HIDE DEF B
    <3> QED
      BY <2>1, <2>4
  <2>6. Good(k - 1)
    BY <2>4, <2>5
  <2> HIDE DEF Good
  <2> QED
    BY <1>4, <2>2, <2>3, <2>6
<1>6. Good(number)
  <2>1. number \in 0 .. number
    OBVIOUS
  <2> HIDE DEF Good
  <2> QED
    BY <1>5, <2>1
<1> QED
  BY <1>1, <1>6

-----------------------------------------------------------------------------

(* The pages of the region by number.                                      *)
PageAt(i) == FramesBase + PAGE_SIZE * i

PageCount == Area.Length \div PAGE_SIZE

AreaRights == {"ACCESS", "RETYPE", "GRANT"}

(* A piece of n pages, and what is left of the region from page u on.      *)
PieceCap(u, n) == NewCap("UNTYPED_FRAMES", PageAt(u), PAGE_SIZE * n, AreaRights)
AreaCap(u) == PieceCap(u, PageCount - u)
PageCap(kind, i) == NewCap(kind, PageAt(i), PAGE_SIZE, AreaRights)

(* Products with the size of a page.                                       *)
LEMMA TimesPage ==
    ASSUME NEW i \in Nat, NEW j \in Nat
    PROVE  /\ PAGE_SIZE \in Nat \ {0, 1} /\ PAGE_SIZE * i \in Nat
           /\ PAGE_SIZE * (i + j) = PAGE_SIZE * i + PAGE_SIZE * j
           /\ i < j => PAGE_SIZE * i + PAGE_SIZE <= PAGE_SIZE * j
           /\ PAGE_SIZE * i = PAGE_SIZE * j => i = j
           /\ ((PAGE_SIZE * i) \div PAGE_SIZE) = i
           /\ PAGE_SIZE * 1 = PAGE_SIZE /\ PAGE_SIZE * 0 = 0
<1>1. PAGE_SIZE \in Nat \ {0, 1}
  BY PageSizeAssumption
<1>2. PAGE_SIZE * i \in Nat /\ PAGE_SIZE * j \in Nat
  BY <1>1
<1>3. PAGE_SIZE * (i + j) = PAGE_SIZE * i + PAGE_SIZE * j
  BY <1>1
<1>4. \A m, k \in Nat : m < k => PAGE_SIZE * m + PAGE_SIZE <= PAGE_SIZE * k
  <2> SUFFICES ASSUME NEW m \in Nat, NEW k \in Nat, m < k
               PROVE  PAGE_SIZE * m + PAGE_SIZE <= PAGE_SIZE * k
    OBVIOUS
  <2>1. PICK d \in Nat : k = m + 1 + d
    <3>1. k - m - 1 \in Nat /\ k = m + 1 + (k - m - 1)
      OBVIOUS
    <3> QED
      BY <3>1
  <2>2. PAGE_SIZE * k = PAGE_SIZE * m + PAGE_SIZE + PAGE_SIZE * d
    BY <1>1, <2>1
  <2>3. PAGE_SIZE * d \in Nat /\ PAGE_SIZE * m \in Nat
    BY <1>1
  <2> QED
    BY <1>1, <2>2, <2>3
<1>5. PAGE_SIZE * i = PAGE_SIZE * j => i = j
  <2>1. i < j \/ j < i \/ i = j
    OBVIOUS
  <2>2. i < j => PAGE_SIZE * i + PAGE_SIZE <= PAGE_SIZE * j
    BY <1>4
  <2>3. j < i => PAGE_SIZE * j + PAGE_SIZE <= PAGE_SIZE * i
    BY <1>4
  <2> QED
    BY <1>1, <1>2, <2>1, <2>2, <2>3
<1>6. ((PAGE_SIZE * i) \div PAGE_SIZE) = i
  BY <1>1
<1> QED
  BY <1>1, <1>2, <1>3, <1>4, <1>5, <1>6

(* The pages are at distinct addresses below the end of the region.        *)
LEMMA PageAtFacts ==
    ASSUME NEW i \in Nat, NEW j \in Nat
    PROVE  /\ PageAt(i) \in Nat
           /\ PageAt(i + j) = PageAt(i) + PAGE_SIZE * j
           /\ i < j => PageAt(i) + PAGE_SIZE <= PageAt(j)
           /\ PageAt(i) = PageAt(j) => i = j
<1>1. FramesBase \in Nat
  BY MemoryAssumption
<1>2. /\ PAGE_SIZE * i \in Nat /\ PAGE_SIZE * j \in Nat
      /\ PAGE_SIZE * (i + j) = PAGE_SIZE * i + PAGE_SIZE * j
      /\ i < j => PAGE_SIZE * i + PAGE_SIZE <= PAGE_SIZE * j
      /\ PAGE_SIZE * i = PAGE_SIZE * j => i = j
      /\ PAGE_SIZE \in Nat
  BY TimesPage
<1> QED
  BY <1>1, <1>2 DEF PageAt

(* The region is a whole number of pages that fits the address space.      *)
LEMMA RegionFacts ==
    /\ PageCount \in Nat /\ PageCount > 2 /\ Area.Length = PAGE_SIZE * PageCount
    /\ PageAt(PageCount) = FramesBase + Area.Length /\ PageAt(PageCount) <= USIZE
<1>1. PAGE_SIZE \in Nat \ {0, 1} /\ FramesBase \in Nat
  BY PageSizeAssumption, MemoryAssumption
<1>2. PICK L \in Nat : L = Area.Length
  BY AreaFact
<1>3. (L % PAGE_SIZE) = 0 /\ L > 2 * PAGE_SIZE /\ FramesBase + L <= USIZE
  BY <1>2, MapAssumption
<1>4. PICK k \in Nat : k = (L \div PAGE_SIZE)
  BY <1>1
<1>5. L = PAGE_SIZE * k
  BY <1>1, <1>3, <1>4
<1>6. k > 2
  <2>1. k <= 2 => k = 0 \/ k = 1 \/ k = 2
    OBVIOUS
  <2>2. k = 0 => L = 0
    BY <1>1, <1>5
  <2>3. k = 1 => L = PAGE_SIZE
    BY <1>1, <1>5
  <2>4. k = 2 => L = PAGE_SIZE * 2
    BY <1>5
  <2> QED
    BY <1>1, <1>3, <2>1, <2>2, <2>3, <2>4
<1> QED
  BY <1>2, <1>3, <1>4, <1>5, <1>6 DEF PageCount, PageAt

-----------------------------------------------------------------------------

(* The slot A holds what is left of the region from page u on, and no      *)
(* other page of it is linked.                                             *)
AreaAt(c, u, A) ==
    /\ u \in Nat /\ u < PageCount
    /\ PageAt(u) \in DOMAIN c.CapabilityTree /\ c.CapabilityTree[PageAt(u)] = A
    /\ Held(c)[A] = AreaCap(u)
    /\ \A i \in u + 1 .. PageCount - 1 : PageAt(i) \notin DOMAIN c.CapabilityTree

(* The first n pages have been split off into p; r is the rest.            *)
Splits(c, d, N, u, n, A, p, r) ==
    /\ SpaceOK(d, N)
    /\ p \in Open(c, N) /\ r \in Open(c, N) /\ p # r
    /\ Open(d, N) = Open(c, N) \ {p, r}
    /\ DOMAIN d.CapabilityTree = DOMAIN c.CapabilityTree \cup {PageAt(u + n)}
    /\ \A k \in DOMAIN c.CapabilityTree : d.CapabilityTree[k] = c.CapabilityTree[k]
    /\ d.CapabilityTree[PageAt(u + n)] = r
    /\ Held(d)[p] = PieceCap(u, n)
    /\ Held(d)[r] = AreaCap(u + n)
    /\ \A x \in AllSlots : x # A /\ x # p /\ x # r => Held(d)[x] = Held(c)[x]
    /\ Freeable(d.slab, N, p[1])

(* The rights of the region.                                               *)
LEMMA RightsFact ==
    /\ AreaRights \in SUBSET CAPABILITY_RIGHTS
    /\ "RETYPE" \in AreaRights \cap CAPABILITY_RIGHTS
    /\ AreaRights \cap CAPABILITY_RIGHTS = AreaRights
BY DEF AreaRights, CAPABILITY_RIGHTS

(* The addresses and sizes of a split do not wrap around.                  *)
LEMMA SplitArithmetic ==
    ASSUME NEW u \in Nat, NEW n \in Nat \ {0}, u + n < PageCount
    PROVE  /\ (((PAGE_SIZE * n) * 1) % USIZE) = PAGE_SIZE * n
           /\ ((PAGE_SIZE * n + 0) % USIZE) = PAGE_SIZE * n
           /\ ((((0 + PageAt(u)) % USIZE) + (1 - 1) * (PAGE_SIZE * n)) % USIZE) = PageAt(u)
           /\ ((0 + PageAt(u) + PAGE_SIZE * n) % USIZE) = PageAt(u + n)
           /\ ((PAGE_SIZE * (PageCount - u) - PAGE_SIZE * n - 0 + 2 * USIZE) % USIZE)
                = PAGE_SIZE * (PageCount - (u + n))
           /\ PAGE_SIZE * n < PAGE_SIZE * (PageCount - u)
           /\ u + n \in Nat /\ PageCount - u \in Nat /\ PageCount - (u + n) \in Nat
<1>1. PageCount \in Nat /\ PageAt(PageCount) <= USIZE /\ USIZE \in Nat /\ FramesBase \in Nat
      /\ PAGE_SIZE \in Nat \ {0, 1}
  BY RegionFacts, UsizeAssumption, MemoryAssumption, PageSizeAssumption
<1>2. PICK m \in Nat \ {0} : m = PageCount - (u + n) /\ PageCount = u + n + m
  BY <1>1
<1>3. PICK U, V, W \in Nat : U = PAGE_SIZE * u /\ V = PAGE_SIZE * n /\ W = PAGE_SIZE * m
  BY TimesPage
<1>4. /\ PAGE_SIZE * (u + n) = U + V /\ PAGE_SIZE * (n + m) = V + W
      /\ PAGE_SIZE * (u + n + m) = U + V + W
      /\ V >= PAGE_SIZE /\ W >= PAGE_SIZE
  <2>1. PAGE_SIZE * (u + n) = U + V /\ PAGE_SIZE * (n + m) = V + W
    BY <1>3, TimesPage
  <2>2. PAGE_SIZE * (u + n + m) = PAGE_SIZE * (u + n) + W
    BY <1>3, TimesPage
  <2>3. PAGE_SIZE * 0 + PAGE_SIZE <= V /\ PAGE_SIZE * 0 + PAGE_SIZE <= W
    BY <1>3, TimesPage
  <2>4. PAGE_SIZE * 0 = 0
    BY <1>1
  <2> QED
    BY <1>1, <1>3, <2>1, <2>2, <2>3, <2>4
<1>5. FramesBase + U + V + W <= USIZE
  BY <1>1, <1>2, <1>4 DEF PageAt
<1>6. PageAt(u) = FramesBase + U /\ PageAt(u + n) = FramesBase + U + V
  <2>1. PageAt(u) = FramesBase + PAGE_SIZE * u /\ PageAt(u + n) = FramesBase + PAGE_SIZE * (u + n)
    BY DEF PageAt
  <2>2. PICK P : P = PAGE_SIZE * (u + n)
    OBVIOUS
  <2>3. FramesBase + P = FramesBase + U + V
    BY <1>1, <1>4, <2>2
  <2> QED
    BY <1>3, <2>1, <2>2, <2>3
<1>7. PageCount - u = n + m /\ PAGE_SIZE * (PageCount - u) = V + W
  BY <1>2, <1>4
<1>8. V < USIZE /\ FramesBase + U < USIZE /\ FramesBase + U + V < USIZE /\ W < USIZE
  BY <1>1, <1>3, <1>4, <1>5
<1>9. /\ (V % USIZE) = V /\ ((FramesBase + U) % USIZE) = FramesBase + U
      /\ ((FramesBase + U + V) % USIZE) = FramesBase + U + V
      /\ ((W + 2 * USIZE) % USIZE) = W
  <2>1. FramesBase + U \in Nat /\ FramesBase + U + V \in Nat
    BY <1>1
  <2> QED
    BY <1>8, <2>1, NoWrap
<1>10. /\ (PAGE_SIZE * n) * 1 = V /\ PAGE_SIZE * n + 0 = V
       /\ 0 + PageAt(u) = FramesBase + U
       /\ (1 - 1) * (PAGE_SIZE * n) = 0
       /\ 0 + PageAt(u) + PAGE_SIZE * n = FramesBase + U + V
       /\ PAGE_SIZE * (PageCount - u) - PAGE_SIZE * n - 0 + 2 * USIZE = W + 2 * USIZE
  BY <1>1, <1>3, <1>6, <1>7
<1>11. FramesBase + U + 0 = FramesBase + U
  BY <1>1
<1>12. (((PAGE_SIZE * n) * 1) % USIZE) = PAGE_SIZE * n
       /\ ((PAGE_SIZE * n + 0) % USIZE) = PAGE_SIZE * n
  BY <1>3, <1>9, <1>10
<1>13. ((((0 + PageAt(u)) % USIZE) + (1 - 1) * (PAGE_SIZE * n)) % USIZE) = PageAt(u)
  BY <1>6, <1>9, <1>10, <1>11
<1>14. ((0 + PageAt(u) + PAGE_SIZE * n) % USIZE) = PageAt(u + n)
  BY <1>6, <1>9, <1>10
<1>15. ((PAGE_SIZE * (PageCount - u) - PAGE_SIZE * n - 0 + 2 * USIZE) % USIZE)
         = PAGE_SIZE * (PageCount - (u + n))
  BY <1>2, <1>3, <1>9, <1>10
<1>16. PAGE_SIZE * n < PAGE_SIZE * (PageCount - u)
  BY <1>1, <1>3, <1>4, <1>7
<1>17. u + n \in Nat /\ PageCount - u \in Nat /\ PageCount - (u + n) \in Nat
  BY <1>2
<1> QED
  BY <1>12, <1>13, <1>14, <1>15, <1>16, <1>17

-----------------------------------------------------------------------------

(* A run of one capability.                                                *)
LEMMA RunOfOne ==
    ASSUME NEW c, NEW N, SpaceOK(c, N), Open(c, N) # {},
           NEW kind \in ObjectTypes, NEW object \in Nat, NEW size \in Nat,
           NEW rights \in SUBSET CAPABILITY_RIGHTS,
           NEW start, ((start + (1 - 1) * size) % USIZE) = object,
           NEW w, w = NewCap(kind, object, size, rights),
           NEW r, r = GenerateRun(c, kind, start, size, 1, rights, CAPABILITY_RIGHTS)
    PROVE  \E e, x : Generates(c, e, N, x, w) /\ r = [space |-> e, array |-> <<x>>]
<1>1. PICK f : RunTurns(c, kind, start, size, 1, rights, f) /\ r = f[1]
  BY GenerateRunTurns
<1>2. /\ f[0] = [space |-> c, array |-> <<>>]
      /\ f[1] = RunTurn(f[0], 1, kind, start, size, rights)
  BY <1>1 DEF RunTurns
<1>3. PICK run, q : run = f[0] /\ q = <<>>
  OBVIOUS
<1>4. c = run.space /\ q = run.array /\ run = [space |-> c, array |-> q] /\ Len(q) = 0
  BY <1>2, <1>3
<1>5. r = Extend(run, GenerateCapability(c, kind, object, size, rights), CAPABILITY_RIGHTS)
  BY <1>1, <1>2, <1>3, <1>4 DEF RunTurn
<1>6. \E e, x : Extends(c, r, N, q, e, x, w)
  BY <1>4, <1>5, ExtendOK
<1>7. \A x : Append(q, x) = <<x>>
  BY <1>3
<1> QED
  BY <1>6, <1>7 DEF Extends

(* What SplitUntyped returns when it has split off p and left r.           *)
SplitResult(d, p, r, q) == [space |-> d, cap |-> r, first |-> p, array |-> q]

(* MaskUntyped.                                                            *)
LEMMA MaskOK ==
    ASSUME NEW c, NEW N, SpaceOK(c, N), NEW x \in N \X SlotIndex,
           NEW v, v = Held(c)[x], v.Type \in ObjectTypes,
           NEW w, w = [v EXCEPT !.IsMasked = TRUE], NEW d, d = MaskUntyped(c, x)
    PROVE  Covers(c, d, N, x, w)
<1>1. c.slab \in SlabStates /\ N \in SUBSET Pages
  BY DEF SpaceOK, SlabOK
<1>2. x \in AllSlots
  BY <1>1, SlotOfNode
<1>3. Held(c)[x] \in Caps
  BY <1>1, <1>2, ViewType DEF Held
<1>4. w \in Caps /\ w.Type = v.Type /\ w.Object = v.Object
  BY <1>3 DEF Caps
<1>5. v.Type # "NULL_CAPABILITY"
  BY TypeNames
<1>6. d = [c EXCEPT !.slab.Slots[x[1]][x[2]] = w]
  <2>1. c.slab.Slots[x[1]][x[2]] = v
    BY <1>2 DEF Held, View
  <2> QED
    BY <2>1 DEF MaskUntyped
<1> QED
  BY <1>4, <1>5, <1>6, CoverOK

(* SplitUntyped, past its guards.                                          *)
LEMMA SplitSteps ==
    ASSUME NEW c, NEW A, NEW cap, cap = Cap(c, A), NEW size, NEW total,
           total = ((size * 1) % USIZE), ~cap.IsMasked, cap.AccessRightsMask = CAPABILITY_RIGHTS,
           "RETYPE" \in MaskedRights(cap), ~(cap.Size < ((total + 0) % USIZE)), ~(cap.Size <= total),
           NEW e, NEW p,
           GenerateRun(MaskUntyped(c, A), "UNTYPED_FRAMES", (0 + cap.Object) % USIZE, size, 1,
                       cap.AccessRights, CAPABILITY_RIGHTS) = [space |-> e, array |-> <<p>>],
           NEW g, g = GenerateCapability(e, "UNTYPED_FRAMES", (0 + cap.Object + total) % USIZE,
                                         (cap.Size - total - 0 + 2 * USIZE) % USIZE,
                                         cap.AccessRights),
           g.cap # NULL
    PROVE  SplitUntyped(c, A, size, 0, 1)
             = SplitResult(SetMask(g.space, g.cap, CAPABILITY_RIGHTS), p, g.cap, <<p>>)
<1>1. PICK run : run = [space |-> e, array |-> <<p>>]
  OBVIOUS
<1>2. run.space = e /\ run.array = <<p>> /\ Len(run.array) = 1 /\ run.array[1] = p
      /\ ~(Len(run.array) < 1)
  BY <1>1
<1>3. SplitUntyped(c, A, size, 0, 1) = WithRest(run, g, CAPABILITY_RIGHTS)
  BY <1>1, <1>2 DEF SplitUntyped
<1> QED
  BY <1>2, <1>3 DEF WithRest, SplitResult

-----------------------------------------------------------------------------

(* What is generated in x is generated at an address that is not linked.   *)
Links(c, d, N, x, w) ==
    /\ SpaceOK(d, N) /\ x \in Open(c, N) /\ Open(d, N) = Open(c, N) \ {x}
    /\ DOMAIN d.CapabilityTree = DOMAIN c.CapabilityTree \cup {w.Object}
    /\ \A k \in DOMAIN c.CapabilityTree : d.CapabilityTree[k] = c.CapabilityTree[k]
    /\ d.CapabilityTree[w.Object] = x
    /\ Held(d)[x] = w
    /\ \A y \in AllSlots : y # x => Held(d)[y] = Held(c)[y]

(* A capability for an address not in the tree adds one link.              *)
LEMMA GeneratesLinks ==
    ASSUME NEW c, NEW d, NEW N, NEW x, NEW w, Generates(c, d, N, x, w),
           w.Object \notin DOMAIN c.CapabilityTree
    PROVE  Links(c, d, N, x, w)
BY DEF Generates, Links

(* An open slot is one of a node that the tree does not lead to.           *)
LEMMA OpenIsUnlinked ==
    ASSUME NEW c, NEW N, SpaceOK(c, N)
    PROVE  /\ N \in SUBSET Pages /\ Open(c, N) \in SUBSET AllSlots
           /\ Open(c, N) \in SUBSET (N \X SlotIndex)
           /\ \A y \in Open(c, N) : Held(c)[y].Type = "NULL_CAPABILITY"
           /\ \A y \in N \X SlotIndex :
                y \in AllSlots /\ (Held(c)[y].Type = "NULL_CAPABILITY" => y \in Open(c, N))
           /\ \A k \in DOMAIN c.CapabilityTree :
                /\ c.CapabilityTree[k] \notin Open(c, N)
                /\ c.CapabilityTree[k] \in AllSlots
                /\ c.CapabilityTree[k] \in N \X SlotIndex
<1>1. N \in SUBSET Pages
  BY DEF SpaceOK, SlabOK
<1>2. \A y \in N \X SlotIndex : y \in AllSlots
  BY <1>1, SlotOfNode
<1>3. /\ Open(c, N) \in SUBSET (N \X SlotIndex)
      /\ \A y \in Open(c, N) : Held(c)[y].Type = "NULL_CAPABILITY"
      /\ \A y \in N \X SlotIndex : Held(c)[y].Type = "NULL_CAPABILITY" => y \in Open(c, N)
  BY DEF Open, OpenSlots, Held
<1>4. \A k \in DOMAIN c.CapabilityTree :
         /\ c.CapabilityTree[k] \in N \X SlotIndex
         /\ Held(c)[c.CapabilityTree[k]].Type # "NULL_CAPABILITY"
  BY TypeNames DEF SpaceOK
<1> QED
  BY <1>1, <1>2, <1>3, <1>4

(* The tree of a space is a function.                                      *)
LEMMA GeneratesCopies ==
    ASSUME NEW c, NEW d, NEW N, NEW x, NEW w, Generates(c, d, N, x, w),
           w.Object \in DOMAIN c.CapabilityTree, NEW A, A = c.CapabilityTree[w.Object]
    PROVE  /\ \A y \in AllSlots : y # x /\ y # A => Held(d)[y] = Held(c)[y]
           /\ Held(d)[x] = w /\ Held(d)[A] = w
           /\ DOMAIN d.CapabilityTree = DOMAIN c.CapabilityTree
           /\ \A k \in DOMAIN c.CapabilityTree : d.CapabilityTree[k] = c.CapabilityTree[k]
<1>1. d.CapabilityTree[w.Object] = A
  BY DEF Generates
<1> QED
  BY <1>1 DEF Generates

(* A piece of the region as a whole.                                       *)
IsPiece(w, u, n) ==
    /\ w \in Caps
    /\ w.IsMasked = FALSE /\ w.Type = "UNTYPED_FRAMES" /\ w.Object = PageAt(u)
    /\ w.Size = PAGE_SIZE * n
    /\ w.AccessRights = AreaRights /\ w.AccessRightsMask = CAPABILITY_RIGHTS
    /\ "UNTYPED_FRAMES" \in ObjectTypes /\ PageAt(u) \in Nat /\ PAGE_SIZE * n \in Nat
    /\ w = NewCap("UNTYPED_FRAMES", PageAt(u), PAGE_SIZE * n, AreaRights)

(* What a piece of the region is.                                          *)
LEMMA PieceCapFacts ==
    ASSUME NEW u \in Nat, NEW n \in Nat, NEW w, w = PieceCap(u, n)
    PROVE  IsPiece(w, u, n)
<1>1. PageAt(u) \in Nat /\ PAGE_SIZE * n \in Nat
  BY PageAtFacts, TimesPage
<1>2. w = NewCap("UNTYPED_FRAMES", PageAt(u), PAGE_SIZE * n, AreaRights)
  BY DEF PieceCap
<1>3. "UNTYPED_FRAMES" \in ObjectTypes
  BY DEF ObjectTypes
<1> QED
  BY <1>1, <1>2, <1>3, RightsFact DEF IsPiece, NewCap, Caps, SlotTypes

(* SplitUntyped cuts n pages off the region.                               *)
LEMMA SplitOK ==
    ASSUME NEW c, NEW N, SpaceOK(c, N), NEW u, NEW A, AreaAt(c, u, A),
           NEW n \in Nat \ {0}, u + n < PageCount,
           Cardinality(Open(c, N)) >= 2,
           NEW sp, sp = SplitUntyped(c, A, PAGE_SIZE * n, 0, 1)
    PROVE  \E d, p, r : /\ sp = SplitResult(d, p, r, <<p>>)
                        /\ Splits(c, d, N, u, n, A, p, r)
<1>1. /\ u \in Nat /\ PageAt(u) \in DOMAIN c.CapabilityTree /\ c.CapabilityTree[PageAt(u)] = A
      /\ Held(c)[A] = AreaCap(u) /\ u + n \in Nat
      /\ \A i \in u + 1 .. PageCount - 1 : PageAt(i) \notin DOMAIN c.CapabilityTree
  BY DEF AreaAt
<1>2. /\ N \in SUBSET Pages /\ Open(c, N) \in SUBSET AllSlots
      /\ A \in N \X SlotIndex /\ A \in AllSlots /\ A \notin Open(c, N)
  BY <1>1, OpenIsUnlinked
<1>3. PICK va, wp, wr : va = AreaCap(u) /\ wp = PieceCap(u, n) /\ wr = AreaCap(u + n)
  OBVIOUS
<1>4. PageCount - u \in Nat /\ PageCount - (u + n) \in Nat
  BY <1>1, SplitArithmetic
<1>5. /\ va \in Caps
      /\ va.IsMasked = FALSE /\ va.Type = "UNTYPED_FRAMES" /\ va.Object = PageAt(u)
      /\ va.Size = PAGE_SIZE * (PageCount - u)
      /\ va.AccessRights = AreaRights /\ va.AccessRightsMask = CAPABILITY_RIGHTS
      /\ "UNTYPED_FRAMES" \in ObjectTypes
  <2>1. PICK m \in Nat : m = PageCount - u
    BY <1>4
  <2>2. va = PieceCap(u, m)
    BY <1>3, <2>1 DEF AreaCap
  <2>3. IsPiece(va, u, m)
    BY <1>1, <2>1, <2>2, PieceCapFacts
  <2> QED
    BY <2>1, <2>3 DEF IsPiece
<1>6. /\ wp \in Caps /\ wp.Object = PageAt(u) /\ PageAt(u) \in Nat /\ PAGE_SIZE * n \in Nat
      /\ wp = NewCap("UNTYPED_FRAMES", PageAt(u), PAGE_SIZE * n, AreaRights)
  <2>1. u \in Nat /\ n \in Nat /\ wp = PieceCap(u, n)
    BY <1>1, <1>3
  <2>2. IsPiece(wp, u, n)
    BY <2>1, PieceCapFacts
  <2> QED
    BY <2>2 DEF IsPiece
<1>7. /\ wr \in Caps /\ wr.Object = PageAt(u + n) /\ PageAt(u + n) \in Nat
      /\ PAGE_SIZE * (PageCount - (u + n)) \in Nat /\ wr.Type = "UNTYPED_FRAMES"
      /\ wr.AccessRightsMask = CAPABILITY_RIGHTS
      /\ wr = NewCap("UNTYPED_FRAMES", PageAt(u + n), PAGE_SIZE * (PageCount - (u + n)), AreaRights)
  <2>1. PICK k, m \in Nat : k = u + n /\ m = PageCount - (u + n)
    BY <1>1, <1>4
  <2>2. wr = PieceCap(k, m)
    BY <1>3, <2>1 DEF AreaCap
  <2>3. IsPiece(wr, k, m)
    BY <2>2, PieceCapFacts
  <2> QED
    BY <2>1, <2>3 DEF IsPiece
<1>8. PICK e1, wm : e1 = MaskUntyped(c, A) /\ wm = [va EXCEPT !.IsMasked = TRUE]
  OBVIOUS
<1>9. Covers(c, e1, N, A, wm)
  <2>1. va = Held(c)[A] /\ va.Type \in ObjectTypes
    BY <1>1, <1>3, <1>5
  <2> QED
    BY <1>2, <1>8, <2>1, MaskOK
<1>10. /\ SpaceOK(e1, N) /\ e1.CapabilityTree = c.CapabilityTree
       /\ Open(e1, N) = Open(c, N)
       /\ \A x \in AllSlots : x # A => Held(e1)[x] = Held(c)[x]
  <2>1. /\ SpaceOK(e1, N) /\ e1.CapabilityTree = c.CapabilityTree
        /\ View(e1.slab) = [View(c.slab) EXCEPT ![A] = wm]
        /\ OpenSlots(e1.slab, N) = OpenSlots(c.slab, N)
    BY <1>9 DEF Covers, Overwrites
  <2>2. PICK V : V = View(c.slab) /\ V = [x \in AllSlots |-> V[x]]
    BY DEF View
  <2>3. \A x \in AllSlots : x # A => View(e1.slab)[x] = View(c.slab)[x]
    BY <2>1, <2>2
  <2> QED
    BY <2>1, <2>3 DEF Held, Open
<1>11. IsFiniteSet(Open(c, N)) /\ Open(c, N) # {}
  BY <1>2, FinitePages, FS_EmptySet DEF Open
<1>12. PICK start : start = ((0 + va.Object) % USIZE)
  OBVIOUS
<1>13. PICK run : run = GenerateRun(e1, "UNTYPED_FRAMES", start, PAGE_SIZE * n, 1, AreaRights,
                                    CAPABILITY_RIGHTS)
  OBVIOUS
<1>14. PICK e2, p : Generates(e1, e2, N, p, wp) /\ run = [space |-> e2, array |-> <<p>>]
  <2>1. ((start + (1 - 1) * (PAGE_SIZE * n)) % USIZE) = PageAt(u)
    BY <1>1, <1>5, <1>12, SplitArithmetic
  <2>2. Open(e1, N) # {} /\ SpaceOK(e1, N)
    BY <1>10, <1>11
  <2>3. AreaRights \in SUBSET CAPABILITY_RIGHTS
    BY RightsFact
  <2> HIDE DEF AreaRights
  <2> QED
    BY <1>5, <1>6, <1>13, <2>1, <2>2, <2>3, RunOfOne
<1>15. /\ SpaceOK(e2, N) /\ p \in Open(c, N) /\ Open(e2, N) = Open(c, N) \ {p}
       /\ DOMAIN e2.CapabilityTree = DOMAIN c.CapabilityTree
       /\ \A k \in DOMAIN c.CapabilityTree : e2.CapabilityTree[k] = c.CapabilityTree[k]
       /\ Held(e2)[p] = wp /\ Held(e2)[A] = wp
       /\ \A y \in AllSlots : y # p /\ y # A => Held(e2)[y] = Held(c)[y]
  <2>1. /\ SpaceOK(e2, N) /\ p \in Open(c, N) /\ Open(e2, N) = Open(c, N) \ {p}
    BY <1>10, <1>14 DEF Generates
  <2>2. /\ wp.Object \in DOMAIN e1.CapabilityTree /\ A = e1.CapabilityTree[wp.Object]
    BY <1>1, <1>6, <1>10
  <2>3. /\ \A y \in AllSlots : y # p /\ y # A => Held(e2)[y] = Held(e1)[y]
        /\ Held(e2)[p] = wp /\ Held(e2)[A] = wp
        /\ DOMAIN e2.CapabilityTree = DOMAIN e1.CapabilityTree
        /\ \A k \in DOMAIN e1.CapabilityTree : e2.CapabilityTree[k] = e1.CapabilityTree[k]
    BY <1>14, <2>2, GeneratesCopies
  <2> QED
    BY <1>10, <2>1, <2>3
<1>16. Open(e2, N) # {}
  <2>1. Cardinality(Open(c, N) \ {p}) = Cardinality(Open(c, N)) - 1
    BY <1>11, <1>15, FS_RemoveElement
  <2>2. Cardinality(Open(c, N)) \in Nat
    BY <1>11, FS_CardinalityType
  <2>3. Cardinality(Open(e2, N)) # 0
    BY <1>15, <2>1, <2>2
  <2> QED
    BY <2>3, FS_EmptySet
<1>17. PICK g, r : g = GenerateCapability(e2, "UNTYPED_FRAMES", PageAt(u + n),
                                          PAGE_SIZE * (PageCount - (u + n)), AreaRights)
                   /\ r = g.cap
  OBVIOUS
<1>18. r # NULL /\ Generates(e2, g.space, N, r, wr)
  <2>1. g.cap # NULL /\ Generates(e2, g.space, N, g.cap, wr)
    BY <1>5, <1>7, <1>15, <1>16, <1>17, RightsFact, GenerateOK
  <2> QED
    BY <1>17, <2>1
<1>19. PICK d : d = SetMask(g.space, r, CAPABILITY_RIGHTS)
  OBVIOUS
<1>20. Generates(e2, d, N, r, wr)
  <2>1. wr.Type \in ObjectTypes
    BY <1>5, <1>7
  <2> QED
    BY <1>7, <1>18, <1>19, <2>1, SetMaskOK
<1>21. wr.Object \notin DOMAIN e2.CapabilityTree
  <2>1. u + n \in u + 1 .. PageCount - 1
    BY <1>1, RegionFacts
  <2> QED
    BY <1>1, <1>7, <1>15, <2>1
<1>22. Links(e2, d, N, r, wr)
  BY <1>20, <1>21, GeneratesLinks
<1>23. Freeable(d.slab, N, p[1])
  <2>1. PICK t : /\ Allocates(e1.slab, t, N, p, wp)
                 /\ e2.slab.links = t.links /\ e2.slab.FreeElements = t.FreeElements
    BY <1>14 DEF Generates
  <2>2. PICK v : /\ Allocates(e2.slab, v, N, r, wr)
                 /\ d.slab.links = v.links /\ d.slab.FreeElements = v.FreeElements
    BY <1>20 DEF Generates
  <2>3. SlabOK(e1.slab, N) /\ SlabOK(e2.slab, N)
    BY <1>10, <1>15 DEF SpaceOK
  <2> QED
    BY <2>1, <2>2, <2>3, TwoAllocations
<1>24. Splits(c, d, N, u, n, A, p, r)
  <2>1. /\ SpaceOK(d, N) /\ r \in Open(e2, N) /\ Open(d, N) = Open(e2, N) \ {r}
        /\ DOMAIN d.CapabilityTree = DOMAIN e2.CapabilityTree \cup {PageAt(u + n)}
        /\ \A k \in DOMAIN e2.CapabilityTree : d.CapabilityTree[k] = e2.CapabilityTree[k]
        /\ d.CapabilityTree[PageAt(u + n)] = r
        /\ Held(d)[r] = wr
        /\ \A y \in AllSlots : y # r => Held(d)[y] = Held(e2)[y]
    BY <1>7, <1>22 DEF Links
  <2>2. r \in Open(c, N) /\ r # p /\ Open(d, N) = Open(c, N) \ {p, r}
    BY <1>15, <2>1
  <2>3. p \in AllSlots
    BY <1>2, <1>15
  <2>4. Held(d)[p] = PieceCap(u, n) /\ Held(d)[r] = AreaCap(u + n)
    BY <1>3, <1>15, <2>1, <2>2, <2>3
  <2>5. \A x \in AllSlots : x # A /\ x # p /\ x # r => Held(d)[x] = Held(c)[x]
    BY <1>15, <2>1
  <2>6. /\ DOMAIN d.CapabilityTree = DOMAIN c.CapabilityTree \cup {PageAt(u + n)}
        /\ \A k \in DOMAIN c.CapabilityTree : d.CapabilityTree[k] = c.CapabilityTree[k]
    BY <1>15, <2>1
  <2> QED
    BY <1>15, <1>23, <2>1, <2>2, <2>4, <2>5, <2>6 DEF Splits
<1>25. sp = SplitResult(d, p, r, <<p>>)
  <2>1. PICK total, size : total = PAGE_SIZE * n /\ size = PAGE_SIZE * n
    OBVIOUS
  <2>2. /\ total = ((size * 1) % USIZE) /\ ((total + 0) % USIZE) = total
        /\ ((0 + va.Object + total) % USIZE) = PageAt(u + n)
        /\ ((va.Size - total - 0 + 2 * USIZE) % USIZE) = PAGE_SIZE * (PageCount - (u + n))
        /\ total < va.Size /\ total \in Nat /\ va.Size \in Nat
    BY <1>1, <1>5, <1>6, <2>1, SplitArithmetic DEF Caps
  <2>3. ~(va.Size < ((total + 0) % USIZE)) /\ ~(va.Size <= total)
    BY <2>2
  <2>4. va = Cap(c, A)
    BY <1>1, <1>2, <1>3 DEF Held, View, Cap
  <2>5. "RETYPE" \in MaskedRights(va) /\ ~va.IsMasked
    BY <1>5, RightsFact DEF MaskedRights
  <2>6. GenerateRun(MaskUntyped(c, A), "UNTYPED_FRAMES", (0 + va.Object) % USIZE, size, 1,
                    va.AccessRights, CAPABILITY_RIGHTS) = [space |-> e2, array |-> <<p>>]
    BY <1>5, <1>8, <1>12, <1>13, <1>14, <2>1
  <2>7. g = GenerateCapability(e2, "UNTYPED_FRAMES", (0 + va.Object + total) % USIZE,
                               (va.Size - total - 0 + 2 * USIZE) % USIZE, va.AccessRights)
    BY <1>5, <1>17, <2>2
  <2>8. g.cap # NULL
    BY <1>17, <1>18
  <2>9. SplitUntyped(c, A, size, 0, 1)
           = SplitResult(SetMask(g.space, g.cap, CAPABILITY_RIGHTS), p, g.cap, <<p>>)
    BY <1>5, <2>2, <2>3, <2>4, <2>5, <2>6, <2>7, <2>8, SplitSteps
  <2> QED
    BY <1>17, <1>19, <2>1, <2>9
<1> QED
  BY <1>24, <1>25

-----------------------------------------------------------------------------

(* The slot p, which the tree does not lead to, has been freed.            *)
Freed(c, d, N, p) ==
    /\ SpaceOK(d, N)
    /\ d.CapabilityTree = c.CapabilityTree
    /\ Open(d, N) = Open(c, N) \cup {p}
    /\ \A y \in AllSlots : y # p => Held(d)[y] = Held(c)[y]

(* Freeing a slot that nothing links leaves a sound space.                 *)
LEMMA FreedOK ==
    ASSUME NEW c, NEW N, SpaceOK(c, N), NEW p \in N \X SlotIndex, p \notin Open(c, N),
           Freeable(c.slab, N, p[1]), Held(c)[p].Type \in ObjectTypes,
           \A k \in DOMAIN c.CapabilityTree : c.CapabilityTree[k] # p,
           NEW d, d = [MaskUntyped(c, p) EXCEPT !.slab = FreeSlabSlot(@, p)]
    PROVE  Freed(c, d, N, p)
<1>1. PICK e, v, w : e = MaskUntyped(c, p) /\ v = Held(c)[p] /\ w = [v EXCEPT !.IsMasked = TRUE]
  OBVIOUS
<1>2. Covers(c, e, N, p, w)
  <2>1. v.Type \in ObjectTypes
    BY <1>1
  <2> QED
    BY <1>1, <2>1, MaskOK
<1>3. /\ SpaceOK(e, N) /\ e.CapabilityTree = c.CapabilityTree
      /\ View(e.slab) = [View(c.slab) EXCEPT ![p] = w]
      /\ OpenSlots(e.slab, N) = OpenSlots(c.slab, N)
      /\ e.slab.links = c.slab.links /\ e.slab.FreeElements = c.slab.FreeElements
  BY <1>2 DEF Covers, Overwrites
<1>4. PICK s, t, T, F : /\ s = e.slab /\ t = FreeSlabSlot(s, p) /\ T = e.CapabilityTree
                        /\ F = e.Fault /\ F = FALSE
  BY <1>3 DEF SpaceOK
<1>5. e = [slab |-> s, CapabilityTree |-> T, Fault |-> F] /\ SlabOK(s, N) /\ N \in SUBSET Pages
  BY <1>3, <1>4 DEF SpaceOK, SlabOK
<1>6. d = [slab |-> t, CapabilityTree |-> T, Fault |-> F]
  BY <1>1, <1>4, <1>5
<1>7. p \in AllSlots
  BY <1>5, SlotOfNode
<1>8. p \notin OpenSlots(s, N)
  BY <1>3, <1>4 DEF Open
<1>9. Freeable(s, N, p[1])
  BY <1>3, <1>4 DEF Freeable
<1>10. Frees(s, t, N, p)
  BY <1>4, <1>5, <1>8, <1>9, FreeOK
<1>11. \A y \in AllSlots : y # p => View(t)[y] = View(s)[y] /\ View(s)[y] = View(c.slab)[y]
  <2>1. View(t) = [View(s) EXCEPT ![p].Type = "NULL_CAPABILITY"]
    BY <1>10 DEF Frees
  <2>2. PICK V, W : /\ V = View(s) /\ V = [x \in AllSlots |-> V[x]]
                    /\ W = View(c.slab) /\ W = [x \in AllSlots |-> W[x]]
    BY DEF View
  <2>3. \A y \in AllSlots : y # p => View(t)[y] = V[y]
    BY <2>1, <2>2
  <2>4. \A y \in AllSlots : y # p => V[y] = W[y]
    BY <1>3, <1>4, <2>2
  <2> QED
    BY <2>2, <2>3, <2>4
<1>12. d.slab = t /\ d.CapabilityTree = T /\ d.Fault = F
  BY <1>6
<1>13. SlabOK(t, N) /\ OpenSlots(t, N) = OpenSlots(s, N) \cup {p}
  BY <1>10 DEF Frees
<1>14. \A k \in DOMAIN T :
         /\ k \in Nat
         /\ T[k] \in N \X SlotIndex
         /\ View(t)[T[k]].Object = k
         /\ View(t)[T[k]].Type \in ObjectTypes
  <2> SUFFICES ASSUME NEW k \in DOMAIN T
               PROVE  /\ k \in Nat
                      /\ T[k] \in N \X SlotIndex
                      /\ View(t)[T[k]].Object = k
                      /\ View(t)[T[k]].Type \in ObjectTypes
    OBVIOUS
  <2>1. /\ k \in Nat /\ T[k] \in N \X SlotIndex /\ T[k] # p
        /\ View(s)[T[k]].Object = k /\ View(s)[T[k]].Type \in ObjectTypes
    BY <1>3, <1>4 DEF SpaceOK, Held
  <2>2. View(t)[T[k]] = View(s)[T[k]]
    BY <1>5, <1>11, <2>1, SlotOfNode
  <2> QED
    BY <2>1, <2>2
<1>15. \A x \in AllSlots \ (N \X SlotIndex) : View(t)[x].Type = "NULL_CAPABILITY"
  <2>1. \A x \in AllSlots \ (N \X SlotIndex) : x # p /\ View(s)[x].Type = "NULL_CAPABILITY"
    BY <1>3, <1>4 DEF SpaceOK, Held
  <2> QED
    BY <1>11, <2>1
<1>16. SpaceOK(d, N)
  BY <1>4, <1>6, <1>12, <1>13, <1>14, <1>15 DEF SpaceOK, Held
<1> QED
  BY <1>3, <1>4, <1>11, <1>12, <1>13, <1>16 DEF Freed, Open, Held

(* The kinds of pages that the manager makes.                              *)
PageKinds == {"FRAME_MEMORY", "VIRTUAL_MEMORY_PAGING_STRUCTURE", "CAPABILITY_NODE"}

(* Every kind a page is retyped into has the size of a page.               *)
LEMMA PageKindFacts ==
    ASSUME NEW kind \in PageKinds
    PROVE  /\ GetObjectSize(kind) = PAGE_SIZE
           /\ kind \in ObjectTypes /\ kind \in ObjectTypes \ {"UNTYPED_FRAMES", "UNTYPED_DMA"}
           /\ kind # "UNTYPED_FRAMES" /\ kind # "NULL_CAPABILITY"
BY DEF PageKinds, GetObjectSize, ObjectTypes

(* RetypeUntyped, past its guards.                                         *)
LEMMA RetypeSteps ==
    ASSUME NEW c, NEW p, NEW u \in Nat, NEW n \in Nat \ {0}, Cap(c, p) = PieceCap(u, n),
           NEW kind \in PageKinds,
           NEW f, f = [MaskUntyped(c, p) EXCEPT !.slab = FreeSlabSlot(@, p)],
           NEW r, r = GenerateRun(f, kind, PageAt(u), PAGE_SIZE, n, AreaRights, CAPABILITY_RIGHTS)
    PROVE  RetypeUntyped(c, p, kind) = Retyped(r, n)
<1>1. PICK w : w = PieceCap(u, n) /\ w = Cap(c, p)
  OBVIOUS
<1>2. IsPiece(w, u, n)
  BY <1>1, PieceCapFacts
<1>3. /\ w.IsMasked = FALSE /\ w.Object = PageAt(u) /\ w.Size = PAGE_SIZE * n
      /\ w.AccessRights = AreaRights /\ w.AccessRightsMask = CAPABILITY_RIGHTS
  BY <1>2 DEF IsPiece
<1>4. MaskedRights(w) = AreaRights /\ "RETYPE" \in MaskedRights(w)
  BY <1>3, RightsFact DEF MaskedRights
<1>5. ((w.Size) \div PAGE_SIZE) = n /\ w.Size # 0 /\ PAGE_SIZE # 0
  <2>1. n \in Nat /\ n # 0 /\ 0 < n
    OBVIOUS
  <2>2. ((PAGE_SIZE * n) \div PAGE_SIZE) = n /\ PAGE_SIZE \in Nat \ {0, 1}
    BY <2>1, TimesPage
  <2>3. PAGE_SIZE * 0 + PAGE_SIZE <= PAGE_SIZE * n /\ PAGE_SIZE * 0 = 0
    BY <2>1, TimesPage
  <2>4. PICK P \in Nat : P = PAGE_SIZE * n
    BY <2>1, TimesPage
  <2>5. P # 0
    BY <2>2, <2>3, <2>4
  <2> QED
    BY <1>3, <2>2, <2>4, <2>5
<1>6. /\ GetObjectSize(kind) = PAGE_SIZE
      /\ kind \in ObjectTypes \ {"UNTYPED_FRAMES", "UNTYPED_DMA"}
  BY PageKindFacts
<1>7. RetypeUntyped(c, p, kind)
        = Retyped(GenerateRun(f, kind, w.Object, PAGE_SIZE, n, MaskedRights(w), CAPABILITY_RIGHTS), n)
  BY <1>1, <1>3, <1>4, <1>5, <1>6 DEF RetypeUntyped
<1> QED
  BY <1>3, <1>4, <1>7

(* The addresses of n pages from page u on.                                *)
PageRun(u, n) == [j \in 1 .. n |-> PageAt(u + j - 1)]

(* The addresses RetypeUntyped goes through are those of the pages.        *)
LEMMA PageRunFacts ==
    ASSUME NEW u \in Nat, NEW n \in Nat, u + n <= PageCount, NEW a, a = PageRun(u, n)
    PROVE  RunAddresses(a, PageAt(u), PAGE_SIZE, n)
<1>1. \A j \in 1 .. n : a[j] = PageAt(u + j - 1)
  BY DEF PageRun
<1>2. PageCount \in Nat /\ PageAt(PageCount) <= USIZE /\ USIZE \in Nat
  BY RegionFacts, UsizeAssumption
<1>3. ASSUME NEW j \in 1 .. n
      PROVE  /\ PageAt(u + j - 1) \in Nat /\ PageAt(u + j - 1) = PageAt(u) + (j - 1) * PAGE_SIZE
             /\ PageAt(u + j - 1) < USIZE
  <2>1. PICK i, k \in Nat : i = j - 1 /\ k = u + i
    OBVIOUS
  <2>2. k < PageCount /\ u + j - 1 = k
    BY <1>2, <2>1
  <2>3. /\ PageAt(k) \in Nat /\ PageAt(k) = PageAt(u) + PAGE_SIZE * i
    BY <2>1, PageAtFacts
  <2>4. PageAt(k) + PAGE_SIZE <= PageAt(PageCount)
    BY <1>2, <2>2, PageAtFacts
  <2>5. PageAt(PageCount) \in Nat /\ PAGE_SIZE \in Nat \ {0, 1} /\ PageAt(u) \in Nat
    BY <1>2, PageAtFacts, PageSizeAssumption
  <2>6. PageAt(k) < USIZE
    BY <1>2, <2>3, <2>4, <2>5
  <2>7. PAGE_SIZE * i = (j - 1) * PAGE_SIZE
    BY <2>1, <2>5
  <2> QED
    BY <2>2, <2>3, <2>6, <2>7
<1>4. \A i, j \in 1 .. n : i # j => a[i] # a[j]
  <2> SUFFICES ASSUME NEW i \in 1 .. n, NEW j \in 1 .. n, i # j PROVE a[i] # a[j]
    OBVIOUS
  <2>1. PICK k, m \in Nat : k = u + i - 1 /\ m = u + j - 1
    OBVIOUS
  <2>2. k # m
    BY <2>1
  <2>3. PageAt(k) # PageAt(m)
    BY <2>2, PageAtFacts
  <2> QED
    BY <1>1, <2>1, <2>3
<1>5. a \in [1 .. n -> Nat]
  BY <1>3 DEF PageRun
<1> QED
  BY <1>1, <1>3, <1>4, <1>5 DEF RunAddresses

-----------------------------------------------------------------------------

(* The first n pages of the region have become capabilities of a kind: q   *)
(* holds the first of them besides A, and r what is left of the region.    *)
Took(c, d, N, u, n, A, kind, r, q) ==
    /\ SpaceOK(d, N)
    /\ r \in Open(c, N) /\ q \in Open(c, N) /\ q # r
    /\ Open(d, N) \in SUBSET (Open(c, N) \ {r, q})
    /\ Cardinality(Open(d, N)) = Cardinality(Open(c, N)) - (n + 1)
    /\ DOMAIN d.CapabilityTree = DOMAIN c.CapabilityTree \cup {PageAt(i) : i \in u + 1 .. u + n}
    /\ \A k \in DOMAIN c.CapabilityTree : d.CapabilityTree[k] = c.CapabilityTree[k]
    /\ d.CapabilityTree[PageAt(u + n)] = r
    /\ \A i \in u .. u + n - 1 : Held(d)[d.CapabilityTree[PageAt(i)]] = PageCap(kind, i)
    /\ Held(d)[r] = AreaCap(u + n)
    /\ Held(d)[q] = PageCap(kind, u)
    /\ \A k \in DOMAIN d.CapabilityTree : d.CapabilityTree[k] # q
    /\ \A x \in AllSlots : x \notin Open(c, N) /\ x # A => Held(d)[x] = Held(c)[x]
    /\ \A x \in Open(c, N) \ {r} : Held(d)[x].Type \in {kind, "NULL_CAPABILITY"}

(* Retyping the piece that has been split off.                             *)
LEMMA RetypeOK ==
    ASSUME NEW c, NEW N, SpaceOK(c, N), NEW u, NEW A, AreaAt(c, u, A),
           NEW n \in Nat \ {0}, u + n < PageCount,
           Cardinality(Open(c, N)) >= n + 1,
           NEW d, NEW p, NEW r, Splits(c, d, N, u, n, A, p, r),
           NEW kind \in PageKinds, NEW rt, rt = RetypeUntyped(d, p, kind)
    PROVE  /\ rt.cap # NULL
           /\ Took(c, rt.space, N, u, n, A, kind, r, rt.cap)
<1>1. /\ u \in Nat /\ PageAt(u) \in DOMAIN c.CapabilityTree /\ c.CapabilityTree[PageAt(u)] = A
      /\ u + n \in Nat
      /\ \A i \in u + 1 .. PageCount - 1 : PageAt(i) \notin DOMAIN c.CapabilityTree
  BY DEF AreaAt
<1>2. /\ SpaceOK(d, N)
      /\ p \in Open(c, N) /\ r \in Open(c, N) /\ p # r
      /\ Open(d, N) = Open(c, N) \ {p, r}
      /\ DOMAIN d.CapabilityTree = DOMAIN c.CapabilityTree \cup {PageAt(u + n)}
      /\ \A k \in DOMAIN c.CapabilityTree : d.CapabilityTree[k] = c.CapabilityTree[k]
      /\ d.CapabilityTree[PageAt(u + n)] = r
      /\ Held(d)[p] = PieceCap(u, n)
      /\ Held(d)[r] = AreaCap(u + n)
      /\ \A x \in AllSlots : x # A /\ x # p /\ x # r => Held(d)[x] = Held(c)[x]
      /\ Freeable(d.slab, N, p[1])
  BY DEF Splits
<1>3. /\ N \in SUBSET Pages /\ Open(c, N) \in SUBSET AllSlots
      /\ A \in AllSlots /\ A \notin Open(c, N)
      /\ p \in N \X SlotIndex /\ p \in AllSlots /\ r \in AllSlots /\ p # A /\ r # A
      /\ \A k \in DOMAIN c.CapabilityTree : c.CapabilityTree[k] \notin Open(c, N)
  BY <1>1, <1>2, OpenIsUnlinked
<1>4. PICK f : f = [MaskUntyped(d, p) EXCEPT !.slab = FreeSlabSlot(@, p)]
  OBVIOUS
<1>5. Freed(d, f, N, p)
  <2>1. p \notin Open(d, N)
    BY <1>2
  <2>2. Held(d)[p].Type \in ObjectTypes
    <3>1. PICK w : w = PieceCap(u, n)
      OBVIOUS
    <3>2. IsPiece(w, u, n)
      BY <1>1, <3>1, PieceCapFacts
    <3> QED
      BY <1>2, <3>1, <3>2 DEF IsPiece
  <2>3. \A k \in DOMAIN d.CapabilityTree : d.CapabilityTree[k] # p
    BY <1>2, <1>3
  <2> QED
    BY <1>2, <1>3, <1>4, <2>1, <2>2, <2>3, FreedOK
<1>6. /\ SpaceOK(f, N) /\ f.CapabilityTree = d.CapabilityTree
      /\ Open(f, N) = Open(c, N) \ {r}
      /\ \A y \in AllSlots : y # p => Held(f)[y] = Held(d)[y]
  BY <1>2, <1>5 DEF Freed
<1>7. PICK a : a = PageRun(u, n) /\ \A j \in 1 .. n : a[j] = PageAt(u + j - 1)
  <2>1. PICK a : a = PageRun(u, n)
    OBVIOUS
  <2>2. \A j \in 1 .. n : a[j] = PageAt(u + j - 1)
    BY <2>1 DEF PageRun
  <2> QED
    BY <2>1, <2>2
<1>8. RunAddresses(a, PageAt(u), PAGE_SIZE, n)
  BY <1>1, <1>7, RegionFacts, PageRunFacts
<1>9. a[1] = PageAt(u) /\ f.CapabilityTree[a[1]] = A /\ a[1] \in DOMAIN f.CapabilityTree
  <2>1. 1 \in 1 .. n /\ u + 1 - 1 = u
    BY <1>1
  <2>2. a[1] = PageAt(u)
    BY <1>7, <2>1
  <2> QED
    BY <1>1, <1>2, <1>6, <2>2
<1>10. \A j \in 2 .. n : a[j] \notin DOMAIN f.CapabilityTree
  <2> SUFFICES ASSUME NEW j \in 2 .. n PROVE a[j] \notin DOMAIN f.CapabilityTree
    OBVIOUS
  <2>1. PICK k \in Nat : k = u + j - 1
    BY <1>1
  <2>2. j \in 1 .. n /\ k \in u + 1 .. PageCount - 1 /\ k # u + n
    BY <1>1, <2>1, RegionFacts
  <2>3. a[j] = PageAt(k)
    BY <1>7, <2>1, <2>2
  <2>4. PageAt(k) # PageAt(u + n)
    BY <1>1, <2>2, PageAtFacts
  <2>5. PageAt(k) \notin DOMAIN c.CapabilityTree
    BY <1>1, <2>2
  <2> QED
    BY <1>2, <1>6, <2>3, <2>4, <2>5
<1>11. /\ IsFiniteSet(Open(c, N)) /\ Cardinality(Open(c, N)) \in Nat
       /\ Cardinality(Open(f, N)) = Cardinality(Open(c, N)) - 1
       /\ Cardinality(Open(f, N)) \in Nat
  <2>1. IsFiniteSet(Open(c, N)) /\ IsFiniteSet(Open(f, N))
    BY <1>3, FinitePages DEF Open
  <2> QED
    BY <1>2, <1>6, <2>1, FS_RemoveElement, FS_CardinalityType
<1>12. PICK run, e, qs : /\ run = GenerateRun(f, kind, PageAt(u), PAGE_SIZE, n, AreaRights,
                                              CAPABILITY_RIGHTS)
                         /\ e = run.space /\ qs = run.array
  OBVIOUS
<1>13. Ran(f, e, N, a, qs, n, kind, PAGE_SIZE, AreaRights)
  <2>1. Cardinality(Open(f, N)) >= n
    BY <1>11
  <2>2. /\ kind \in ObjectTypes /\ PAGE_SIZE \in Nat /\ PageAt(u) \in Nat /\ n \in Nat
        /\ AreaRights \in SUBSET CAPABILITY_RIGHTS
    BY <1>1, PageKindFacts, PageSizeAssumption, PageAtFacts, RightsFact
  <2>3. a[1] \in DOMAIN f.CapabilityTree
    BY <1>9
  <2> QED
    BY <1>6, <1>8, <1>10, <1>11, <1>12, <2>1, <2>2, <2>3, RunOK
<1>14. PICK q : q = qs[1]
  OBVIOUS
<1>15. /\ SpaceOK(e, N)
       /\ qs \in Seq(AllSlots) /\ Len(qs) = n
       /\ \A j \in 1 .. n : qs[j] \in Open(f, N)
       /\ \A i, j \in 1 .. n : i # j => qs[i] # qs[j]
       /\ Open(e, N) = Open(f, N) \ Items(qs)
       /\ Cardinality(Open(e, N)) = Cardinality(Open(f, N)) - n
       /\ DOMAIN e.CapabilityTree = DOMAIN f.CapabilityTree \cup {a[j] : j \in 1 .. n}
       /\ \A key \in DOMAIN f.CapabilityTree : e.CapabilityTree[key] = f.CapabilityTree[key]
       /\ \A j \in 2 .. n : e.CapabilityTree[a[j]] = qs[j]
       /\ \A j \in 1 .. n : Held(e)[qs[j]] = NewCap(kind, a[j], PAGE_SIZE, AreaRights)
       /\ Held(e)[A] = NewCap(kind, a[1], PAGE_SIZE, AreaRights)
       /\ \A x \in AllSlots : x \notin Items(qs) /\ x # A => Held(e)[x] = Held(f)[x]
  BY <1>9, <1>13 DEF Ran
<1>16. \A x : x \in Items(qs) <=> \E j \in 1 .. n : x = qs[j]
  BY <1>15 DEF Items
<1>17. rt = [space |-> e, array |-> qs, cap |-> q] /\ q # NULL
  <2>1. Cap(d, p) = PieceCap(u, n)
    BY <1>2, <1>3 DEF Held, View, Cap
  <2>2. rt = Retyped(run, n)
    BY <1>1, <1>4, <1>12, <2>1, RetypeSteps
  <2>3. ~(Len(qs) < n) /\ n # 0 /\ 1 \in 1 .. n
    BY <1>15
  <2>4. q \in N \X SlotIndex
    BY <1>6, <1>14, <1>15, <2>3, OpenIsUnlinked
  <2>5. q # NULL
    BY <1>3, <2>4, SlotOfNode
  <2> QED
    BY <1>12, <1>14, <2>2, <2>3, <2>5 DEF Retyped
<1>18. q \in Open(c, N) /\ q # r /\ q \in Items(qs) /\ 1 \in 1 .. n
  BY <1>6, <1>14, <1>15, <1>16
<1>19. /\ Open(e, N) \in SUBSET (Open(c, N) \ {r, q})
       /\ Cardinality(Open(e, N)) = Cardinality(Open(c, N)) - (n + 1)
  BY <1>6, <1>11, <1>15, <1>18
<1>20. DOMAIN e.CapabilityTree = DOMAIN c.CapabilityTree \cup {PageAt(i) : i \in u + 1 .. u + n}
  <2>1. \A j \in 2 .. n : u + j - 1 \in u + 1 .. u + n /\ j \in 1 .. n
    BY <1>1
  <2>2. ASSUME NEW i \in u + 1 .. u + n
        PROVE  i = u + n \/ \E j \in 2 .. n : j \in 1 .. n /\ PageAt(i) = a[j]
    <3>1. CASE i # u + n
      <4>1. PICK j \in 2 .. n : i = u + j - 1 /\ j \in 1 .. n
        <5>1. i - u + 1 \in 2 .. n /\ i = u + (i - u + 1) - 1 /\ i - u + 1 \in 1 .. n
          BY <1>1, <3>1
        <5> QED
          BY <5>1
      <4> QED
        BY <1>7, <4>1
    <3> QED
      BY <3>1
  <2>3. ASSUME NEW j \in 1 .. n PROVE j = 1 \/ j \in 2 .. n
    OBVIOUS
  <2>4. DOMAIN f.CapabilityTree = DOMAIN c.CapabilityTree \cup {PageAt(u + n)}
    BY <1>2, <1>6
  <2>5. u + n \in u + 1 .. u + n
    BY <1>1
  <2>6. {PageAt(i) : i \in u + 1 .. u + n} \in SUBSET DOMAIN e.CapabilityTree
    BY <1>15, <2>2, <2>4
  <2>7. ASSUME NEW j \in 1 .. n
        PROVE  a[j] \in DOMAIN c.CapabilityTree \cup {PageAt(i) : i \in u + 1 .. u + n}
    <3>1. CASE j = 1
      BY <1>1, <1>9, <3>1
    <3>2. CASE j \in 2 .. n
      BY <1>7, <2>1, <3>2
    <3> QED
      BY <2>3, <3>1, <3>2
  <2> QED
    BY <1>15, <2>4, <2>5, <2>6, <2>7
<1>21. /\ \A k \in DOMAIN c.CapabilityTree : e.CapabilityTree[k] = c.CapabilityTree[k]
       /\ e.CapabilityTree[PageAt(u + n)] = r
  BY <1>2, <1>6, <1>15
<1>22. ASSUME NEW i \in u .. u + n - 1
       PROVE  Held(e)[e.CapabilityTree[PageAt(i)]] = PageCap(kind, i)
  <2>1. CASE i = u
    <3>1. e.CapabilityTree[PageAt(u)] = A
      BY <1>1, <1>21
    <3> QED
      BY <1>9, <1>15, <2>1, <3>1 DEF PageCap
  <2>2. CASE i # u
    <3>1. PICK j \in 2 .. n : i = u + j - 1 /\ j \in 1 .. n
      <4>1. i - u + 1 \in 2 .. n /\ i = u + (i - u + 1) - 1 /\ i - u + 1 \in 1 .. n
        BY <1>1, <2>2
      <4> QED
        BY <4>1
    <3>2. a[j] = PageAt(i)
      BY <1>7, <3>1
    <3>3. e.CapabilityTree[PageAt(i)] = qs[j]
      BY <1>15, <3>1, <3>2
    <3>4. Held(e)[qs[j]] = NewCap(kind, PageAt(i), PAGE_SIZE, AreaRights)
      BY <1>15, <3>1, <3>2
    <3> QED
      BY <3>3, <3>4 DEF PageCap
  <2> QED
    BY <2>1, <2>2
<1>23. Held(e)[r] = AreaCap(u + n)
  <2>1. r \notin Items(qs)
    BY <1>6, <1>15, <1>16
  <2> QED
    BY <1>2, <1>3, <1>6, <1>15, <2>1
<1>24. Held(e)[q] = PageCap(kind, u)
  BY <1>9, <1>14, <1>15, <1>18 DEF PageCap
<1>25. ASSUME NEW k \in DOMAIN e.CapabilityTree PROVE e.CapabilityTree[k] # q
  <2>1. CASE k \in DOMAIN c.CapabilityTree
    BY <1>3, <1>18, <1>21, <2>1
  <2>2. CASE k = PageAt(u + n)
    BY <1>18, <1>21, <2>2
  <2>3. CASE k \notin DOMAIN c.CapabilityTree /\ k # PageAt(u + n)
    <3>1. k \notin DOMAIN f.CapabilityTree
      BY <1>2, <1>6, <2>3
    <3>2. PICK j \in 1 .. n : k = a[j]
      BY <1>15, <3>1
    <3>3. j # 1 /\ j \in 2 .. n
      <4>1. j # 1
        BY <1>9, <3>1, <3>2
      <4> QED
        BY <4>1
    <3> QED
      BY <1>14, <1>15, <1>18, <3>2, <3>3
  <2> QED
    BY <2>1, <2>2, <2>3
<1>26. \A x \in AllSlots : x \notin Open(c, N) /\ x # A => Held(e)[x] = Held(c)[x]
  BY <1>2, <1>6, <1>15, <1>16
<1>27. ASSUME NEW x \in Open(c, N) \ {r}
       PROVE  Held(e)[x].Type \in {kind, "NULL_CAPABILITY"}
  <2>1. CASE x \in Items(qs)
    <3>1. PICK j \in 1 .. n : x = qs[j]
      BY <1>16, <2>1
    <3>2. Held(e)[x] = NewCap(kind, a[j], PAGE_SIZE, AreaRights)
      BY <1>15, <3>1
    <3> QED
      BY <3>2 DEF NewCap
  <2>2. CASE x \notin Items(qs)
    <3>1. x \in Open(e, N)
      BY <1>6, <1>15, <2>2
    <3> QED
      BY <1>15, <3>1, OpenIsUnlinked
  <2> QED
    BY <2>1, <2>2
<1>28. r \in Open(c, N) /\ SpaceOK(e, N)
  BY <1>2, <1>15
<1>29. Took(c, e, N, u, n, A, kind, r, q)
  BY <1>18, <1>19, <1>20, <1>21, <1>22, <1>23, <1>24, <1>25, <1>26, <1>27, <1>28
     DEF Took
<1>30. rt.space = e /\ rt.cap = q
  BY <1>17
<1> QED
  BY <1>17, <1>29, <1>30

-----------------------------------------------------------------------------

(* The pages of a piece of the region.                                     *)
LEMMA PagesOfRun ==
    ASSUME NEW i \in Nat, NEW n \in Nat
    PROVE  PagesOf(PageAt(i), PAGE_SIZE * n) = {PageAt(j) : j \in i .. i + n - 1}
<1>1. PICK P \in Nat \ {0, 1} : P = PAGE_SIZE
  BY PageSizeAssumption
<1>2. PICK B \in Nat : B = PageAt(i)
  BY PageAtFacts
<1>3. PICK L \in Nat : L = PAGE_SIZE * n
  BY TimesPage
<1>4. PagesOf(PageAt(i), PAGE_SIZE * n) = {p \in B .. B + L - 1 : ((p - B) % P) = 0}
  BY <1>1, <1>2, <1>3 DEF PagesOf
<1>5. ASSUME NEW p \in B .. B + L - 1, ((p - B) % P) = 0
      PROVE  \E j \in i .. i + n - 1 : p = PageAt(j)
  <2>1. PICK d \in Nat : d = p - B /\ d < L /\ p = B + d
    BY <1>2, <1>3
  <2>2. PICK k \in Nat : k = (d \div P)
    BY <1>1, <2>1
  <2>3. d = P * k
    BY <1>1, <1>5, <2>1, <2>2
  <2>4. k < n
    <3>1. k < n \/ n < k \/ k = n
      OBVIOUS
    <3>2. n < k => PAGE_SIZE * n + PAGE_SIZE <= PAGE_SIZE * k
      BY TimesPage
    <3>3. PICK M \in Nat : M = PAGE_SIZE * k
      BY TimesPage
    <3> QED
      BY <1>1, <1>3, <2>1, <2>3, <3>1, <3>2, <3>3
  <2>5. PageAt(i + k) = PageAt(i) + PAGE_SIZE * k
    BY PageAtFacts
  <2>6. p = PageAt(i + k)
    BY <1>1, <1>2, <2>1, <2>3, <2>5
  <2>7. i + k \in i .. i + n - 1
    BY <2>4
  <2> QED
    BY <2>6, <2>7
<1>6. ASSUME NEW j \in i .. i + n - 1
      PROVE  PageAt(j) \in B .. B + L - 1 /\ ((PageAt(j) - B) % P) = 0
  <2>1. PICK k \in Nat : k = j - i /\ j = i + k /\ k < n
    <3>1. j - i \in Nat /\ j = i + (j - i) /\ j - i < n
      OBVIOUS
    <3> QED
      BY <3>1
  <2>2. PICK M \in Nat : M = PAGE_SIZE * k /\ M = P * k
    BY <1>1, TimesPage
  <2>3. PageAt(j) = B + M
    BY <1>2, <2>1, <2>2, PageAtFacts
  <2>4. M + P <= L
    BY <1>1, <1>3, <2>1, <2>2, TimesPage
  <2>5. (M % P) = 0
    BY <1>1, <2>2
  <2>6. PageAt(j) - B = M
    BY <2>3
  <2> QED
    BY <1>1, <2>3, <2>4, <2>5, <2>6
<1> QED
  BY <1>4, <1>5, <1>6

(* The pages of the region, numbered.                                      *)
LEMMA PagesFact ==
    /\ Pages = {PageAt(i) : i \in 0 .. PageCount - 1}
    /\ PageAt(0) = FramesBase
<1>1. PageCount \in Nat /\ Area.Length = PAGE_SIZE * PageCount /\ FramesBase \in Nat
      /\ PAGE_SIZE \in Nat
  BY RegionFacts, MemoryAssumption, PageSizeAssumption
<1>2. PageAt(0) = FramesBase
  BY <1>1 DEF PageAt
<1>3. PagesOf(PageAt(0), PAGE_SIZE * PageCount) = {PageAt(j) : j \in 0 .. 0 + PageCount - 1}
  BY <1>1, PagesOfRun
<1>4. 0 + PageCount - 1 = PageCount - 1
  BY <1>1
<1> QED
  BY <1>1, <1>2, <1>3, <1>4 DEF Pages

(* Flags that are not raised.                                              *)
LEMMA Unfaulted ==
    ASSUME NEW e, NEW N, SpaceOK(e, N), NEW b, b = FALSE
    PROVE  [e EXCEPT !.Fault = b] = e
<1>1. PICK s, T, F : s = e.slab /\ T = e.CapabilityTree /\ F = e.Fault /\ F = FALSE
  BY DEF SpaceOK
<1>2. e = [slab |-> s, CapabilityTree |-> T, Fault |-> F]
  BY <1>1 DEF SpaceOK
<1>3. b = F
  BY <1>1
<1> QED
  BY <1>2, <1>3

(* SplitUntyped and RetypeUntyped, one after the other.                    *)
LEMMA TakeOK ==
    ASSUME NEW N, SpaceOK(space, N), NEW u, NEW A, A = PhysicalMemoryManager.UntypedArea,
           AreaAt(space, u, A), NEW n \in Nat \ {0}, u + n < PageCount,
           Cardinality(Open(space, N)) \in Nat, Cardinality(Open(space, N)) >= n + 1,
           NEW kind \in PageKinds, NEW t, t = TakePages(n, kind)
    PROVE  /\ t.cap # NULL
           /\ Took(space, t.space, N, u, n, A, kind, t.area, t.cap)
<1>1. PICK sp : sp = SplitUntyped(space, A, PAGE_SIZE * n, 0, 1)
  OBVIOUS
<1>2. PICK d, p, r : /\ sp = SplitResult(d, p, r, <<p>>)
                     /\ Splits(space, d, N, u, n, A, p, r)
  <2>1. Cardinality(Open(space, N)) >= 2
    OBVIOUS
  <2> QED
    BY <1>1, <2>1, SplitOK
<1>3. sp.space = d /\ sp.cap = r /\ sp.first = p
  BY <1>2 DEF SplitResult
<1>4. PICK rt : rt = RetypeUntyped(d, p, kind)
  OBVIOUS
<1>5. rt.cap # NULL /\ Took(space, rt.space, N, u, n, A, kind, r, rt.cap)
  BY <1>2, <1>4, RetypeOK
<1>6. p # NULL
  <2>1. p \in Open(space, N)
    BY <1>2 DEF Splits
  <2> QED
    BY <2>1, OpenIsUnlinked, SlotOfNode
<1>7. PICK e, b : e = rt.space /\ b = (e.Fault \/ rt.cap = NULL)
  OBVIOUS
<1>8. SpaceOK(e, N)
  BY <1>5, <1>7 DEF Took
<1>9. b = FALSE
  BY <1>5, <1>7, <1>8 DEF SpaceOK
<1>10. [e EXCEPT !.Fault = b] = e
  BY <1>8, <1>9, Unfaulted
<1>11. t = [space |-> [e EXCEPT !.Fault = b], area |-> r, cap |-> rt.cap]
  BY <1>1, <1>3, <1>4, <1>6, <1>7 DEF TakePages
<1> QED
  BY <1>5, <1>7, <1>10, <1>11

-----------------------------------------------------------------------------

(* The page n, the address of what q holds, has joined the nodes N.        *)
Grown(d, e, N, n, q) ==
    /\ SpaceOK(e, N \cup {n})
    /\ e.CapabilityTree = d.CapabilityTree
    /\ Open(e, N \cup {n}) = Open(d, N) \cup ({n} \X SlotIndex)
    /\ \A x \in AllSlots : x[1] # n /\ x # q => Held(e)[x] = Held(d)[x]
    /\ Held(e)[q].Type = Held(d)[q].Type

(* AddCapabilityNode makes a page that no node was a node.                 *)
LEMMA GrownOK ==
    ASSUME NEW d, NEW N, SpaceOK(d, N), NEW q \in N \X SlotIndex,
           NEW n \in Pages \ N, NEW v, v = Held(d)[q], v.Type = "CAPABILITY_NODE", v.Object = n,
           \A k \in DOMAIN d.CapabilityTree : d.CapabilityTree[k] # q,
           NEW e, e = AddCapabilityNode(d, q)
    PROVE  Grown(d, e, N, n, q)
<1>1. PICK m, w : m = MaskUntyped(d, q) /\ w = [v EXCEPT !.IsMasked = TRUE]
  OBVIOUS
<1>2. Covers(d, m, N, q, w)
  <2>1. v.Type \in ObjectTypes
    BY DEF ObjectTypes
  <2> QED
    BY <1>1, <2>1, MaskOK
<1>3. /\ SpaceOK(m, N) /\ m.CapabilityTree = d.CapabilityTree
      /\ View(m.slab) = [View(d.slab) EXCEPT ![q] = w]
      /\ OpenSlots(m.slab, N) = OpenSlots(d.slab, N)
  BY <1>2 DEF Covers, Overwrites
<1>4. PICK s, t, T, F : /\ s = m.slab /\ t = AddSlabNode(s, n) /\ T = m.CapabilityTree
                        /\ F = m.Fault /\ F = FALSE
  BY <1>3 DEF SpaceOK
<1>5. m = [slab |-> s, CapabilityTree |-> T, Fault |-> F] /\ SlabOK(s, N) /\ N \in SUBSET Pages
  BY <1>3, <1>4 DEF SpaceOK, SlabOK
<1>6. q \in AllSlots /\ q # NULL /\ q[1] \in N /\ q[1] # n
  BY <1>5, SlotOfNode
<1>7. e = [slab |-> t, CapabilityTree |-> T, Fault |-> F]
  <2>1. Cap(d, q) = v
    BY <1>6 DEF Cap, Held, View
  <2>2. e = [d EXCEPT !.slab = AddSlabNode([@ EXCEPT !.Slots[q[1]][q[2]].IsMasked = TRUE], n)]
    BY <1>6, <2>1 DEF AddCapabilityNode
  <2>3. PICK s0, T0, F0 : /\ s0 = d.slab /\ T0 = d.CapabilityTree /\ F0 = d.Fault
                          /\ d = [slab |-> s0, CapabilityTree |-> T0, Fault |-> F0]
    BY DEF SpaceOK
  <2>4. PICK s1 : s1 = [s0 EXCEPT !.Slots[q[1]][q[2]].IsMasked = TRUE]
    OBVIOUS
  <2>5. m = [slab |-> s1, CapabilityTree |-> T0, Fault |-> F0]
    BY <1>1, <2>3, <2>4 DEF MaskUntyped
  <2>6. s = s1 /\ T = T0 /\ F = F0
    BY <1>4, <2>5
  <2>7. e = [slab |-> AddSlabNode(s1, n), CapabilityTree |-> T0, Fault |-> F0]
    BY <2>2, <2>3, <2>4
  <2> QED
    BY <1>4, <2>6, <2>7
<1>8. Joins(s, t, N, n)
  BY <1>4, <1>5, JoinOK
<1>9. /\ SlabOK(t, N \cup {n})
      /\ OpenSlots(t, N \cup {n}) = OpenSlots(s, N) \cup ({n} \X SlotIndex)
      /\ \A x \in AllSlots : x[1] # n => View(t)[x] = View(s)[x]
      /\ \A x \in AllSlots : View(t)[x] =
           IF x[1] = n THEN [View(s)[x] EXCEPT !.IsMasked = FALSE, !.Type = "NULL_CAPABILITY"]
           ELSE View(s)[x]
  BY <1>8 DEF Joins
<1>10. e.slab = t /\ e.CapabilityTree = T /\ e.Fault = F
  BY <1>7
<1>11. \A k \in DOMAIN T :
         /\ k \in Nat
         /\ T[k] \in (N \cup {n}) \X SlotIndex
         /\ View(t)[T[k]].Object = k
         /\ View(t)[T[k]].Type \in ObjectTypes
  <2> SUFFICES ASSUME NEW k \in DOMAIN T
               PROVE  /\ k \in Nat
                      /\ T[k] \in (N \cup {n}) \X SlotIndex
                      /\ View(t)[T[k]].Object = k
                      /\ View(t)[T[k]].Type \in ObjectTypes
    OBVIOUS
  <2>1. /\ k \in Nat /\ T[k] \in N \X SlotIndex
        /\ View(s)[T[k]].Object = k /\ View(s)[T[k]].Type \in ObjectTypes
    BY <1>3, <1>4 DEF SpaceOK, Held
  <2>2. T[k] \in AllSlots /\ T[k][1] # n
    BY <1>5, <2>1, SlotOfNode
  <2>3. View(t)[T[k]] = View(s)[T[k]]
    BY <1>9, <2>2
  <2> QED
    BY <2>1, <2>3
<1>12. \A x \in AllSlots \ ((N \cup {n}) \X SlotIndex) : View(t)[x].Type = "NULL_CAPABILITY"
  <2> SUFFICES ASSUME NEW x \in AllSlots \ ((N \cup {n}) \X SlotIndex)
               PROVE  View(t)[x].Type = "NULL_CAPABILITY"
    OBVIOUS
  <2>1. x[1] # n /\ x \notin N \X SlotIndex
    BY DEF AllSlots
  <2>2. View(s)[x].Type = "NULL_CAPABILITY"
    BY <1>3, <1>4, <2>1 DEF SpaceOK, Held
  <2> QED
    BY <1>9, <2>1, <2>2
<1>13. SpaceOK(e, N \cup {n})
  <2>1. e = [slab |-> e.slab, CapabilityTree |-> e.CapabilityTree, Fault |-> e.Fault]
    BY <1>7, <1>10
  <2>2. e.Fault = FALSE
    BY <1>4, <1>10
  <2>3. SlabOK(e.slab, N \cup {n})
    BY <1>9, <1>10
  <2>4. Held(e) = View(t)
    BY <1>10 DEF Held
  <2>5. \A k \in DOMAIN e.CapabilityTree :
         /\ k \in Nat
         /\ e.CapabilityTree[k] \in (N \cup {n}) \X SlotIndex
         /\ Held(e)[e.CapabilityTree[k]].Object = k
         /\ Held(e)[e.CapabilityTree[k]].Type \in ObjectTypes
    BY <1>10, <1>11, <2>4
  <2>6. \A x \in AllSlots \ ((N \cup {n}) \X SlotIndex) : Held(e)[x].Type = "NULL_CAPABILITY"
    BY <1>12, <2>4
  <2> QED
    BY <2>1, <2>2, <2>3, <2>5, <2>6 DEF SpaceOK
<1>14. \A x \in AllSlots : x[1] # n /\ x # q => Held(e)[x] = Held(d)[x]
  <2>1. PICK V : V = View(d.slab) /\ V = [x \in AllSlots |-> V[x]]
    BY DEF View
  <2>2. \A x \in AllSlots : x # q => View(s)[x] = V[x]
    BY <1>3, <1>4, <2>1
  <2> QED
    BY <1>9, <1>10, <2>1, <2>2 DEF Held
<1>15. Held(e)[q].Type = v.Type
  <2>1. PICK V : V = View(d.slab) /\ V = [x \in AllSlots |-> V[x]]
    BY DEF View
  <2>2. View(s)[q] = w
    BY <1>3, <1>4, <1>6, <2>1
  <2>3. v \in Caps
    <3>1. d.slab \in SlabStates
      BY DEF SpaceOK, SlabOK
    <3> QED
      BY <1>6, <3>1, ViewType DEF Held
  <2>4. w.Type = v.Type
    BY <1>1, <2>3 DEF Caps
  <2> QED
    BY <1>6, <1>9, <1>10, <2>2, <2>4 DEF Held
<1> QED
  BY <1>3, <1>4, <1>9, <1>10, <1>13, <1>14, <1>15 DEF Grown, Open

(* A new node brings as many slots as it has.                              *)
LEMMA GrownCount ==
    ASSUME NEW d, NEW e, NEW N, SpaceOK(d, N), NEW n \in Pages \ N, NEW q, Grown(d, e, N, n, q)
    PROVE  /\ Cardinality(Open(d, N)) \in Nat
           /\ Cardinality(Open(e, N \cup {n})) = Cardinality(Open(d, N)) + CAPABILITIES_PER_NODE
<1>1. N \in SUBSET Pages
  BY DEF SpaceOK, SlabOK
<1>2. PICK O, S : O = Open(d, N) /\ S = {n} \X SlotIndex
  OBVIOUS
<1>3. O \cap S = {} /\ IsFiniteSet(O)
  <2>1. O \in SUBSET (N \X SlotIndex)
    BY <1>2 DEF Open, OpenSlots
  <2> QED
    BY <1>1, <1>2, <2>1, FinitePages DEF Open
<1>4. IsFiniteSet({n}) /\ Cardinality({n}) = 1
  BY FS_Singleton
<1>5. IsFiniteSet(S) /\ Cardinality(S) = 1 * CAPABILITIES_PER_NODE
  BY <1>2, <1>4, SlotCount, FS_Product
<1>6. Cardinality(O) \in Nat /\ CAPABILITIES_PER_NODE \in Nat
  BY <1>3, FS_CardinalityType, SlotCount
<1>7. Cardinality(O \cup S) = Cardinality(O) + Cardinality(S) - Cardinality(O \cap S)
  BY <1>3, <1>5, FS_Union
<1>8. Cardinality(O \cap S) = 0
  BY <1>3, FS_EmptySet
<1>9. Open(e, N \cup {n}) = O \cup S
  BY <1>2 DEF Grown
<1>10. Cardinality(S) = CAPABILITIES_PER_NODE
  BY <1>5, <1>6
<1>11. Cardinality(O \cup S) = Cardinality(O) + CAPABILITIES_PER_NODE
  BY <1>6, <1>7, <1>8, <1>10
<1> QED
  BY <1>2, <1>6, <1>9, <1>11

-----------------------------------------------------------------------------

(* The slots that GetUntyped would report.                                 *)
Untyped(c) == {x \in AllSlots : Held(c)[x].Type = "UNTYPED_FRAMES" /\ ~Held(c)[x].IsMasked}

(* The first n pages of the region have become of a kind, r is what is     *)
(* left, and nothing else has changed for who looks into the tree or for   *)
(* untyped memory.                                                         *)
Advanced(c, d, u, n, A, kind, r) ==
    /\ DOMAIN d.CapabilityTree = DOMAIN c.CapabilityTree \cup {PageAt(i) : i \in u + 1 .. u + n}
    /\ \A k \in DOMAIN c.CapabilityTree :
         k # PageAt(u) => Held(d)[d.CapabilityTree[k]] = Held(c)[c.CapabilityTree[k]]
    /\ \A i \in u .. u + n - 1 : Held(d)[d.CapabilityTree[PageAt(i)]] = PageCap(kind, i)
    /\ d.CapabilityTree[PageAt(u + n)] = r
    /\ Held(d)[r] = AreaCap(u + n)
    /\ \A x \in Untyped(d) \ {r} : x \in Untyped(c) \ {A} /\ Held(d)[x] = Held(c)[x]

(* The fields of the capability of a page.                                 *)
LEMMA PageCapType ==
    ASSUME NEW kind, NEW i
    PROVE  /\ PageCap(kind, i).Type = kind /\ PageCap(kind, i).Object = PageAt(i)
           /\ PageCap(kind, i).IsMasked = FALSE /\ PageCap(kind, i).Size = PAGE_SIZE
BY DEF PageCap, NewCap

(* TakePages moves the manager on by the pages it took.                    *)
LEMMA TookAdvances ==
    ASSUME NEW c, NEW N, SpaceOK(c, N), NEW u, NEW A, AreaAt(c, u, A), NEW n \in Nat \ {0},
           NEW kind \in PageKinds, NEW d, NEW r, NEW q, Took(c, d, N, u, n, A, kind, r, q)
    PROVE  Advanced(c, d, u, n, A, kind, r)
<1>1. /\ u \in Nat /\ PageAt(u) \in DOMAIN c.CapabilityTree /\ c.CapabilityTree[PageAt(u)] = A
      /\ Held(c)[A] = AreaCap(u)
  BY DEF AreaAt
<1>2. /\ SpaceOK(d, N)
      /\ r \in Open(c, N)
      /\ DOMAIN d.CapabilityTree = DOMAIN c.CapabilityTree \cup {PageAt(i) : i \in u + 1 .. u + n}
      /\ \A k \in DOMAIN c.CapabilityTree : d.CapabilityTree[k] = c.CapabilityTree[k]
      /\ d.CapabilityTree[PageAt(u + n)] = r
      /\ \A i \in u .. u + n - 1 : Held(d)[d.CapabilityTree[PageAt(i)]] = PageCap(kind, i)
      /\ Held(d)[r] = AreaCap(u + n)
      /\ \A x \in AllSlots : x \notin Open(c, N) /\ x # A => Held(d)[x] = Held(c)[x]
      /\ \A x \in Open(c, N) \ {r} : Held(d)[x].Type \in {kind, "NULL_CAPABILITY"}
  BY DEF Took
<1>3. /\ \A k \in DOMAIN c.CapabilityTree :
           /\ c.CapabilityTree[k] \notin Open(c, N) /\ c.CapabilityTree[k] \in AllSlots
           /\ Held(c)[c.CapabilityTree[k]].Object = k
  BY OpenIsUnlinked DEF SpaceOK
<1>4. Held(c)[A].Object = PageAt(u)
  BY <1>1, <1>3
<1>5. ASSUME NEW k \in DOMAIN c.CapabilityTree, k # PageAt(u)
      PROVE  Held(d)[d.CapabilityTree[k]] = Held(c)[c.CapabilityTree[k]]
  <2>1. c.CapabilityTree[k] # A
    BY <1>3, <1>4, <1>5
  <2> QED
    BY <1>2, <1>3, <2>1
<1>6. Held(d)[A] = PageCap(kind, u)
  <2>1. u \in u .. u + n - 1
    BY <1>1
  <2> QED
    BY <1>1, <1>2, <2>1
<1>7. kind # "UNTYPED_FRAMES" /\ PageCap(kind, u).Type = kind
  BY PageKindFacts, PageCapType
<1>8. ASSUME NEW x \in Untyped(d) \ {r}
      PROVE  x \in Untyped(c) \ {A} /\ Held(d)[x] = Held(c)[x]
  <2>1. x \in AllSlots /\ Held(d)[x].Type = "UNTYPED_FRAMES" /\ ~Held(d)[x].IsMasked
    BY DEF Untyped
  <2>2. x # A
    BY <1>6, <1>7, <2>1
  <2>3. x \notin Open(c, N)
    BY <1>2, <1>7, <2>1
  <2>4. Held(d)[x] = Held(c)[x]
    BY <1>2, <2>1, <2>2, <2>3
  <2> QED
    BY <2>1, <2>2, <2>4 DEF Untyped
<1> QED
  BY <1>2, <1>5, <1>8 DEF Advanced

(* So does taking a page and making it a node.                             *)
LEMMA GrownAdvances ==
    ASSUME NEW c, NEW N, SpaceOK(c, N), NEW u, NEW A, AreaAt(c, u, A), PageAt(u) \notin N,
           NEW d, NEW r, NEW q, Took(c, d, N, u, 1, A, "CAPABILITY_NODE", r, q),
           NEW e, Grown(d, e, N, PageAt(u), q)
    PROVE  Advanced(c, e, u, 1, A, "CAPABILITY_NODE", r)
<1>1. PICK kind, n : kind = "CAPABILITY_NODE" /\ n = 1
  OBVIOUS
<1>2. Took(c, d, N, u, n, A, kind, r, q) /\ kind \in PageKinds /\ n \in Nat \ {0}
  BY <1>1 DEF PageKinds
<1>3. Advanced(c, d, u, n, A, kind, r)
  BY <1>2, TookAdvances
<1>4. /\ DOMAIN d.CapabilityTree
           = DOMAIN c.CapabilityTree \cup {PageAt(i) : i \in u + 1 .. u + n}
      /\ \A k \in DOMAIN c.CapabilityTree :
           k # PageAt(u) => Held(d)[d.CapabilityTree[k]] = Held(c)[c.CapabilityTree[k]]
      /\ \A i \in u .. u + n - 1 : Held(d)[d.CapabilityTree[PageAt(i)]] = PageCap(kind, i)
      /\ d.CapabilityTree[PageAt(u + n)] = r
      /\ Held(d)[r] = AreaCap(u + n)
      /\ \A x \in Untyped(d) \ {r} : x \in Untyped(c) \ {A} /\ Held(d)[x] = Held(c)[x]
  BY <1>3 DEF Advanced
<1>5. /\ SpaceOK(e, N \cup {PageAt(u)})
      /\ e.CapabilityTree = d.CapabilityTree
      /\ Open(e, N \cup {PageAt(u)}) = Open(d, N) \cup ({PageAt(u)} \X SlotIndex)
      /\ \A x \in AllSlots : x[1] # PageAt(u) /\ x # q => Held(e)[x] = Held(d)[x]
      /\ Held(e)[q].Type = Held(d)[q].Type
  BY DEF Grown
<1>6. /\ SpaceOK(d, N) /\ r \in Open(c, N) /\ q # r /\ Held(d)[q] = PageCap(kind, u)
      /\ \A k \in DOMAIN d.CapabilityTree : d.CapabilityTree[k] # q
  BY <1>2 DEF Took
<1>7. \A x \in N \X SlotIndex : x \in AllSlots /\ x[1] # PageAt(u)
  BY <1>6, SlotOfNode, OpenIsUnlinked
<1>8. \A k \in DOMAIN d.CapabilityTree :
         Held(e)[e.CapabilityTree[k]] = Held(d)[d.CapabilityTree[k]]
  <2>1. \A k \in DOMAIN d.CapabilityTree : d.CapabilityTree[k] \in N \X SlotIndex
    BY <1>6, OpenIsUnlinked
  <2> QED
    BY <1>5, <1>6, <1>7, <2>1
<1>9. Held(e)[r] = AreaCap(u + n)
  <2>1. r \in N \X SlotIndex
    BY <1>6, OpenIsUnlinked
  <2> QED
    BY <1>4, <1>5, <1>6, <1>7, <2>1
<1>10. ASSUME NEW x \in Untyped(e) \ {r}
       PROVE  x \in Untyped(c) \ {A} /\ Held(e)[x] = Held(c)[x]
  <2>1. x \in AllSlots /\ Held(e)[x].Type = "UNTYPED_FRAMES" /\ ~Held(e)[x].IsMasked
    BY DEF Untyped
  <2>2. x # q
    <3>1. PageCap(kind, u).Type = kind /\ kind # "UNTYPED_FRAMES"
      BY <1>1, PageCapType
    <3>2. Held(e)[q].Type = kind
      BY <1>5, <1>6, <3>1
    <3> QED
      BY <2>1, <3>1, <3>2
  <2>3. x[1] # PageAt(u)
    <3>1. x[1] = PageAt(u) => x \in {PageAt(u)} \X SlotIndex
      BY <2>1 DEF AllSlots
    <3>2. x \in {PageAt(u)} \X SlotIndex => Held(e)[x].Type = "NULL_CAPABILITY"
      <4>1. PICK M : M = N \cup {PageAt(u)}
        OBVIOUS
      <4>2. SpaceOK(e, M) /\ {PageAt(u)} \X SlotIndex \in SUBSET Open(e, M)
        BY <1>5, <4>1
      <4> QED
        BY <4>2, OpenIsUnlinked
    <3> QED
      BY <2>1, <3>1, <3>2
  <2>4. Held(e)[x] = Held(d)[x]
    BY <1>5, <2>1, <2>2, <2>3
  <2>5. x \in Untyped(d) \ {r}
    BY <2>1, <2>4 DEF Untyped
  <2> QED
    BY <1>4, <2>4, <2>5
<1>11. \A i \in u .. u + n - 1 : PageAt(i) \in DOMAIN d.CapabilityTree
  <2>1. u \in Nat /\ PageAt(u) \in DOMAIN c.CapabilityTree
    BY DEF AreaAt
  <2>2. \A i \in u .. u + n - 1 : i = u
    BY <1>1, <2>1
  <2> QED
    BY <1>4, <2>1, <2>2
<1>12. /\ \A k \in DOMAIN c.CapabilityTree :
            k # PageAt(u) => Held(e)[e.CapabilityTree[k]] = Held(c)[c.CapabilityTree[k]]
       /\ \A i \in u .. u + n - 1 : Held(e)[e.CapabilityTree[PageAt(i)]] = PageCap(kind, i)
  BY <1>4, <1>8, <1>11
<1>13. Advanced(c, e, u, n, A, kind, r)
  BY <1>4, <1>5, <1>9, <1>10, <1>12 DEF Advanced
<1> QED
  BY <1>1, <1>13

-----------------------------------------------------------------------------

(* The pages that the tree knows as nodes.                                 *)
NodesOf(c) ==
    {p \in DOMAIN c.CapabilityTree : Held(c)[c.CapabilityTree[p]].Type = "CAPABILITY_NODE"}

(* The kinds of pages that requests return.                                *)
GrantKinds == {"FRAME_MEMORY", "VIRTUAL_MEMORY_PAGING_STRUCTURE"}

Grants == [Object : Pages, length : Nat, Type : ObjectTypes]

(* The grant g begins at page o, and ends before page u.                   *)
GrantAt(c, u, g, o) ==
    /\ o \in Nat /\ o >= 2 /\ g.Object = PageAt(o)
    /\ g.length \in Nat \ {0} /\ o + g.length <= u
    /\ g.Type \in GrantKinds
    /\ \A i \in o .. o + g.length - 1 :
         /\ PageAt(i) \in DOMAIN c.CapabilityTree
         /\ Held(c)[c.CapabilityTree[PageAt(i)]] = PageCap(g.Type, i)

RunOfGrant(g) == PagesOf(g.Object, PAGE_SIZE * g.length)

(* The grants G are disjoint, and the pages of the region before page u    *)
(* that are none of theirs are nodes.                                      *)
Handed(c, u, G) ==
    /\ G \in Seq(Grants)
    /\ \A k \in DOMAIN G : \E o : GrantAt(c, u, G[k], o)
    /\ \A j, k \in DOMAIN G : j # k => RunOfGrant(G[j]) \cap RunOfGrant(G[k]) = {}
    /\ \A i \in 1 .. u - 1 :
         PageAt(i) \in NodesOf(c) \/ \E k \in DOMAIN G : PageAt(i) \in RunOfGrant(G[k])

Apart2(v, w) == v.Object + v.Size <= w.Object \/ w.Object + w.Size <= v.Object

Outside(w) == w.Object + w.Size <= FramesBase \/ PageAt(PageCount) <= w.Object

(* The untyped memory besides the region is somewhere else.                *)
Clear(c, A) ==
    \A x \in Untyped(c) \ {A} :
        /\ Outside(Held(c)[x])
        /\ \A y \in Untyped(c) \ {A, x} : Apart2(Held(c)[x], Held(c)[y])

(* The fields of the capability of what is left of the region.             *)
LEMMA AreaCapType ==
    ASSUME NEW u \in Nat, u <= PageCount
    PROVE  /\ AreaCap(u).Type = "UNTYPED_FRAMES" /\ AreaCap(u).Object = PageAt(u)
           /\ AreaCap(u).IsMasked = FALSE /\ AreaCap(u).Size = PAGE_SIZE * (PageCount - u)
BY DEF AreaCap, PieceCap, NewCap

(* Which pages are nodes afterwards.                                       *)
LEMMA NodesAdvance ==
    ASSUME NEW c, NEW u, NEW A, AreaAt(c, u, A), NEW n \in Nat \ {0}, u + n < PageCount,
           NEW kind \in PageKinds, NEW d, NEW r, Advanced(c, d, u, n, A, kind, r)
    PROVE  NodesOf(d) = NodesOf(c) \cup (IF kind = "CAPABILITY_NODE"
                                         THEN {PageAt(i) : i \in u .. u + n - 1} ELSE {})
<1>1. /\ u \in Nat /\ PageAt(u) \in DOMAIN c.CapabilityTree /\ c.CapabilityTree[PageAt(u)] = A
      /\ Held(c)[A] = AreaCap(u)
      /\ u <= PageCount /\ u + n \in Nat /\ u + n <= PageCount
  BY RegionFacts DEF AreaAt
<1>2. /\ DOMAIN d.CapabilityTree = DOMAIN c.CapabilityTree \cup {PageAt(i) : i \in u + 1 .. u + n}
      /\ \A k \in DOMAIN c.CapabilityTree :
           k # PageAt(u) => Held(d)[d.CapabilityTree[k]] = Held(c)[c.CapabilityTree[k]]
      /\ \A i \in u .. u + n - 1 : Held(d)[d.CapabilityTree[PageAt(i)]] = PageCap(kind, i)
      /\ d.CapabilityTree[PageAt(u + n)] = r
      /\ Held(d)[r] = AreaCap(u + n)
  BY DEF Advanced
<1>3. PageAt(u) \notin NodesOf(c)
  <2>1. Held(c)[A].Type = "UNTYPED_FRAMES"
    <3>1. AreaCap(u).Type = "UNTYPED_FRAMES"
      BY <1>1, AreaCapType
    <3> QED
      BY <1>1, <3>1
  <2> QED
    BY <1>1, <2>1 DEF NodesOf
<1>4. PageAt(u + n) \notin NodesOf(d)
  <2>1. Held(d)[r].Type = "UNTYPED_FRAMES"
    <3>1. AreaCap(u + n).Type = "UNTYPED_FRAMES"
      BY <1>1, AreaCapType
    <3> QED
      BY <1>2, <3>1
  <2> QED
    BY <1>2, <2>1 DEF NodesOf
<1>5. \A k \in DOMAIN c.CapabilityTree :
         k # PageAt(u) => (k \in NodesOf(d) <=> k \in NodesOf(c)) /\ k \in DOMAIN d.CapabilityTree
  BY <1>2 DEF NodesOf
<1>6. \A i \in u .. u + n - 1 :
         PageAt(i) \in DOMAIN d.CapabilityTree
         /\ (PageAt(i) \in NodesOf(d) <=> kind = "CAPABILITY_NODE")
  <2> SUFFICES ASSUME NEW i \in u .. u + n - 1
               PROVE  PageAt(i) \in DOMAIN d.CapabilityTree
                      /\ (PageAt(i) \in NodesOf(d) <=> kind = "CAPABILITY_NODE")
    OBVIOUS
  <2>1. PageAt(i) \in DOMAIN d.CapabilityTree
    <3>1. i = u \/ i \in u + 1 .. u + n
      BY <1>1
    <3> QED
      BY <1>1, <1>2, <3>1
  <2>2. Held(d)[d.CapabilityTree[PageAt(i)]].Type = kind
    <3>1. PageCap(kind, i).Type = kind
      BY PageCapType
    <3> QED
      BY <1>2, <3>1
  <2> QED
    BY <2>1, <2>2 DEF NodesOf
<1>7. \A k \in DOMAIN d.CapabilityTree :
         \/ k \in DOMAIN c.CapabilityTree /\ k # PageAt(u)
         \/ \E i \in u .. u + n - 1 : k = PageAt(i)
         \/ k = PageAt(u + n)
  <2>1. \A i \in u + 1 .. u + n : i \in u .. u + n - 1 \/ i = u + n
    BY <1>1
  <2>2. u \in u .. u + n - 1
    BY <1>1
  <2> QED
    BY <1>2, <2>1, <2>2
<1>8. ASSUME NEW k \in NodesOf(d)
      PROVE  \/ k \in NodesOf(c)
             \/ kind = "CAPABILITY_NODE" /\ \E i \in u .. u + n - 1 : k = PageAt(i)
  <2>1. k \in DOMAIN d.CapabilityTree
    BY DEF NodesOf
  <2> QED
    BY <1>4, <1>5, <1>6, <1>7, <2>1
<1>9. ASSUME NEW k \in NodesOf(c) PROVE k \in NodesOf(d)
  <2>1. k \in DOMAIN c.CapabilityTree
    BY DEF NodesOf
  <2> QED
    BY <1>3, <1>5, <2>1
<1> QED
  BY <1>6, <1>8, <1>9

(* The region begins with the next page afterwards.                        *)
LEMMA AreaAdvance ==
    ASSUME NEW c, NEW u, NEW A, AreaAt(c, u, A), NEW n \in Nat \ {0}, u + n < PageCount,
           NEW kind, NEW d, NEW r, Advanced(c, d, u, n, A, kind, r)
    PROVE  AreaAt(d, u + n, r)
<1>1. /\ u \in Nat /\ u + n \in Nat
      /\ \A i \in u + 1 .. PageCount - 1 : PageAt(i) \notin DOMAIN c.CapabilityTree
      /\ PageCount \in Nat
  BY RegionFacts DEF AreaAt
<1>2. /\ DOMAIN d.CapabilityTree = DOMAIN c.CapabilityTree \cup {PageAt(i) : i \in u + 1 .. u + n}
      /\ d.CapabilityTree[PageAt(u + n)] = r
      /\ Held(d)[r] = AreaCap(u + n)
  BY DEF Advanced
<1>3. PageAt(u + n) \in DOMAIN d.CapabilityTree
  <2>1. u + n \in u + 1 .. u + n
    BY <1>1
  <2> QED
    BY <1>2, <2>1
<1>4. ASSUME NEW i \in u + n + 1 .. PageCount - 1 PROVE PageAt(i) \notin DOMAIN d.CapabilityTree
  <2>1. i \in u + 1 .. PageCount - 1 /\ i \in Nat
    BY <1>1
  <2>2. ASSUME NEW j \in u + 1 .. u + n PROVE PageAt(i) # PageAt(j)
    <3>1. j \in Nat /\ i # j
      BY <1>1
    <3> QED
      BY <2>1, <3>1, PageAtFacts
  <2> QED
    BY <1>1, <1>2, <2>1, <2>2
<1> QED
  BY <1>1, <1>2, <1>3, <1>4 DEF AreaAt

(* Untyped memory is as exclusive as before.                               *)
LEMMA ClearAdvance ==
    ASSUME NEW c, NEW u, NEW A, NEW n, NEW kind, NEW d, NEW r, Advanced(c, d, u, n, A, kind, r),
           Clear(c, A)
    PROVE  Clear(d, r)
<1>1. \A x \in Untyped(d) \ {r} : x \in Untyped(c) \ {A} /\ Held(d)[x] = Held(c)[x]
  BY DEF Advanced
<1> QED
  BY <1>1 DEF Clear

(* A grant stays where it is.                                              *)
LEMMA GrantKept ==
    ASSUME NEW c, NEW u \in Nat, NEW A, NEW n \in Nat \ {0}, NEW kind, NEW d, NEW r,
           Advanced(c, d, u, n, A, kind, r), NEW g, NEW o, GrantAt(c, u, g, o)
    PROVE  GrantAt(d, u + n, g, o)
<1>1. /\ o \in Nat /\ o >= 2 /\ g.Object = PageAt(o)
      /\ g.length \in Nat \ {0} /\ o + g.length <= u
      /\ g.Type \in GrantKinds
      /\ \A i \in o .. o + g.length - 1 :
           /\ PageAt(i) \in DOMAIN c.CapabilityTree
           /\ Held(c)[c.CapabilityTree[PageAt(i)]] = PageCap(g.Type, i)
  BY DEF GrantAt
<1>2. /\ DOMAIN d.CapabilityTree = DOMAIN c.CapabilityTree \cup {PageAt(i) : i \in u + 1 .. u + n}
      /\ \A k \in DOMAIN c.CapabilityTree :
           k # PageAt(u) => Held(d)[d.CapabilityTree[k]] = Held(c)[c.CapabilityTree[k]]
  BY DEF Advanced
<1>3. ASSUME NEW i \in o .. o + g.length - 1
      PROVE  /\ PageAt(i) \in DOMAIN d.CapabilityTree
             /\ Held(d)[d.CapabilityTree[PageAt(i)]] = PageCap(g.Type, i)
  <2>1. i \in Nat /\ i # u
    BY <1>1
  <2>2. PageAt(i) # PageAt(u)
    BY <2>1, PageAtFacts
  <2> QED
    BY <1>1, <1>2, <2>2
<1>4. o + g.length <= u + n
  BY <1>1
<1> QED
  BY <1>1, <1>3, <1>4 DEF GrantAt

(* The pages just taken are a grant that is addressable.                   *)
LEMMA GrantNew ==
    ASSUME NEW c, NEW u, NEW A, AreaAt(c, u, A), u >= 2, NEW n \in Nat \ {0},
           NEW kind \in GrantKinds, NEW d, NEW r, Advanced(c, d, u, n, A, kind, r),
           NEW g, g = [Object |-> PageAt(u), length |-> n, Type |-> kind]
    PROVE  GrantAt(d, u + n, g, u)
<1>1. u \in Nat /\ PageAt(u) \in DOMAIN c.CapabilityTree
  BY DEF AreaAt
<1>2. /\ DOMAIN d.CapabilityTree = DOMAIN c.CapabilityTree \cup {PageAt(i) : i \in u + 1 .. u + n}
      /\ \A i \in u .. u + n - 1 : Held(d)[d.CapabilityTree[PageAt(i)]] = PageCap(kind, i)
  BY DEF Advanced
<1>3. \A i \in u .. u + n - 1 : i = u \/ i \in u + 1 .. u + n
  BY <1>1
<1>4. g.Object = PageAt(u) /\ g.length = n /\ g.Type = kind
  OBVIOUS
<1>5. \A i \in u .. u + n - 1 : PageAt(i) \in DOMAIN d.CapabilityTree
  BY <1>1, <1>2, <1>3
<1> QED
  BY <1>1, <1>2, <1>4, <1>5 DEF GrantAt

(* The pages of a grant.                                                   *)
LEMMA RunOfGrantAt ==
    ASSUME NEW c, NEW u, NEW g, NEW o, GrantAt(c, u, g, o)
    PROVE  RunOfGrant(g) = {PageAt(j) : j \in o .. o + g.length - 1}
<1>1. PICK m \in Nat : m = g.length
  BY DEF GrantAt
<1>2. o \in Nat /\ g.Object = PageAt(o)
  BY DEF GrantAt
<1>3. PagesOf(PageAt(o), PAGE_SIZE * m) = {PageAt(j) : j \in o .. o + m - 1}
  BY <1>2, PagesOfRun
<1> QED
  BY <1>1, <1>2, <1>3 DEF RunOfGrant

-----------------------------------------------------------------------------

(* The books after a node has been added.                                  *)
LEMMA HandedNode ==
    ASSUME NEW c, NEW u, NEW A, AreaAt(c, u, A), u + 1 < PageCount, NEW G, Handed(c, u, G),
           NEW d, NEW r, Advanced(c, d, u, 1, A, "CAPABILITY_NODE", r)
    PROVE  Handed(d, u + 1, G)
<1>1. PICK kind, n : kind = "CAPABILITY_NODE" /\ n = 1 /\ kind \in PageKinds /\ n \in Nat \ {0}
  BY DEF PageKinds
<1>2. u \in Nat /\ u + n < PageCount /\ Advanced(c, d, u, n, A, kind, r)
  BY <1>1 DEF AreaAt
<1>3. /\ G \in Seq(Grants)
      /\ \A k \in DOMAIN G : \E o : GrantAt(c, u, G[k], o)
      /\ \A j, k \in DOMAIN G : j # k => RunOfGrant(G[j]) \cap RunOfGrant(G[k]) = {}
      /\ \A i \in 1 .. u - 1 :
           PageAt(i) \in NodesOf(c) \/ \E k \in DOMAIN G : PageAt(i) \in RunOfGrant(G[k])
  BY DEF Handed
<1>4. NodesOf(d) = NodesOf(c) \cup {PageAt(i) : i \in u .. u + n - 1}
  BY <1>1, <1>2, NodesAdvance
<1>5. \A k \in DOMAIN G : \E o : GrantAt(d, u + n, G[k], o)
  BY <1>1, <1>2, <1>3, GrantKept
<1>6. ASSUME NEW i \in 1 .. u + n - 1
      PROVE  PageAt(i) \in NodesOf(d) \/ \E k \in DOMAIN G : PageAt(i) \in RunOfGrant(G[k])
  <2>1. i \in 1 .. u - 1 \/ i \in u .. u + n - 1
    BY <1>1, <1>2
  <2> QED
    BY <1>3, <1>4, <2>1
<1>7. PICK m : m = u + n
  OBVIOUS
<1>8. Handed(d, m, G)
  <2>1. \A k \in DOMAIN G : \E o : GrantAt(d, m, G[k], o)
    BY <1>5, <1>7
  <2>2. ASSUME NEW i \in 1 .. m - 1
        PROVE  PageAt(i) \in NodesOf(d) \/ \E k \in DOMAIN G : PageAt(i) \in RunOfGrant(G[k])
    <3>1. i \in 1 .. u + n - 1
      BY <1>1, <1>2, <1>7
    <3> QED
      BY <1>6, <3>1
  <2> QED
    BY <1>3, <2>1, <2>2 DEF Handed
<1> QED
  BY <1>1, <1>7, <1>8

(* The books after a grant.                                                *)
LEMMA HandedGrant ==
    ASSUME NEW c, NEW u, NEW A, AreaAt(c, u, A), u >= 2, NEW n \in Nat \ {0}, u + n < PageCount,
           NEW G, Handed(c, u, G), NEW kind \in GrantKinds,
           NEW d, NEW r, Advanced(c, d, u, n, A, kind, r),
           NEW g, g = [Object |-> PageAt(u), length |-> n, Type |-> kind]
    PROVE  Handed(d, u + n, Append(G, g))
<1>1. u \in Nat /\ kind \in PageKinds /\ kind # "CAPABILITY_NODE" /\ kind \in ObjectTypes
  BY DEF AreaAt, PageKinds, GrantKinds, ObjectTypes
<1>2. /\ G \in Seq(Grants)
      /\ \A k \in DOMAIN G : \E o : GrantAt(c, u, G[k], o)
      /\ \A j, k \in DOMAIN G : j # k => RunOfGrant(G[j]) \cap RunOfGrant(G[k]) = {}
      /\ \A i \in 1 .. u - 1 :
           PageAt(i) \in NodesOf(c) \/ \E k \in DOMAIN G : PageAt(i) \in RunOfGrant(G[k])
  BY DEF Handed
<1>3. NodesOf(d) = NodesOf(c)
  <2>1. NodesOf(d) = NodesOf(c) \cup (IF kind = "CAPABILITY_NODE"
                                      THEN {PageAt(i) : i \in u .. u + n - 1} ELSE {})
    BY <1>1, NodesAdvance
  <2> QED
    BY <1>1, <2>1
<1>4. GrantAt(d, u + n, g, u)
  BY GrantNew
<1>5. RunOfGrant(g) = {PageAt(j) : j \in u .. u + n - 1}
  <2>1. RunOfGrant(g) = {PageAt(j) : j \in u .. u + g.length - 1}
    BY <1>4, RunOfGrantAt
  <2> QED
    BY <2>1
<1>6. g \in Grants
  <2>1. PageAt(u) \in Pages
    <3>1. u \in 0 .. PageCount - 1
      BY <1>1, RegionFacts
    <3> QED
      BY <3>1, PagesFact
  <2> QED
    BY <1>1, <2>1 DEF Grants
<1>7. PICK H, l : H = Append(G, g) /\ l = Len(G)
  OBVIOUS
<1>8. /\ H \in Seq(Grants) /\ l \in Nat /\ DOMAIN G = 1 .. l /\ DOMAIN H = 1 .. l + 1
      /\ \A k \in 1 .. l : H[k] = G[k]
      /\ H[l + 1] = g
  BY <1>2, <1>6, <1>7
<1>9. \A k \in DOMAIN H : (k \in DOMAIN G /\ H[k] = G[k]) \/ k = l + 1
  BY <1>8
<1>10. l + 1 \in DOMAIN H /\ \A k \in DOMAIN G : k \in DOMAIN H
  BY <1>8
<1>11. \A k \in DOMAIN H : \E o : GrantAt(d, u + n, H[k], o)
  <2>1. \A k \in DOMAIN G : \E o : GrantAt(d, u + n, G[k], o)
    BY <1>1, <1>2, GrantKept
  <2> QED
    BY <1>4, <1>8, <1>9, <2>1
<1>12. ASSUME NEW k \in DOMAIN G PROVE RunOfGrant(G[k]) \cap RunOfGrant(g) = {}
  <2>1. PICK o : GrantAt(c, u, G[k], o)
    BY <1>2
  <2>2. PICK m \in Nat : m = G[k].length
    BY <2>1 DEF GrantAt
  <2>3. o \in Nat /\ o + m <= u
    BY <2>1, <2>2 DEF GrantAt
  <2>4. RunOfGrant(G[k]) = {PageAt(j) : j \in o .. o + m - 1}
    BY <2>1, <2>2, RunOfGrantAt
  <2>5. ASSUME NEW i \in o .. o + m - 1, NEW j \in u .. u + n - 1 PROVE PageAt(i) # PageAt(j)
    <3>1. i \in Nat /\ j \in Nat /\ i # j
      BY <1>1, <2>3
    <3> QED
      BY <3>1, PageAtFacts
  <2> QED
    BY <1>5, <2>4, <2>5
<1>13. \A j, k \in DOMAIN H : j # k => RunOfGrant(H[j]) \cap RunOfGrant(H[k]) = {}
  <2> SUFFICES ASSUME NEW j \in DOMAIN H, NEW k \in DOMAIN H, j # k
               PROVE  RunOfGrant(H[j]) \cap RunOfGrant(H[k]) = {}
    OBVIOUS
  <2>1. CASE j \in DOMAIN G /\ k \in DOMAIN G
    BY <1>2, <1>8, <2>1
  <2>2. CASE j = l + 1
    <3>1. k \in DOMAIN G /\ H[k] = G[k] /\ H[j] = g
      BY <1>8, <1>9, <2>2
    <3> QED
      BY <1>12, <3>1
  <2>3. CASE k = l + 1
    <3>1. j \in DOMAIN G /\ H[j] = G[j] /\ H[k] = g
      BY <1>8, <1>9, <2>3
    <3> QED
      BY <1>12, <3>1
  <2> QED
    BY <1>9, <2>1, <2>2, <2>3
<1>14. ASSUME NEW i \in 1 .. u + n - 1
       PROVE  PageAt(i) \in NodesOf(d) \/ \E k \in DOMAIN H : PageAt(i) \in RunOfGrant(H[k])
  <2>1. i \in 1 .. u - 1 \/ i \in u .. u + n - 1
    BY <1>1
  <2>2. CASE i \in 1 .. u - 1
    BY <1>2, <1>3, <1>8, <1>10, <2>2
  <2>3. CASE i \in u .. u + n - 1
    <3>1. PageAt(i) \in RunOfGrant(H[l + 1])
      BY <1>5, <1>8, <2>3
    <3> QED
      BY <1>10, <3>1
  <2> QED
    BY <2>1, <2>2, <2>3
<1>15. PICK m : m = u + n
  OBVIOUS
<1>16. Handed(d, m, H)
  <2>1. \A k \in DOMAIN H : \E o : GrantAt(d, m, H[k], o)
    BY <1>11, <1>15
  <2>2. ASSUME NEW i \in 1 .. m - 1
        PROVE  PageAt(i) \in NodesOf(d) \/ \E k \in DOMAIN H : PageAt(i) \in RunOfGrant(H[k])
    <3>1. i \in 1 .. u + n - 1
      BY <1>1, <1>15
    <3> QED
      BY <1>14, <3>1
  <2>3. H \in Seq(Grants)
    BY <1>8
  <2> QED
    BY <1>13, <2>1, <2>2, <2>3 DEF Handed
<1> QED
  BY <1>7, <1>15, <1>16

(* The books: the space, the region's capability and the grants agree on   *)
(* whose each page is.                                                     *)
Ledger(c, A, G, u) ==
    /\ SpaceOK(c, NodesOf(c))
    /\ AreaAt(c, u, A) /\ u >= 2
    /\ NodesOf(c) \in SUBSET {PageAt(i) : i \in 1 .. u - 1}
    /\ Handed(c, u, G)
    /\ Clear(c, A)

Spare(c) == Cardinality(Open(c, NodesOf(c)))

(* The free slots of a sound space are a number.                           *)
LEMMA SpareType ==
    ASSUME NEW c, SpaceOK(c, NodesOf(c))
    PROVE  /\ Spare(c) \in Nat /\ IsFiniteSet(Open(c, NodesOf(c)))
           /\ GetFreeSlots(c) = Spare(c)
<1>1. PICK s, N : s = c.slab /\ N = NodesOf(c)
  OBVIOUS
<1>2. SlabOK(s, N)
  BY <1>1 DEF SpaceOK
<1>3. IsFiniteSet(OpenSlots(s, N)) /\ GetFreeSlabSlots(s) = Cardinality(OpenSlots(s, N))
      /\ GetFreeSlabSlots(s) \in Nat
  BY <1>2, FreeSlotsCounted
<1> QED
  BY <1>1, <1>3 DEF Spare, Open, GetFreeSlots

(* A turn of CheckSpace keeps the books.                                   *)
LEMMA LedgerNode ==
    ASSUME NEW c, NEW A, NEW G, NEW u, Ledger(c, A, G, u), u + 1 < PageCount,
           NEW d, NEW r, NEW q, Took(c, d, NodesOf(c), u, 1, A, "CAPABILITY_NODE", r, q),
           NEW e, e = AddCapabilityNode(d, q)
    PROVE  /\ Ledger(e, r, G, u + 1)
           /\ Spare(e) = Spare(c) + CAPABILITIES_PER_NODE - 2
<1>1. /\ SpaceOK(c, NodesOf(c)) /\ AreaAt(c, u, A) /\ u >= 2 /\ u \in Nat
      /\ NodesOf(c) \in SUBSET {PageAt(i) : i \in 1 .. u - 1}
      /\ Handed(c, u, G) /\ Clear(c, A) /\ PageCount \in Nat
  BY RegionFacts DEF Ledger, AreaAt
<1>2. PICK N, n : N = NodesOf(c) /\ n = PageAt(u)
  OBVIOUS
<1>3. n \in Pages \ N
  <2>1. u \in 0 .. PageCount - 1
    BY <1>1
  <2>2. \A i \in 1 .. u - 1 : PageAt(i) # PageAt(u)
    <3>1. \A i \in 1 .. u - 1 : i \in Nat /\ i # u
      BY <1>1
    <3> QED
      BY <1>1, <3>1, PageAtFacts
  <2> QED
    BY <1>1, <1>2, <2>1, <2>2, PagesFact
<1>4. /\ SpaceOK(d, N) /\ q \in Open(c, N) /\ Held(d)[q] = PageCap("CAPABILITY_NODE", u)
      /\ \A k \in DOMAIN d.CapabilityTree : d.CapabilityTree[k] # q
      /\ Cardinality(Open(d, N)) = Cardinality(Open(c, N)) - (1 + 1)
  BY <1>2 DEF Took
<1>5. q \in N \X SlotIndex
  BY <1>1, <1>2, <1>4, OpenIsUnlinked
<1>6. Grown(d, e, N, n, q)
  <2>1. PICK v : v = Held(d)[q]
    OBVIOUS
  <2>2. v.Type = "CAPABILITY_NODE" /\ v.Object = n
    <3>1. PICK w : w = PageCap("CAPABILITY_NODE", u)
      OBVIOUS
    <3>2. w.Type = "CAPABILITY_NODE" /\ w.Object = PageAt(u)
      BY <3>1, PageCapType
    <3> QED
      BY <1>2, <1>4, <2>1, <3>1, <3>2
  <2> QED
    BY <1>3, <1>4, <1>5, <2>1, <2>2, GrownOK
<1>7. Advanced(c, e, u, 1, A, "CAPABILITY_NODE", r)
  BY <1>1, <1>2, <1>3, <1>6, GrownAdvances
<1>8. NodesOf(e) = N \cup {n}
  <2>1. PICK kind, m : kind = "CAPABILITY_NODE" /\ m = 1 /\ kind \in PageKinds /\ m \in Nat \ {0}
    BY DEF PageKinds
  <2>2. NodesOf(e) = NodesOf(c) \cup {PageAt(i) : i \in u .. u + m - 1}
    BY <1>1, <1>7, <2>1, NodesAdvance
  <2>3. \A i : i \in u .. u + m - 1 <=> i = u
    BY <1>1, <2>1
  <2> QED
    BY <1>2, <2>2, <2>3
<1>9. SpaceOK(e, NodesOf(e)) /\ Spare(e) = Cardinality(Open(e, N \cup {n}))
  BY <1>6, <1>8 DEF Grown, Spare
<1>10. Spare(e) = Spare(c) + CAPABILITIES_PER_NODE - 2
  <2>1. /\ Cardinality(Open(d, N)) \in Nat
        /\ Cardinality(Open(e, N \cup {n})) = Cardinality(Open(d, N)) + CAPABILITIES_PER_NODE
    BY <1>3, <1>4, <1>6, GrownCount
  <2>2. Spare(c) = Cardinality(Open(c, N)) /\ Spare(c) \in Nat /\ CAPABILITIES_PER_NODE \in Nat
    BY <1>1, <1>2, SpareType, SlotCount DEF Spare
  <2> QED
    BY <1>4, <1>9, <2>1, <2>2
<1>11. AreaAt(e, u + 1, r)
  BY <1>1, <1>7, AreaAdvance
<1>12. NodesOf(e) \in SUBSET {PageAt(i) : i \in 1 .. (u + 1) - 1}
  <2>1. \A i \in 1 .. u - 1 : i \in 1 .. (u + 1) - 1
    BY <1>1
  <2>2. u \in 1 .. (u + 1) - 1
    BY <1>1
  <2> QED
    BY <1>1, <1>2, <1>8, <2>1, <2>2
<1>13. Handed(e, u + 1, G) /\ Clear(e, r)
  BY <1>1, <1>7, HandedNode, ClearAdvance
<1>14. u + 1 >= 2
  BY <1>1
<1> QED
  BY <1>9, <1>10, <1>11, <1>12, <1>13, <1>14 DEF Ledger

(* A request keeps the books.                                              *)
LEMMA LedgerGrant ==
    ASSUME NEW c, NEW A, NEW G, NEW u, Ledger(c, A, G, u),
           NEW n \in Nat \ {0}, u + n < PageCount, NEW kind \in GrantKinds,
           NEW d, NEW r, NEW q, Took(c, d, NodesOf(c), u, n, A, kind, r, q),
           NEW g, g = [Object |-> PageAt(u), length |-> n, Type |-> kind]
    PROVE  /\ Ledger(d, r, Append(G, g), u + n)
           /\ Spare(d) = Spare(c) - (n + 1)
           /\ Held(d)[q] = PageCap(kind, u)
<1>1. /\ SpaceOK(c, NodesOf(c)) /\ AreaAt(c, u, A) /\ u >= 2 /\ u \in Nat
      /\ NodesOf(c) \in SUBSET {PageAt(i) : i \in 1 .. u - 1}
      /\ Handed(c, u, G) /\ Clear(c, A)
  BY DEF Ledger, AreaAt
<1>2. kind \in PageKinds /\ kind # "CAPABILITY_NODE"
  BY DEF PageKinds, GrantKinds
<1>3. Advanced(c, d, u, n, A, kind, r)
  BY <1>1, <1>2, TookAdvances
<1>4. NodesOf(d) = NodesOf(c)
  BY <1>1, <1>2, <1>3, NodesAdvance
<1>5. /\ SpaceOK(d, NodesOf(c)) /\ Held(d)[q] = PageCap(kind, u)
      /\ Cardinality(Open(d, NodesOf(c))) = Cardinality(Open(c, NodesOf(c))) - (n + 1)
  BY DEF Took
<1>6. AreaAt(d, u + n, r) /\ Clear(d, r)
  BY <1>1, <1>3, AreaAdvance, ClearAdvance
<1>7. Handed(d, u + n, Append(G, g))
  BY <1>1, <1>3, HandedGrant
<1>8. NodesOf(d) \in SUBSET {PageAt(i) : i \in 1 .. (u + n) - 1}
  <2>1. \A i \in 1 .. u - 1 : i \in 1 .. (u + n) - 1
    BY <1>1
  <2> QED
    BY <1>1, <1>4, <2>1
<1>9. u + n >= 2
  BY <1>1
<1> QED
  BY <1>4, <1>5, <1>6, <1>7, <1>8, <1>9 DEF Ledger, Spare

-----------------------------------------------------------------------------

(* The turns CheckSpace takes, of f free slots.                            *)
Needed(f, slots) ==
    IF f >= slots THEN 0
    ELSE (slots - f + CAPABILITIES_PER_NODE - 3) \div (CAPABILITIES_PER_NODE - 2)

(* A node has room for the first capabilities and five more.               *)
LEMMA NodeSize ==
    /\ CAPABILITIES_PER_NODE \in Nat /\ CAPABILITIES_PER_NODE >= 5
    /\ IsFiniteSet(KeptEntries) /\ Cardinality(KeptEntries) \in Nat
    /\ Cardinality(KeptEntries) + 5 <= CAPABILITIES_PER_NODE
<1>1. CAPABILITIES_PER_NODE \in Nat
  BY CapabilitiesAssumption
<1>2. IsFiniteSet(DOMAIN MemoryMap)
  <2>1. DOMAIN MemoryMap = 1 .. Len(MemoryMap) /\ Len(MemoryMap) \in Int /\ 1 \in Int
    BY MapType
  <2>2. IsFiniteSet(1 .. Len(MemoryMap))
    BY <2>1, FS_Interval
  <2> QED
    BY <2>1, <2>2
<1>3. IsFiniteSet(KeptEntries)
  <2>1. KeptEntries \in SUBSET DOMAIN MemoryMap
    BY DEF KeptEntries
  <2> QED
    BY <1>2, <2>1, FS_Subset
<1>4. Cardinality(KeptEntries) \in Nat
  BY <1>3, FS_CardinalityType
<1> QED
  BY <1>1, <1>3, <1>4, MapAssumption

(* Quotients, by what they are.                                            *)
LEMMA Quotient ==
    ASSUME NEW a \in Nat, NEW m \in Nat \ {0}
    PROVE  /\ (a \div m) \in Nat
           /\ ((a + m) \div m) = (a \div m) + 1
<1>1. PICK q, s \in Nat : q = (a \div m) /\ s = (a % m)
  OBVIOUS
<1>2. a = m * q + s /\ s < m
  BY <1>1
<1>3. a + m = m * (q + 1) + s
  BY <1>2
<1>4. PICK p, t \in Nat : p = ((a + m) \div m) /\ t = ((a + m) % m)
  OBVIOUS
<1>5. a + m = m * p + t /\ t < m
  BY <1>4
<1>6. p = q + 1
  <2>1. ASSUME NEW i \in Nat, NEW j \in Nat, i < j PROVE m * i + m <= m * j
    <3>1. PICK d \in Nat : j = i + 1 + d
      <4>1. j - i - 1 \in Nat /\ j = i + 1 + (j - i - 1)
        BY <2>1
      <4> QED
        BY <4>1
    <3>2. m * j = m * i + m + m * d
      BY <3>1
    <3>3. m * d \in Nat /\ m * i \in Nat
      OBVIOUS
    <3> QED
      BY <3>2, <3>3
  <2>2. m * p \in Nat /\ m * (q + 1) \in Nat
    OBVIOUS
  <2>3. p < q + 1 => m * p + m <= m * (q + 1)
    BY <2>1
  <2>4. q + 1 < p => m * (q + 1) + m <= m * p
    BY <2>1
  <2>5. p < q + 1 \/ q + 1 < p \/ p = q + 1
    OBVIOUS
  <2>6. ~(p < q + 1)
    BY <1>2, <1>3, <1>5, <2>2, <2>3
  <2>7. ~(q + 1 < p)
    BY <1>2, <1>3, <1>5, <2>2, <2>4
  <2> QED
    BY <2>5, <2>6, <2>7
<1> QED
  BY <1>1, <1>4, <1>6

(* A turn of CheckSpace is one of those it needs.                          *)
LEMMA NeededFacts ==
    ASSUME NEW f \in Nat, NEW slots \in Nat
    PROVE  /\ Needed(f, slots) \in Nat
           /\ f < slots =>
                /\ Needed(f, slots) >= 1
                /\ Needed(f + CAPABILITIES_PER_NODE - 2, slots) <= Needed(f, slots) - 1
<1>1. PICK m \in Nat : m = CAPABILITIES_PER_NODE - 2 /\ m >= 3 /\ CAPABILITIES_PER_NODE = m + 2
  <2>1. CAPABILITIES_PER_NODE \in Nat /\ CAPABILITIES_PER_NODE >= 5
    BY NodeSize
  <2>2. CAPABILITIES_PER_NODE - 2 \in Nat /\ CAPABILITIES_PER_NODE - 2 >= 3
    BY <2>1
  <2> QED
    BY <2>1, <2>2
<1>2. CASE f >= slots
  BY <1>2 DEF Needed
<1>3. CASE f < slots
  <2>1. PICK x \in Nat : x = slots - f - 1 /\ slots - f = x + 1
    BY <1>3
  <2>2. Needed(f, slots) = ((x + m) \div m)
    <3>1. slots - f + CAPABILITIES_PER_NODE - 3 = x + m
      BY <1>1, <2>1
    <3> QED
      BY <1>1, <1>3, <3>1 DEF Needed
  <2>3. (x \div m) \in Nat /\ ((x + m) \div m) = (x \div m) + 1
    <3>1. m \in Nat \ {0}
      BY <1>1
    <3> QED
      BY <2>1, <3>1, Quotient
  <2>4. PICK y \in Nat : y = (x \div m)
    BY <2>3
  <2>5. Needed(f, slots) = y + 1
    BY <2>2, <2>3, <2>4
  <2>6. f + CAPABILITIES_PER_NODE - 2 = f + m
    BY <1>1
  <2>7. CASE f + m >= slots
    <3>1. Needed(f + m, slots) = 0
      BY <2>7 DEF Needed
    <3> QED
      BY <2>5, <2>6, <3>1
  <2>8. CASE ~(f + m >= slots)
    <3>1. slots - (f + m) + CAPABILITIES_PER_NODE - 3 = x
      BY <1>1, <2>1
    <3>2. Needed(f + m, slots) = (x \div m)
      BY <1>1, <2>8, <3>1 DEF Needed
    <3> QED
      BY <2>4, <2>5, <2>6, <3>2
  <2> QED
    BY <2>7, <2>8
<1> QED
  BY <1>2, <1>3

(* A call k in progress, or none, while the region begins at page u and    *)
(* the manager is active or not.                                           *)
CallOK(c, u, active, k) ==
    /\ k \in Calls \cup {Idle}
    /\ active \in BOOLEAN
    /\ k # Idle /\ k.op # "Deinit" => active
    /\ k # Idle => PageCount - u > Needed(Spare(c), SlotsWanted(k)) + k.length
    /\ ~active => Spare(c) >= UserReserve

Inv(u) ==
    /\ PhysicalMemoryManager = [UntypedArea |-> PhysicalMemoryManager.UntypedArea,
                                IsActive |-> PhysicalMemoryManager.IsActive]
    /\ Ledger(space, PhysicalMemoryManager.UntypedArea, granted, u)
    /\ Spare(space) >= 2
    /\ CallOK(space, u, PhysicalMemoryManager.IsActive, call)

IInv == \E u : Inv(u)

(* What a call asks for.                                                   *)
LEMMA CallTypes ==
    ASSUME NEW k \in Calls
    PROVE  /\ k.length \in Nat /\ SlotsWanted(k) \in Nat
           /\ k # Idle /\ k.op # "Idle"
           /\ k.op # "Deinit" =>
                /\ k.op \in {"RequestPage", "RequestVirtualPage", "RequestPages"}
                /\ k.length \in Nat \ {0} /\ k.length \in 1 .. MaxLength
                /\ SlotsWanted(k) = k.length + 5 \/ (SlotsWanted(k) = 5 /\ k.length = 1)
                /\ GrantedType(k) \in GrantKinds
           /\ k.op = "Deinit" => SlotsWanted(k) = UserReserve
           /\ Idle.op = "Idle"
<1>1. MaxLength \in Nat \ {0} /\ UserReserve \in Nat
  BY MemoryAssumption
<1>2. \/ k = [op |-> "RequestPage", length |-> 1]
      \/ k = [op |-> "RequestVirtualPage", length |-> 1]
      \/ k = [op |-> "Deinit", length |-> 0]
      \/ \E n \in 1 .. MaxLength : k = [op |-> "RequestPages", length |-> n]
  BY DEF Calls
<1>3. Idle.op = "Idle"
  BY DEF Idle
<1>4. CASE k = [op |-> "RequestPage", length |-> 1]
  <2>1. k.op = "RequestPage" /\ k.length = 1 /\ 1 \in 1 .. MaxLength
    BY <1>1, <1>4
  <2> QED
    BY <1>3, <2>1 DEF SlotsWanted, GrantedType, GrantKinds
<1>5. CASE k = [op |-> "RequestVirtualPage", length |-> 1]
  <2>1. k.op = "RequestVirtualPage" /\ k.length = 1 /\ 1 \in 1 .. MaxLength
    BY <1>1, <1>5
  <2> QED
    BY <1>3, <2>1 DEF SlotsWanted, GrantedType, GrantKinds
<1>6. CASE k = [op |-> "Deinit", length |-> 0]
  <2>1. k.op = "Deinit" /\ k.length = 0
    BY <1>6
  <2> QED
    BY <1>1, <1>3, <2>1 DEF SlotsWanted
<1>7. CASE \E n \in 1 .. MaxLength : k = [op |-> "RequestPages", length |-> n]
  <2>1. PICK n \in 1 .. MaxLength : k = [op |-> "RequestPages", length |-> n]
    BY <1>7
  <2>2. k.op = "RequestPages" /\ k.length = n
    BY <2>1
  <2>3. n \in Nat \ {0}
    BY <1>1
  <2>4. SlotsWanted(k) = n + 5
    BY <2>2 DEF SlotsWanted
  <2>5. GrantedType(k) \in GrantKinds
    BY <2>2 DEF GrantedType, GrantKinds
  <2>6. k.length \in Nat \ {0} /\ k.length \in 1 .. MaxLength /\ SlotsWanted(k) \in Nat
        /\ SlotsWanted(k) = k.length + 5
    BY <2>2, <2>3, <2>4
  <2>7. k # Idle /\ k.op # "Idle" /\ k.op # "Deinit"
        /\ k.op \in {"RequestPage", "RequestVirtualPage", "RequestPages"}
    BY <1>3, <2>2
  <2>8. k.length \in Nat
    BY <2>6
  <2> QED
    BY <1>3, <2>5, <2>6, <2>7, <2>8
<1> QED
  BY <1>2, <1>4, <1>5, <1>6, <1>7

-----------------------------------------------------------------------------

(* What the invariant says of the books and the call.                      *)
LEMMA InvFacts ==
    ASSUME NEW u, Inv(u)
    PROVE  /\ Ledger(space, PhysicalMemoryManager.UntypedArea, granted, u)
           /\ SpaceOK(space, NodesOf(space))
           /\ AreaAt(space, u, PhysicalMemoryManager.UntypedArea)
           /\ u \in Nat /\ u >= 2 /\ u < PageCount /\ PageCount \in Nat
           /\ Spare(space) \in Nat /\ Spare(space) >= 2 /\ GetFreeSlots(space) = Spare(space)
           /\ Cardinality(Open(space, NodesOf(space))) = Spare(space)
           /\ CallOK(space, u, PhysicalMemoryManager.IsActive, call)
<1>1. /\ Ledger(space, PhysicalMemoryManager.UntypedArea, granted, u) /\ Spare(space) >= 2
      /\ CallOK(space, u, PhysicalMemoryManager.IsActive, call)
  BY DEF Inv
<1>2. /\ SpaceOK(space, NodesOf(space)) /\ u >= 2
      /\ AreaAt(space, u, PhysicalMemoryManager.UntypedArea)
  BY <1>1 DEF Ledger
<1>3. u \in Nat /\ u < PageCount
  BY <1>2 DEF AreaAt
<1> QED
  BY <1>1, <1>2, <1>3, SpareType, RegionFacts DEF Spare

(* What the manager is after SplitUntyped has moved the region.            *)
LEMMA MovedArea ==
    ASSUME NEW u, Inv(u), NEW area,
           PhysicalMemoryManager' = [PhysicalMemoryManager EXCEPT !.UntypedArea = area]
    PROVE  /\ PhysicalMemoryManager' = [UntypedArea |-> PhysicalMemoryManager'.UntypedArea,
                                        IsActive |-> PhysicalMemoryManager'.IsActive]
           /\ PhysicalMemoryManager'.UntypedArea = area
           /\ PhysicalMemoryManager'.IsActive = PhysicalMemoryManager.IsActive
<1>1. PICK A, b : A = PhysicalMemoryManager.UntypedArea /\ b = PhysicalMemoryManager.IsActive
  OBVIOUS
<1>2. PhysicalMemoryManager = [UntypedArea |-> A, IsActive |-> b]
  BY <1>1 DEF Inv
<1>3. PhysicalMemoryManager' = [UntypedArea |-> area, IsActive |-> b]
  BY <1>2
<1> QED
  BY <1>1, <1>3

(* A turn of CheckSpace.                                                   *)
LEMMA AddNodeStep ==
    ASSUME NEW u, Inv(u), AddNode
    PROVE  Inv(u + 1)' /\ granted' = granted
<1>1. /\ Ledger(space, PhysicalMemoryManager.UntypedArea, granted, u)
      /\ SpaceOK(space, NodesOf(space))
      /\ AreaAt(space, u, PhysicalMemoryManager.UntypedArea)
      /\ u \in Nat /\ u >= 2 /\ u < PageCount /\ PageCount \in Nat
      /\ Spare(space) \in Nat /\ Spare(space) >= 2 /\ GetFreeSlots(space) = Spare(space)
      /\ Cardinality(Open(space, NodesOf(space))) = Spare(space)
      /\ CallOK(space, u, PhysicalMemoryManager.IsActive, call)
  BY InvFacts
<1>2. PICK c, A, G, k, b, N : /\ c = space /\ A = PhysicalMemoryManager.UntypedArea
                              /\ G = granted /\ k = call /\ b = PhysicalMemoryManager.IsActive
                              /\ N = NodesOf(c)
  OBVIOUS
<1>3. PICK t : t = TakePages(1, "CAPABILITY_NODE")
  OBVIOUS
<1>4. /\ call # Idle /\ GetFreeSlots(space) < SlotsWanted(call)
      /\ space' = AddCapabilityNode(t.space, t.cap)
      /\ PhysicalMemoryManager' = [PhysicalMemoryManager EXCEPT !.UntypedArea = t.area]
      /\ call' = call /\ granted' = granted
  BY <1>3 DEF AddNode
<1>5. k \in Calls /\ k.length \in Nat /\ SlotsWanted(k) \in Nat
  <2>1. k \in Calls
    BY <1>1, <1>2, <1>4 DEF CallOK
  <2> QED
    BY <2>1, CallTypes
<1>6. PICK f, w, x : f = Spare(c) /\ w = SlotsWanted(k) /\ x = Needed(f, w)
  OBVIOUS
<1>7. /\ f \in Nat /\ f >= 2 /\ w \in Nat /\ f < w
      /\ PageCount - u > x + k.length
      /\ k # Idle /\ (k.op # "Deinit" => b) /\ b \in BOOLEAN
      /\ ~b => f >= UserReserve
  <2>1. /\ k # Idle /\ k.op # "Deinit" => b
        /\ k # Idle => PageCount - u > Needed(Spare(c), SlotsWanted(k)) + k.length
        /\ ~b => Spare(c) >= UserReserve
        /\ b \in BOOLEAN
    BY <1>1, <1>2 DEF CallOK
  <2> QED
    BY <1>1, <1>2, <1>4, <1>5, <1>6, <2>1
<1>8. x \in Nat /\ x >= 1 /\ Needed(f + CAPABILITIES_PER_NODE - 2, w) <= x - 1
      /\ Needed(f + CAPABILITIES_PER_NODE - 2, w) \in Nat
  <2>1. x \in Nat /\ x >= 1 /\ Needed(f + CAPABILITIES_PER_NODE - 2, w) <= x - 1
    BY <1>6, <1>7, NeededFacts
  <2>2. f + CAPABILITIES_PER_NODE - 2 \in Nat
    BY <1>7, NodeSize
  <2> QED
    BY <1>7, <2>1, <2>2, NeededFacts
<1>9. u + 1 < PageCount
  BY <1>1, <1>5, <1>7, <1>8
<1>10. t.cap # NULL /\ Took(c, t.space, N, u, 1, A, "CAPABILITY_NODE", t.area, t.cap)
  <2>1. PICK kind, n : /\ kind = "CAPABILITY_NODE" /\ n = 1 /\ kind \in PageKinds
                       /\ n \in Nat \ {0}
    BY DEF PageKinds
  <2>2. /\ SpaceOK(space, N) /\ AreaAt(space, u, A) /\ u + n < PageCount
        /\ Cardinality(Open(space, N)) \in Nat /\ Cardinality(Open(space, N)) >= n + 1
        /\ t = TakePages(n, kind) /\ A = PhysicalMemoryManager.UntypedArea
    BY <1>1, <1>2, <1>3, <1>9, <2>1
  <2>3. t.cap # NULL /\ Took(space, t.space, N, u, n, A, kind, t.area, t.cap)
    BY <2>1, <2>2, TakeOK
  <2> QED
    BY <1>2, <2>1, <2>3
<1>11. PICK d, e, r, q : d = t.space /\ r = t.area /\ q = t.cap /\ e = AddCapabilityNode(d, q)
  OBVIOUS
<1>12. Ledger(e, r, G, u + 1) /\ Spare(e) = Spare(c) + CAPABILITIES_PER_NODE - 2
  <2>1. Ledger(c, A, G, u) /\ Took(c, d, NodesOf(c), u, 1, A, "CAPABILITY_NODE", r, q)
    BY <1>1, <1>2, <1>10, <1>11
  <2> QED
    BY <1>9, <1>11, <2>1, LedgerNode
<1>13. /\ space' = e /\ granted' = G /\ call' = k
       /\ PhysicalMemoryManager' = [UntypedArea |-> PhysicalMemoryManager'.UntypedArea,
                                    IsActive |-> PhysicalMemoryManager'.IsActive]
       /\ PhysicalMemoryManager'.UntypedArea = r /\ PhysicalMemoryManager'.IsActive = b
  BY <1>2, <1>4, <1>11, MovedArea
<1>14. Spare(e) = f + CAPABILITIES_PER_NODE - 2 /\ Spare(e) >= f /\ Spare(e) >= 2
  BY <1>6, <1>7, <1>12, NodeSize
<1>15. CallOK(e, u + 1, b, k)
  <2>1. PageCount - (u + 1) > Needed(Spare(e), SlotsWanted(k)) + k.length
    <3>1. PICK y \in Nat : y = Needed(f + CAPABILITIES_PER_NODE - 2, w) /\ y <= x - 1
      BY <1>8
    <3>2. Needed(Spare(e), SlotsWanted(k)) = y
      BY <1>6, <1>14, <3>1
    <3>3. PageCount - (u + 1) > y + k.length
      BY <1>1, <1>5, <1>7, <1>8, <3>1
    <3> QED
      BY <3>2, <3>3
  <2>2. ~b => Spare(e) >= UserReserve
    <3>1. UserReserve \in Nat /\ Spare(e) \in Nat
      BY <1>7, <1>14, NodeSize, MemoryAssumption
    <3> QED
      BY <1>7, <1>14, <3>1
  <2> QED
    BY <1>5, <1>7, <2>1, <2>2 DEF CallOK
<1>16. Inv(u + 1)'
  BY <1>12, <1>13, <1>14, <1>15 DEF Inv
<1> QED
  BY <1>4, <1>16

(* The rest of a request.                                                  *)
LEMMA GrantStep ==
    ASSUME NEW u, Inv(u), Grant
    PROVE  \E n \in 1 .. MaxLength :
              /\ n = call.length /\ n \in Nat \ {0}
              /\ GrantedType(call) \in GrantKinds
              /\ u + n < PageCount
              /\ Inv(u + n)'
              /\ granted' = Append(granted, [Object |-> PageAt(u), length |-> n,
                                             Type |-> GrantedType(call)])
<1>1. /\ Ledger(space, PhysicalMemoryManager.UntypedArea, granted, u)
      /\ SpaceOK(space, NodesOf(space))
      /\ AreaAt(space, u, PhysicalMemoryManager.UntypedArea)
      /\ u \in Nat /\ u >= 2 /\ u < PageCount /\ PageCount \in Nat
      /\ Spare(space) \in Nat /\ Spare(space) >= 2 /\ GetFreeSlots(space) = Spare(space)
      /\ Cardinality(Open(space, NodesOf(space))) = Spare(space)
      /\ CallOK(space, u, PhysicalMemoryManager.IsActive, call)
  BY InvFacts
<1>2. PICK c, A, G, k, b, N : /\ c = space /\ A = PhysicalMemoryManager.UntypedArea
                              /\ G = granted /\ k = call /\ b = PhysicalMemoryManager.IsActive
                              /\ N = NodesOf(c)
  OBVIOUS
<1>3. PICK n, kind : n = k.length /\ kind = GrantedType(k)
  OBVIOUS
<1>4. PICK t : t = TakePages(n, kind)
  OBVIOUS
<1>5. /\ k.op \in {"RequestPage", "RequestVirtualPage", "RequestPages"}
      /\ Spare(c) >= SlotsWanted(k)
      /\ space' = t.space
      /\ PhysicalMemoryManager' = [PhysicalMemoryManager EXCEPT !.UntypedArea = t.area]
      /\ granted' = IF t.cap = NULL THEN granted
                    ELSE Append(granted, [Object |-> Cap(t.space, t.cap).Object,
                                          length |-> n, Type |-> kind])
      /\ call' = Idle
  BY <1>1, <1>2, <1>3, <1>4 DEF Grant
<1>6. k \in Calls /\ k # Idle /\ k.op # "Deinit"
  <2>1. k # Idle /\ k.op # "Deinit"
    BY <1>5 DEF Idle
  <2> QED
    BY <1>1, <1>2, <2>1 DEF CallOK
<1>7. /\ n \in Nat \ {0} /\ n \in 1 .. MaxLength /\ SlotsWanted(k) \in Nat
      /\ SlotsWanted(k) = n + 5 \/ (SlotsWanted(k) = 5 /\ n = 1)
      /\ kind \in GrantKinds
  BY <1>3, <1>6, CallTypes
<1>8. PICK f, w, x : f = Spare(c) /\ w = SlotsWanted(k) /\ x = Needed(f, w)
  OBVIOUS
<1>9. f \in Nat /\ w \in Nat /\ f >= w /\ x = 0 /\ b
  BY <1>1, <1>2, <1>5, <1>6, <1>7, <1>8 DEF Needed, CallOK
<1>10. PageCount - u > n
  <2>1. PageCount - u > x + n
    BY <1>1, <1>2, <1>3, <1>6, <1>8 DEF CallOK
  <2> QED
    BY <1>7, <1>9, <2>1
<1>11. u + n < PageCount /\ f >= n + 4
  <2>1. f >= n + 4
    <3>1. w = n + 5 \/ (w = 5 /\ n = 1)
      BY <1>7, <1>8
    <3>2. f \in Nat /\ w \in Nat /\ f >= w /\ n \in Nat
      BY <1>7, <1>9
    <3> QED
      BY <3>1, <3>2
  <2> QED
    BY <1>1, <1>7, <1>10, <2>1
<1>12. t.cap # NULL /\ Took(c, t.space, N, u, n, A, kind, t.area, t.cap)
  <2>1. kind \in PageKinds
    BY <1>7 DEF PageKinds, GrantKinds
  <2>2. /\ SpaceOK(space, N) /\ AreaAt(space, u, A) /\ u + n < PageCount
        /\ Cardinality(Open(space, N)) \in Nat /\ Cardinality(Open(space, N)) >= n + 1
        /\ A = PhysicalMemoryManager.UntypedArea
    BY <1>1, <1>2, <1>7, <1>8, <1>11
  <2>3. t.cap # NULL /\ Took(space, t.space, N, u, n, A, kind, t.area, t.cap)
    BY <1>4, <1>7, <2>1, <2>2, TakeOK
  <2> QED
    BY <1>2, <2>3
<1>13. PICK d, r, q, g : /\ d = t.space /\ r = t.area /\ q = t.cap
                         /\ g = [Object |-> PageAt(u), length |-> n, Type |-> kind]
  OBVIOUS
<1>14. /\ Ledger(d, r, Append(G, g), u + n) /\ Spare(d) = Spare(c) - (n + 1)
       /\ Held(d)[q] = PageCap(kind, u)
  <2>1. Ledger(c, A, G, u) /\ Took(c, d, NodesOf(c), u, n, A, kind, r, q)
    BY <1>1, <1>2, <1>12, <1>13
  <2> QED
    BY <1>7, <1>11, <1>13, <2>1, LedgerGrant
<1>15. Cap(d, q).Object = PageAt(u)
  <2>1. q \in AllSlots
    <3>1. q \in Open(c, N) /\ SpaceOK(c, N)
      BY <1>1, <1>2, <1>12, <1>13 DEF Took
    <3> QED
      BY <3>1, OpenIsUnlinked
  <2>2. Cap(d, q) = Held(d)[q]
    BY <2>1 DEF Cap, Held, View
  <2>3. PICK v : v = PageCap(kind, u)
    OBVIOUS
  <2>4. v.Object = PageAt(u)
    BY <2>3, PageCapType
  <2> QED
    BY <1>14, <2>2, <2>3, <2>4
<1>16. granted' = Append(G, g)
  BY <1>2, <1>5, <1>12, <1>13, <1>15
<1>17. /\ space' = d /\ call' = Idle
       /\ PhysicalMemoryManager' = [UntypedArea |-> PhysicalMemoryManager'.UntypedArea,
                                    IsActive |-> PhysicalMemoryManager'.IsActive]
       /\ PhysicalMemoryManager'.UntypedArea = r /\ PhysicalMemoryManager'.IsActive = b
  BY <1>2, <1>5, <1>13, MovedArea
<1>18. Spare(d) >= 2
  BY <1>7, <1>8, <1>9, <1>11, <1>14
<1>19. CallOK(d, u + n, b, Idle)
  <2>1. b \in BOOLEAN
    BY <1>1, <1>2 DEF CallOK
  <2> QED
    BY <1>9, <2>1 DEF CallOK
<1>20. Inv(u + n)'
  BY <1>14, <1>16, <1>17, <1>18, <1>19 DEF Inv
<1>21. n = call.length /\ kind = GrantedType(call)
  BY <1>2, <1>3
<1>22. granted' = Append(granted, [Object |-> PageAt(u), length |-> n,
                                   Type |-> GrantedType(call)])
  BY <1>2, <1>13, <1>16, <1>21
<1> QED
  BY <1>7, <1>11, <1>20, <1>21, <1>22

-----------------------------------------------------------------------------

(* What the manager's capability says of the region.                       *)
LEMMA UntypedAreaIs ==
    ASSUME NEW u, Inv(u)
    PROVE  /\ UntypedArea = AreaCap(u)
           /\ UntypedArea.Object = PageAt(u)
           /\ UntypedArea.Size = PAGE_SIZE * (PageCount - u)
           /\ PhysicalMemoryManager.UntypedArea \in AllSlots
<1>1. PICK A, N : A = PhysicalMemoryManager.UntypedArea /\ N = NodesOf(space)
  OBVIOUS
<1>2. SpaceOK(space, N) /\ AreaAt(space, u, A) /\ u \in Nat /\ u < PageCount /\ PageCount \in Nat
  BY <1>1, InvFacts
<1>3. A \in AllSlots
  <2>1. PageAt(u) \in DOMAIN space.CapabilityTree /\ A = space.CapabilityTree[PageAt(u)]
    BY <1>2 DEF AreaAt
  <2>2. A \in N \X SlotIndex /\ N \in SUBSET Pages
    BY <1>2, <2>1 DEF SpaceOK, SlabOK
  <2> QED
    BY <2>2 DEF AllSlots
<1>4. UntypedArea = Held(space)[A]
  BY <1>1, <1>3 DEF UntypedArea, Cap, Held, View
<1>5. UntypedArea = AreaCap(u)
  BY <1>2, <1>4 DEF AreaAt
<1>6. PICK v : v = AreaCap(u)
  OBVIOUS
<1>7. v.Object = PageAt(u) /\ v.Size = PAGE_SIZE * (PageCount - u)
  <2>1. u \in Nat /\ u <= PageCount
    BY <1>2
  <2>2. AreaCap(u).Object = PageAt(u) /\ AreaCap(u).Size = PAGE_SIZE * (PageCount - u)
    BY <2>1, AreaCapType
  <2> QED
    BY <1>6, <2>2
<1> QED
  BY <1>1, <1>3, <1>5, <1>6, <1>7

(* A call begins.                                                          *)
LEMMA CallStep ==
    ASSUME NEW u, Inv(u), NEW c \in Calls, MemorySuffices(c), Call(c)
    PROVE  Inv(u)' /\ granted' = granted
<1>1. /\ Ledger(space, PhysicalMemoryManager.UntypedArea, granted, u)
      /\ u \in Nat /\ u >= 2 /\ u < PageCount /\ PageCount \in Nat
      /\ Spare(space) \in Nat /\ Spare(space) >= 2 /\ GetFreeSlots(space) = Spare(space)
      /\ CallOK(space, u, PhysicalMemoryManager.IsActive, call)
  BY InvFacts
<1>2. PICK f, w : f = Spare(space) /\ w = SlotsWanted(c)
  OBVIOUS
<1>3. /\ c.length \in Nat /\ w \in Nat /\ f \in Nat /\ f >= 2
  BY <1>1, <1>2, CallTypes
<1>4. PICK x \in Nat : x = Needed(f, w)
  BY <1>3, NeededFacts
<1>5. NodesNeeded(SlotsWanted(c)) = x
  BY <1>1, <1>2, <1>4 DEF NodesNeeded, Needed
<1>6. UntypedArea.Size = PAGE_SIZE * (PageCount - u)
  BY UntypedAreaIs
<1>7. PICK i, j \in Nat : i = PageCount - u /\ j = x + c.length
  <2>1. PageCount - u \in Nat /\ x + c.length \in Nat
    BY <1>1, <1>3
  <2> QED
    BY <2>1
<1>8. PAGE_SIZE * i > PAGE_SIZE * j
  BY <1>5, <1>6, <1>7 DEF MemorySuffices
<1>9. i > j
  <2>1. PAGE_SIZE \in Nat \ {0, 1} /\ PAGE_SIZE * i \in Nat /\ PAGE_SIZE * j \in Nat
    BY TimesPage
  <2>2. i < j => PAGE_SIZE * i + PAGE_SIZE <= PAGE_SIZE * j
    BY TimesPage
  <2>3. i = j => PAGE_SIZE * i = PAGE_SIZE * j
    OBVIOUS
  <2>4. ~(i < j)
    BY <1>8, <2>1, <2>2
  <2>5. i # j
    BY <1>8, <2>1, <2>3
  <2> QED
    BY <2>4, <2>5
<1>10. PageCount - u > Needed(Spare(space), SlotsWanted(c)) + c.length
  BY <1>2, <1>4, <1>7, <1>9
<1>11. /\ space' = space /\ PhysicalMemoryManager' = PhysicalMemoryManager
       /\ granted' = granted /\ call' = c
       /\ c.op = "Deinit" \/ PhysicalMemoryManager.IsActive
  BY DEF Call
<1>12. CallOK(space, u, PhysicalMemoryManager.IsActive, c)
  <2>1. /\ PhysicalMemoryManager.IsActive \in BOOLEAN
        /\ ~PhysicalMemoryManager.IsActive => Spare(space) >= UserReserve
    BY <1>1 DEF CallOK
  <2> QED
    BY <1>10, <1>11, <2>1 DEF CallOK
<1>13. Inv(u)'
  <2>1. PhysicalMemoryManager = [UntypedArea |-> PhysicalMemoryManager.UntypedArea,
                                 IsActive |-> PhysicalMemoryManager.IsActive]
    BY DEF Inv
  <2> QED
    BY <1>1, <1>11, <1>12, <2>1 DEF Inv
<1> QED
  BY <1>11, <1>13

(* The end of Deinit: the slots are there.                                 *)
LEMMA FinishDeinitStep ==
    ASSUME NEW u, Inv(u), FinishDeinit
    PROVE  Inv(u)' /\ granted' = granted
<1>1. /\ Ledger(space, PhysicalMemoryManager.UntypedArea, granted, u)
      /\ Spare(space) \in Nat /\ Spare(space) >= 2 /\ GetFreeSlots(space) = Spare(space)
      /\ CallOK(space, u, PhysicalMemoryManager.IsActive, call)
  BY InvFacts
<1>2. PICK A, F : /\ A = PhysicalMemoryManager.UntypedArea
                  /\ F = FALSE
                  /\ PhysicalMemoryManager' = [PhysicalMemoryManager EXCEPT !.IsActive = F]
  BY DEF FinishDeinit
<1>3. PICK b : b = PhysicalMemoryManager.IsActive
  OBVIOUS
<1>4. PhysicalMemoryManager = [UntypedArea |-> A, IsActive |-> b]
  BY <1>2, <1>3 DEF Inv
<1>5. PhysicalMemoryManager' = [UntypedArea |-> A, IsActive |-> F]
  BY <1>2, <1>4
<1>6. /\ PhysicalMemoryManager'.UntypedArea = A /\ PhysicalMemoryManager'.IsActive = F
      /\ PhysicalMemoryManager' = [UntypedArea |-> PhysicalMemoryManager'.UntypedArea,
                                   IsActive |-> PhysicalMemoryManager'.IsActive]
  BY <1>5
<1>7. /\ call.op = "Deinit" /\ GetFreeSlots(space) >= SlotsWanted(call)
      /\ space' = space /\ granted' = granted /\ call' = Idle
  BY DEF FinishDeinit
<1>8. Spare(space) >= UserReserve
  <2>1. call \in Calls
    BY <1>1, <1>7 DEF CallOK, Idle
  <2>2. SlotsWanted(call) = UserReserve
    BY <1>7, <2>1, CallTypes
  <2> QED
    BY <1>1, <1>7, <2>2
<1>9. CallOK(space, u, F, Idle)
  BY <1>2, <1>8 DEF CallOK
<1>10. Inv(u)'
  BY <1>1, <1>2, <1>6, <1>7, <1>9 DEF Inv
<1> QED
  BY <1>7, <1>10

(* A step that changes nothing keeps the invariant.                        *)
LEMMA StutterStep ==
    ASSUME NEW u, Inv(u), UNCHANGED vars
    PROVE  Inv(u)'
BY DEF Inv, vars

(* The invariant is inductive.                                             *)
LEMMA InductiveStep ==
    ASSUME IInv, [Next]_vars
    PROVE  IInv'
<1>1. PICK u : Inv(u)
  BY DEF IInv
<1>2. CASE \E c \in Calls : MemorySuffices(c) /\ Call(c)
  <2>1. Inv(u)'
    BY <1>1, <1>2, CallStep
  <2> QED
    BY <2>1 DEF IInv
<1>3. CASE AddNode
  <2>1. Inv(u + 1)'
    BY <1>1, <1>3, AddNodeStep
  <2>2. PICK m : m = u + 1
    OBVIOUS
  <2>3. Inv(m)'
    BY <2>1, <2>2
  <2> QED
    BY <2>3 DEF IInv
<1>4. CASE Grant
  <2>1. PICK n \in 1 .. MaxLength : Inv(u + n)'
    BY <1>1, <1>4, GrantStep
  <2>2. PICK m : m = u + n
    OBVIOUS
  <2>3. Inv(m)'
    BY <2>1, <2>2
  <2> QED
    BY <2>3 DEF IInv
<1>5. CASE FinishDeinit
  <2>1. Inv(u)'
    BY <1>1, <1>5, FinishDeinitStep
  <2> QED
    BY <2>1 DEF IInv
<1>6. CASE UNCHANGED vars
  <2>1. Inv(u)'
    BY <1>1, <1>6, StutterStep
  <2> QED
    BY <2>1 DEF IInv
<1> QED
  BY <1>2, <1>3, <1>4, <1>5, <1>6 DEF Next, Return

-----------------------------------------------------------------------------

(* The capability InitializeRootSpace generates for an entry it keeps.     *)
EntryCap(e) ==
    IF e.Flags = "USABLE"
    THEN IF e.Address = FramesBase THEN AreaCap(2)
         ELSE NewCap("UNTYPED_FRAMES", e.Address, e.Length, AreaRights)
    ELSE NewCap("UNTYPED_DMA", e.Address, e.Length, AreaRights)

(* A capability of memory beside the region.                               *)
Beside(e, w) ==
    /\ w.Object = e.Address /\ w.Size = e.Length /\ w.IsMasked = FALSE
    /\ e.Address \in Nat /\ e.Length \in Nat \ {0}
    /\ Outside(w)
    /\ w.Type = IF e.Flags = "USABLE" THEN "UNTYPED_FRAMES" ELSE "UNTYPED_DMA"

(* Only one entry is the region; the others are beside it.                 *)
LEMMA EntryKinds ==
    ASSUME NEW k \in DOMAIN MemoryMap, NEW e, e = MemoryMap[k]
    PROVE  IF e.Flags = "USABLE" /\ e.Address = FramesBase
           THEN e = Area /\ EntryCap(e) = AreaCap(2)
           ELSE Beside(e, EntryCap(e))
<1>1. PICK a \in DOMAIN MemoryMap : Area = MemoryMap[a]
  BY AreaFact
<1>2. PICK f : f = Area /\ f = MemoryMap[a]
  BY <1>1
<1>3. /\ e.Address \in Nat /\ e.Length \in Nat \ {0}
      /\ f.Address = FramesBase /\ f.Length \in Nat \ {0} /\ f.Flags = "USABLE"
      /\ FramesBase \in Nat
  BY <1>2, MapType, AreaFact, MemoryAssumption
<1>4. a # k => f.Address + f.Length <= e.Address \/ e.Address + e.Length <= f.Address
  BY <1>2, <1>3, MapAssumption DEF Apart
<1>5. CASE e.Flags = "USABLE" /\ e.Address = FramesBase
  <2>1. a = k
    BY <1>3, <1>4, <1>5
  <2> QED
    BY <1>2, <1>5, <2>1 DEF EntryCap
<1>6. CASE ~(e.Flags = "USABLE" /\ e.Address = FramesBase)
  <2>1. a # k
    BY <1>2, <1>3, <1>6
  <2>2. PICK w : w = EntryCap(e)
    OBVIOUS
  <2>3. w = NewCap(IF e.Flags = "USABLE" THEN "UNTYPED_FRAMES" ELSE "UNTYPED_DMA",
                   e.Address, e.Length, AreaRights)
    BY <1>6, <2>2 DEF EntryCap
  <2>4. /\ w.Object = e.Address /\ w.Size = e.Length /\ w.IsMasked = FALSE
        /\ w.Type = IF e.Flags = "USABLE" THEN "UNTYPED_FRAMES" ELSE "UNTYPED_DMA"
    BY <2>3 DEF NewCap
  <2>5. Outside(w)
    <3>1. PageAt(PageCount) = FramesBase + f.Length
      BY <1>2, RegionFacts
    <3> QED
      BY <1>3, <1>4, <2>1, <2>4, <3>1 DEF Outside
  <2>6. Beside(e, w)
    BY <1>3, <2>4, <2>5 DEF Beside
  <2> QED
    BY <1>6, <2>2, <2>6
<1> QED
  BY <1>5, <1>6

(* Usable entries give capabilities of other memory than all entries.      *)
LEMMA EntriesApart ==
    ASSUME NEW j \in DOMAIN MemoryMap, NEW k \in DOMAIN MemoryMap, j # k,
           MemoryMap[j].Flags = "USABLE",
           NEW v, v = EntryCap(MemoryMap[j]), NEW w, w = EntryCap(MemoryMap[k])
    PROVE  /\ v.Object # w.Object
           /\ ~(v = AreaCap(2) /\ w = AreaCap(2))
           /\ v # AreaCap(2) /\ w # AreaCap(2) => Apart2(v, w)
<1>1. PICK e, f : e = MemoryMap[j] /\ f = MemoryMap[k]
  OBVIOUS
<1>2. /\ e.Address \in Nat /\ e.Length \in Nat \ {0} /\ f.Address \in Nat
      /\ f.Length \in Nat \ {0} /\ FramesBase \in Nat /\ e.Flags = "USABLE"
  BY <1>1, MapType, MemoryAssumption
<1>3. e.Address + e.Length <= f.Address \/ f.Address + f.Length <= e.Address
  BY <1>1, <1>2, MapAssumption DEF Apart
<1>4. PICK r : r = AreaCap(2) /\ r.Object = PageAt(2)
  <2>1. 2 \in Nat /\ 2 <= PageCount
    BY RegionFacts
  <2>2. AreaCap(2).Object = PageAt(2)
    BY <2>1, AreaCapType
  <2> QED
    BY <2>2
<1>5. /\ PageAt(2) \in Nat /\ FramesBase < PageAt(2) /\ PageAt(2) < PageAt(PageCount)
      /\ PageAt(PageCount) \in Nat
  <2>1. PageCount \in Nat /\ PageCount > 2 /\ PageAt(0) = FramesBase
        /\ PAGE_SIZE \in Nat \ {0}
    BY RegionFacts, PagesFact, PageSizeAssumption
  <2>2. PageAt(0) + PAGE_SIZE <= PageAt(2) /\ PageAt(2) \in Nat
    BY PageAtFacts
  <2>3. PageAt(2) + PAGE_SIZE <= PageAt(PageCount) /\ PageAt(PageCount) \in Nat
    BY <2>1, PageAtFacts
  <2> QED
    BY <1>2, <2>1, <2>2, <2>3
<1>6. IF e.Address = FramesBase THEN v = r ELSE Beside(e, v)
  BY <1>1, <1>2, <1>4, EntryKinds
<1>7. IF f.Flags = "USABLE" /\ f.Address = FramesBase THEN w = r ELSE Beside(f, w)
  BY <1>1, <1>4, EntryKinds
<1>8. Beside(e, v) => v.Object = e.Address /\ v.Size = e.Length /\ v.Object # PageAt(2)
  BY <1>2, <1>5 DEF Beside, Outside
<1>9. Beside(f, w) => w.Object = f.Address /\ w.Size = f.Length /\ w.Object # PageAt(2)
  BY <1>2, <1>5 DEF Beside, Outside
<1>10. ~(v = r /\ w = r)
  <2>1. ~(e.Address = FramesBase /\ f.Address = FramesBase)
    BY <1>2, <1>3
  <2> QED
    BY <1>4, <1>6, <1>7, <1>8, <1>9, <2>1
<1>11. v.Object # w.Object
  <2>1. e.Address # f.Address
    BY <1>2, <1>3
  <2> QED
    BY <1>4, <1>6, <1>7, <1>8, <1>9, <1>10, <2>1
<1>12. v # r /\ w # r => Apart2(v, w)
  BY <1>2, <1>3, <1>6, <1>7, <1>8, <1>9 DEF Apart2
<1> QED
  BY <1>4, <1>10, <1>11, <1>12

(* The addresses of the capabilities, and their kinds.                     *)
LEMMA EntryAddresses ==
    ASSUME NEW k \in DOMAIN MemoryMap, NEW w, w = EntryCap(MemoryMap[k])
    PROVE  /\ w.Object \in Nat /\ w.Size \in Nat
           /\ w = NewCap(w.Type, w.Object, w.Size, AreaRights)
           /\ w.Type \in {"UNTYPED_FRAMES", "UNTYPED_DMA"}
           /\ w.Type = "UNTYPED_FRAMES" <=> MemoryMap[k].Flags = "USABLE"
           /\ w.Object = PageAt(2) \/ w.Object < FramesBase \/ PageAt(PageCount) <= w.Object
           /\ w.Object = PageAt(2) => w = AreaCap(2)
<1>1. PICK e : e = MemoryMap[k]
  OBVIOUS
<1>2. /\ e.Address \in Nat /\ e.Length \in Nat \ {0} /\ FramesBase \in Nat
  BY <1>1, MapType, MemoryAssumption
<1>3. PICK m \in Nat : m = PageCount - 2
  BY RegionFacts
<1>4. PICK r : r = AreaCap(2)
  OBVIOUS
<1>5. r = PieceCap(2, m)
  BY <1>3, <1>4 DEF AreaCap
<1>6. IsPiece(r, 2, m)
  BY <1>5, PieceCapFacts
<1>7. /\ PageAt(2) \in Nat /\ FramesBase < PageAt(2) /\ PageAt(2) < PageAt(PageCount)
      /\ PageAt(PageCount) \in Nat
  <2>1. PageCount \in Nat /\ PageCount > 2 /\ PageAt(0) = FramesBase
        /\ PAGE_SIZE \in Nat \ {0}
    BY RegionFacts, PagesFact, PageSizeAssumption
  <2>2. PageAt(0) + PAGE_SIZE <= PageAt(2) /\ PageAt(2) \in Nat
    BY PageAtFacts
  <2>3. PageAt(2) + PAGE_SIZE <= PageAt(PageCount) /\ PageAt(PageCount) \in Nat
    BY <2>1, PageAtFacts
  <2> QED
    BY <1>2, <2>1, <2>2, <2>3
<1>8. CASE e.Flags = "USABLE" /\ e.Address = FramesBase
  <2>1. w = r
    BY <1>1, <1>4, <1>8, EntryKinds
  <2> QED
    BY <1>1, <1>4, <1>6, <1>8, <2>1 DEF IsPiece
<1>9. CASE ~(e.Flags = "USABLE" /\ e.Address = FramesBase)
  <2>1. Beside(e, w)
    BY <1>1, <1>9, EntryKinds
  <2>2. w = NewCap(IF e.Flags = "USABLE" THEN "UNTYPED_FRAMES" ELSE "UNTYPED_DMA",
                   e.Address, e.Length, AreaRights)
    BY <1>1, <1>9 DEF EntryCap
  <2>3. w.Object < FramesBase \/ PageAt(PageCount) <= w.Object
    BY <1>2, <2>1 DEF Beside, Outside
  <2>4. w.Object # PageAt(2)
    BY <1>2, <1>7, <2>1, <2>3 DEF Beside
  <2>5. w = NewCap(w.Type, w.Object, w.Size, AreaRights)
    BY <2>1, <2>2 DEF Beside
  <2> QED
    BY <1>1, <2>1, <2>3, <2>4, <2>5 DEF Beside
<1> QED
  BY <1>8, <1>9

-----------------------------------------------------------------------------

(* A slab without nodes.                                                   *)
LEMMA EmptySlabOK ==
    ASSUME NEW F, F = FALSE,
           NEW s, s = [links |-> EmptyHeap(Pages, SlabLists),
                       FreeElements |-> [n \in Pages |-> 0],
                       Slots |-> [n \in Pages |-> [i \in SlotIndex |-> BlankSlot]],
                       Spins |-> F]
    PROVE  SlabOK(s, {})
<1>1. PICK h, G, X : /\ h = EmptyHeap(Pages, SlabLists) /\ G = [n \in Pages |-> 0]
                     /\ X = [n \in Pages |-> [i \in SlotIndex |-> BlankSlot]]
  OBVIOUS
<1>2. s = [links |-> h, FreeElements |-> G, Slots |-> X, Spins |-> F]
  BY <1>1
<1>3. h \in PageHeaps /\ ~h.Fault /\ \A l \in SlabLists : Holds(Pages, h, l, {})
  BY <1>1, EmptyHolds DEF PageHeaps
<1>4. BlankSlot \in Caps
  BY DEF BlankSlot, Caps, SlotTypes
<1>5. G \in Counters /\ X \in [Pages -> [SlotIndex -> Caps]]
  <2>1. 0 \in 0 .. CAPABILITIES_PER_NODE
    BY CapabilitiesAssumption
  <2> QED
    BY <1>1, <1>4, <2>1 DEF Counters
<1>6. s \in SlabStates
  <2>1. F \in BOOLEAN
    OBVIOUS
  <2> QED
    BY <1>2, <1>3, <1>5, <2>1 DEF SlabStates
<1>7. /\ FreeNodes({}, G) = {} /\ UsedNodes({}, G) = {} /\ FullNodes({}, G) = {}
  BY DEF FreeNodes, UsedNodes, FullNodes
<1>8. Listed(h, {}, {}, {})
  <2>1. /\ h.Head["FullSlabs"] = NULL /\ h.Tail["FullSlabs"] = NULL
    BY <1>1 DEF EmptyHeap, SlabLists
  <2>2. Holds(Pages, h, "FreeSlabs", {}) /\ Holds(Pages, h, "UsedSlabs", {})
    BY <1>3 DEF SlabLists
  <2> QED
    BY <1>3, <2>1, <2>2, NullAssumption DEF Listed, Ended
<1>9. s.links = h /\ s.FreeElements = G /\ s.Spins = F
  BY <1>2
<1>10. \A n \in Pages : G[n] = 0
  BY <1>1
<1> QED
  BY <1>6, <1>7, <1>8, <1>9, <1>10 DEF SlabOK

(* The one node of the root space, and its slots.                          *)
RootNodes == {PageAt(1)}

(* The second page of the region is the first node.                        *)
LEMMA RootNodesFacts ==
    /\ PageAt(1) \in Pages /\ RootNodes \in SUBSET Pages
    /\ PageAt(1) = FramesBase + PAGE_SIZE
    /\ IsFiniteSet(RootNodes \X SlotIndex)
    /\ Cardinality(RootNodes \X SlotIndex) = CAPABILITIES_PER_NODE
<1>1. 1 \in 0 .. PageCount - 1
  BY RegionFacts
<1>2. PageAt(1) \in Pages
  BY <1>1, PagesFact
<1>3. PageAt(1) = FramesBase + PAGE_SIZE
  BY PageSizeAssumption DEF PageAt
<1>4. IsFiniteSet(RootNodes) /\ Cardinality(RootNodes) = 1
  BY FS_Singleton DEF RootNodes
<1>5. IsFiniteSet(SlotIndex) /\ Cardinality(SlotIndex) = CAPABILITIES_PER_NODE
  <2>1. CAPABILITIES_PER_NODE \in Nat /\ CAPABILITIES_PER_NODE >= 5
    BY NodeSize
  <2>2. /\ IsFiniteSet(0 .. CAPABILITIES_PER_NODE - 1)
        /\ Cardinality(0 .. CAPABILITIES_PER_NODE - 1)
             = IF 0 > CAPABILITIES_PER_NODE - 1 THEN 0
               ELSE CAPABILITIES_PER_NODE - 1 - 0 + 1
    BY <2>1, FS_Interval
  <2> QED
    BY <2>1, <2>2 DEF SlotIndex
<1>6. /\ IsFiniteSet(RootNodes \X SlotIndex)
      /\ Cardinality(RootNodes \X SlotIndex) = 1 * CAPABILITIES_PER_NODE
  BY <1>4, <1>5, FS_Product
<1>7. CAPABILITIES_PER_NODE \in Nat
  BY NodeSize
<1> QED
  BY <1>2, <1>3, <1>6, <1>7 DEF RootNodes

(* The space before anything is generated in it.                           *)
LEMMA EmptySpaceOK ==
    ASSUME NEW F, F = FALSE,
           NEW c, c = [slab |-> RootSlab(Pages, PageAt(1), BlankSlot),
                       CapabilityTree |-> <<>>, Fault |-> F]
    PROVE  /\ SpaceOK(c, RootNodes)
           /\ DOMAIN c.CapabilityTree = {}
           /\ Open(c, RootNodes) = RootNodes \X SlotIndex
           /\ \A x \in AllSlots : Held(c)[x].Type = "NULL_CAPABILITY"
<1>1. PICK s : s = [links |-> EmptyHeap(Pages, SlabLists),
                    FreeElements |-> [n \in Pages |-> 0],
                    Slots |-> [n \in Pages |-> [i \in SlotIndex |-> BlankSlot]],
                    Spins |-> F]
  OBVIOUS
<1>2. SlabOK(s, {})
  BY <1>1, EmptySlabOK
<1>3. PICK t : t = AddSlabNode(s, PageAt(1))
  OBVIOUS
<1>4. PageAt(1) \in Pages \ {}
  BY RootNodesFacts
<1>5. Joins(s, t, {}, PageAt(1))
  BY <1>2, <1>3, <1>4, JoinOK
<1>6. t = RootSlab(Pages, PageAt(1), BlankSlot)
  BY <1>1, <1>3 DEF RootSlab
<1>7. {} \cup {PageAt(1)} = RootNodes
  BY DEF RootNodes
<1>8. /\ SlabOK(t, RootNodes)
      /\ OpenSlots(t, RootNodes) = OpenSlots(s, {}) \cup (RootNodes \X SlotIndex)
      /\ \A x \in AllSlots : View(t)[x] =
            IF x[1] = PageAt(1) THEN [View(s)[x] EXCEPT !.IsMasked = FALSE, !.Type = "NULL_CAPABILITY"]
            ELSE View(s)[x]
  BY <1>5, <1>7 DEF Joins, RootNodes
<1>9. OpenSlots(s, {}) = {}
  BY DEF OpenSlots
<1>10. \A x \in AllSlots : View(t)[x].Type = "NULL_CAPABILITY"
  <2> SUFFICES ASSUME NEW x \in AllSlots PROVE View(t)[x].Type = "NULL_CAPABILITY"
    OBVIOUS
  <2>1. PICK v : v = View(s)[x]
    OBVIOUS
  <2>2. v = BlankSlot
    BY <1>1, <2>1 DEF View, AllSlots
  <2>3. v.Type = "NULL_CAPABILITY" /\ v \in Caps
    BY <2>2 DEF BlankSlot, Caps, SlotTypes
  <2>4. [v EXCEPT !.IsMasked = FALSE, !.Type = "NULL_CAPABILITY"].Type = "NULL_CAPABILITY"
    BY <2>3 DEF Caps
  <2> QED
    BY <1>8, <2>1, <2>3, <2>4
<1>11. PICK T : T = <<>>
  OBVIOUS
<1>12. DOMAIN T = {}
  BY <1>11
<1>13. /\ c = [slab |-> t, CapabilityTree |-> T, Fault |-> F]
  BY <1>6, <1>11
<1>14. c.slab = t /\ c.CapabilityTree = T /\ c.Fault = F
  BY <1>13
<1>15. SpaceOK(c, RootNodes)
  <2>1. \A x \in AllSlots \ (RootNodes \X SlotIndex) : Held(c)[x].Type = "NULL_CAPABILITY"
    BY <1>10, <1>14 DEF Held
  <2>2. c.Fault = FALSE
    BY <1>14
  <2> QED
    BY <1>8, <1>12, <1>13, <1>14, <2>1, <2>2 DEF SpaceOK
<1> QED
  BY <1>8, <1>9, <1>10, <1>12, <1>14, <1>15 DEF Open, Held

(* An entry of the memory map.                                             *)
WithEntry(c, e) ==
    IF e.Flags \in {"USABLE", "RESERVED", "ACPI_RECLAIMABLE", "FRAMEBUFFER"}
    THEN GenerateCapability(c, EntryCap(e).Type, EntryCap(e).Object, EntryCap(e).Size,
                            AreaRights).space
    ELSE c

RootTurns(start, n, f) ==
    f = [k \in 0 .. n |-> IF k = 0 THEN start ELSE WithEntry(f[k - 1], MemoryMap[k])]

(* The recursion of the loop of InitializeRootSpace has a solution.        *)
LEMMA RootTurnsExist ==
    ASSUME NEW start, NEW number \in Nat
    PROVE  \E f : RootTurns(start, number, f)
<1> DEFINE B == {n \in Nat : ~\E f : RootTurns(start, n, f)}
           T(c, k) == WithEntry(c, MemoryMap[k])
<1>1. ASSUME B # {} PROVE FALSE
  <2>1. PICK n \in B : \A m \in B : n <= m
    <3>1. B \in SUBSET Nat
      OBVIOUS
    <3> HIDE DEF B
    <3> QED
      BY <1>1, <3>1, LeastElement
  <2>2. n \in Nat /\ ~\E f : RootTurns(start, n, f)
    BY <2>1
  <2>3. CASE n = 0
    <3> DEFINE f == [k \in 0 .. 0 |-> start]
    <3>1. f = [k \in 0 .. 0 |-> IF k = 0 THEN start ELSE T(f[k - 1], k)]
      OBVIOUS
    <3> QED
      BY <2>2, <2>3, <3>1 DEF RootTurns
  <2>4. CASE n # 0
    <3>1. n - 1 \in Nat /\ ~(n <= n - 1)
      BY <2>2, <2>4
    <3>2. n - 1 \notin B
      <4> HIDE DEF B
      <4> QED
        BY <2>1, <3>1
    <3>3. PICK f : RootTurns(start, n - 1, f)
      BY <3>1, <3>2
    <3>4. f = [k \in 0 .. n - 1 |-> IF k = 0 THEN start ELSE T(f[k - 1], k)]
      BY <3>3 DEF RootTurns
    <3> HIDE DEF T
    <3> DEFINE g == [k \in 0 .. n |-> IF k = n THEN T(f[n - 1], n) ELSE f[k]]
    <3>5. ASSUME NEW k \in 0 .. n
          PROVE  g[k] = IF k = 0 THEN start ELSE T(g[k - 1], k)
      <4>1. CASE k = n
        <5>1. n - 1 \in 0 .. n /\ n - 1 # n
          BY <2>2, <3>1
        <5> QED
          BY <2>4, <4>1, <5>1
      <4>2. CASE k # n
        <5>1. k \in 0 .. n - 1
          BY <2>2, <4>2
        <5>2. k # 0 => k - 1 \in 0 .. n /\ k - 1 # n
          BY <2>2, <4>2
        <5> QED
          BY <3>4, <4>2, <5>1, <5>2
      <4> QED
        BY <4>1, <4>2
    <3> HIDE DEF g
    <3>6. g = [k \in 0 .. n |-> g[k]]
      BY DEF g
    <3>7. g = [k \in 0 .. n |-> IF k = 0 THEN start ELSE T(g[k - 1], k)]
      BY <3>5, <3>6
    <3> QED
      BY <2>2, <3>7 DEF RootTurns, T
  <2> QED
    BY <2>3, <2>4
<1> QED
  BY <1>1

-----------------------------------------------------------------------------

(* What a space holds once m entries of the memory map are in it.          *)
Usable(m) == {k \in 1 .. m : MemoryMap[k].Flags = "USABLE"}

Kept(m) == KeptEntries \cap (1 .. m)

Booted(c, m) ==
    /\ SpaceOK(c, RootNodes)
    /\ Cardinality(Open(c, RootNodes)) = CAPABILITIES_PER_NODE - 1 - Cardinality(Kept(m))
    /\ PageAt(1) \in DOMAIN c.CapabilityTree
    /\ Held(c)[c.CapabilityTree[PageAt(1)]].Type = "CAPABILITY_NODE"
    /\ \A key \in DOMAIN c.CapabilityTree :
         \/ key = PageAt(1)
         \/ /\ \E k \in Kept(m) : key = EntryCap(MemoryMap[k]).Object
            /\ Held(c)[c.CapabilityTree[key]].Type \in {"UNTYPED_FRAMES", "UNTYPED_DMA"}
    /\ (\E k \in Usable(m) : EntryCap(MemoryMap[k]) = AreaCap(2)) =>
          /\ PageAt(2) \in DOMAIN c.CapabilityTree
          /\ Held(c)[c.CapabilityTree[PageAt(2)]] = AreaCap(2)
    /\ \A x \in Untyped(c) : \E k \in Usable(m) : Held(c)[x] = EntryCap(MemoryMap[k])
    /\ \A x, y \in Untyped(c) : x # y => Held(c)[x] # Held(c)[y]

(* The start of RootSpace: the node's own capability.                      *)
LEMMA BootedAtFirst ==
    ASSUME NEW F, F = FALSE,
           NEW c, c = [slab |-> RootSlab(Pages, PageAt(1), BlankSlot),
                       CapabilityTree |-> <<>>, Fault |-> F],
           NEW d, d = GenerateCapability(c, "CAPABILITY_NODE", PageAt(1),
                                         GetObjectSize("CAPABILITY_NODE"), {"ACCESS"}).space
    PROVE  Booted(d, 0)
<1>1. /\ SpaceOK(c, RootNodes) /\ DOMAIN c.CapabilityTree = {}
      /\ Open(c, RootNodes) = RootNodes \X SlotIndex
      /\ \A x \in AllSlots : Held(c)[x].Type = "NULL_CAPABILITY"
  BY EmptySpaceOK
<1>2. PICK N, kind, object, size, rights :
         /\ N = RootNodes /\ kind = "CAPABILITY_NODE" /\ object = PageAt(1)
         /\ size = GetObjectSize("CAPABILITY_NODE") /\ rights = {"ACCESS"}
  OBVIOUS
<1>3. /\ kind \in ObjectTypes /\ object \in Nat /\ size \in Nat
      /\ rights \in SUBSET CAPABILITY_RIGHTS
  <2>1. object \in Nat
    <3>1. 1 \in Nat
      OBVIOUS
    <3> QED
      BY <1>2, <3>1, PageAtFacts
  <2>2. size \in Nat
    BY <1>2, PageSizeAssumption DEF GetObjectSize
  <2> QED
    BY <1>2, <2>1, <2>2 DEF ObjectTypes, CAPABILITY_RIGHTS
<1>4. PICK g, w, x : /\ g = GenerateCapability(c, kind, object, size, rights)
                     /\ w = NewCap(kind, object, size, rights) /\ x = g.cap
  OBVIOUS
<1>5. IsFiniteSet(Open(c, N)) /\ Cardinality(Open(c, N)) = CAPABILITIES_PER_NODE
  BY <1>1, <1>2, RootNodesFacts
<1>6. Open(c, N) # {}
  BY <1>5, NodeSize, FS_EmptySet
<1>7. Generates(c, d, N, x, w) /\ d = g.space
  BY <1>1, <1>2, <1>3, <1>4, <1>6, GenerateOK
<1>8. w.Object = PageAt(1) /\ w.Type = "CAPABILITY_NODE"
  BY <1>2, <1>4 DEF NewCap
<1>9. Links(c, d, N, x, w)
  BY <1>1, <1>7, GeneratesLinks
<1>10. /\ SpaceOK(d, N) /\ x \in Open(c, N) /\ Open(d, N) = Open(c, N) \ {x}
       /\ DOMAIN d.CapabilityTree = {PageAt(1)}
       /\ d.CapabilityTree[PageAt(1)] = x
       /\ Held(d)[x] = w
       /\ \A y \in AllSlots : y # x => Held(d)[y] = Held(c)[y]
  BY <1>1, <1>8, <1>9 DEF Links
<1>11. Kept(0) = {} /\ Usable(0) = {} /\ Cardinality(Kept(0)) = 0
  <2>1. \A k : k \notin 1 .. 0
    OBVIOUS
  <2>2. Kept(0) = {} /\ Usable(0) = {}
    BY <2>1 DEF Kept, Usable
  <2> QED
    BY <2>2, FS_EmptySet
<1>12. Cardinality(Open(d, N)) = CAPABILITIES_PER_NODE - 1 - Cardinality(Kept(0))
  <2>1. Cardinality(Open(d, N)) = Cardinality(Open(c, N)) - 1
    BY <1>5, <1>10, FS_RemoveElement
  <2> QED
    BY <1>5, <1>11, <2>1, NodeSize
<1>13. Untyped(d) = {}
  <2> SUFFICES ASSUME NEW y \in AllSlots, Held(d)[y].Type = "UNTYPED_FRAMES" PROVE FALSE
    BY DEF Untyped
  <2>1. y = x \/ Held(d)[y] = Held(c)[y]
    BY <1>10
  <2> QED
    BY <1>1, <1>8, <1>10, <2>1
<1> QED
  BY <1>2, <1>8, <1>10, <1>11, <1>12, <1>13 DEF Booted

(* What the next entry of the memory map adds to those gone through.       *)
LEMMA KeptGrows ==
    ASSUME NEW m \in Nat, m + 1 \in DOMAIN MemoryMap
    PROVE  /\ m + 1 \in KeptEntries =>
                /\ Kept(m + 1) = Kept(m) \cup {m + 1}
                /\ Cardinality(Kept(m + 1)) = Cardinality(Kept(m)) + 1
                /\ Cardinality(Kept(m)) + 1 <= Cardinality(KeptEntries)
           /\ m + 1 \notin KeptEntries => Kept(m + 1) = Kept(m) /\ Usable(m + 1) = Usable(m)
           /\ MemoryMap[m + 1].Flags = "USABLE" => Usable(m + 1) = Usable(m) \cup {m + 1}
           /\ MemoryMap[m + 1].Flags # "USABLE" => Usable(m + 1) = Usable(m)
           /\ Cardinality(Kept(m)) \in Nat
<1>1. \A k : k \in 1 .. m + 1 <=> k \in 1 .. m \/ k = m + 1
  OBVIOUS
<1>2. m + 1 \notin 1 .. m
  OBVIOUS
<1>3. IsFiniteSet(KeptEntries) /\ Cardinality(KeptEntries) \in Nat
  BY NodeSize
<1>4. IsFiniteSet(Kept(m)) /\ Cardinality(Kept(m)) \in Nat
  <2>1. Kept(m) \in SUBSET KeptEntries
    BY DEF Kept
  <2> QED
    BY <1>3, <2>1, FS_Subset, FS_CardinalityType
<1>5. /\ m + 1 \notin KeptEntries => Kept(m + 1) = Kept(m) /\ Usable(m + 1) = Usable(m)
      /\ MemoryMap[m + 1].Flags = "USABLE" => Usable(m + 1) = Usable(m) \cup {m + 1}
      /\ MemoryMap[m + 1].Flags # "USABLE" => Usable(m + 1) = Usable(m)
  BY <1>1 DEF Kept, Usable, KeptEntries
<1>6. ASSUME m + 1 \in KeptEntries
      PROVE  /\ Kept(m + 1) = Kept(m) \cup {m + 1}
             /\ Cardinality(Kept(m + 1)) = Cardinality(Kept(m)) + 1
             /\ Cardinality(Kept(m)) + 1 <= Cardinality(KeptEntries)
  <2>1. Kept(m + 1) = Kept(m) \cup {m + 1} /\ m + 1 \notin Kept(m)
    BY <1>1, <1>2, <1>6 DEF Kept
  <2>2. Cardinality(Kept(m + 1)) = Cardinality(Kept(m)) + 1
    BY <1>4, <2>1, FS_AddElement
  <2>3. Kept(m + 1) \in SUBSET KeptEntries
    BY DEF Kept
  <2>4. Cardinality(Kept(m + 1)) <= Cardinality(KeptEntries)
    BY <1>3, <2>3, FS_Subset
  <2> QED
    BY <2>1, <2>2, <2>4
<1> QED
  BY <1>4, <1>5, <1>6

-----------------------------------------------------------------------------

(* The first pages of the region and its end.                              *)
LEMMA RegionEnds ==
    /\ FramesBase < PageAt(1) /\ PageAt(1) < PageAt(2) /\ PageAt(2) < PageAt(PageCount)
    /\ PageAt(1) < PageAt(PageCount) /\ FramesBase < PageAt(2)
    /\ FramesBase + 1 <= PageAt(1) - 1 /\ PageAt(0) = FramesBase
    /\ FramesBase \in Nat /\ PageAt(1) \in Nat /\ PageAt(2) \in Nat
    /\ PageAt(PageCount) \in Nat
<1>1. \A i, j \in Nat : PageAt(i) \in Nat /\ (i < j => PageAt(i) + PAGE_SIZE <= PageAt(j))
  BY PageAtFacts
<1>2. PageCount \in Nat /\ 2 < PageCount /\ PageAt(0) = FramesBase
  BY RegionFacts, PagesFact
<1>3. PAGE_SIZE \in Nat \ {0, 1} /\ FramesBase \in Nat
  BY PageSizeAssumption, MemoryAssumption
<1>4. PICK a, b, e \in Nat : a = PageAt(1) /\ b = PageAt(2) /\ e = PageAt(PageCount)
  BY <1>1, <1>2
<1>5. FramesBase + PAGE_SIZE <= a
  <2>1. 0 \in Nat /\ 1 \in Nat /\ 0 < 1
    OBVIOUS
  <2> QED
    BY <1>1, <1>2, <1>4, <2>1
<1>6. a + PAGE_SIZE <= b
  <2>1. 1 \in Nat /\ 2 \in Nat /\ 1 < 2
    OBVIOUS
  <2> QED
    BY <1>1, <1>4, <2>1
<1>7. b + PAGE_SIZE <= e
  BY <1>1, <1>2, <1>4
<1> QED
  BY <1>2, <1>3, <1>4, <1>5, <1>6, <1>7

(* The capability w has been generated in x and is linked from the slot L. *)
Entered(c, d, x, L, w) ==
    /\ SpaceOK(d, RootNodes)
    /\ Cardinality(Open(d, RootNodes)) = Cardinality(Open(c, RootNodes)) - 1
    /\ DOMAIN d.CapabilityTree = DOMAIN c.CapabilityTree \cup {w.Object}
    /\ d.CapabilityTree[w.Object] = L
    /\ Held(d)[L] = w /\ Held(d)[x] = w
    /\ \A key \in DOMAIN c.CapabilityTree :
         key # w.Object => /\ d.CapabilityTree[key] = c.CapabilityTree[key]
                           /\ Held(d)[d.CapabilityTree[key]] = Held(c)[c.CapabilityTree[key]]
    /\ \A y \in Untyped(d) :
         \/ y \in Untyped(c) /\ Held(d)[y] = Held(c)[y] /\ y # x /\ y # L
         \/ (y = x \/ y = L) /\ Held(d)[y] = w /\ w.Type = "UNTYPED_FRAMES"
    /\ w.Object \notin DOMAIN c.CapabilityTree => L = x

(* A capability generated while the space is set up enters it.             *)
LEMMA EnterOK ==
    ASSUME NEW c, SpaceOK(c, RootNodes), Cardinality(Open(c, RootNodes)) \in Nat \ {0},
           NEW kind \in ObjectTypes, NEW object \in Nat, NEW size \in Nat,
           NEW rights \in SUBSET CAPABILITY_RIGHTS,
           NEW w, w = NewCap(kind, object, size, rights),
           NEW d, d = GenerateCapability(c, kind, object, size, rights).space
    PROVE  \E x, L : Entered(c, d, x, L, w)
<1>1. PICK g, x, N : /\ g = GenerateCapability(c, kind, object, size, rights) /\ x = g.cap
                     /\ N = RootNodes
  OBVIOUS
<1>2. Open(c, N) # {} /\ IsFiniteSet(Open(c, N)) /\ SpaceOK(c, N)
  <2>1. N \in SUBSET Pages
    BY <1>1, RootNodesFacts
  <2> QED
    BY <1>1, <2>1, FS_EmptySet, FinitePages DEF Open
<1>3. Generates(c, d, N, x, w)
  <2>1. Generates(c, g.space, N, x, w)
    BY <1>1, <1>2, GenerateOK
  <2> QED
    BY <1>1, <2>1
<1>4. PICK L : L = d.CapabilityTree[w.Object]
  OBVIOUS
<1>5. /\ SpaceOK(d, N) /\ x \in Open(c, N) /\ Open(d, N) = Open(c, N) \ {x}
      /\ DOMAIN d.CapabilityTree = DOMAIN c.CapabilityTree \cup {w.Object}
      /\ \A k \in DOMAIN c.CapabilityTree : d.CapabilityTree[k] = c.CapabilityTree[k]
      /\ w.Object \notin DOMAIN c.CapabilityTree => L = x
      /\ Held(d)[x] = w /\ Held(d)[L] = w
      /\ \A y \in AllSlots : y # x /\ y # L => Held(d)[y] = Held(c)[y]
  BY <1>3, <1>4 DEF Generates
<1>6. Cardinality(Open(d, N)) = Cardinality(Open(c, N)) - 1
  <2>1. PICK O : O = Open(c, N)
    OBVIOUS
  <2>2. IsFiniteSet(O) /\ x \in O
    BY <1>2, <1>5, <2>1
  <2>3. Cardinality(O \ {x}) = Cardinality(O) - 1
    BY <2>2, FS_RemoveElement
  <2> QED
    BY <1>5, <2>1, <2>3
<1>7. ASSUME NEW key \in DOMAIN c.CapabilityTree, key # w.Object
      PROVE  Held(d)[d.CapabilityTree[key]] = Held(c)[c.CapabilityTree[key]]
  <2>1. PICK y : y = c.CapabilityTree[key] /\ y = d.CapabilityTree[key]
    BY <1>5
  <2>2. y \in AllSlots /\ y \notin Open(c, N)
    <3>1. \A k \in DOMAIN c.CapabilityTree :
             c.CapabilityTree[k] \notin Open(c, N) /\ c.CapabilityTree[k] \in AllSlots
      BY <1>2, OpenIsUnlinked
    <3> QED
      BY <1>7, <2>1, <3>1
  <2>3. Held(d)[y].Object = key
    BY <1>5, <2>1 DEF SpaceOK
  <2>4. y # L /\ y # x
    BY <1>5, <1>7, <2>2, <2>3
  <2> QED
    BY <1>5, <2>1, <2>2, <2>4
<1>8. \A y \in Untyped(d) :
         \/ y \in Untyped(c) /\ Held(d)[y] = Held(c)[y] /\ y # x /\ y # L
         \/ (y = x \/ y = L) /\ Held(d)[y] = w /\ w.Type = "UNTYPED_FRAMES"
  BY <1>5 DEF Untyped
<1> QED
  BY <1>1, <1>4, <1>5, <1>6, <1>7, <1>8 DEF Entered

(* An entry that is kept.                                                  *)
LEMMA BootedEntry ==
    ASSUME NEW c, NEW m \in Nat, Booted(c, m), m + 1 \in KeptEntries,
           NEW w, w = EntryCap(MemoryMap[m + 1]),
           NEW d, NEW x, NEW L, Entered(c, d, x, L, w)
    PROVE  Booted(d, m + 1)
<1>1. PICK n : n = m + 1
  OBVIOUS
<1>2. /\ SpaceOK(c, RootNodes)
      /\ Cardinality(Open(c, RootNodes)) = CAPABILITIES_PER_NODE - 1 - Cardinality(Kept(m))
      /\ PageAt(1) \in DOMAIN c.CapabilityTree
      /\ Held(c)[c.CapabilityTree[PageAt(1)]].Type = "CAPABILITY_NODE"
      /\ \A key \in DOMAIN c.CapabilityTree :
           \/ key = PageAt(1)
           \/ /\ \E k \in Kept(m) : key = EntryCap(MemoryMap[k]).Object
              /\ Held(c)[c.CapabilityTree[key]].Type \in {"UNTYPED_FRAMES", "UNTYPED_DMA"}
      /\ (\E k \in Usable(m) : EntryCap(MemoryMap[k]) = AreaCap(2)) =>
            /\ PageAt(2) \in DOMAIN c.CapabilityTree
            /\ Held(c)[c.CapabilityTree[PageAt(2)]] = AreaCap(2)
      /\ \A y \in Untyped(c) : \E k \in Usable(m) : Held(c)[y] = EntryCap(MemoryMap[k])
      /\ \A y, z \in Untyped(c) : y # z => Held(c)[y] # Held(c)[z]
  BY DEF Booted
<1>3. /\ SpaceOK(d, RootNodes)
      /\ Cardinality(Open(d, RootNodes)) = Cardinality(Open(c, RootNodes)) - 1
      /\ DOMAIN d.CapabilityTree = DOMAIN c.CapabilityTree \cup {w.Object}
      /\ d.CapabilityTree[w.Object] = L
      /\ Held(d)[L] = w /\ Held(d)[x] = w
      /\ \A key \in DOMAIN c.CapabilityTree :
           key # w.Object => /\ d.CapabilityTree[key] = c.CapabilityTree[key]
                             /\ Held(d)[d.CapabilityTree[key]] = Held(c)[c.CapabilityTree[key]]
      /\ \A y \in Untyped(d) :
           \/ y \in Untyped(c) /\ Held(d)[y] = Held(c)[y] /\ y # x /\ y # L
           \/ (y = x \/ y = L) /\ Held(d)[y] = w /\ w.Type = "UNTYPED_FRAMES"
      /\ w.Object \notin DOMAIN c.CapabilityTree => L = x
  BY DEF Entered
<1>4. n \in DOMAIN MemoryMap /\ n \in KeptEntries
  BY <1>1 DEF KeptEntries
<1>5. /\ Kept(n) = Kept(m) \cup {n}
      /\ Cardinality(Kept(n)) = Cardinality(Kept(m)) + 1
      /\ Cardinality(Kept(m)) \in Nat
      /\ MemoryMap[n].Flags = "USABLE" => Usable(n) = Usable(m) \cup {n}
      /\ MemoryMap[n].Flags # "USABLE" => Usable(n) = Usable(m)
  BY <1>1, <1>4, KeptGrows
<1>6. \A k \in Kept(m) : k \in DOMAIN MemoryMap /\ k # n
  BY <1>1 DEF Kept, KeptEntries
<1>7. \A k \in Usable(m) : k \in Kept(m)
  <2>1. n \in 1 .. Len(MemoryMap) /\ DOMAIN MemoryMap = 1 .. Len(MemoryMap)
        /\ Len(MemoryMap) \in Nat
    BY <1>4, MapType
  <2>2. \A k \in 1 .. m : k \in DOMAIN MemoryMap
    BY <1>1, <2>1
  <2> QED
    BY <2>2 DEF Usable, Kept, KeptEntries
<1>8. /\ w.Object \in Nat
      /\ w.Type \in {"UNTYPED_FRAMES", "UNTYPED_DMA"}
      /\ w.Type = "UNTYPED_FRAMES" <=> MemoryMap[n].Flags = "USABLE"
      /\ w.Object = PageAt(2) \/ w.Object < FramesBase \/ PageAt(PageCount) <= w.Object
      /\ w.Object = PageAt(2) => w = AreaCap(2)
  BY <1>1, <1>4, EntryAddresses
<1>9. w.Object # PageAt(1)
  <2>1. /\ FramesBase < PageAt(1) /\ PageAt(1) < PageAt(2) /\ PageAt(1) < PageAt(PageCount)
        /\ FramesBase \in Nat /\ PageAt(1) \in Nat /\ PageAt(2) \in Nat
        /\ PageAt(PageCount) \in Nat
    BY RegionEnds
  <2> QED
    BY <1>8, <2>1
<1>10. \A k \in Kept(m) : MemoryMap[n].Flags = "USABLE" => EntryCap(MemoryMap[k]).Object # w.Object
  <2> SUFFICES ASSUME NEW k \in Kept(m), MemoryMap[n].Flags = "USABLE"
               PROVE  EntryCap(MemoryMap[k]).Object # w.Object
    OBVIOUS
  <2>1. k \in DOMAIN MemoryMap /\ k # n
    BY <1>6
  <2>2. PICK v : v = EntryCap(MemoryMap[k])
    OBVIOUS
  <2>3. w = EntryCap(MemoryMap[n])
    BY <1>1
  <2>4. w.Object # v.Object
    BY <1>4, <2>1, <2>2, <2>3, EntriesApart
  <2> QED
    BY <2>2, <2>4
<1>11. w.Type = "UNTYPED_FRAMES" => L = x
  BY <1>2, <1>3, <1>8, <1>9, <1>10
<1>12. Cardinality(Open(d, RootNodes)) = CAPABILITIES_PER_NODE - 1 - Cardinality(Kept(n))
  BY <1>2, <1>3, <1>5, NodeSize
<1>13. /\ PageAt(1) \in DOMAIN d.CapabilityTree
       /\ Held(d)[d.CapabilityTree[PageAt(1)]].Type = "CAPABILITY_NODE"
  BY <1>2, <1>3, <1>9
<1>14. ASSUME NEW key \in DOMAIN d.CapabilityTree
       PROVE  \/ key = PageAt(1)
              \/ /\ \E k \in Kept(n) : key = EntryCap(MemoryMap[k]).Object
                 /\ Held(d)[d.CapabilityTree[key]].Type \in {"UNTYPED_FRAMES", "UNTYPED_DMA"}
  <2>1. CASE key = w.Object
    <3>1. n \in Kept(n) /\ key = EntryCap(MemoryMap[n]).Object
      BY <1>1, <1>5, <2>1
    <3> QED
      BY <1>3, <1>8, <2>1, <3>1
  <2>2. CASE key # w.Object
    <3>1. key \in DOMAIN c.CapabilityTree
      BY <1>3, <2>2
    <3>2. Held(d)[d.CapabilityTree[key]] = Held(c)[c.CapabilityTree[key]]
      BY <1>3, <2>2, <3>1
    <3>3. Kept(m) \in SUBSET Kept(n)
      BY <1>5
    <3> QED
      BY <1>2, <3>1, <3>2, <3>3
  <2> QED
    BY <2>1, <2>2
<1>15. ASSUME NEW k \in Usable(n), EntryCap(MemoryMap[k]) = AreaCap(2)
       PROVE  /\ PageAt(2) \in DOMAIN d.CapabilityTree
              /\ Held(d)[d.CapabilityTree[PageAt(2)]] = AreaCap(2)
  <2>1. 2 \in Nat /\ 2 <= PageCount
    BY RegionFacts
  <2>2. AreaCap(2).Object = PageAt(2)
    BY <2>1, AreaCapType
  <2>3. CASE w = AreaCap(2)
    BY <1>3, <2>2, <2>3
  <2>4. CASE w # AreaCap(2)
    <3>1. k # n
      BY <1>1, <1>15, <2>4
    <3>2. k \in Usable(m)
      BY <1>5, <3>1
    <3>3. PageAt(2) # w.Object
      BY <1>8, <2>4
    <3> QED
      BY <1>2, <1>3, <1>15, <3>2, <3>3
  <2> QED
    BY <2>3, <2>4
<1>16. ASSUME NEW y \in Untyped(d)
       PROVE  \E k \in Usable(n) : Held(d)[y] = EntryCap(MemoryMap[k])
  <2>1. Usable(m) \in SUBSET Usable(n)
    BY <1>5
  <2>2. w.Type = "UNTYPED_FRAMES" => n \in Usable(n) /\ w = EntryCap(MemoryMap[n])
    BY <1>1, <1>5, <1>8
  <2> QED
    BY <1>2, <1>3, <2>1, <2>2
<1>17. ASSUME NEW y \in Untyped(c), w.Type = "UNTYPED_FRAMES"
       PROVE  Held(c)[y] # w
  BY <1>2, <1>7, <1>8, <1>10, <1>17
<1>18. ASSUME NEW y \in Untyped(d), NEW z \in Untyped(d), y # z
       PROVE  Held(d)[y] # Held(d)[z]
  <2>1. CASE y \in Untyped(c) /\ Held(d)[y] = Held(c)[y] /\ y # x /\ y # L
    BY <1>2, <1>3, <1>17, <1>18, <2>1
  <2>2. CASE (y = x \/ y = L) /\ Held(d)[y] = w /\ w.Type = "UNTYPED_FRAMES"
    BY <1>3, <1>11, <1>17, <1>18, <2>2
  <2> QED
    BY <1>3, <2>1, <2>2
<1> HIDE DEF Booted
<1> QED
  <2>1. Booted(d, n)
    BY <1>3, <1>12, <1>13, <1>14, <1>15, <1>16, <1>18 DEF Booted
  <2> QED
    BY <1>1, <2>1

(* An entry of the memory map.                                             *)
LEMMA BootedStep ==
    ASSUME NEW c, NEW m \in Nat, Booted(c, m), m + 1 \in DOMAIN MemoryMap,
           NEW d, d = WithEntry(c, MemoryMap[m + 1])
    PROVE  Booted(d, m + 1)
<1>1. CASE m + 1 \notin KeptEntries
  <2>1. d = c
    BY <1>1 DEF WithEntry, KeptEntries
  <2>2. Kept(m + 1) = Kept(m) /\ Usable(m + 1) = Usable(m)
    BY <1>1, KeptGrows
  <2> QED
    BY <2>1, <2>2 DEF Booted
<1>2. CASE m + 1 \in KeptEntries
  <2>1. PICK w, kind, object, size, rights :
           /\ w = EntryCap(MemoryMap[m + 1]) /\ kind = w.Type /\ object = w.Object
           /\ size = w.Size /\ rights = AreaRights
    OBVIOUS
  <2>2. /\ kind \in ObjectTypes /\ object \in Nat /\ size \in Nat
        /\ rights \in SUBSET CAPABILITY_RIGHTS /\ w = NewCap(kind, object, size, rights)
    BY <2>1, EntryAddresses, RightsFact DEF ObjectTypes
  <2>3. d = GenerateCapability(c, kind, object, size, rights).space
    BY <1>2, <2>1 DEF WithEntry, KeptEntries
  <2>4. Cardinality(Open(c, RootNodes)) \in Nat \ {0}
    <3>1. Cardinality(Kept(m)) \in Nat /\ Cardinality(Kept(m)) + 1 <= Cardinality(KeptEntries)
      BY <1>2, KeptGrows
    <3>2. Cardinality(Open(c, RootNodes)) = CAPABILITIES_PER_NODE - 1 - Cardinality(Kept(m))
      BY DEF Booted
    <3> QED
      BY <3>1, <3>2, NodeSize
  <2>5. SpaceOK(c, RootNodes)
    BY DEF Booted
  <2>6. PICK x, L : Entered(c, d, x, L, w)
    BY <2>2, <2>3, <2>4, <2>5, EnterOK
  <2> QED
    BY <1>2, <2>1, <2>6, BootedEntry
<1> QED
  BY <1>1, <1>2

-----------------------------------------------------------------------------

(* The last two capabilities of RootSpace: pages are unaffected.           *)
LEMMA LastEntered ==
    ASSUME NEW c, SpaceOK(c, RootNodes), Cardinality(Open(c, RootNodes)) \in Nat \ {0},
           NEW kind \in {"CONTAINER", "CAPABILITY_SPACE"}, NEW object \in Nat,
           object \notin DOMAIN c.CapabilityTree,
           NEW d, d = GenerateCapability(c, kind, object, GetObjectSize(kind), {"ACCESS"}).space
    PROVE  /\ SpaceOK(d, RootNodes)
           /\ Cardinality(Open(d, RootNodes)) = Cardinality(Open(c, RootNodes)) - 1
           /\ DOMAIN d.CapabilityTree = DOMAIN c.CapabilityTree \cup {object}
           /\ Held(d)[d.CapabilityTree[object]].Type = kind
           /\ \A key \in DOMAIN c.CapabilityTree :
                /\ d.CapabilityTree[key] = c.CapabilityTree[key]
                /\ Held(d)[d.CapabilityTree[key]] = Held(c)[c.CapabilityTree[key]]
           /\ \A y \in Untyped(d) : y \in Untyped(c) /\ Held(d)[y] = Held(c)[y]
<1>1. PICK size, rights : size = GetObjectSize(kind) /\ rights = {"ACCESS"}
  OBVIOUS
<1>2. kind \in ObjectTypes /\ size \in Nat /\ rights \in SUBSET CAPABILITY_RIGHTS
      /\ kind # "UNTYPED_FRAMES"
  <2>1. GetObjectSize(kind) = 1
    BY DEF GetObjectSize
  <2> QED
    BY <1>1, <2>1 DEF ObjectTypes, CAPABILITY_RIGHTS
<1>3. PICK w : w = NewCap(kind, object, size, rights)
  OBVIOUS
<1>4. PICK x, L : Entered(c, d, x, L, w)
  BY <1>1, <1>2, <1>3, EnterOK
<1>5. w.Object = object /\ w.Type = kind
  BY <1>3 DEF NewCap
<1> QED
  BY <1>2, <1>4, <1>5 DEF Entered

(* The entries of the memory map, one after another.                       *)
LEMMA RootTurnsOK ==
    ASSUME NEW start, Booted(start, 0), NEW f, RootTurns(start, Len(MemoryMap), f)
    PROVE  Booted(f[Len(MemoryMap)], Len(MemoryMap))
<1>1. PICK n \in Nat : n = Len(MemoryMap) /\ DOMAIN MemoryMap = 1 .. n
  BY MapType
<1>2. \A k \in 0 .. n : f[k] = IF k = 0 THEN start ELSE WithEntry(f[k - 1], MemoryMap[k])
  BY <1>1 DEF RootTurns
<1> DEFINE B == {k \in 0 .. n : ~Booted(f[k], k)}
<1>3. ASSUME B # {} PROVE FALSE
  <2>1. PICK k \in B : \A m \in B : k <= m
    <3>1. B \in SUBSET Nat
      OBVIOUS
    <3> HIDE DEF B
    <3> QED
      BY <1>3, <3>1, LeastElement
  <2>2. k \in 0 .. n /\ ~Booted(f[k], k)
    BY <2>1
  <2>3. k # 0
    <3>1. 0 \in 0 .. n
      OBVIOUS
    <3>2. f[0] = start
      BY <1>2, <3>1
    <3> QED
      BY <2>2, <3>2
  <2>4. PICK m \in Nat : m = k - 1 /\ m + 1 = k /\ m \in 0 .. n /\ ~(k <= m)
    <3>1. k - 1 \in Nat /\ k - 1 + 1 = k /\ k - 1 \in 0 .. n /\ ~(k <= k - 1)
      BY <2>2, <2>3
    <3> QED
      BY <3>1
  <2>5. Booted(f[m], m)
    <3>1. m \notin B
      <4> HIDE DEF B
      <4> QED
        BY <2>1, <2>4
    <3> QED
      BY <2>4, <3>1
  <2>6. PICK c, d : c = f[m] /\ d = f[m + 1]
    OBVIOUS
  <2>7. d = WithEntry(c, MemoryMap[m + 1]) /\ m + 1 \in DOMAIN MemoryMap
    <3>1. m + 1 \in 1 .. n /\ m + 1 \in 0 .. n /\ m + 1 # 0 /\ m + 1 - 1 = m
      BY <2>2, <2>4
    <3>2. f[m + 1] = WithEntry(f[m + 1 - 1], MemoryMap[m + 1])
      BY <1>2, <3>1
    <3> QED
      BY <1>1, <2>6, <3>1, <3>2
  <2>8. Booted(d, m + 1)
    <3>1. Booted(c, m)
      BY <2>5, <2>6
    <3> QED
      BY <2>7, <3>1, BootedStep
  <2> QED
    BY <2>2, <2>4, <2>6, <2>8
<1>4. n \in 0 .. n
  OBVIOUS
<1> QED
  BY <1>1, <1>3, <1>4

(* The space of RootSpace after the entries of the memory map.             *)
LEMMA RootSpaceTurns ==
    ASSUME NEW F, F = FALSE,
           NEW c, c = [slab |-> RootSlab(Pages, PageAt(1), BlankSlot),
                       CapabilityTree |-> <<>>, Fault |-> F],
           NEW start, start = GenerateCapability(c, "CAPABILITY_NODE", PageAt(1),
                                     GetObjectSize("CAPABILITY_NODE"), {"ACCESS"}).space
    PROVE  \E f : /\ RootTurns(start, Len(MemoryMap), f)
                  /\ RootSpace(Pages, FramesBase, MemoryMap)
                       = GenerateCapability(
                            GenerateCapability(f[Len(MemoryMap)], "CONTAINER", FramesBase,
                                GetObjectSize("CONTAINER"), {"ACCESS"}).space,
                            "CAPABILITY_SPACE", FramesBase + 1,
                            GetObjectSize("CAPABILITY_SPACE"), {"ACCESS"}).space
<1> DEFINE node == FramesBase + PAGE_SIZE
           rest == FramesBase + 2 * PAGE_SIZE
           Generate(s, kind, object, size, rights) ==
               GenerateCapability(s, kind, object, size, rights).space
           AddEntry(s, entry) ==
               CASE entry.Flags = "USABLE" /\ entry.Address = FramesBase ->
                      Generate(s, "UNTYPED_FRAMES", rest,
                               entry.Length - (rest - entry.Address),
                               {"ACCESS", "RETYPE", "GRANT"})
                 [] entry.Flags = "USABLE" /\ entry.Address # FramesBase ->
                      Generate(s, "UNTYPED_FRAMES", entry.Address, entry.Length,
                               {"ACCESS", "RETYPE", "GRANT"})
                 [] entry.Flags \in {"RESERVED", "ACPI_RECLAIMABLE", "FRAMEBUFFER"} ->
                      Generate(s, "UNTYPED_DMA", entry.Address, entry.Length,
                               {"ACCESS", "RETYPE", "GRANT"})
                 [] OTHER -> s
           first == Generate([slab |-> RootSlab(Pages, node, BlankSlot),
                              CapabilityTree |-> <<>>, Fault |-> FALSE],
                             "CAPABILITY_NODE", node,
                             GetObjectSize("CAPABILITY_NODE"), {"ACCESS"})
           entries[k \in 0 .. Len(MemoryMap)] ==
               IF k = 0 THEN first ELSE AddEntry(entries[k - 1], MemoryMap[k])
<1>1. RootSpace(Pages, FramesBase, MemoryMap)
        = Generate(Generate(entries[Len(MemoryMap)],
                            "CONTAINER", FramesBase, GetObjectSize("CONTAINER"), {"ACCESS"}),
                   "CAPABILITY_SPACE", FramesBase + 1, GetObjectSize("CAPABILITY_SPACE"),
                   {"ACCESS"})
  BY DEF RootSpace
<1>2. node = PageAt(1) /\ rest = PageAt(2) /\ first = start
  <2>1. node = PageAt(1)
    BY RootNodesFacts
  <2>2. rest = PageAt(2)
    BY PageSizeAssumption, MemoryAssumption DEF PageAt
  <2> QED
    BY <2>1, <2>2
<1>3. ASSUME NEW s, NEW k \in DOMAIN MemoryMap
      PROVE  AddEntry(s, MemoryMap[k]) = WithEntry(s, MemoryMap[k])
  <2>1. PICK e, w : e = MemoryMap[k] /\ w = EntryCap(e)
    OBVIOUS
  <2>2. AreaRights = {"ACCESS", "RETYPE", "GRANT"}
    BY DEF AreaRights
  <2>3. CASE e.Flags = "USABLE" /\ e.Address = FramesBase
    <3>1. e = Area /\ w = AreaCap(2)
      BY <2>1, <2>3, EntryKinds
    <3>2. /\ w.Type = "UNTYPED_FRAMES" /\ w.Object = rest
          /\ w.Size = PAGE_SIZE * (PageCount - 2)
      <4>1. 2 \in Nat /\ 2 <= PageCount
        BY RegionFacts
      <4>2. /\ AreaCap(2).Type = "UNTYPED_FRAMES" /\ AreaCap(2).Object = PageAt(2)
            /\ AreaCap(2).Size = PAGE_SIZE * (PageCount - 2)
        BY <4>1, AreaCapType
      <4> QED
        BY <1>2, <3>1, <4>2
    <3>3. e.Length - (rest - e.Address) = PAGE_SIZE * (PageCount - 2)
      <4>1. e.Length = PAGE_SIZE * PageCount /\ e.Address = FramesBase /\ FramesBase \in Nat
        BY <2>3, <3>1, RegionFacts, MemoryAssumption
      <4>2. PICK m \in Nat : m = PageCount - 2 /\ PageCount = 2 + m
        <5>1. PageCount - 2 \in Nat /\ PageCount = 2 + (PageCount - 2)
          BY RegionFacts
        <5> QED
          BY <5>1
      <4>3. /\ PAGE_SIZE * (2 + m) = PAGE_SIZE * 2 + PAGE_SIZE * m
            /\ PAGE_SIZE * m \in Nat /\ PAGE_SIZE \in Nat
        <5>1. 2 \in Nat
          OBVIOUS
        <5> QED
          BY <5>1, TimesPage
      <4> QED
        BY <4>1, <4>2, <4>3
    <3>4. AddEntry(s, e) = Generate(s, "UNTYPED_FRAMES", rest, e.Length - (rest - e.Address),
                                    {"ACCESS", "RETYPE", "GRANT"})
      BY <2>3
    <3> HIDE DEF rest
    <3>5. WithEntry(s, e) = Generate(s, w.Type, w.Object, w.Size, AreaRights)
      BY <2>1, <2>3 DEF WithEntry
    <3> QED
      BY <2>1, <2>2, <3>2, <3>3, <3>4, <3>5
  <2>4. CASE ~(e.Flags = "USABLE" /\ e.Address = FramesBase)
    <3>1. Beside(e, w)
      BY <2>1, <2>4, EntryKinds
    <3>2. /\ w.Object = e.Address /\ w.Size = e.Length
          /\ w.Type = IF e.Flags = "USABLE" THEN "UNTYPED_FRAMES" ELSE "UNTYPED_DMA"
      BY <3>1 DEF Beside
    <3>3. CASE e.Flags \in {"USABLE", "RESERVED", "ACPI_RECLAIMABLE", "FRAMEBUFFER"}
      <4>1. WithEntry(s, e) = Generate(s, w.Type, w.Object, w.Size, AreaRights)
        BY <2>1, <3>3 DEF WithEntry
      <4>2. AddEntry(s, e) = Generate(s, w.Type, w.Object, w.Size, AreaRights)
        BY <2>2, <2>4, <3>2, <3>3
      <4> QED
        BY <2>1, <4>1, <4>2
    <3>4. CASE e.Flags \notin {"USABLE", "RESERVED", "ACPI_RECLAIMABLE", "FRAMEBUFFER"}
      BY <2>1, <3>4 DEF WithEntry
    <3> QED
      BY <3>3, <3>4
  <2> QED
    BY <2>3, <2>4
<1>4. PICK n \in Nat : n = Len(MemoryMap) /\ DOMAIN MemoryMap = 1 .. n
  BY MapType
<1>5. PICK f : RootTurns(start, n, f)
  BY <1>4, RootTurnsExist
<1> DEFINE P(g) == g = [k \in 0 .. Len(MemoryMap) |->
                           IF k = 0 THEN first ELSE AddEntry(g[k - 1], MemoryMap[k])]
<1>6. entries = CHOOSE g : P(g)
  OBVIOUS
<1> HIDE DEF first, AddEntry
<1>7. ASSUME NEW g PROVE P(g) <=> RootTurns(start, n, g)
  <2>1. \A k \in 0 .. n : k # 0 => k \in DOMAIN MemoryMap
    BY <1>4
  <2>2. \A k \in 0 .. n :
           (IF k = 0 THEN first ELSE AddEntry(g[k - 1], MemoryMap[k]))
             = (IF k = 0 THEN start ELSE WithEntry(g[k - 1], MemoryMap[k]))
    BY <1>2, <1>3, <2>1
  <2>3. [k \in 0 .. n |-> IF k = 0 THEN first ELSE AddEntry(g[k - 1], MemoryMap[k])]
          = [k \in 0 .. n |-> IF k = 0 THEN start ELSE WithEntry(g[k - 1], MemoryMap[k])]
    BY <2>2
  <2> QED
    BY <1>4, <2>3 DEF RootTurns
<1> HIDE DEF entries, P
<1>8. P(f)
  BY <1>5, <1>7
<1>9. P(entries)
  BY <1>6, <1>8
<1>10. RootTurns(start, Len(MemoryMap), entries)
  BY <1>4, <1>7, <1>9
<1> QED
  BY <1>1, <1>10

-----------------------------------------------------------------------------

(* What RootSpace leaves.                                                  *)
Begun(c) ==
    /\ SpaceOK(c, RootNodes)
    /\ Cardinality(Open(c, RootNodes)) \in Nat /\ Cardinality(Open(c, RootNodes)) >= 2
    /\ NodesOf(c) = RootNodes
    /\ AreaAt(c, 2, c.CapabilityTree[PageAt(2)])
    /\ Clear(c, c.CapabilityTree[PageAt(2)])

(* InitializeRootSpace leaves a space the manager can start with.          *)
LEMMA RootSpaceOK ==
    ASSUME NEW c, c = RootSpace(Pages, FramesBase, MemoryMap)
    PROVE  Begun(c)
<1>1. PICK F, e : F = FALSE /\ e = [slab |-> RootSlab(Pages, PageAt(1), BlankSlot),
                                    CapabilityTree |-> <<>>, Fault |-> F]
  OBVIOUS
<1>2. PICK start : start = GenerateCapability(e, "CAPABILITY_NODE", PageAt(1),
                                     GetObjectSize("CAPABILITY_NODE"), {"ACCESS"}).space
  OBVIOUS
<1>3. Booted(start, 0)
  BY <1>1, <1>2, BootedAtFirst
<1>4. PICK f : /\ RootTurns(start, Len(MemoryMap), f)
               /\ c = GenerateCapability(
                         GenerateCapability(f[Len(MemoryMap)], "CONTAINER", FramesBase,
                             GetObjectSize("CONTAINER"), {"ACCESS"}).space,
                         "CAPABILITY_SPACE", FramesBase + 1,
                         GetObjectSize("CAPABILITY_SPACE"), {"ACCESS"}).space
  BY <1>1, <1>2, RootSpaceTurns
<1>5. PICK n \in Nat : n = Len(MemoryMap) /\ DOMAIN MemoryMap = 1 .. n
  BY MapType
<1>6. PICK p, q : /\ p = f[n]
                  /\ q = GenerateCapability(p, "CONTAINER", FramesBase,
                             GetObjectSize("CONTAINER"), {"ACCESS"}).space
  OBVIOUS
<1>7. Booted(p, n)
  BY <1>3, <1>4, <1>5, <1>6, RootTurnsOK
<1>8. c = GenerateCapability(q, "CAPABILITY_SPACE", FramesBase + 1,
                             GetObjectSize("CAPABILITY_SPACE"), {"ACCESS"}).space
  BY <1>4, <1>5, <1>6
<1>9. /\ SpaceOK(p, RootNodes)
      /\ Cardinality(Open(p, RootNodes)) = CAPABILITIES_PER_NODE - 1 - Cardinality(Kept(n))
      /\ PageAt(1) \in DOMAIN p.CapabilityTree
      /\ Held(p)[p.CapabilityTree[PageAt(1)]].Type = "CAPABILITY_NODE"
      /\ \A key \in DOMAIN p.CapabilityTree :
           \/ key = PageAt(1)
           \/ /\ \E k \in Kept(n) : key = EntryCap(MemoryMap[k]).Object
              /\ Held(p)[p.CapabilityTree[key]].Type \in {"UNTYPED_FRAMES", "UNTYPED_DMA"}
      /\ (\E k \in Usable(n) : EntryCap(MemoryMap[k]) = AreaCap(2)) =>
            /\ PageAt(2) \in DOMAIN p.CapabilityTree
            /\ Held(p)[p.CapabilityTree[PageAt(2)]] = AreaCap(2)
      /\ \A y \in Untyped(p) : \E k \in Usable(n) : Held(p)[y] = EntryCap(MemoryMap[k])
      /\ \A y, z \in Untyped(p) : y # z => Held(p)[y] # Held(p)[z]
  BY <1>7 DEF Booted
<1>10. /\ FramesBase < PageAt(1) /\ PageAt(1) < PageAt(2) /\ PageAt(2) < PageAt(PageCount)
       /\ FramesBase + 1 <= PageAt(1) - 1 /\ PageAt(0) = FramesBase
       /\ FramesBase \in Nat /\ PageAt(1) \in Nat /\ PageAt(2) \in Nat
       /\ PageAt(PageCount) \in Nat /\ FramesBase + 1 \in Nat
  BY RegionEnds
<1>11. \A key \in DOMAIN p.CapabilityTree :
          \/ key = PageAt(1) \/ key = PageAt(2)
          \/ key \in Nat /\ (key < FramesBase \/ PageAt(PageCount) <= key)
  <2> SUFFICES ASSUME NEW key \in DOMAIN p.CapabilityTree, key # PageAt(1)
               PROVE  \/ key = PageAt(2)
                      \/ key \in Nat /\ (key < FramesBase \/ PageAt(PageCount) <= key)
    OBVIOUS
  <2>1. PICK k \in Kept(n) : key = EntryCap(MemoryMap[k]).Object
    BY <1>9
  <2>2. k \in DOMAIN MemoryMap
    BY <2>1 DEF Kept, KeptEntries
  <2>3. PICK w : w = EntryCap(MemoryMap[k])
    OBVIOUS
  <2>4. w.Object \in Nat
        /\ (w.Object = PageAt(2) \/ w.Object < FramesBase \/ PageAt(PageCount) <= w.Object)
    BY <2>2, <2>3, EntryAddresses
  <2> QED
    BY <2>1, <2>3, <2>4
<1>12. FramesBase \notin DOMAIN p.CapabilityTree /\ FramesBase + 1 \notin DOMAIN p.CapabilityTree
  BY <1>10, <1>11
<1>13. PICK o : o = Cardinality(Open(p, RootNodes)) /\ o \in Nat /\ o >= 4
  <2>1. Kept(n) = KeptEntries
    BY <1>5 DEF Kept, KeptEntries
  <2> QED
    BY <1>9, <2>1, NodeSize
<1>14. /\ SpaceOK(q, RootNodes)
       /\ Cardinality(Open(q, RootNodes)) = o - 1
       /\ DOMAIN q.CapabilityTree = DOMAIN p.CapabilityTree \cup {FramesBase}
       /\ Held(q)[q.CapabilityTree[FramesBase]].Type = "CONTAINER"
       /\ \A key \in DOMAIN p.CapabilityTree :
            /\ q.CapabilityTree[key] = p.CapabilityTree[key]
            /\ Held(q)[q.CapabilityTree[key]] = Held(p)[p.CapabilityTree[key]]
       /\ \A y \in Untyped(q) : y \in Untyped(p) /\ Held(q)[y] = Held(p)[y]
  <2>1. PICK kind \in {"CONTAINER", "CAPABILITY_SPACE"} : kind = "CONTAINER"
    OBVIOUS
  <2>2. Cardinality(Open(p, RootNodes)) \in Nat \ {0}
    BY <1>13
  <2>3. q = GenerateCapability(p, kind, FramesBase, GetObjectSize(kind), {"ACCESS"}).space
    BY <1>6, <2>1
  <2> QED
    BY <1>9, <1>10, <1>12, <1>13, <2>1, <2>2, <2>3, LastEntered
<1>15. PICK object \in Nat : object = FramesBase + 1
  BY <1>10
<1>16. /\ SpaceOK(c, RootNodes)
       /\ Cardinality(Open(c, RootNodes)) = o - 2
       /\ DOMAIN c.CapabilityTree = DOMAIN q.CapabilityTree \cup {object}
       /\ Held(c)[c.CapabilityTree[object]].Type = "CAPABILITY_SPACE"
       /\ \A key \in DOMAIN q.CapabilityTree :
            /\ c.CapabilityTree[key] = q.CapabilityTree[key]
            /\ Held(c)[c.CapabilityTree[key]] = Held(q)[q.CapabilityTree[key]]
       /\ \A y \in Untyped(c) : y \in Untyped(q) /\ Held(c)[y] = Held(q)[y]
  <2>1. PICK kind \in {"CONTAINER", "CAPABILITY_SPACE"} : kind = "CAPABILITY_SPACE"
    OBVIOUS
  <2>2. /\ Cardinality(Open(q, RootNodes)) \in Nat \ {0}
        /\ Cardinality(Open(q, RootNodes)) - 1 = o - 2
    BY <1>13, <1>14
  <2>3. c = GenerateCapability(q, kind, object, GetObjectSize(kind), {"ACCESS"}).space
    BY <1>8, <1>15, <2>1
  <2>4. object \notin DOMAIN q.CapabilityTree
    BY <1>10, <1>12, <1>14, <1>15
  <2>5. SpaceOK(q, RootNodes) /\ Cardinality(Open(q, RootNodes)) \in Nat \ {0}
    BY <1>14, <2>2
  <2>6. /\ SpaceOK(c, RootNodes)
        /\ Cardinality(Open(c, RootNodes)) = Cardinality(Open(q, RootNodes)) - 1
        /\ DOMAIN c.CapabilityTree = DOMAIN q.CapabilityTree \cup {object}
        /\ Held(c)[c.CapabilityTree[object]].Type = kind
        /\ \A key \in DOMAIN q.CapabilityTree :
             /\ c.CapabilityTree[key] = q.CapabilityTree[key]
             /\ Held(c)[c.CapabilityTree[key]] = Held(q)[q.CapabilityTree[key]]
        /\ \A y \in Untyped(c) : y \in Untyped(q) /\ Held(c)[y] = Held(q)[y]
    BY <2>3, <2>4, <2>5, LastEntered
  <2> QED
    BY <2>1, <2>2, <2>6
<1>17. PICK A : A = c.CapabilityTree[PageAt(2)]
  OBVIOUS
<1>18. /\ PageAt(2) \in DOMAIN p.CapabilityTree
       /\ Held(p)[p.CapabilityTree[PageAt(2)]] = AreaCap(2)
  <2>1. PICK a \in DOMAIN MemoryMap : Area = MemoryMap[a]
    BY AreaFact
  <2>2. Area.Flags = "USABLE" /\ Area.Address = FramesBase
    BY AreaFact
  <2>3. a \in Usable(n)
    BY <1>5, <2>1, <2>2 DEF Usable
  <2>4. EntryCap(MemoryMap[a]) = AreaCap(2)
    BY <2>1, <2>2 DEF EntryCap
  <2> QED
    BY <1>9, <2>3, <2>4
<1>19. PageAt(2) \in DOMAIN c.CapabilityTree /\ Held(c)[A] = AreaCap(2)
  BY <1>14, <1>16, <1>17, <1>18
<1>20. AreaAt(c, 2, A)
  <2>1. ASSUME NEW i \in 2 + 1 .. PageCount - 1 PROVE PageAt(i) \notin DOMAIN c.CapabilityTree
    <3>1. i \in Nat /\ 2 < i /\ i < PageCount /\ PageCount \in Nat /\ 2 \in Nat
      BY RegionFacts
    <3>2. PageAt(2) + PAGE_SIZE <= PageAt(i)
      BY <3>1, PageAtFacts
    <3>3. PageAt(i) + PAGE_SIZE <= PageAt(PageCount)
      BY <3>1, PageAtFacts
    <3>4. PAGE_SIZE \in Nat \ {0} /\ PageAt(i) \in Nat
      BY <3>1, PageSizeAssumption, PageAtFacts
    <3> QED
      BY <1>10, <1>11, <1>14, <1>15, <1>16, <3>2, <3>3, <3>4
  <2>2. 2 \in Nat /\ 2 < PageCount
    BY RegionFacts
  <2> QED
    BY <1>17, <1>19, <2>1, <2>2 DEF AreaAt
<1>21. NodesOf(c) = RootNodes
  <2>1. \A key \in DOMAIN c.CapabilityTree :
           Held(c)[c.CapabilityTree[key]].Type = "CAPABILITY_NODE" <=> key = PageAt(1)
    <3>1. ASSUME NEW key \in DOMAIN p.CapabilityTree
          PROVE  Held(c)[c.CapabilityTree[key]].Type = "CAPABILITY_NODE" <=> key = PageAt(1)
      <4>1. Held(c)[c.CapabilityTree[key]] = Held(p)[p.CapabilityTree[key]]
        BY <1>14, <1>16
      <4> QED
        BY <1>9, <4>1
    <3>2. Held(c)[c.CapabilityTree[object]].Type = "CAPABILITY_SPACE" /\ object # PageAt(1)
      BY <1>10, <1>15, <1>16
    <3>3. Held(c)[c.CapabilityTree[FramesBase]].Type = "CONTAINER" /\ FramesBase # PageAt(1)
      BY <1>10, <1>14, <1>16
    <3> QED
      BY <1>14, <1>16, <3>1, <3>2, <3>3
  <2>2. PageAt(1) \in DOMAIN c.CapabilityTree
    BY <1>9, <1>14, <1>16
  <2> QED
    BY <2>1, <2>2 DEF NodesOf, RootNodes
<1>22. Clear(c, A)
  <2>1. A \in Untyped(c)
    <3>1. A \in AllSlots
      BY <1>16, <1>17, <1>19, OpenIsUnlinked
    <3>2. 2 \in Nat /\ 2 <= PageCount
      BY RegionFacts
    <3>3. AreaCap(2).Type = "UNTYPED_FRAMES" /\ AreaCap(2).IsMasked = FALSE
      BY <3>2, AreaCapType
    <3> QED
      BY <1>19, <3>1, <3>3 DEF Untyped
  <2>2. \A y \in Untyped(c) : y \in Untyped(p) /\ Held(c)[y] = Held(p)[y]
    BY <1>14, <1>16
  <2>3. ASSUME NEW y \in Untyped(c), y # A
        PROVE  /\ \E k \in Usable(n) : Held(c)[y] = EntryCap(MemoryMap[k])
               /\ Held(c)[y] # AreaCap(2)
    BY <1>9, <1>19, <2>1, <2>2, <2>3
  <2>4. Usable(n) \in SUBSET DOMAIN MemoryMap
    BY <1>5 DEF Usable
  <2>5. ASSUME NEW y \in Untyped(c), y # A
        PROVE  Outside(Held(c)[y])
    <3>1. PICK k \in Usable(n) : Held(c)[y] = EntryCap(MemoryMap[k])
      BY <2>3, <2>5
    <3>2. PICK e2 : e2 = MemoryMap[k]
      OBVIOUS
    <3>3. k \in DOMAIN MemoryMap /\ EntryCap(e2) # AreaCap(2)
      BY <2>3, <2>4, <2>5, <3>1, <3>2
    <3>4. Beside(e2, EntryCap(e2))
      BY <3>2, <3>3, EntryKinds
    <3> QED
      BY <3>1, <3>2, <3>4 DEF Beside
  <2>6. ASSUME NEW y \in Untyped(c), NEW z \in Untyped(c), y # A, z # A, y # z
        PROVE  Apart2(Held(c)[y], Held(c)[z])
    <3>1. PICK j \in Usable(n) : Held(c)[y] = EntryCap(MemoryMap[j])
      BY <2>3, <2>6
    <3>2. PICK k \in Usable(n) : Held(c)[z] = EntryCap(MemoryMap[k])
      BY <2>3, <2>6
    <3>3. Held(c)[y] # Held(c)[z]
      BY <1>9, <2>2, <2>6
    <3>4. PICK v, w : v = EntryCap(MemoryMap[j]) /\ w = EntryCap(MemoryMap[k])
      OBVIOUS
    <3>5. j # k /\ v # AreaCap(2) /\ w # AreaCap(2)
      BY <2>3, <2>6, <3>1, <3>2, <3>3, <3>4
    <3>6. /\ j \in DOMAIN MemoryMap /\ k \in DOMAIN MemoryMap
          /\ MemoryMap[j].Flags = "USABLE"
      BY <2>4 DEF Usable
    <3>7. Apart2(v, w)
      BY <3>4, <3>5, <3>6, EntriesApart
    <3> QED
      BY <3>1, <3>2, <3>4, <3>7
  <2> QED
    BY <2>5, <2>6 DEF Clear
<1>23. o - 2 \in Nat /\ o - 2 >= 2
  BY <1>13
<1> QED
  BY <1>16, <1>17, <1>20, <1>21, <1>22, <1>23 DEF Begun

(* The manager begins with the invariant.                                  *)
LEMMA InitInv ==
    ASSUME Init
    PROVE  IInv
<1>1. PICK c : c = space /\ c = RootSpace(Pages, FramesBase, MemoryMap)
  BY DEF Init
<1>2. PICK A : A = c.CapabilityTree[PageAt(2)]
  OBVIOUS
<1>3. /\ SpaceOK(c, RootNodes)
      /\ Cardinality(Open(c, RootNodes)) \in Nat /\ Cardinality(Open(c, RootNodes)) >= 2
      /\ NodesOf(c) = RootNodes
      /\ AreaAt(c, 2, A) /\ Clear(c, A)
  BY <1>1, <1>2, RootSpaceOK DEF Begun
<1>4. /\ SpaceOK(c, NodesOf(c)) /\ Spare(c) >= 2
  BY <1>3 DEF Spare
<1>5. NodesOf(c) \in SUBSET {PageAt(i) : i \in 1 .. 2 - 1}
  <2>1. 1 \in 1 .. 2 - 1
    OBVIOUS
  <2> QED
    BY <1>3, <2>1 DEF RootNodes
<1>6. PICK G : G = <<>>
  OBVIOUS
<1>7. Handed(c, 2, G)
  <2>1. G \in Seq(Grants) /\ DOMAIN G = {}
    BY <1>6, EmptySeq
  <2>2. \A i \in 1 .. 2 - 1 : PageAt(i) \in NodesOf(c)
    <3>1. \A i \in 1 .. 2 - 1 : i = 1
      OBVIOUS
    <3> QED
      BY <1>3, <3>1 DEF RootNodes
  <2> QED
    BY <2>1, <2>2 DEF Handed
<1>8. Ledger(c, A, G, 2)
  BY <1>3, <1>4, <1>5, <1>7 DEF Ledger
<1>9. PICK b : b = TRUE /\ PhysicalMemoryManager =
                   [UntypedArea |-> AddressCapability(space, AreaBase), IsActive |-> b]
  BY DEF Init
<1>10. AddressCapability(space, AreaBase) = A
  <2>1. AreaBase = PageAt(2)
    BY PageSizeAssumption, MemoryAssumption DEF AreaBase, PageAt
  <2> QED
    BY <1>1, <1>2, <1>3, <2>1 DEF AddressCapability, AreaAt
<1>11. PhysicalMemoryManager = [UntypedArea |-> A, IsActive |-> b]
  BY <1>9, <1>10
<1>12. PhysicalMemoryManager.UntypedArea = A /\ PhysicalMemoryManager.IsActive = b
  BY <1>11
<1>13. CallOK(c, 2, b, Idle)
  BY <1>9 DEF CallOK
<1>14. granted = G /\ call = Idle
  BY <1>6 DEF Init
<1>15. Inv(2)
  BY <1>1, <1>4, <1>8, <1>11, <1>12, <1>13, <1>14 DEF Inv
<1> QED
  BY <1>15 DEF IInv

(* The invariant holds throughout.                                         *)
THEOREM InvariantHolds == Spec => []IInv
<1>1. Init => IInv
  BY InitInv
<1>2. IInv /\ [Next]_vars => IInv'
  BY InductiveStep
<1> QED
  BY <1>1, <1>2, PTL DEF Spec

-----------------------------------------------------------------------------

(* What the state is made of.                                              *)
LEMMA StateTypes ==
    ASSUME NEW u, Inv(u)
    PROVE  /\ SlotsOf(space) = AllSlots
           /\ \A x \in AllSlots : Cap(space, x) = Held(space)[x] /\ Cap(space, x) \in Caps
           /\ space.slab \in SlabStates
           /\ \A p \in DOMAIN space.CapabilityTree :
                /\ p \in Nat /\ space.CapabilityTree[p] \in AllSlots
                /\ Cap(space, space.CapabilityTree[p]) = Held(space)[space.CapabilityTree[p]]
                /\ Held(space)[space.CapabilityTree[p]].Object = p
                /\ Held(space)[space.CapabilityTree[p]].Type \in ObjectTypes
           /\ NodePages = NodesOf(space)
           /\ NodePages \in SUBSET {PageAt(i) : i \in 1 .. u - 1}
           /\ NodePages \in SUBSET Pages
<1>1. /\ Ledger(space, PhysicalMemoryManager.UntypedArea, granted, u)
      /\ SpaceOK(space, NodesOf(space))
  BY InvFacts
<1>2. /\ space.slab \in SlabStates
      /\ \A p \in DOMAIN space.CapabilityTree :
           /\ p \in Nat
           /\ Held(space)[space.CapabilityTree[p]].Object = p
           /\ Held(space)[space.CapabilityTree[p]].Type \in ObjectTypes
  BY <1>1 DEF SpaceOK, SlabOK
<1>3. space.slab.Slots \in [Pages -> [SlotIndex -> Caps]]
  BY <1>2 DEF SlabStates
<1>4. SlotsOf(space) = AllSlots
  BY <1>3 DEF SlotsOf, AllSlots
<1>5. \A x \in AllSlots : Cap(space, x) = Held(space)[x] /\ Cap(space, x) \in Caps
  BY <1>3 DEF Cap, Held, View, AllSlots
<1>6. \A p \in DOMAIN space.CapabilityTree : space.CapabilityTree[p] \in AllSlots
  BY <1>1, OpenIsUnlinked
<1>7. NodePages = NodesOf(space)
  BY <1>5, <1>6 DEF NodePages, NodesOf
<1>8. NodesOf(space) \in SUBSET {PageAt(i) : i \in 1 .. u - 1}
  BY <1>1 DEF Ledger
<1>9. NodesOf(space) \in SUBSET Pages
  BY <1>1 DEF SpaceOK, SlabOK
<1> QED
  BY <1>2, <1>4, <1>5, <1>6, <1>7, <1>8, <1>9

(* The pages of the grants.                                                *)
LEMMA GrantFacts ==
    ASSUME NEW u, Inv(u), NEW k \in DOMAIN granted
    PROVE  \E o \in Nat, m \in Nat \ {0} :
             /\ granted[k].Object = PageAt(o) /\ granted[k].length = m
             /\ o >= 2 /\ o + m <= u
             /\ granted[k].Type \in GrantKinds
             /\ PagesOf(granted[k].Object, PAGE_SIZE * granted[k].length)
                  = {PageAt(j) : j \in o .. o + m - 1}
             /\ \A i \in o .. o + m - 1 :
                  /\ PageAt(i) \in DOMAIN space.CapabilityTree
                  /\ Held(space)[space.CapabilityTree[PageAt(i)]] = PageCap(granted[k].Type, i)
<1>1. Handed(space, u, granted)
  BY InvFacts DEF Ledger
<1>2. PICK o, g : g = granted[k] /\ GrantAt(space, u, g, o)
  BY <1>1 DEF Handed
<1>3. /\ o \in Nat /\ o >= 2 /\ g.Object = PageAt(o)
      /\ g.length \in Nat \ {0} /\ o + g.length <= u
      /\ g.Type \in GrantKinds
      /\ \A i \in o .. o + g.length - 1 :
           /\ PageAt(i) \in DOMAIN space.CapabilityTree
           /\ Held(space)[space.CapabilityTree[PageAt(i)]] = PageCap(g.Type, i)
  BY <1>2 DEF GrantAt
<1>4. RunOfGrant(g) = {PageAt(j) : j \in o .. o + g.length - 1}
  BY <1>2, RunOfGrantAt
<1> QED
  BY <1>2, <1>3, <1>4 DEF RunOfGrant

(* The pages of the region that is left.                                   *)
LEMMA AreaPagesFact ==
    ASSUME NEW u, Inv(u)
    PROVE  AreaPages = {PageAt(j) : j \in u .. PageCount - 1}
<1>1. u \in Nat /\ u < PageCount /\ PageCount \in Nat
  BY InvFacts
<1>2. PICK m \in Nat : m = PageCount - u /\ u + m = PageCount
  <2>1. PageCount - u \in Nat /\ u + (PageCount - u) = PageCount
    BY <1>1
  <2> QED
    BY <2>1
<1>3. AreaPages = PagesOf(PageAt(u), PAGE_SIZE * m)
  BY <1>2, UntypedAreaIs DEF AreaPages
<1>4. PagesOf(PageAt(u), PAGE_SIZE * m) = {PageAt(j) : j \in u .. u + m - 1}
  BY <1>1, PagesOfRun
<1>5. u + m - 1 = PageCount - 1
  BY <1>1, <1>2
<1> QED
  BY <1>3, <1>4, <1>5

(* The fields of the manager and of every capability are typed.            *)
LEMMA TypeFact ==
    ASSUME NEW u, Inv(u)
    PROVE  TypeOK
<1>1. /\ SlotsOf(space) = AllSlots
      /\ \A x \in AllSlots : Cap(space, x) \in Caps
  BY StateTypes
<1>2. PhysicalMemoryManager.UntypedArea \in AllSlots
  BY UntypedAreaIs
<1>3. CallOK(space, u, PhysicalMemoryManager.IsActive, call) /\ Handed(space, u, granted)
  BY InvFacts DEF Ledger
<1>4. PhysicalMemoryManager.IsActive \in BOOLEAN /\ call \in Calls \cup {Idle}
  BY <1>3 DEF CallOK
<1>5. granted \in Seq(Grants)
  BY <1>3 DEF Handed
<1>6. PhysicalMemoryManager \in [UntypedArea : SlotsOf(space) \cup {NULL}, IsActive : BOOLEAN]
  <2>1. PICK A, b : A = PhysicalMemoryManager.UntypedArea /\ b = PhysicalMemoryManager.IsActive
    OBVIOUS
  <2>2. PhysicalMemoryManager = [UntypedArea |-> A, IsActive |-> b]
    BY <2>1 DEF Inv
  <2>3. A \in SlotsOf(space) \cup {NULL} /\ b \in BOOLEAN
    BY <1>1, <1>2, <1>4, <2>1
  <2> QED
    BY <2>2, <2>3
<1>7. granted \in Seq([Object : Pages, length : Nat, Type : ObjectTypes])
  BY <1>5 DEF Grants
<1>8. \A slot \in SlotsOf(space) : Cap(space, slot) \in
         [IsMasked : BOOLEAN, Type : SlotTypes, Object : Nat, Size : Nat,
          AccessRights : SUBSET CAPABILITY_RIGHTS,
          AccessRightsMask : SUBSET CAPABILITY_RIGHTS]
  BY <1>1 DEF Caps
<1> QED
  BY <1>4, <1>6, <1>7, <1>8 DEF TypeOK

(* No fault has happened, and two slots are free between calls.            *)
LEMMA SlotsFact ==
    ASSUME NEW u, Inv(u)
    PROVE  SlotsNeverRunOut
<1>1. /\ SpaceOK(space, NodesOf(space))
      /\ Spare(space) >= 2 /\ GetFreeSlots(space) = Spare(space)
  BY InvFacts
<1>2. SlabOK(space.slab, NodesOf(space)) /\ ~space.Fault
  BY <1>1 DEF SpaceOK
<1>3. ~space.slab.Spins /\ ~space.slab.links.Fault
  BY <1>2 DEF SlabOK, Listed
<1> QED
  BY <1>1, <1>2, <1>3, TypeFact DEF SlotsNeverRunOut

(* The slots q of c, k different ones, have been taken in d.               *)
Drew(c, d, N, q, k) ==
    /\ SpaceOK(d, N)
    /\ q \in Seq(AllSlots) /\ Len(q) = k
    /\ \A j \in 1 .. k : q[j] \in Open(c, N)
    /\ \A i, j \in 1 .. k : i # j => q[i] # q[j]
    /\ Open(d, N) = Open(c, N) \ Items(q)
    /\ Cardinality(Open(d, N)) = Cardinality(Open(c, N)) - k

(* One more slot.                                                          *)
LEMMA DrewStep ==
    ASSUME NEW c, NEW N, SpaceOK(c, N), NEW k \in Nat, NEW d, NEW q, Drew(c, d, N, q, k),
           NEW w, NEW e, NEW x, Generates(d, e, N, x, w)
    PROVE  Drew(c, e, N, Append(q, x), k + 1)
<1>1. PICK p, O, P, Q : /\ p = Append(q, x) /\ O = Open(c, N)
                        /\ P = Open(d, N) /\ Q = Open(e, N)
  OBVIOUS
<1>2. /\ q \in Seq(AllSlots) /\ Len(q) = k
      /\ \A j \in 1 .. k : q[j] \in O
      /\ \A i, j \in 1 .. k : i # j => q[i] # q[j]
      /\ P = O \ Items(q)
      /\ Cardinality(P) = Cardinality(O) - k
  BY <1>1 DEF Drew
<1>3. x \in P /\ SpaceOK(e, N) /\ Q = P \ {x}
  BY <1>1 DEF Generates
<1>4. IsFiniteSet(O) /\ O \in SUBSET AllSlots
  <2>1. IsFiniteSet(O) /\ N \in SUBSET Pages
    BY <1>1, FinitePages DEF SpaceOK, SlabOK, Open
  <2> QED
    BY <1>1, <2>1 DEF Open, OpenSlots, AllSlots
<1>5. /\ p \in Seq(AllSlots) /\ Len(p) = k + 1 /\ p[k + 1] = x
      /\ \A j \in 1 .. k : p[j] = q[j]
  <2>1. x \in AllSlots
    BY <1>2, <1>3, <1>4
  <2> QED
    BY <1>1, <1>2, <2>1
<1>6. 1 .. k + 1 = (1 .. k) \cup {k + 1}
  OBVIOUS
<1>7. Items(q) = {q[j] : j \in 1 .. k} /\ Items(p) = Items(q) \cup {x}
  <2>1. Items(q) = {q[j] : j \in 1 .. k} /\ Items(p) = {p[j] : j \in 1 .. k + 1}
    BY <1>2, <1>5 DEF Items
  <2>2. {p[j] : j \in 1 .. k + 1} = {p[j] : j \in 1 .. k} \cup {p[k + 1]}
    BY <1>6
  <2>3. {p[j] : j \in 1 .. k} = {q[j] : j \in 1 .. k}
    BY <1>5
  <2> QED
    BY <1>5, <2>1, <2>2, <2>3
<1>8. \A j \in 1 .. k + 1 : p[j] \in O
  BY <1>2, <1>3, <1>5, <1>6
<1>9. ASSUME NEW i \in 1 .. k + 1, NEW j \in 1 .. k + 1, i # j PROVE p[i] # p[j]
  <2>1. \A m \in 1 .. k : q[m] # x
    BY <1>2, <1>3, <1>7
  <2>2. i \in 1 .. k \/ i = k + 1
    BY <1>6
  <2>3. j \in 1 .. k \/ j = k + 1
    BY <1>6
  <2> QED
    BY <1>2, <1>5, <1>9, <2>1, <2>2, <2>3
<1>10. Cardinality(Q) = Cardinality(O) - (k + 1)
  <2>1. IsFiniteSet(P)
    BY <1>2, <1>4, FS_Subset
  <2>2. Cardinality(Q) = Cardinality(P) - 1
    BY <1>3, <2>1, FS_RemoveElement
  <2>3. Cardinality(O) \in Nat
    BY <1>4, FS_CardinalityType
  <2> QED
    BY <1>2, <2>2, <2>3
<1>11. Q = O \ Items(p)
  BY <1>2, <1>3, <1>7
<1> QED
  BY <1>1, <1>3, <1>5, <1>8, <1>9, <1>10, <1>11 DEF Drew

(* GenerateRun draws as many slots as it is asked for, wherever it begins, *)
(* as long as so many are free.                                            *)
LEMMA RunDraws ==
    ASSUME NEW c, NEW N, SpaceOK(c, N), NEW number \in Nat,
           Cardinality(Open(c, N)) >= number, Cardinality(Open(c, N)) \in Nat,
           NEW kind \in ObjectTypes, NEW size \in Nat, NEW rights \in SUBSET CAPABILITY_RIGHTS,
           NEW start \in Nat,
           NEW r, r = GenerateRun(c, kind, start, size, number, rights, CAPABILITY_RIGHTS)
    PROVE  Drew(c, r.space, N, r.array, number)
<1>1. PICK f : RunTurns(c, kind, start, size, number, rights, f) /\ r = f[number]
  BY GenerateRunTurns
<1>2. \A k \in 0 .. number :
        f[k] = IF k = 0 THEN [space |-> c, array |-> <<>>]
               ELSE RunTurn(f[k - 1], k, kind, start, size, rights)
  BY <1>1 DEF RunTurns
<1> DEFINE Good(k) == \E d, q : f[k] = [space |-> d, array |-> q] /\ Drew(c, d, N, q, k)
           B == {k \in 0 .. number : ~Good(k)}
<1>3. Good(0)
  <2>1. f[0] = [space |-> c, array |-> <<>>]
    BY <1>2
  <2>2. PICK q : q = <<>>
    OBVIOUS
  <2>3. /\ q \in Seq(AllSlots) /\ Len(q) = 0 /\ Items(q) = {}
        /\ \A j : j \notin 1 .. 0
    BY <2>2, EmptySeq DEF Items
  <2>4. Drew(c, c, N, q, 0)
    BY <2>3 DEF Drew
  <2> QED
    BY <2>1, <2>2, <2>4
<1>4. ASSUME NEW k \in 0 .. number, k # 0, Good(k - 1) PROVE Good(k)
  <2>1. PICK d, q : f[k - 1] = [space |-> d, array |-> q] /\ Drew(c, d, N, q, k - 1)
    BY <1>4
  <2>2. k - 1 \in Nat /\ k - 1 < number /\ k \in Nat
    BY <1>4
  <2>3. /\ SpaceOK(d, N) /\ Len(q) = k - 1
        /\ Cardinality(Open(d, N)) = Cardinality(Open(c, N)) - (k - 1)
    BY <2>1 DEF Drew
  <2>4. Open(d, N) # {}
    <3>1. Cardinality(Open(d, N)) # 0
      BY <2>2, <2>3
    <3> QED
      BY <3>1, FS_EmptySet
  <2>5. PICK run : run = f[k - 1]
    OBVIOUS
  <2>6. d = run.space /\ q = run.array /\ run = [space |-> d, array |-> q]
    BY <2>1, <2>5
  <2>7. PICK object \in Nat : ((start + (k - 1) * size) % USIZE) = object
    <3>1. USIZE \in Nat \ {0}
      BY UsizeAssumption, PageSizeAssumption
    <3>2. (k - 1) * size \in Nat
      BY <2>2
    <3>3. PICK a \in Nat : a = start + (k - 1) * size
      BY <3>2
    <3>4. (a % USIZE) \in Nat
      BY <3>1
    <3> QED
      BY <3>3, <3>4
  <2>8. f[k] = RunTurn(run, k, kind, start, size, rights)
    BY <1>2, <1>4, <2>5
  <2>9. f[k] = Extend(run, GenerateCapability(d, kind, object, size, rights), CAPABILITY_RIGHTS)
    BY <2>2, <2>3, <2>6, <2>7, <2>8 DEF RunTurn
  <2>10. PICK w : w = NewCap(kind, object, size, rights)
    OBVIOUS
  <2>11. PICK e, x : Generates(d, e, N, x, w) /\ f[k] = [space |-> e, array |-> Append(q, x)]
    <3>1. PICK v : v = f[k]
      OBVIOUS
    <3>2. v = Extend(run, GenerateCapability(d, kind, object, size, rights), CAPABILITY_RIGHTS)
      BY <2>9, <3>1
    <3>3. \E e, x : Extends(d, v, N, q, e, x, w)
      BY <2>3, <2>4, <2>6, <2>10, <3>2, ExtendOK
    <3> QED
      BY <3>1, <3>3 DEF Extends
  <2>12. Drew(c, e, N, Append(q, x), k)
    <3>1. PICK i \in Nat : i = k - 1 /\ i + 1 = k
      BY <2>2
    <3>2. Drew(c, e, N, Append(q, x), i + 1)
      BY <2>1, <2>11, <3>1, DrewStep
    <3> QED
      BY <3>1, <3>2
  <2> QED
    BY <2>11, <2>12
<1>5. ASSUME B # {} PROVE FALSE
  <2>1. PICK k \in B : \A m \in B : k <= m
    <3>1. B \in SUBSET Nat
      OBVIOUS
    <3> HIDE DEF B
    <3> QED
      BY <1>5, <3>1, LeastElement
  <2>2. k \in 0 .. number /\ ~Good(k)
    BY <2>1
  <2>3. k # 0
    BY <1>3, <2>2
  <2>4. k - 1 \in 0 .. number /\ ~(k <= k - 1)
    BY <2>2, <2>3
  <2>5. k - 1 \notin B
    <3> HIDE DEF B
    <3> QED
      BY <2>1, <2>4
  <2>6. Good(k - 1)
    BY <2>4, <2>5
  <2> HIDE DEF Good
  <2> QED
    BY <1>4, <2>2, <2>3, <2>6
<1>6. Good(number)
  <2>1. number \in 0 .. number
    OBVIOUS
  <2> HIDE DEF Good
  <2> QED
    BY <1>5, <2>1
<1> QED
  BY <1>1, <1>6

(* An inactive manager has reserved the slots for the user.                *)
LEMMA ReservedFact ==
    ASSUME NEW u, Inv(u)
    PROVE  ReservedForUser
<1>1. /\ SpaceOK(space, NodesOf(space)) /\ GetFreeSlots(space) = Spare(space)
      /\ CallOK(space, u, PhysicalMemoryManager.IsActive, call)
  BY InvFacts
<1> SUFFICES ASSUME ~PhysicalMemoryManager.IsActive, NEW object \in Pages,
                    NEW r, r = GenerateRun(space, "UNTYPED_FRAMES", object, PAGE_SIZE, UserReserve,
                                           CAPABILITY_RIGHTS, CAPABILITY_RIGHTS)
             PROVE  /\ Len(r.array) = UserReserve
                    /\ \A j \in 1 .. UserReserve :
                         /\ Cap(space, r.array[j]).Type = "NULL_CAPABILITY"
                         /\ \A k \in 1 .. UserReserve : j # k => r.array[j] # r.array[k]
                    /\ ~r.space.slab.Spins /\ ~r.space.slab.links.Fault
  BY DEF ReservedForUser
<1>2. PICK N : N = NodesOf(space)
  OBVIOUS
<1>3. Spare(space) \in Nat /\ Spare(space) >= UserReserve /\ UserReserve \in Nat
  BY <1>1, SpareType, MemoryAssumption DEF CallOK
<1>4. Cardinality(Open(space, N)) \in Nat /\ Cardinality(Open(space, N)) >= UserReserve
  BY <1>2, <1>3 DEF Spare
<1>5. Drew(space, r.space, N, r.array, UserReserve)
  <2>1. "UNTYPED_FRAMES" \in ObjectTypes /\ CAPABILITY_RIGHTS \in SUBSET CAPABILITY_RIGHTS
    BY DEF ObjectTypes
  <2>2. object \in Nat /\ PAGE_SIZE \in Nat
    <3>1. FramesBase \in Nat /\ FramesBase + Area.Length - 1 \in Int
      BY MemoryAssumption, AreaFact
    <3>2. object \in FramesBase .. FramesBase + Area.Length - 1
      BY DEF Pages, PagesOf
    <3> QED
      BY <3>1, <3>2, PageSizeAssumption
  <2> QED
    BY <1>1, <1>2, <1>3, <1>4, <2>1, <2>2, RunDraws
<1>6. ASSUME NEW j \in 1 .. UserReserve
      PROVE  Cap(space, r.array[j]).Type = "NULL_CAPABILITY"
  <2>1. PICK x : x = r.array[j] /\ x \in Open(space, N)
    BY <1>5 DEF Drew
  <2>2. x \in AllSlots /\ View(space.slab)[x].Type = "NULL_CAPABILITY"
    <3>1. N \in SUBSET Pages
      BY <1>1, <1>2 DEF SpaceOK, SlabOK
    <3> QED
      BY <2>1, <3>1 DEF Open, OpenSlots, AllSlots
  <2> QED
    BY <2>1, <2>2 DEF Cap, View
<1>7. ~r.space.slab.Spins /\ ~r.space.slab.links.Fault
  BY <1>5 DEF Drew, SpaceOK, SlabOK, Listed
<1> QED
  BY <1>5, <1>6, <1>7 DEF Drew

(* The tree leads from a page granted to its capability.                   *)
LEMMA AddressableFact ==
    ASSUME NEW u, Inv(u)
    PROVE  GrantedAreAddressable
<1>1. \A p \in DOMAIN space.CapabilityTree :
         /\ p \in Nat /\ space.CapabilityTree[p] \in AllSlots
         /\ Cap(space, space.CapabilityTree[p]) = Held(space)[space.CapabilityTree[p]]
         /\ Held(space)[space.CapabilityTree[p]].Object = p
         /\ Held(space)[space.CapabilityTree[p]].Type \in ObjectTypes
  BY StateTypes
<1>2. TreeIsCoherent
  BY <1>1 DEF TreeIsCoherent
<1>3. NULL \notin AllSlots
  BY NullAssumption DEF AllSlots
<1>4. ASSUME NEW k \in DOMAIN granted,
             NEW p \in PagesOf(granted[k].Object, PAGE_SIZE * granted[k].length),
             NEW slot, slot = AddressCapability(space, p)
      PROVE  /\ slot # NULL
             /\ ~Cap(space, slot).IsMasked
             /\ Cap(space, slot).Type = granted[k].Type
             /\ Cap(space, slot).Object = p
             /\ Cap(space, slot).Size = PAGE_SIZE
  <2>1. PICK o \in Nat, m \in Nat \ {0} :
           /\ granted[k].Type \in GrantKinds
           /\ PagesOf(granted[k].Object, PAGE_SIZE * granted[k].length)
                = {PageAt(j) : j \in o .. o + m - 1}
           /\ \A i \in o .. o + m - 1 :
                /\ PageAt(i) \in DOMAIN space.CapabilityTree
                /\ Held(space)[space.CapabilityTree[PageAt(i)]] = PageCap(granted[k].Type, i)
    BY GrantFacts
  <2>2. PICK i \in o .. o + m - 1 : p = PageAt(i)
    BY <1>4, <2>1
  <2>3. p \in DOMAIN space.CapabilityTree /\ slot = space.CapabilityTree[p]
    BY <1>4, <2>1, <2>2 DEF AddressCapability
  <2>4. PICK v, kind : v = Held(space)[slot] /\ kind = granted[k].Type
    OBVIOUS
  <2>5. v = NewCap(kind, PageAt(i), PAGE_SIZE, AreaRights)
    BY <2>1, <2>2, <2>3, <2>4 DEF PageCap
  <2>6. v.IsMasked = FALSE /\ v.Type = kind /\ v.Object = p /\ v.Size = PAGE_SIZE
    BY <2>2, <2>5 DEF NewCap
  <2>7. slot \in AllSlots /\ Cap(space, slot) = v
    BY <1>1, <2>3, <2>4
  <2> QED
    BY <1>3, <2>4, <2>6, <2>7
<1> QED
  BY <1>2, <1>4 DEF GrantedAreAddressable

(* The numbers of the pages a caller has.                                  *)
LEMMA GrantedPagesFact ==
    ASSUME NEW u, Inv(u), NEW p \in GrantedPages
    PROVE  /\ \E i \in 2 .. u - 1 : p = PageAt(i)
           /\ p \notin NodePages
<1>1. PICK k \in DOMAIN granted : p \in PagesOf(granted[k].Object, PAGE_SIZE * granted[k].length)
  BY DEF GrantedPages
<1>2. PICK o \in Nat, m \in Nat \ {0} :
         /\ granted[k].Object = PageAt(o) /\ granted[k].length = m
         /\ o >= 2 /\ o + m <= u
         /\ granted[k].Type \in GrantKinds
         /\ PagesOf(granted[k].Object, PAGE_SIZE * granted[k].length)
              = {PageAt(j) : j \in o .. o + m - 1}
         /\ \A i \in o .. o + m - 1 :
              /\ PageAt(i) \in DOMAIN space.CapabilityTree
              /\ Held(space)[space.CapabilityTree[PageAt(i)]] = PageCap(granted[k].Type, i)
  BY GrantFacts
<1>3. PICK i \in o .. o + m - 1 : p = PageAt(i)
  BY <1>1, <1>2
<1>4. u \in Nat
  BY InvFacts
<1>5. i \in 2 .. u - 1
  BY <1>2, <1>3, <1>4
<1>6. p \notin NodePages
  <2>1. PICK v, kind : v = Held(space)[space.CapabilityTree[p]] /\ kind = granted[k].Type
    OBVIOUS
  <2>2. v = NewCap(kind, PageAt(i), PAGE_SIZE, AreaRights)
    BY <1>2, <1>3, <2>1 DEF PageCap
  <2>3. v.Type = kind /\ kind # "CAPABILITY_NODE"
    BY <1>2, <2>1, <2>2 DEF NewCap, GrantKinds
  <2>4. p \notin NodesOf(space)
    BY <2>1, <2>3 DEF NodesOf
  <2> QED
    BY <2>4, StateTypes
<1> QED
  BY <1>3, <1>5, <1>6

-----------------------------------------------------------------------------

(* Every page of the region has one owner.                                 *)
LEMMA ConservedFact ==
    ASSUME NEW u, Inv(u)
    PROVE  MemoryConserved
<1>1. /\ Ledger(space, PhysicalMemoryManager.UntypedArea, granted, u)
      /\ u \in Nat /\ u >= 2 /\ u < PageCount /\ PageCount \in Nat
  BY InvFacts
<1>2. Handed(space, u, granted)
  BY <1>1 DEF Ledger
<1>3. AreaPages = {PageAt(j) : j \in u .. PageCount - 1}
  BY AreaPagesFact
<1>4. /\ NodePages = NodesOf(space)
      /\ NodePages \in SUBSET {PageAt(i) : i \in 1 .. u - 1} /\ NodePages \in SUBSET Pages
  BY StateTypes
<1>5. \A p \in GrantedPages : (\E i \in 2 .. u - 1 : p = PageAt(i)) /\ p \notin NodePages
  BY GrantedPagesFact
<1>6. Pages = {PageAt(i) : i \in 0 .. PageCount - 1} /\ PageAt(0) = FramesBase
  BY PagesFact
<1>7. \A i, j \in Nat : PageAt(i) = PageAt(j) => i = j
  BY PageAtFacts
<1>8. Pages = {FramesBase} \cup NodePages \cup GrantedPages \cup AreaPages
  <2>1. ASSUME NEW i \in 0 .. PageCount - 1
        PROVE  PageAt(i) \in {FramesBase} \cup NodePages \cup GrantedPages \cup AreaPages
    <3>1. CASE i = 0
      BY <1>6, <3>1
    <3>2. CASE i \in 1 .. u - 1
      <4>1. PageAt(i) \in NodePages \/ \E k \in DOMAIN granted : PageAt(i) \in RunOfGrant(granted[k])
        BY <1>2, <1>4, <3>2 DEF Handed
      <4> QED
        BY <4>1 DEF RunOfGrant, GrantedPages
    <3>3. CASE i \in u .. PageCount - 1
      BY <1>3, <3>3
    <3>4. i = 0 \/ i \in 1 .. u - 1 \/ i \in u .. PageCount - 1
      BY <1>1
    <3> QED
      BY <3>1, <3>2, <3>3, <3>4
  <2>2. FramesBase \in Pages
    <3>1. 0 \in 0 .. PageCount - 1
      BY <1>1
    <3> QED
      BY <1>6, <3>1
  <2>3. AreaPages \in SUBSET Pages
    <3>1. \A j \in u .. PageCount - 1 : j \in 0 .. PageCount - 1
      BY <1>1
    <3> QED
      BY <1>3, <1>6, <3>1
  <2>4. GrantedPages \in SUBSET Pages
    <3>1. \A i \in 2 .. u - 1 : i \in 0 .. PageCount - 1
      BY <1>1
    <3> QED
      BY <1>5, <1>6, <3>1
  <2> QED
    BY <1>4, <1>6, <2>1, <2>2, <2>3, <2>4
<1>9. \A p \in NodePages \cup GrantedPages : \E i \in 1 .. u - 1 : p = PageAt(i)
  <2>1. \A i \in 2 .. u - 1 : i \in 1 .. u - 1
    BY <1>1
  <2> QED
    BY <1>4, <1>5, <2>1
<1>10. FramesBase \notin NodePages \cup GrantedPages \cup AreaPages
  <2>1. \A i \in 1 .. u - 1 : i \in Nat /\ i # 0
    BY <1>1
  <2>2. \A i \in u .. PageCount - 1 : i \in Nat /\ i # 0
    BY <1>1
  <2>3. 0 \in Nat
    OBVIOUS
  <2> QED
    BY <1>3, <1>6, <1>7, <1>9, <2>1, <2>2, <2>3
<1>11. AreaPages \cap (NodePages \cup GrantedPages) = {}
  <2>1. \A i \in 1 .. u - 1 : i \in Nat /\ \A j \in u .. PageCount - 1 : j \in Nat /\ i # j
    BY <1>1
  <2> QED
    BY <1>3, <1>7, <1>9, <2>1
<1>12. NodePages \cap GrantedPages = {}
  BY <1>5
<1>13. \A j, k \in DOMAIN granted : j # k =>
          PagesOf(granted[j].Object, PAGE_SIZE * granted[j].length)
            \cap PagesOf(granted[k].Object, PAGE_SIZE * granted[k].length) = {}
  BY <1>2 DEF Handed, RunOfGrant
<1> QED
  BY <1>8, <1>10, <1>11, <1>12, <1>13 DEF MemoryConserved

(* What an untyped capability covers.                                      *)
Extent(w) == w.Object .. w.Object + w.Size - 1

(* Untyped memory is described once, and used by nobody.                   *)
LEMMA ExclusiveFact ==
    ASSUME NEW u, Inv(u)
    PROVE  UntypedIsExclusive
<1>1. /\ Ledger(space, PhysicalMemoryManager.UntypedArea, granted, u)
      /\ u \in Nat /\ u >= 2 /\ u < PageCount /\ PageCount \in Nat
  BY InvFacts
<1>2. PICK A, H : A = PhysicalMemoryManager.UntypedArea /\ H = Held(space)
  OBVIOUS
<1>3. Clear(space, A) /\ AreaAt(space, u, A)
  BY <1>1, <1>2 DEF Ledger
<1>4. /\ SlotsOf(space) = AllSlots
      /\ \A x \in AllSlots : Cap(space, x) = H[x] /\ H[x] \in Caps
  BY <1>2, StateTypes
<1>5. {slot \in SlotsOf(space) : Cap(space, slot).Type = "UNTYPED_FRAMES" /\ ~Cap(space, slot).IsMasked}
        = Untyped(space)
  BY <1>2, <1>4 DEF Untyped
<1>6. /\ \A x \in Untyped(space) : x \in AllSlots /\ H[x].Object \in Nat /\ H[x].Size \in Nat
  BY <1>4 DEF Untyped, Caps
<1>7. PICK a, b, z, P \in Nat : /\ a = FramesBase /\ b = PageAt(u) /\ z = PageAt(PageCount)
                                /\ P = PAGE_SIZE /\ P > 0
  <2>1. PageAt(u) \in Nat /\ PageAt(PageCount) \in Nat
    BY <1>1, PageAtFacts
  <2> QED
    BY <2>1, MemoryAssumption, PageSizeAssumption
<1>8. a <= b /\ b + P <= z
  <2>1. \A i, j \in Nat : PageAt(i) \in Nat /\ (i < j => PageAt(i) + PAGE_SIZE <= PageAt(j))
    BY PageAtFacts
  <2>2. PageAt(0) = FramesBase /\ 0 \in Nat /\ 0 < u
    BY <1>1, PagesFact
  <2>3. PageAt(0) + PAGE_SIZE <= PageAt(u)
    BY <1>1, <2>1, <2>2
  <2> QED
    BY <1>1, <1>7, <2>1, <2>2, <2>3
<1>9. H[A].Object = b /\ H[A].Object + H[A].Size = z
  <2>1. PICK v : v = AreaCap(u)
    OBVIOUS
  <2>2. u <= PageCount
    BY <1>1
  <2>3. AreaCap(u).Object = PageAt(u) /\ AreaCap(u).Size = PAGE_SIZE * (PageCount - u)
    BY <1>1, <2>2, AreaCapType
  <2>4. PICK m \in Nat : m = PageCount - u /\ u + m = PageCount
    <3>1. PageCount - u \in Nat /\ u + (PageCount - u) = PageCount
      BY <1>1
    <3> QED
      BY <3>1
  <2>5. PageAt(u + m) = PageAt(u) + PAGE_SIZE * m
    BY <1>1, PageAtFacts
  <2>6. H[A] = v
    BY <1>2, <1>3, <2>1 DEF AreaAt
  <2> QED
    BY <1>7, <2>1, <2>3, <2>4, <2>5, <2>6
<1>10. \A p \in GrantedPages \cup NodePages : p \in Nat /\ a <= p /\ p < b
  <2> SUFFICES ASSUME NEW p \in GrantedPages \cup NodePages
               PROVE  p \in Nat /\ a <= p /\ p < b
    OBVIOUS
  <2>1. PICK i \in 1 .. u - 1 : p = PageAt(i)
    <3>1. \A i \in 2 .. u - 1 : i \in 1 .. u - 1
      BY <1>1
    <3> QED
      BY <3>1, StateTypes, GrantedPagesFact
  <2>2. \A k, j \in Nat : PageAt(k) \in Nat /\ (k < j => PageAt(k) + PAGE_SIZE <= PageAt(j))
    BY PageAtFacts
  <2>3. i \in Nat /\ i < u /\ 0 < i /\ 0 \in Nat /\ PageAt(0) = FramesBase
    BY <1>1, PagesFact
  <2>4. PageAt(i) + PAGE_SIZE <= PageAt(u) /\ PageAt(0) + PAGE_SIZE <= PageAt(i)
        /\ PageAt(i) \in Nat
    BY <1>1, <2>2, <2>3
  <2> QED
    BY <1>7, <2>1, <2>3, <2>4
<1>11. \A x \in Untyped(space) : x # A =>
          H[x].Object + H[x].Size <= a \/ z <= H[x].Object
  BY <1>2, <1>3, <1>7 DEF Clear, Outside
<1>12. \A x, y \in Untyped(space) : x # A /\ y # A /\ x # y =>
          \/ H[x].Object + H[x].Size <= H[y].Object
          \/ H[y].Object + H[y].Size <= H[x].Object
  BY <1>2, <1>3 DEF Clear, Apart2
<1>13. ASSUME NEW x \in Untyped(space)
       PROVE  Extent(H[x]) \cap (GrantedPages \cup NodePages) = {}
  <2> SUFFICES ASSUME NEW p \in Extent(H[x]), p \in GrantedPages \cup NodePages PROVE FALSE
    OBVIOUS
  <2>1. p \in Nat /\ a <= p /\ p < b
    BY <1>10
  <2>2. PICK o, s \in Nat : o = H[x].Object /\ s = H[x].Size
    BY <1>6
  <2>3. o <= p /\ p < o + s
    BY <2>1, <2>2 DEF Extent
  <2>4. CASE x = A
    BY <1>7, <1>9, <2>1, <2>2, <2>3, <2>4
  <2>5. CASE x # A
    <3>1. o + s <= a \/ z <= o
      BY <1>11, <2>2, <2>5
    <3> QED
      BY <1>7, <1>8, <2>1, <2>2, <2>3, <3>1
  <2> QED
    BY <2>4, <2>5
<1>14. ASSUME NEW x \in Untyped(space), NEW y \in Untyped(space), x # y
       PROVE  Extent(H[x]) \cap Extent(H[y]) = {}
  <2> SUFFICES ASSUME NEW p \in Extent(H[x]), p \in Extent(H[y]) PROVE FALSE
    OBVIOUS
  <2>1. PICK o, s, q, t \in Nat : /\ o = H[x].Object /\ s = H[x].Size
                                  /\ q = H[y].Object /\ t = H[y].Size
    BY <1>6
  <2>2. p \in Int /\ o <= p /\ p < o + s /\ q <= p /\ p < q + t
    BY <2>1 DEF Extent
  <2>3. CASE x = A
    <3>1. q + t <= a \/ z <= q
      BY <1>11, <1>14, <2>1, <2>3
    <3>2. o = b /\ o + s = z
      BY <1>9, <2>1, <2>3
    <3> QED
      BY <1>7, <1>8, <2>1, <2>2, <3>1, <3>2
  <2>4. CASE y = A
    <3>1. o + s <= a \/ z <= o
      BY <1>11, <1>14, <2>1, <2>4
    <3>2. q = b /\ q + t = z
      BY <1>9, <2>1, <2>4
    <3> QED
      BY <1>7, <1>8, <2>1, <2>2, <3>1, <3>2
  <2>5. CASE x # A /\ y # A
    <3>1. o + s <= q \/ q + t <= o
      BY <1>12, <1>14, <2>1, <2>5
    <3> QED
      BY <2>1, <2>2, <3>1
  <2> QED
    BY <2>3, <2>4, <2>5
<1>15. \A x \in Untyped(space) :
          Extent(H[x]) = Cap(space, x).Object .. Cap(space, x).Object + Cap(space, x).Size - 1
  BY <1>4, <1>6 DEF Extent
<1> QED
  BY <1>5, <1>13, <1>14, <1>15 DEF UntypedIsExclusive

(* The cardinality module SlabSpec uses is the one of this module.         *)
LEMMA RulesCardinality ==
    \A S : Rules!Cardinality(S) = Cardinality(S)
BY DEF Rules!Cardinality, Cardinality

(* The slab lists as module SlabSpec states them.                          *)
LEMMA ListsFact ==
    ASSUME NEW u, Inv(u)
    PROVE  SlotListsIntact
<1>1. PICK s, N : s = space.slab /\ N = NodePages
  OBVIOUS
<1>2. SlabOK(s, N) /\ N \in SUBSET Pages
  <2>1. SpaceOK(space, NodesOf(space)) /\ NodePages = NodesOf(space)
    BY InvFacts, StateTypes
  <2> QED
    BY <1>1, <2>1 DEF SpaceOK, SlabOK
<1>3. PICK F : F = s.FreeElements
  OBVIOUS
<1>4. /\ \A n \in N : F[n] = Cardinality(FreeIndices(s, n))
      /\ Listed(s.links, FreeNodes(N, F), UsedNodes(N, F), FullNodes(N, F))
      /\ s \in SlabStates
  BY <1>2, <1>3 DEF SlabOK
<1>5. Rules!Accounting
  <2>1. \A n : FreeIndices(space.slab, n) = Rules!FreeIndices(space.slab, n)
    BY DEF FreeIndices, Rules!FreeIndices, SlotIndex, Rules!SlotIndex
  <2>2. \A n \in NodePages : space.slab.FreeElements[n] = Cardinality(FreeIndices(space.slab, n))
    BY <1>1, <1>3, <1>4
  <2>3. ASSUME NEW n \in NodePages
        PROVE  space.slab.FreeElements[n] = Rules!Cardinality(Rules!FreeIndices(space.slab, n))
    <3>1. PICK I : I = FreeIndices(space.slab, n) /\ I = Rules!FreeIndices(space.slab, n)
      BY <1>1, <2>1
    <3>2. space.slab.FreeElements[n] = Cardinality(I)
      BY <2>2, <3>1
    <3>3. Rules!Cardinality(I) = Cardinality(I)
      BY RulesCardinality
    <3> QED
      BY <3>1, <3>2, <3>3
  <2> QED
    BY <2>3 DEF Rules!Accounting
<1>6. ASSUME NEW l, NEW S, S = {n \in N : Rules!ListFor(F[n]) = l}, Holds(Pages, s.links, l, S)
      PROVE  Rules!Intact(l)
  <2>1. PICK t \in Seq(Pages) : Distinct(t) /\ Items(t) = S /\ IsChain(s.links, l, t)
    BY <1>6 DEF Holds
  <2>2. IsFiniteSet(N)
    <3>1. IsFiniteSet(Pages)
      BY <1>2, FinitePages
    <3> QED
      BY <1>2, <3>1, FS_Subset
  <2>3. S \in SUBSET N
    BY <1>6
  <2>4. t \in [1 .. Len(t) -> N] /\ Len(t) \in 0 .. Cardinality(N)
    BY <2>1, <2>2, <2>3, ChainIsBounded
  <2>5. t \in Rules!Chains
    <3>1. t \in [1 .. Len(t) -> NodePages] /\ Len(t) \in 0 .. Rules!Cardinality(NodePages)
      BY <1>1, <2>4, RulesCardinality
    <3>2. \A i, j \in 1 .. Len(t) : t[i] = t[j] => i = j
      BY <2>1 DEF Distinct
    <3> QED
      BY <3>1, <3>2 DEF Rules!Chains
  <2>6. Rules!IsChain(s.links, l, t)
    BY <2>1 DEF Rules!IsChain, IsChain
  <2>7. {t[i] : i \in 1 .. Len(t)} = S
    BY <2>1 DEF Items
  <2> QED
    BY <1>1, <1>3, <1>6, <2>5, <2>6, <2>7 DEF Rules!Intact
<1>7. Rules!Intact("FreeSlabs") /\ Rules!Intact("UsedSlabs")
  <2>1. CAPABILITIES_PER_NODE \in Nat /\ CAPABILITIES_PER_NODE >= 5
    BY NodeSize
  <2>2. FreeNodes(N, F) = {n \in N : Rules!ListFor(F[n]) = "FreeSlabs"}
    BY <2>1 DEF FreeNodes, Rules!ListFor
  <2>3. UsedNodes(N, F) = {n \in N : Rules!ListFor(F[n]) = "UsedSlabs"}
    BY <2>1 DEF UsedNodes, Rules!ListFor
  <2>4. Holds(Pages, s.links, "FreeSlabs", FreeNodes(N, F))
        /\ Holds(Pages, s.links, "UsedSlabs", UsedNodes(N, F))
    BY <1>4 DEF Listed
  <2> QED
    BY <1>6, <2>2, <2>3, <2>4
<1>8. Rules!FreeSlotsAreCounted
  <2>1. GetFreeSlabSlots(s) = Cardinality(OpenSlots(s, N))
    BY <1>2, FreeSlotsCounted
  <2>2. Rules!GetFreeSlabSlots(s) = GetFreeSlabSlots(s)
    BY DEF Rules!GetFreeSlabSlots, GetFreeSlabSlots, Rules!FreeElementsFrom, FreeElementsFrom
  <2>3. {slot \in Rules!Slots : ~Rules!Allocated(slot)} = OpenSlots(s, N)
    <3>1. \A x \in N \X SlotIndex : View(s)[x] = s.Slots[x[1]][x[2]]
      BY <1>2 DEF View, AllSlots
    <3> QED
      BY <1>1, <3>1 DEF Rules!Slots, Rules!Allocated, OpenSlots, SlotIndex, Rules!SlotIndex
  <2> QED
    BY <1>1, <2>1, <2>2, <2>3, RulesCardinality DEF Rules!FreeSlotsAreCounted
<1> QED
  BY <1>5, <1>7, <1>8 DEF SlotListsIntact

-----------------------------------------------------------------------------

(* The pages of the area, before and after a step.                         *)
LEMMA AreaPagesAre ==
    \A m : Inv(m) => AreaPages = {PageAt(j) : j \in m .. PageCount - 1}
BY AreaPagesFact

(* The same after a step.                                                  *)
LEMMA AreaPagesBecome ==
    (\A m : Inv(m) => AreaPages = {PageAt(j) : j \in m .. PageCount - 1})'
BY AreaPagesAre, PTL

(* The same for one index.                                                 *)
LEMMA AreaPagesNext ==
    ASSUME NEW m, Inv(m)'
    PROVE  AreaPages' = {PageAt(j) : j \in m .. PageCount - 1}
BY AreaPagesBecome

(* The index of the invariant is that of a page.                           *)
LEMMA IndexIs == \A m : Inv(m) => m \in Nat /\ m < PageCount
BY InvFacts

(* The same after a step.                                                  *)
LEMMA IndexBecomes == (\A m : Inv(m) => m \in Nat /\ m < PageCount)'
BY IndexIs, PTL

(* The same for one index.                                                 *)
LEMMA InvNext ==
    ASSUME NEW m, Inv(m)'
    PROVE  m \in Nat /\ m < PageCount
BY IndexBecomes

(* A run of pages as module FrameAllocator writes it.                      *)
LEMMA RunIs ==
    ASSUME NEW u \in Nat, NEW n \in Nat
    PROVE  Frames!Run(PageAt(u), n) = {PageAt(j) : j \in u .. u + n - 1}
<1>1. \A i \in Nat : PageAt(i) = FramesBase + PAGE_SIZE * i
  BY DEF PageAt
<1>2. FramesBase \in Nat /\ PAGE_SIZE \in Nat
  BY MemoryAssumption, PageSizeAssumption
<1>3. ASSUME NEW k \in 0 .. n - 1
      PROVE  PageAt(u) + PAGE_SIZE * k = PageAt(u + k) /\ u + k \in u .. u + n - 1
  <2>1. PAGE_SIZE * (u + k) = PAGE_SIZE * u + PAGE_SIZE * k
    BY <1>2
  <2>2. PAGE_SIZE * u \in Nat /\ PAGE_SIZE * k \in Nat
    BY <1>2
  <2>3. u + k \in Nat
    OBVIOUS
  <2>4. PageAt(u + k) = FramesBase + PAGE_SIZE * (u + k) /\ PageAt(u) = FramesBase + PAGE_SIZE * u
    BY <1>1, <2>3
  <2>5. u + k \in u .. u + n - 1
    OBVIOUS
  <2> QED
    BY <1>2, <2>1, <2>2, <2>4, <2>5
<1>4. ASSUME NEW j \in u .. u + n - 1
      PROVE  \E k \in 0 .. n - 1 : j = u + k
  <2>1. j - u \in 0 .. n - 1 /\ j = u + (j - u)
    OBVIOUS
  <2> QED
    BY <2>1
<1>5. Frames!Run(PageAt(u), n) = {PageAt(u) + PAGE_SIZE * k : k \in 0 .. n - 1}
  BY DEF Frames!Run
<1>6. \A k \in 0 .. n - 1 : \E j \in u .. u + n - 1 : PageAt(u) + PAGE_SIZE * k = PageAt(j)
  BY <1>3
<1>7. \A j \in u .. u + n - 1 : \E k \in 0 .. n - 1 : PageAt(u) + PAGE_SIZE * k = PageAt(j)
  BY <1>3, <1>4
<1> QED
  BY <1>5, <1>6, <1>7

(* Pages from v on without those below w, which are those from w on.       *)
LEMMA AreaShrinks ==
    ASSUME NEW u \in Nat, NEW n \in Nat \ {0}, u + n < PageCount, PageCount \in Nat
    PROVE  /\ Frames!Run(PageAt(u), n) \in SUBSET {PageAt(j) : j \in u .. PageCount - 1}
           /\ {PageAt(j) : j \in u + n .. PageCount - 1}
                = {PageAt(j) : j \in u .. PageCount - 1} \ Frames!Run(PageAt(u), n)
<1>1. Frames!Run(PageAt(u), n) = {PageAt(j) : j \in u .. u + n - 1}
  BY RunIs
<1>2. \A j \in u .. u + n - 1 : j \in u .. PageCount - 1
  OBVIOUS
<1>3. \A i, j \in Nat : PageAt(i) = PageAt(j) => i = j
  BY PageAtFacts
<1>4. \A j \in u + n .. PageCount - 1 : j \in u .. PageCount - 1 /\ j \in Nat
  OBVIOUS
<1>5. \A j \in u + n .. PageCount - 1 : PageAt(j) \notin {PageAt(i) : i \in u .. u + n - 1}
  <2> SUFFICES ASSUME NEW j \in u + n .. PageCount - 1, NEW i \in u .. u + n - 1,
                      PageAt(j) = PageAt(i)
               PROVE  FALSE
    OBVIOUS
  <2>1. i \in Nat /\ j \in Nat /\ i # j
    OBVIOUS
  <2> QED
    BY <1>3, <2>1
<1>6. \A j \in u .. PageCount - 1 : j \in u .. u + n - 1 \/ j \in u + n .. PageCount - 1
  OBVIOUS
<1> QED
  BY <1>1, <1>2, <1>4, <1>5, <1>6

(* A step of the manager is a step of the allocator or leaves it alone.    *)
LEMMA FramesStep ==
    ASSUME IInv, [Next]_vars
    PROVE  [Frames!Next]_<<AreaPages, granted>>
<1>1. PICK u : Inv(u)
  BY DEF IInv
<1>2. AreaPages = {PageAt(j) : j \in u .. PageCount - 1}
  BY <1>1, AreaPagesFact
<1>3. u \in Nat /\ u < PageCount /\ PageCount \in Nat
  BY <1>1, InvFacts
<1>4. PageAt(u) \in Pages
  <2>1. u \in 0 .. PageCount - 1
    BY <1>3
  <2> QED
    BY <2>1, PagesFact
<1>5. ASSUME Inv(u)', granted' = granted
      PROVE  UNCHANGED <<AreaPages, granted>>
  BY <1>2, <1>5, AreaPagesNext
<1>6. CASE AddNode
  <2>1. PICK m : m = u + 1
    OBVIOUS
  <2>2. Inv(u + 1)' /\ granted' = granted
    BY <1>1, <1>6, AddNodeStep
  <2>3. Inv(m)'
    BY <2>1, <2>2
  <2>4. AreaPages' = {PageAt(j) : j \in u + 1 .. PageCount - 1}
    BY <2>1, <2>3, AreaPagesNext
  <2>5. /\ Frames!Run(PageAt(u), 1) \in SUBSET AreaPages
        /\ {PageAt(j) : j \in u + 1 .. PageCount - 1} = AreaPages \ Frames!Run(PageAt(u), 1)
    <3>1. m \in Nat /\ m < PageCount
      BY <2>3, InvNext
    <3>2. 1 \in Nat \ {0} /\ u + 1 < PageCount
      BY <2>1, <3>1
    <3> QED
      BY <1>2, <1>3, <3>2, AreaShrinks
  <2>6. Frames!Run(PageAt(u), 1) = {PageAt(u)}
    <3>1. 1 \in Nat /\ u .. u + 1 - 1 = {u}
      BY <1>3
    <3>2. Frames!Run(PageAt(u), 1) = {PageAt(j) : j \in u .. u + 1 - 1}
      BY <1>3, <3>1, RunIs
    <3> QED
      BY <3>1, <3>2
  <2>7. PageAt(u) \in AreaPages /\ AreaPages' = AreaPages \ {PageAt(u)}
    BY <2>4, <2>5, <2>6
  <2>8. Frames!TakeForKernel(PageAt(u))
    BY <2>2, <2>7 DEF Frames!TakeForKernel
  <2>9. Frames!Next
    BY <1>4, <2>8 DEF Frames!Next
  <2> QED
    BY <2>9
<1>7. CASE Grant
  <2>1. PICK n \in 1 .. MaxLength :
              /\ n = call.length /\ n \in Nat \ {0}
              /\ GrantedType(call) \in GrantKinds
              /\ u + n < PageCount
              /\ Inv(u + n)'
              /\ granted' = Append(granted, [Object |-> PageAt(u), length |-> n,
                                             Type |-> GrantedType(call)])
    BY <1>1, <1>7, GrantStep
  <2>2. PICK m : m = u + n
    OBVIOUS
  <2>3. Inv(m)'
    BY <2>1, <2>2
  <2>4. AreaPages' = {PageAt(j) : j \in u + n .. PageCount - 1}
    BY <2>2, <2>3, AreaPagesNext
  <2>5. /\ Frames!Run(PageAt(u), n) \in SUBSET AreaPages
        /\ {PageAt(j) : j \in u + n .. PageCount - 1} = AreaPages \ Frames!Run(PageAt(u), n)
    BY <1>2, <1>3, <2>1, AreaShrinks
  <2>6. PICK kind : kind = GrantedType(call)
    OBVIOUS
  <2>7. Frames!Grant(PageAt(u), n, kind)
    BY <2>1, <2>4, <2>5, <2>6 DEF Frames!Grant
  <2>8. kind \in {"FRAME_MEMORY", "VIRTUAL_MEMORY_PAGING_STRUCTURE"}
    BY <2>1, <2>6 DEF GrantKinds
  <2>9. Frames!Next
    BY <1>4, <2>7, <2>8 DEF Frames!Next
  <2> QED
    BY <2>9
<1>8. CASE \E c \in Calls : MemorySuffices(c) /\ Call(c)
  BY <1>1, <1>5, <1>8, CallStep
<1>9. CASE FinishDeinit
  BY <1>1, <1>5, <1>9, FinishDeinitStep
<1>10. CASE UNCHANGED vars
  <2>1. granted' = granted
    BY <1>10 DEF vars
  <2> QED
    BY <1>1, <1>5, <1>10, <2>1, StutterStep
<1>11. Next => AddNode \/ Grant \/ FinishDeinit
               \/ \E c \in Calls : MemorySuffices(c) /\ Call(c)
  BY DEF Next, Return
<1> QED
  BY <1>6, <1>7, <1>8, <1>9, <1>10, <1>11

(* The initial state of the manager is one of the allocator.               *)
LEMMA FramesInit ==
    ASSUME Init
    PROVE  Frames!Init
<1>1. PICK u : Inv(u)
  BY InitInv DEF IInv
<1>2. AreaPages = {PageAt(j) : j \in u .. PageCount - 1} /\ u \in Nat
  BY <1>1, AreaPagesFact, InvFacts
<1>3. \A j \in u .. PageCount - 1 : j \in 0 .. PageCount - 1
  BY <1>2
<1>4. Pages = {PageAt(j) : j \in 0 .. PageCount - 1}
  BY PagesFact
<1>5. AreaPages \subseteq Pages
  BY <1>2, <1>3, <1>4
<1> QED
  BY <1>5 DEF Init, Frames!Init

(* The fields keep their types.                                            *)
THEOREM TypeHolds == Spec => []TypeOK
<1>1. IInv => TypeOK
  BY TypeFact DEF IInv
<1> QED
  BY <1>1, InvariantHolds, PTL

(* No function of the manager ever finds the slab without a slot, reads an *)
(* array SplitUntyped did not write or spins, however often CheckSpace     *)
(* itself has spent slots; between calls two slots are left.               *)
THEOREM SlotsSuffice == Spec => []SlotsNeverRunOut
<1>1. IInv => SlotsNeverRunOut
  BY SlotsFact DEF IInv
<1> QED
  BY <1>1, InvariantHolds, PTL

(* No page of the region is lost or has two owners.                        *)
THEOREM Conservation == Spec => []MemoryConserved
<1>1. IInv => MemoryConserved
  BY ConservedFact DEF IInv
<1> QED
  BY <1>1, InvariantHolds, PTL

(* The address tree leads from every page handed out to a capability of    *)
(* its type and size.                                                      *)
THEOREM GrantsAreAddressable == Spec => []GrantedAreAddressable
<1>1. IInv => GrantedAreAddressable
  BY AddressableFact DEF IInv
<1> QED
  BY <1>1, InvariantHolds, PTL

(* Between calls untyped memory is described once and not in use.          *)
THEOREM UntypedIsNotShared == Spec => []UntypedIsExclusive
<1>1. IInv => UntypedIsExclusive
  BY ExclusiveFact DEF IInv
<1> QED
  BY <1>1, InvariantHolds, PTL

(* FreeSlabs and UsedSlabs stay intact and the counters exact, although    *)
(* the manager frees slots in whichever node they lie.                     *)
THEOREM ListsStayIntact == Spec => []SlotListsIntact
<1>1. IInv => SlotListsIntact
  BY ListsFact DEF IInv
<1> QED
  BY <1>1, InvariantHolds, PTL

(* Once the manager is inactive, as many capabilities can be generated as  *)
(* Deinit has reserved slots for, in a run that begins anywhere: each gets *)
(* a free slot of its own, and the slab neither faults nor spins.          *)
THEOREM Reservation == Spec => []ReservedForUser
<1>1. IInv => ReservedForUser
  BY ReservedFact DEF IInv
<1> QED
  BY <1>1, InvariantHolds, PTL

(* The manager keeps what the allocator promises: every request returns    *)
(* consecutive pages that nobody else holds or will get.                   *)
THEOREM FramesRefinement == Spec => ImplementsFrames
<1>1. Init => Frames!Init
  BY FramesInit
<1>2. IInv /\ [Next]_vars => [Frames!Next]_<<AreaPages, granted>>
  BY FramesStep
<1>3. Spec => Frames!Spec
  BY <1>1, <1>2, InvariantHolds, PTL DEF Spec, Frames!Spec
<1> QED
  BY <1>3 DEF ImplementsFrames

=============================================================================
