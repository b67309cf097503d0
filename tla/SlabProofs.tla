----------------------------- MODULE SlabProofs -----------------------------
(***************************************************************************)
(* The safety of the slab of SlabSpec, for every set of pages and every    *)
(* number of slots per node: the lists hold the nodes their counters call  *)
(* for, the counters count, and so AllocateSlabSlot always returns and     *)
(* only fails when every slot is taken.                                    *)
(***************************************************************************)
EXTENDS SlabSpec, LinkedListProofs

SlotTypes == {"NULL_CAPABILITY", "RESERVED_SLOT"}

SlotStates == [IsMasked : BOOLEAN, Type : SlotTypes]

SlabStates ==
    [links : Heaps(Pages, Pages, SlabLists),
     FreeElements : [Pages -> 0 .. CAPABILITIES_PER_NODE],
     Slots : [Pages -> [SlotIndex -> SlotStates]],
     Spins : BOOLEAN]

(* The nodes of N that the counters F place on the list l.                 *)
Placed(N, F, l) == {n \in N : ListFor(F[n]) = l}

(* Every list holds just the nodes the counters place on it.               *)
AllPlaced(h, N, F) == \A l \in SlabLists : Holds(Pages, h, l, Placed(N, F, l))

Recounted(F, n, f) == [F EXCEPT ![n] = f]

Retyped(X, n, i, v) == [X EXCEPT ![n][i].Type = v]

Counted(s, n) == s.FreeElements[n] = Cardinality(FreeIndices(s, n))

(* The slab s is sound with the nodes of N.                                *)
Sound(s, N) ==
    /\ s \in SlabStates
    /\ \A n \in N : Counted(s, n)
    /\ AllPlaced(s.links, N, s.FreeElements)
    /\ ~s.links.Fault
    /\ ~s.Spins

(* The inductive invariant: the lists and the counters have to be taken    *)
(* together, as the counters decide between which lists a node moves.      *)
IInv == nodes \subseteq Pages /\ Sound(slab, nodes)

-----------------------------------------------------------------------------

(* A nonempty set of indices has a least element.                          *)
LEMMA LeastIndex ==
    ASSUME NEW S \in SUBSET Nat, S # {}
    PROVE  Least(S) \in S
BY LeastElement DEF Least

(* The slots of a node are finitely many; a wholly free node counts all.   *)
LEMMA SlotCount ==
    /\ CAPABILITIES_PER_NODE \in Nat \ {0, 1}
    /\ SlotIndex \subseteq Nat
    /\ IsFiniteSet(SlotIndex)
    /\ Cardinality(SlotIndex) = CAPABILITIES_PER_NODE
BY CapabilitiesAssumption, FS_Interval DEF SlotIndex

(* A node has finitely many free slots, at most all of them.               *)
LEMMA FreeCount ==
    ASSUME NEW s, NEW n
    PROVE  /\ FreeIndices(s, n) \in SUBSET SlotIndex
           /\ IsFiniteSet(FreeIndices(s, n))
           /\ Cardinality(FreeIndices(s, n)) \in 0 .. CAPABILITIES_PER_NODE
<1>1. FreeIndices(s, n) \in SUBSET SlotIndex
  BY DEF FreeIndices
<1>2. /\ IsFiniteSet(FreeIndices(s, n))
      /\ Cardinality(FreeIndices(s, n)) <= CAPABILITIES_PER_NODE
  BY <1>1, SlotCount, FS_Subset
<1> QED
  BY <1>1, <1>2, SlotCount, FS_CardinalityType

(* The three lists and the counters that call for them.                    *)
LEMMA ListForCases ==
    ASSUME NEW f \in 0 .. CAPABILITIES_PER_NODE
    PROVE  /\ ListFor(f) \in SlabLists
           /\ ListFor(f) = "FreeSlabs" <=> f = CAPABILITIES_PER_NODE
           /\ ListFor(f) = "FullSlabs" <=> f = 0
           /\ ListFor(f) = "UsedSlabs" <=> f # 0 /\ f # CAPABILITIES_PER_NODE
BY CapabilitiesAssumption DEF ListFor, SlabLists

(* The first element of a list is one of those it holds.                   *)
LEMMA HeadIsHeld ==
    ASSUME NEW h, NEW l, NEW S, Holds(Pages, h, l, S)
    PROVE  /\ h.Head[l] = NULL => S = {}
           /\ h.Head[l] # NULL => h.Head[l] \in S
<1>1. PICK s \in Seq(Pages) : Items(s) = S /\ IsChain(h, l, s)
  BY DEF Holds
<1>2. CASE s = <<>>
  BY <1>1, <1>2, EmptySeq DEF IsChain, Items
<1>3. CASE s # <<>>
  <2>1. Len(s) \in Nat \ {0} /\ h.Head[l] = s[1]
    BY <1>1, <1>3, EmptySeq DEF IsChain
  <2>2. 1 \in 1 .. Len(s)
    BY <2>1
  <2>3. s[1] \in Pages /\ s[1] \in S
    BY <1>1, <2>2, ElementOfSeq DEF Items
  <2> QED
    BY <2>1, <2>3, PagesAssumption
<1> QED
  BY <1>2, <1>3

IsEnd(h, l, n) == n \in {h.Head[l], h.Tail[l]}

Relinked(h, n, l, m) == AddElementToList(RemoveElementFromList(h, n, l), n, m)

(* Moving an end node along with its counter keeps every node placed.      *)
LEMMA MoveKeepsPlaces ==
    ASSUME NEW h \in Heaps(Pages, Pages, SlabLists), NEW N \in SUBSET Pages,
           NEW F \in [Pages -> 0 .. CAPABILITIES_PER_NODE], AllPlaced(h, N, F),
           NEW n \in N, NEW f \in 0 .. CAPABILITIES_PER_NODE,
           NEW l \in SlabLists, n \in Placed(N, F, l),
           NEW m \in SlabLists, n \in Placed(N, Recounted(F, n, f), m), l # m,
           IsEnd(h, l, n)
    PROVE  /\ Relinked(h, n, l, m) \in Heaps(Pages, Pages, SlabLists)
           /\ AllPlaced(Relinked(h, n, l, m), N, Recounted(F, n, f))
           /\ Relinked(h, n, l, m).Fault = h.Fault
<1> DEFINE g == Relinked(h, n, l, m)
           G == Recounted(F, n, f)
           P == [k \in SlabLists |-> Placed(N, F, k)]
<1>1. n \in Pages /\ NULL \notin Pages
  BY PagesAssumption
<1>2. HoldsAll(Pages, SlabLists, h, P)
  BY DEF HoldsAll, AllPlaced, Placed
<1>3. \A k \in SlabLists : P[k] = Placed(N, F, k)
  OBVIOUS
<1> HIDE DEF P
<1>4. /\ g \in Heaps(Pages, Pages, SlabLists)
      /\ g.Fault = h.Fault
      /\ HoldsAll(Pages, SlabLists, g, Moved(SlabLists, P, n, l, m))
  BY <1>1, <1>2, HoldsMove DEF Relinked, IsEnd
<1> HIDE DEF g
<1>5. \A x \in N : G[x] = IF x = n THEN f ELSE F[x]
  BY DEF Recounted
<1> HIDE DEF G
<1>6. ASSUME NEW k \in SlabLists
      PROVE  Placed(N, G, k) = Moved(SlabLists, P, n, l, m)[k]
  <2>1. Moved(SlabLists, P, n, l, m)[k] = IF k = l THEN P[k] \ {n}
                                          ELSE IF k = m THEN P[k] \cup {n} ELSE P[k]
    BY DEF Moved
  <2>2. /\ ListFor(F[n]) = l /\ ListFor(f) = m
    BY <1>5 DEF Placed, G
  <2> QED
    BY <1>3, <1>5, <2>1, <2>2 DEF Placed
<1>7. AllPlaced(g, N, G)
  BY <1>4, <1>6 DEF AllPlaced, HoldsAll
<1> QED
  BY <1>4, <1>7 DEF g, G

(* A new node joins those that are wholly free.                            *)
LEMMA AddKeepsPlaces ==
    ASSUME NEW h \in Heaps(Pages, Pages, SlabLists), NEW N \in SUBSET Pages,
           NEW F \in [Pages -> 0 .. CAPABILITIES_PER_NODE], AllPlaced(h, N, F),
           NEW n \in Pages \ N,
           NEW a, a = AddElementToList(SetPrevious(SetNext(h, n, NULL), n, NULL), n, "FreeSlabs")
    PROVE  /\ a \in Heaps(Pages, Pages, SlabLists)
           /\ a.Fault = h.Fault
           /\ AllPlaced(a, N \cup {n}, Recounted(F, n, CAPABILITIES_PER_NODE))
<1> DEFINE G == Recounted(F, n, CAPABILITIES_PER_NODE)
           P == [k \in SlabLists |-> Placed(N, F, k)]
<1>1. NULL \notin Pages /\ "FreeSlabs" \in SlabLists
  BY PagesAssumption DEF SlabLists
<1>2. HoldsAll(Pages, SlabLists, h, P)
  BY DEF HoldsAll, AllPlaced, Placed
<1>3. \A k \in SlabLists : P[k] = Placed(N, F, k) /\ n \notin P[k]
  BY DEF Placed
<1> HIDE DEF P
<1>4. /\ a \in Heaps(Pages, Pages, SlabLists)
      /\ a.Fault = h.Fault
      /\ HoldsAll(Pages, SlabLists, a, Gained(SlabLists, P, n, "FreeSlabs"))
  BY <1>1, <1>2, <1>3, HoldsAdded
<1>5. \A x \in N \cup {n} : G[x] = IF x = n THEN CAPABILITIES_PER_NODE ELSE F[x]
  BY DEF Recounted
<1> HIDE DEF G
<1>6. ASSUME NEW k \in SlabLists
      PROVE  Placed(N \cup {n}, G, k) = Gained(SlabLists, P, n, "FreeSlabs")[k]
  <2>1. Gained(SlabLists, P, n, "FreeSlabs")[k] = IF k = "FreeSlabs" THEN P[k] \cup {n} ELSE P[k]
    BY DEF Gained
  <2>2. ListFor(CAPABILITIES_PER_NODE) = "FreeSlabs"
    BY DEF ListFor
  <2> QED
    BY <1>3, <1>5, <2>1, <2>2 DEF Placed
<1>7. AllPlaced(a, N \cup {n}, G)
  BY <1>4, <1>6 DEF AllPlaced, HoldsAll
<1> QED
  BY <1>4, <1>7 DEF G

(* AddSlabNode keeps a sound slab sound: this is also how it begins.  The  *)
(* slots of the new node are free, those of the others as they were.       *)
LEMMA AddSound ==
    ASSUME NEW N \in SUBSET Pages, NEW s, Sound(s, N), NEW n \in Pages \ N
    PROVE  /\ Sound(AddSlabNode(s, n), N \cup {n})
           /\ \A m \in Pages \ {n} : AddSlabNode(s, n).Slots[m] = s.Slots[m]
           /\ \A i \in SlotIndex : AddSlabNode(s, n).Slots[n][i].Type = "NULL_CAPABILITY"
<1> DEFINE a == AddElementToList(SetPrevious(SetNext(s.links, n, NULL), n, NULL), n, "FreeSlabs")
           t == AddSlabNode(s, n)
<1>1. /\ s \in SlabStates
      /\ s.links \in Heaps(Pages, Pages, SlabLists)
      /\ s.FreeElements \in [Pages -> 0 .. CAPABILITIES_PER_NODE]
      /\ s.Slots \in [Pages -> [SlotIndex -> SlotStates]]
      /\ AllPlaced(s.links, N, s.FreeElements)
      /\ ~s.links.Fault /\ ~s.Spins
  BY DEF Sound, SlabStates
<1>2. /\ a \in Heaps(Pages, Pages, SlabLists)
      /\ a.Fault = s.links.Fault
      /\ AllPlaced(a, N \cup {n}, Recounted(s.FreeElements, n, CAPABILITIES_PER_NODE))
  BY <1>1, AddKeepsPlaces
<1> DEFINE fresh == [i \in SlotIndex |->
               [s.Slots[n][i] EXCEPT !.IsMasked = FALSE, !.Type = "NULL_CAPABILITY"]]
<1>3. fresh \in [SlotIndex -> SlotStates] /\ \A i \in SlotIndex : fresh[i].Type = "NULL_CAPABILITY"
  <2>1. ASSUME NEW i \in SlotIndex
        PROVE  /\ [s.Slots[n][i] EXCEPT !.IsMasked = FALSE, !.Type = "NULL_CAPABILITY"] \in SlotStates
               /\ fresh[i].Type = "NULL_CAPABILITY"
    <3>1. s.Slots[n][i] \in SlotStates
      BY <1>1
    <3> QED
      BY <3>1 DEF SlotStates, SlotTypes
  <2> QED
    BY <2>1
<1>4. /\ t.links = a
      /\ t.FreeElements = [s.FreeElements EXCEPT ![n] = CAPABILITIES_PER_NODE]
      /\ t.Slots = [s.Slots EXCEPT ![n] = fresh]
      /\ t.Spins = s.Spins
      /\ t \in SlabStates
  <2> HIDE DEF a
  <2>1. t = [s EXCEPT !.links = a, !.FreeElements[n] = CAPABILITIES_PER_NODE, !.Slots[n] = fresh]
    BY DEF AddSlabNode, a
  <2> HIDE DEF t, fresh
  <2>2. /\ [s.FreeElements EXCEPT ![n] = CAPABILITIES_PER_NODE] \in [Pages -> 0 .. CAPABILITIES_PER_NODE]
        /\ [s.Slots EXCEPT ![n] = fresh] \in [Pages -> [SlotIndex -> SlotStates]]
    BY <1>1, <1>3, CapabilitiesAssumption
  <2> QED
    BY <1>1, <1>2, <2>1, <2>2 DEF SlabStates
<1> HIDE DEF a, t, fresh
<1>5. ASSUME NEW m \in N \cup {n}
      PROVE  Counted(t, m)
  <2>1. CASE m = n
    <3>1. FreeIndices(t, n) = SlotIndex
      BY <1>1, <1>3, <1>4 DEF FreeIndices
    <3> QED
      BY <1>1, <1>4, <2>1, <3>1, SlotCount DEF Counted
  <2>2. CASE m # n
    <3>1. t.Slots[m] = s.Slots[m] /\ t.FreeElements[m] = s.FreeElements[m]
      BY <1>1, <1>4, <2>2
    <3>2. Counted(s, m)
      BY <2>2 DEF Sound
    <3> QED
      BY <3>1, <3>2 DEF Counted, FreeIndices
  <2> QED
    BY <2>1, <2>2
<1>6. Sound(t, N \cup {n})
  BY <1>1, <1>2, <1>4, <1>5 DEF Sound, Recounted
<1>7. /\ \A m \in Pages \ {n} : t.Slots[m] = s.Slots[m]
      /\ \A i \in SlotIndex : t.Slots[n][i].Type = "NULL_CAPABILITY"
  BY <1>1, <1>3, <1>4
<1> QED
  BY <1>6, <1>7 DEF t

(* The node allocation looks into is the first of its list and has a free  *)
(* slot; there is none only when no node has one.                          *)
LEMMA AllocationNodeIsFree ==
    ASSUME NEW N \in SUBSET Pages, NEW s, Sound(s, N), NEW n, n = AllocationNode(s)
    PROVE  /\ n = NULL => \A m \in N : s.FreeElements[m] = 0
           /\ n # NULL =>
                /\ n \in N
                /\ s.FreeElements[n] \in 1 .. CAPABILITIES_PER_NODE
                /\ n = s.links.Head[ListFor(s.FreeElements[n])]
<1> DEFINE F == s.FreeElements
<1>1. /\ F \in [Pages -> 0 .. CAPABILITIES_PER_NODE]
      /\ \A l \in SlabLists : Holds(Pages, s.links, l, Placed(N, F, l))
  BY DEF Sound, SlabStates, AllPlaced
<1> HIDE DEF F
<1>2. \A l \in SlabLists :
        /\ s.links.Head[l] = NULL => Placed(N, F, l) = {}
        /\ s.links.Head[l] # NULL => s.links.Head[l] \in Placed(N, F, l)
  BY <1>1, HeadIsHeld
<1>3. \A m \in N, l \in SlabLists : m \in Placed(N, F, l) <=> ListFor(F[m]) = l
  BY DEF Placed
<1>4. \A m \in N : F[m] \in 0 .. CAPABILITIES_PER_NODE
  BY <1>1
<1>5. "UsedSlabs" \in SlabLists /\ "FreeSlabs" \in SlabLists
  BY DEF SlabLists
<1>6. CASE s.links.Head["UsedSlabs"] # NULL
  <2>1. n = s.links.Head["UsedSlabs"] /\ n \in Placed(N, F, "UsedSlabs")
    BY <1>2, <1>5, <1>6 DEF AllocationNode
  <2>2. n \in N /\ ListFor(F[n]) = "UsedSlabs"
    BY <2>1 DEF Placed
  <2>3. F[n] # 0
    BY <1>4, <2>2, ListForCases
  <2> QED
    BY <1>4, <1>6, <2>1, <2>2, <2>3, CapabilitiesAssumption DEF F
<1>7. CASE s.links.Head["UsedSlabs"] = NULL /\ s.links.Head["FreeSlabs"] # NULL
  <2>1. n = s.links.Head["FreeSlabs"] /\ n \in Placed(N, F, "FreeSlabs")
    BY <1>2, <1>5, <1>7 DEF AllocationNode
  <2>2. n \in N /\ ListFor(F[n]) = "FreeSlabs"
    BY <2>1 DEF Placed
  <2>3. F[n] # 0
    BY <1>4, <2>2, ListForCases, CapabilitiesAssumption
  <2> QED
    BY <1>4, <1>7, <2>1, <2>2, <2>3, CapabilitiesAssumption DEF F
<1>8. CASE s.links.Head["UsedSlabs"] = NULL /\ s.links.Head["FreeSlabs"] = NULL
  <2>1. n = NULL
    BY <1>8 DEF AllocationNode
  <2>2. ASSUME NEW m \in N
        PROVE  F[m] = 0
    <3>1. m \notin Placed(N, F, "UsedSlabs") /\ m \notin Placed(N, F, "FreeSlabs")
      BY <1>2, <1>5, <1>8
    <3>2. ListFor(F[m]) # "UsedSlabs" /\ ListFor(F[m]) # "FreeSlabs"
      BY <1>3, <1>5, <3>1
    <3> QED
      BY <1>4, <3>2, ListForCases
  <2> QED
    BY <2>1, <2>2 DEF F
<1> QED
  BY <1>6, <1>7, <1>8

(* Writing the type of one slot.                                           *)
LEMMA SlotChange ==
    ASSUME NEW X \in [Pages -> [SlotIndex -> SlotStates]], NEW n \in Pages,
           NEW i \in SlotIndex, NEW v \in SlotTypes
    PROVE  LET Y == Retyped(X, n, i, v)
           IN  /\ Y \in [Pages -> [SlotIndex -> SlotStates]]
               /\ \A m \in Pages \ {n} : Y[m] = X[m]
               /\ Y[n][i].Type = v
               /\ \A j \in SlotIndex \ {i} : Y[n][j] = X[n][j]
<1>1. X[n] \in [SlotIndex -> SlotStates] /\ X[n][i] \in SlotStates
  OBVIOUS
<1> DEFINE c == [X[n][i] EXCEPT !.Type = v]
           y == [X[n] EXCEPT ![i] = c]
<1>2. c \in SlotStates /\ c.Type = v
  BY <1>1 DEF SlotStates
<1> HIDE DEF c
<1>3. y \in [SlotIndex -> SlotStates] /\ y[i] = c /\ \A j \in SlotIndex \ {i} : y[j] = X[n][j]
  BY <1>1, <1>2
<1>4. Retyped(X, n, i, v) = [X EXCEPT ![n] = y]
  BY DEF c, Retyped
<1> HIDE DEF y
<1> QED
  BY <1>2, <1>3, <1>4

(* The type of a slot, the counter of its node and the links change.       *)
Recount(s, n, i, v, f, g) ==
    [s EXCEPT !.Slots[n][i].Type = v, !.FreeElements[n] = f, !.links = g]

(* The slab t is s with the type of the slot <<n, i>> set to v, up to the  *)
(* counters and the lists.                                                 *)
RetypesSlot(s, t, n, i, v) ==
    \E f \in 0 .. CAPABILITIES_PER_NODE, g \in Heaps(Pages, Pages, SlabLists) :
        t = Recount(s, n, i, v, f, g)

(* Such a change touches no other slot and no other counter.               *)
LEMMA RecountEffect ==
    ASSUME NEW s \in SlabStates, NEW n \in Pages, NEW i \in SlotIndex,
           NEW v \in SlotTypes,
           NEW f \in 0 .. CAPABILITIES_PER_NODE,
           NEW g \in Heaps(Pages, Pages, SlabLists),
           NEW t, t = Recount(s, n, i, v, f, g)
    PROVE  /\ t \in SlabStates
           /\ t.links = g
           /\ t.Spins = s.Spins
           /\ t.FreeElements = Recounted(s.FreeElements, n, f)
           /\ t.FreeElements[n] = f
           /\ \A m \in Pages \ {n} : t.FreeElements[m] = s.FreeElements[m] /\ t.Slots[m] = s.Slots[m]
           /\ t.Slots[n][i].Type = v
           /\ \A j \in SlotIndex \ {i} : t.Slots[n][j] = s.Slots[n][j]
<1> DEFINE X == s.Slots
           Y == Retyped(X, n, i, v)
           G == Recounted(s.FreeElements, n, f)
<1>1. /\ s.FreeElements \in [Pages -> 0 .. CAPABILITIES_PER_NODE]
      /\ X \in [Pages -> [SlotIndex -> SlotStates]]
  BY DEF SlabStates
<1>2. /\ G \in [Pages -> 0 .. CAPABILITIES_PER_NODE]
      /\ G[n] = f
      /\ \A m \in Pages \ {n} : G[m] = s.FreeElements[m]
  BY <1>1 DEF Recounted
<1>3. t = [s EXCEPT !.Slots = Y, !.FreeElements = G, !.links = g]
  BY DEF Recount, Recounted, Retyped, SlabStates
<1> HIDE DEF X, G
<1>4. /\ Y \in [Pages -> [SlotIndex -> SlotStates]]
      /\ \A m \in Pages \ {n} : Y[m] = X[m]
      /\ Y[n][i].Type = v
      /\ \A j \in SlotIndex \ {i} : Y[n][j] = X[n][j]
  BY <1>1, SlotChange
<1> HIDE DEF Y
<1>5. /\ t \in SlabStates
      /\ t.Slots = Y /\ t.FreeElements = G /\ t.links = g /\ t.Spins = s.Spins
  BY <1>2, <1>3, <1>4 DEF SlabStates
<1> QED
  BY <1>2, <1>4, <1>5 DEF X, G

(* A slab stays sound when a slot changes together with its node's counter *)
(* and the lists follow the counter.                                       *)
LEMMA RecountSound ==
    ASSUME NEW N \in SUBSET Pages, NEW s, Sound(s, N), NEW n \in N,
           NEW i \in SlotIndex, NEW v \in SlotTypes,
           NEW f \in 0 .. CAPABILITIES_PER_NODE,
           v = "NULL_CAPABILITY" => f = Cardinality(FreeIndices(s, n) \cup {i}),
           v = "RESERVED_SLOT" => f = Cardinality(FreeIndices(s, n) \ {i}),
           NEW g \in Heaps(Pages, Pages, SlabLists), g.Fault = s.links.Fault,
           AllPlaced(g, N, Recounted(s.FreeElements, n, f))
    PROVE  Sound(Recount(s, n, i, v, f, g), N)
<1> DEFINE t == Recount(s, n, i, v, f, g)
<1>1. s \in SlabStates /\ ~s.links.Fault /\ ~s.Spins
  BY DEF Sound
<1>2. /\ t \in SlabStates
      /\ t.links = g
      /\ t.Spins = s.Spins
      /\ t.FreeElements = Recounted(s.FreeElements, n, f)
      /\ t.FreeElements[n] = f
      /\ \A m \in Pages \ {n} : t.FreeElements[m] = s.FreeElements[m] /\ t.Slots[m] = s.Slots[m]
      /\ t.Slots[n][i].Type = v
      /\ \A j \in SlotIndex \ {i} : t.Slots[n][j] = s.Slots[n][j]
  BY <1>1, RecountEffect
<1> HIDE DEF t
<1>3. Counted(t, n)
  <2>1. CASE v = "NULL_CAPABILITY"
    <3>1. FreeIndices(t, n) = FreeIndices(s, n) \cup {i}
      BY <1>2, <2>1 DEF FreeIndices
    <3> QED
      BY <1>2, <2>1, <3>1 DEF Counted
  <2>2. CASE v = "RESERVED_SLOT"
    <3>1. FreeIndices(t, n) = FreeIndices(s, n) \ {i}
      BY <1>2, <2>2 DEF FreeIndices
    <3> QED
      BY <1>2, <2>2, <3>1 DEF Counted
  <2> QED
    BY <2>1, <2>2 DEF SlotTypes
<1>4. ASSUME NEW m \in N \ {n}
      PROVE  Counted(t, m)
  <2>1. Counted(s, m)
    BY DEF Sound
  <2> QED
    BY <1>2, <2>1 DEF Counted, FreeIndices
<1>5. AllPlaced(t.links, N, t.FreeElements)
  BY <1>2
<1> QED
  BY <1>1, <1>2, <1>3, <1>4, <1>5 DEF Sound, t

(* A counter that calls for the same list as before moves no node.         *)
LEMMA StayKeepsPlaces ==
    ASSUME NEW h, NEW N \in SUBSET Pages,
           NEW F \in [Pages -> 0 .. CAPABILITIES_PER_NODE], AllPlaced(h, N, F),
           NEW n \in N, NEW f \in 0 .. CAPABILITIES_PER_NODE, ListFor(f) = ListFor(F[n])
    PROVE  AllPlaced(h, N, Recounted(F, n, f))
<1> DEFINE G == Recounted(F, n, f)
<1>1. \A x \in N : G[x] = IF x = n THEN f ELSE F[x]
  BY DEF Recounted
<1> HIDE DEF G
<1>2. \A k \in SlabLists : Placed(N, G, k) = Placed(N, F, k)
  BY <1>1 DEF Placed
<1>3. AllPlaced(h, N, G)
  BY <1>2 DEF AllPlaced
<1> QED
  BY <1>3 DEF G

(* AllocateSlabSlot keeps the slab sound, and fails only when every slot   *)
(* of every node is taken.                                                 *)
LEMMA AllocateSound ==
    ASSUME NEW N \in SUBSET Pages, NEW s, Sound(s, N)
    PROVE  /\ Sound(AllocateSlabSlot(s).slab, N)
           /\ AllocateSlabSlot(s).slot = NULL =>
                \A n \in N, i \in SlotIndex : i \notin FreeIndices(s, n)
           /\ \/ AllocateSlabSlot(s).slab = s
              \/ \E n \in N : \E i \in FreeIndices(s, n) :
                    RetypesSlot(s, AllocateSlabSlot(s).slab, n, i, "RESERVED_SLOT")
<1> DEFINE n == AllocationNode(s)
           i == Least(FreeIndices(s, n))
           F == s.FreeElements
           f == F[n] - 1
           r == AllocateSlabSlot(s)
<1>0. /\ s \in SlabStates
      /\ s.links \in Heaps(Pages, Pages, SlabLists)
      /\ F \in [Pages -> 0 .. CAPABILITIES_PER_NODE]
      /\ AllPlaced(s.links, N, F)
  BY DEF Sound, SlabStates
<1>1. CASE n = NULL
  <2>1. r.slab = s
    BY <1>1 DEF AllocateSlabSlot
  <2>2. ASSUME NEW m \in N
        PROVE  FreeIndices(s, m) = {}
    <3>1. s.FreeElements[m] = 0
      BY <1>1, AllocationNodeIsFree
    <3>2. Cardinality(FreeIndices(s, m)) = 0
      BY <3>1 DEF Sound, Counted
    <3> QED
      BY <3>2, FreeCount, FS_EmptySet
  <2> QED
    BY <2>1, <2>2
<1>2. CASE n # NULL
  <2>1. /\ n \in N
        /\ F[n] \in 1 .. CAPABILITIES_PER_NODE
        /\ IsEnd(s.links, ListFor(F[n]), n)
    BY <1>2, AllocationNodeIsFree DEF IsEnd
  <2>2. /\ F[n] = Cardinality(FreeIndices(s, n))
        /\ FreeIndices(s, n) # {}
    <3>1. F[n] = Cardinality(FreeIndices(s, n))
      BY <2>1 DEF Sound, Counted
    <3> QED
      BY <2>1, <3>1, FreeCount, FS_EmptySet
  <2>3. i \in FreeIndices(s, n) /\ i \in SlotIndex
    <3>1. FreeIndices(s, n) \in SUBSET Nat
      BY FreeCount, SlotCount
    <3> QED
      BY <2>2, <3>1, LeastIndex, FreeCount
  <2>4. f \in 0 .. CAPABILITIES_PER_NODE /\ f = Cardinality(FreeIndices(s, n) \ {i})
    <3> DEFINE I == FreeIndices(s, n)
    <3>1. IsFiniteSet(I) /\ i \in I /\ Cardinality(I) = F[n]
      BY <2>2, <2>3, FreeCount
    <3> HIDE DEF I, i
    <3>2. Cardinality(I \ {i}) = F[n] - 1
      BY <3>1, FS_RemoveElement
    <3> QED
      BY <2>1, <3>2, SlotCount DEF I, i
  <2> DEFINE g == IF F[n] = CAPABILITIES_PER_NODE
                  THEN Relinked(s.links, n, "FreeSlabs", "UsedSlabs")
                  ELSE IF F[n] = 1
                  THEN Relinked(s.links, n, "UsedSlabs", "FullSlabs")
                  ELSE s.links
  <2>5. /\ r.slot # NULL
        /\ r.slab = Recount(s, n, i, "RESERVED_SLOT", f, g)
    <3> HIDE DEF n, i
    <3>1. r.slot = <<n, i>> /\ <<n, i>> \in Pages \X SlotIndex
      BY <1>2, <2>1, <2>2, <2>3 DEF AllocateSlabSlot, n, i
    <3>2. r.slab = Recount(s, n, i, "RESERVED_SLOT", f, g)
      <4> DEFINE reserved == [s EXCEPT !.Slots[n][i].Type = "RESERVED_SLOT"]
                 moved == IF F[n] = CAPABILITIES_PER_NODE
                          THEN MoveNode(reserved, n, "FreeSlabs", "UsedSlabs")
                          ELSE IF F[n] = 1
                          THEN MoveNode(reserved, n, "UsedSlabs", "FullSlabs")
                          ELSE reserved
      <4>1. r.slab = [moved EXCEPT !.FreeElements[n] = @ - 1]
        BY <1>2, <2>2 DEF AllocateSlabSlot, n, i
      <4>2. moved = [s EXCEPT !.Slots[n][i].Type = "RESERVED_SLOT", !.links = g]
        BY <1>0 DEF MoveNode, Relinked, SlabStates
      <4> HIDE DEF moved, r, g
      <4> QED
        BY <1>0, <4>1, <4>2 DEF Recount, SlabStates
    <3> QED
      BY <3>1, <3>2, PagesAssumption
  <2>6. /\ g \in Heaps(Pages, Pages, SlabLists)
        /\ g.Fault = s.links.Fault
        /\ AllPlaced(g, N, Recounted(F, n, f))
    <3> DEFINE l == ListFor(F[n])
               m == ListFor(f)
    <3>1. /\ l \in SlabLists /\ m \in SlabLists
          /\ n \in Placed(N, F, l)
          /\ n \in Placed(N, Recounted(F, n, f), m)
          /\ IsEnd(s.links, l, n)
      BY <1>0, <2>1, <2>4, ListForCases DEF Placed, Recounted
    <3>2. /\ F[n] = CAPABILITIES_PER_NODE =>
               l = "FreeSlabs" /\ m = "UsedSlabs" /\ g = Relinked(s.links, n, l, m)
          /\ F[n] # CAPABILITIES_PER_NODE /\ F[n] = 1 =>
               l = "UsedSlabs" /\ m = "FullSlabs" /\ g = Relinked(s.links, n, l, m)
          /\ F[n] # CAPABILITIES_PER_NODE /\ F[n] # 1 => l = m /\ g = s.links
      BY <2>1, <2>4, CapabilitiesAssumption DEF ListFor
    <3> HIDE DEF g, f, n, F, l, m
    <3>3. ASSUME l # m
          PROVE  /\ Relinked(s.links, n, l, m) \in Heaps(Pages, Pages, SlabLists)
                 /\ AllPlaced(Relinked(s.links, n, l, m), N, Recounted(F, n, f))
                 /\ Relinked(s.links, n, l, m).Fault = s.links.Fault
      <4> DEFINE h == s.links
      <4>1. /\ h \in Heaps(Pages, Pages, SlabLists)
            /\ F \in [Pages -> 0 .. CAPABILITIES_PER_NODE]
            /\ AllPlaced(h, N, F)
            /\ n \in N /\ f \in 0 .. CAPABILITIES_PER_NODE
            /\ IsEnd(h, l, n)
        BY <1>0, <2>1, <2>4, <3>1
      <4> HIDE DEF h
      <4>2. /\ Relinked(h, n, l, m) \in Heaps(Pages, Pages, SlabLists)
            /\ AllPlaced(Relinked(h, n, l, m), N, Recounted(F, n, f))
            /\ Relinked(h, n, l, m).Fault = h.Fault
        BY <3>1, <3>3, <4>1, MoveKeepsPlaces
      <4> QED
        BY <4>2 DEF h
    <3>4. l = m => AllPlaced(s.links, N, Recounted(F, n, f))
      BY <1>0, <2>1, <2>4, StayKeepsPlaces DEF l, m
    <3> QED
      BY <1>0, <3>2, <3>3, <3>4
  <2> HIDE DEF g, i, n, f, r
  <2>7. Sound(r.slab, N)
    <3>1. "RESERVED_SLOT" \in SlotTypes /\ "RESERVED_SLOT" # "NULL_CAPABILITY"
      BY DEF SlotTypes
    <3> QED
      BY <3>1, <2>1, <2>3, <2>4, <2>5, <2>6, RecountSound
  <2>8. RetypesSlot(s, r.slab, n, i, "RESERVED_SLOT")
    BY <2>4, <2>5, <2>6 DEF RetypesSlot
  <2> QED
    BY <2>1, <2>3, <2>5, <2>7, <2>8 DEF r
<1> QED
  BY <1>1, <1>2

(* FreeSlabSlot keeps the slab sound when the node it moves, if any, is at *)
(* an end of the list it leaves.                                           *)
LEMMA FreeSound ==
    ASSUME NEW N \in SUBSET Pages, NEW s, Sound(s, N),
           NEW n \in N, NEW i \in SlotIndex, i \notin FreeIndices(s, n),
           ListFor(s.FreeElements[n]) # ListFor(s.FreeElements[n] + 1) =>
               IsEnd(s.links, ListFor(s.FreeElements[n]), n)
    PROVE  /\ Sound(FreeSlabSlot(s, <<n, i>>), N)
           /\ RetypesSlot(s, FreeSlabSlot(s, <<n, i>>), n, i, "NULL_CAPABILITY")
<1> DEFINE F == s.FreeElements
           f == F[n] + 1
           I == FreeIndices(s, n)
           r == FreeSlabSlot(s, <<n, i>>)
           g == IF f = CAPABILITIES_PER_NODE
                THEN Relinked(s.links, n, "UsedSlabs", "FreeSlabs")
                ELSE IF f = 1
                THEN Relinked(s.links, n, "FullSlabs", "UsedSlabs")
                ELSE s.links
<1>1. /\ s \in SlabStates
      /\ s.links \in Heaps(Pages, Pages, SlabLists)
      /\ F \in [Pages -> 0 .. CAPABILITIES_PER_NODE]
      /\ AllPlaced(s.links, N, F)
  BY DEF Sound, SlabStates
<1>2. f \in 0 .. CAPABILITIES_PER_NODE /\ f = Cardinality(I \cup {i})
      /\ F[n] \in 0 .. CAPABILITIES_PER_NODE /\ f = F[n] + 1
  <2>1. IsFiniteSet(I) /\ I \subseteq SlotIndex /\ F[n] = Cardinality(I)
    BY FreeCount DEF Sound, Counted
  <2> HIDE DEF I, F
  <2>2. Cardinality(I \cup {i}) = F[n] + 1
    BY <2>1, FS_AddElement DEF I
  <2>3. Cardinality(I \cup {i}) <= Cardinality(SlotIndex)
    BY <2>1, SlotCount, FS_Subset
  <2>4. F[n] \in 0 .. CAPABILITIES_PER_NODE
    BY <1>1
  <2> QED
    BY <2>2, <2>3, <2>4, SlotCount
<1>3. r = Recount(s, n, i, "NULL_CAPABILITY", f, g)
  <2> DEFINE freed == [s EXCEPT !.Slots[n][i].Type = "NULL_CAPABILITY", !.FreeElements[n] = f]
  <2>1. /\ freed.FreeElements[n] = f
        /\ freed.links = s.links
        /\ [freed EXCEPT !.links = g] = Recount(s, n, i, "NULL_CAPABILITY", f, g)
        /\ freed = [freed EXCEPT !.links = s.links]
    BY <1>1 DEF Recount, SlabStates
  <2>2. r = IF freed.FreeElements[n] = CAPABILITIES_PER_NODE
            THEN MoveNode(freed, n, "UsedSlabs", "FreeSlabs")
            ELSE IF freed.FreeElements[n] = 1
            THEN MoveNode(freed, n, "FullSlabs", "UsedSlabs")
            ELSE freed
    BY <1>1 DEF FreeSlabSlot
  <2> HIDE DEF freed, f, F
  <2>3. r = [freed EXCEPT !.links = g]
    BY <2>1, <2>2 DEF MoveNode, Relinked
  <2> QED
    BY <2>1, <2>3
<1>4. /\ g \in Heaps(Pages, Pages, SlabLists)
      /\ g.Fault = s.links.Fault
      /\ AllPlaced(g, N, Recounted(F, n, f))
  <2> DEFINE l == ListFor(F[n])
             m == ListFor(f)
  <2>1. /\ l \in SlabLists /\ m \in SlabLists
        /\ n \in Placed(N, F, l)
        /\ n \in Placed(N, Recounted(F, n, f), m)
        /\ l # m => IsEnd(s.links, l, n)
    BY <1>1, <1>2, ListForCases DEF Placed, Recounted
  <2>2. /\ f = CAPABILITIES_PER_NODE =>
             l = "UsedSlabs" /\ m = "FreeSlabs" /\ g = Relinked(s.links, n, l, m)
        /\ f # CAPABILITIES_PER_NODE /\ f = 1 =>
             l = "FullSlabs" /\ m = "UsedSlabs" /\ g = Relinked(s.links, n, l, m)
        /\ f # CAPABILITIES_PER_NODE /\ f # 1 => l = m /\ g = s.links
    BY <1>2, CapabilitiesAssumption DEF ListFor
  <2> HIDE DEF g, f, F, l, m
  <2>3. ASSUME l # m
        PROVE  /\ Relinked(s.links, n, l, m) \in Heaps(Pages, Pages, SlabLists)
               /\ AllPlaced(Relinked(s.links, n, l, m), N, Recounted(F, n, f))
               /\ Relinked(s.links, n, l, m).Fault = s.links.Fault
    <3>1. n \in N /\ f \in 0 .. CAPABILITIES_PER_NODE
      BY <1>2
    <3> QED
      BY <1>1, <2>1, <2>3, <3>1, MoveKeepsPlaces
  <2>4. l = m => AllPlaced(s.links, N, Recounted(F, n, f))
    BY <1>1, <1>2, StayKeepsPlaces DEF l, m
  <2> QED
    BY <1>1, <2>2, <2>3, <2>4
<1> HIDE DEF g, f, r
<1>5. "NULL_CAPABILITY" \in SlotTypes /\ "RESERVED_SLOT" # "NULL_CAPABILITY"
  BY DEF SlotTypes
<1>6. Sound(r, N)
  BY <1>2, <1>3, <1>4, <1>5, RecountSound
<1>7. RetypesSlot(s, r, n, i, "NULL_CAPABILITY")
  BY <1>2, <1>3, <1>4 DEF RetypesSlot
<1> QED
  BY <1>6, <1>7 DEF r

-----------------------------------------------------------------------------

(* The slab of InitializeRootSpace is sound and all its slots are free.    *)
LEMMA InitSound ==
    Init => IInv /\ \A i \in SlotIndex : ~Allocated(<<RootNode, i>>)
<1> SUFFICES ASSUME Init
             PROVE  IInv /\ \A i \in SlotIndex : ~Allocated(<<RootNode, i>>)
  OBVIOUS
<1> DEFINE blank == [IsMasked |-> TRUE, Type |-> "RESERVED_SLOT"]
           s == [links |-> EmptyHeap(Pages, SlabLists),
                 FreeElements |-> [n \in Pages |-> 0],
                 Slots |-> [n \in Pages |-> [i \in SlotIndex |-> blank]],
                 Spins |-> FALSE]
<1>1. /\ EmptyHeap(Pages, SlabLists) \in Heaps(Pages, Pages, SlabLists)
      /\ ~EmptyHeap(Pages, SlabLists).Fault
      /\ \A l \in SlabLists : Holds(Pages, EmptyHeap(Pages, SlabLists), l, {})
  BY EmptyHolds
<1>2. s \in SlabStates
  BY <1>1, CapabilitiesAssumption DEF SlabStates, SlotStates, SlotTypes
<1>3. AllPlaced(s.links, {}, s.FreeElements)
  BY <1>1 DEF AllPlaced, Placed
<1>4. Sound(s, {})
  BY <1>1, <1>2, <1>3 DEF Sound
<1>5. slab = AddSlabNode(s, RootNode) /\ nodes = {RootNode} /\ RootNode \in Pages
  BY PagesAssumption DEF Init, RootSlab
<1> HIDE DEF s
<1>6. /\ Sound(AddSlabNode(s, RootNode), {} \cup {RootNode})
      /\ \A i \in SlotIndex : AddSlabNode(s, RootNode).Slots[RootNode][i].Type = "NULL_CAPABILITY"
  BY <1>4, <1>5, AddSound
<1> QED
  BY <1>5, <1>6 DEF IInv, Allocated

(* Every operation keeps a sound slab sound.                               *)
LEMMA NextSound == IInv /\ [Next]_vars => IInv'
<1> SUFFICES ASSUME IInv, [Next]_vars PROVE IInv'
  OBVIOUS
<1>1. nodes \in SUBSET Pages /\ Sound(slab, nodes)
  BY DEF IInv
<1>2. ASSUME NEW n \in Pages, AddNode(n)
      PROVE  IInv'
  <2>1. n \in Pages \ nodes /\ slab' = AddSlabNode(slab, n) /\ nodes' = nodes \cup {n}
    BY <1>2 DEF AddNode
  <2>2. Sound(AddSlabNode(slab, n), nodes \cup {n})
    BY <1>1, <2>1, AddSound
  <2> QED
    BY <1>1, <2>1, <2>2 DEF IInv
<1>3. CASE Allocate
  <2>1. slab' = AllocateSlabSlot(slab).slab /\ nodes' = nodes
    BY <1>3 DEF Allocate
  <2>2. Sound(AllocateSlabSlot(slab).slab, nodes)
    BY <1>1, AllocateSound
  <2> QED
    BY <1>1, <2>1, <2>2 DEF IInv
<1>4. ASSUME NEW slot \in Slots, MovesFromAnEnd(slot[1]), Free(slot)
      PROVE  IInv'
  <2> DEFINE n == slot[1]
             i == slot[2]
  <2>1. /\ n \in nodes /\ i \in SlotIndex /\ slot = <<n, i>>
        /\ i \notin FreeIndices(slab, n)
        /\ ListFor(slab.FreeElements[n]) # ListFor(slab.FreeElements[n] + 1) =>
               IsEnd(slab.links, ListFor(slab.FreeElements[n]), n)
        /\ slab' = FreeSlabSlot(slab, slot) /\ nodes' = nodes
    BY <1>4 DEF Slots, Free, Allocated, FreeIndices, MovesFromAnEnd, AtAnEnd, IsEnd
  <2> HIDE DEF n, i
  <2>2. Sound(FreeSlabSlot(slab, <<n, i>>), nodes)
    BY <1>1, <2>1, FreeSound
  <2> QED
    BY <1>1, <2>1, <2>2 DEF IInv
<1>5. CASE UNCHANGED vars
  BY <1>1, <1>5 DEF vars, IInv
<1> QED
  BY <1>2, <1>3, <1>4, <1>5 DEF Next

(* The lists and the counters of the slab agree in every reachable state.  *)
THEOREM Soundness == Spec => []IInv
BY InitSound, NextSound, PTL DEF Spec

(* The fields of the slab keep their types: no list leads to anything but  *)
(* a page, no counter leaves its range.                                    *)
THEOREM TypeCorrect == Spec => []TypeOK
<1>1. IInv => TypeOK
  BY DEF IInv, Sound, SlabStates, SlotStates, SlotTypes, Heaps, TypeOK
<1> QED
  BY <1>1, Soundness, PTL

(* FreeElements counts the free slots of every node, whatever the order of *)
(* allocations, frees and new nodes.                                       *)
THEOREM AccountingHolds == Spec => []Accounting
<1>1. IInv => Accounting
  BY DEF IInv, Sound, Counted, Accounting
<1> QED
  BY <1>1, Soundness, PTL

(* Every node is on exactly the list its counter calls for, and the three  *)
(* lists are intact in both directions: AllocateSlabSlot and FreeSlabSlot  *)
(* move a node just when its counter reaches or leaves a bound.            *)
THEOREM PlacementHolds == Spec => []OnMatchingList
<1>1. ASSUME IInv PROVE OnMatchingList
  <2>1. nodes \subseteq Pages /\ IsFiniteSet(nodes)
    BY <1>1, PagesAssumption, FS_Subset DEF IInv
  <2>2. ASSUME NEW l \in SlabLists
        PROVE  Intact(l)
    <3>1. PICK s \in Seq(Pages) :
            /\ Distinct(s)
            /\ Items(s) = Placed(nodes, slab.FreeElements, l)
            /\ IsChain(slab.links, l, s)
      BY <1>1 DEF IInv, Sound, AllPlaced, Holds
    <3>2. Items(s) = {n \in nodes : ListFor(slab.FreeElements[n]) = l}
      BY <3>1 DEF Placed
    <3>3. s \in [1 .. Len(s) -> nodes] /\ Len(s) \in 0 .. Cardinality(nodes)
      BY <2>1, <3>1, <3>2, ChainIsBounded
    <3>4. s \in Chains
      BY <3>1, <3>3 DEF Chains, Distinct
    <3> QED
      BY <3>1, <3>2, <3>4 DEF Intact, Items
  <2> QED
    BY <2>2 DEF OnMatchingList
<1> QED
  BY <1>1, Soundness, PTL

(* The slots and the taken ones among them, as SlotPool sees the slab s.   *)
TakenSlots(s, N) == {slot \in N \X SlotIndex : s.Slots[slot[1]][slot[2]].Type # "NULL_CAPABILITY"}

(* Retyping one slot of a node takes that slot or frees it, and no other.  *)
LEMMA RetypedIsTaken ==
    ASSUME NEW N \in SUBSET Pages, NEW s \in SlabStates, NEW t,
           NEW n \in N, NEW i \in SlotIndex, NEW v \in SlotTypes, RetypesSlot(s, t, n, i, v)
    PROVE  TakenSlots(t, N) = IF v = "NULL_CAPABILITY" THEN TakenSlots(s, N) \ {<<n, i>>}
                              ELSE TakenSlots(s, N) \cup {<<n, i>>}
<1>1. PICK f \in 0 .. CAPABILITIES_PER_NODE, g \in Heaps(Pages, Pages, SlabLists) :
        t = Recount(s, n, i, v, f, g)
  BY DEF RetypesSlot
<1>2. /\ \A m \in Pages \ {n} : t.Slots[m] = s.Slots[m]
      /\ t.Slots[n][i].Type = v
      /\ \A j \in SlotIndex \ {i} : t.Slots[n][j] = s.Slots[n][j]
  BY <1>1, RecountEffect
<1>3. ASSUME NEW m \in N, NEW j \in SlotIndex
      PROVE  t.Slots[m][j].Type = IF m = n /\ j = i THEN v ELSE s.Slots[m][j].Type
  BY <1>2
<1> QED
  BY <1>3 DEF TakenSlots

(* Every step of the slab is a step of the pool, or one the pool does not  *)
(* see: an allocation with every slot taken.                               *)
LEMMA PoolStep == IInv /\ [Next]_vars => [Pool!Next]_<<Slots, TakenSlots(slab, nodes)>>
<1> SUFFICES ASSUME IInv, [Next]_vars
             PROVE  [Pool!Next]_<<Slots, TakenSlots(slab, nodes)>>
  OBVIOUS
<1> DEFINE taken == TakenSlots(slab, nodes)
<1>1. /\ nodes \in SUBSET Pages /\ Sound(slab, nodes) /\ slab \in SlabStates
      /\ taken = {slot \in Slots : Allocated(slot)}
  BY DEF IInv, Sound, TakenSlots, Slots, Allocated
<1>2. ASSUME NEW n \in Pages, AddNode(n)
      PROVE  Pool!AddNode(n)
  <2>1. n \in Pages \ nodes /\ slab' = AddSlabNode(slab, n) /\ nodes' = nodes \cup {n}
    BY <1>2 DEF AddNode
  <2>2. /\ \A m \in Pages \ {n} : slab'.Slots[m] = slab.Slots[m]
        /\ \A i \in SlotIndex : slab'.Slots[n][i].Type = "NULL_CAPABILITY"
    BY <1>1, <2>1, AddSound
  <2>3. Slots \cap Pool!NodeSlots(n) = {} /\ Slots' = Slots \cup Pool!NodeSlots(n)
    BY <2>1 DEF Slots, SlotIndex, Pool!NodeSlots
  <2>4. taken' = taken
    BY <1>1, <2>1, <2>2 DEF TakenSlots
  <2> QED
    BY <1>1, <2>3, <2>4 DEF Pool!AddNode, TakenSlots, Slots, Allocated
<1>3. CASE Allocate
  <2>1. slab' = AllocateSlabSlot(slab).slab /\ nodes' = nodes /\ Slots' = Slots
    BY <1>3 DEF Allocate, Slots
  <2>2. CASE slab' = slab
    BY <2>1, <2>2 DEF TakenSlots
  <2>3. CASE slab' # slab
    <3>0. PICK n \in nodes : \E i \in FreeIndices(slab, n) :
            RetypesSlot(slab, slab', n, i, "RESERVED_SLOT")
      BY <1>1, <2>1, <2>3, AllocateSound
    <3>1. PICK i \in FreeIndices(slab, n) : RetypesSlot(slab, slab', n, i, "RESERVED_SLOT")
      BY <3>0
    <3>2. i \in SlotIndex /\ "RESERVED_SLOT" \in SlotTypes
      BY DEF FreeIndices, SlotTypes
    <3>3. taken' = taken \cup {<<n, i>>}
      BY <1>1, <2>1, <3>1, <3>2, RetypedIsTaken
    <3>4. <<n, i>> \in Slots \ taken
      BY <3>2 DEF Slots, TakenSlots, FreeIndices
    <3>5. Pool!Allocate(<<n, i>>)
      BY <1>1, <2>1, <3>3, <3>4 DEF Pool!Allocate, TakenSlots, Slots, Allocated
    <3> QED
      BY <3>4, <3>5 DEF Pool!Next
  <2> QED
    BY <2>2, <2>3
<1>4. ASSUME NEW slot \in Slots, MovesFromAnEnd(slot[1]), Free(slot)
      PROVE  Pool!Free(slot)
  <2> DEFINE n == slot[1]
             i == slot[2]
  <2>1. /\ n \in nodes /\ i \in SlotIndex /\ slot = <<n, i>>
        /\ i \notin FreeIndices(slab, n)
        /\ ListFor(slab.FreeElements[n]) # ListFor(slab.FreeElements[n] + 1) =>
               IsEnd(slab.links, ListFor(slab.FreeElements[n]), n)
        /\ slab' = FreeSlabSlot(slab, slot) /\ nodes' = nodes /\ Slots' = Slots
    BY <1>4 DEF Slots, Free, Allocated, FreeIndices, MovesFromAnEnd, AtAnEnd, IsEnd
  <2> HIDE DEF n, i
  <2>2. RetypesSlot(slab, slab', n, i, "NULL_CAPABILITY")
    BY <1>1, <2>1, FreeSound
  <2>3. taken' = taken \ {slot}
    BY <1>1, <2>1, <2>2, RetypedIsTaken DEF SlotTypes
  <2>4. slot \in taken
    BY <1>1, <1>4 DEF Free
  <2> QED
    BY <1>1, <2>1, <2>3, <2>4 DEF Pool!Free, TakenSlots, Slots, Allocated
<1>5. CASE UNCHANGED vars
  BY <1>5 DEF vars, Slots, TakenSlots
<1> QED
  BY <1>2, <1>3, <1>4, <1>5 DEF Next, Pool!Next, TakenSlots, Slots

(* The functions of slab.cpp, however their callers interleave them, are a *)
(* pool of slots: an allocation takes one free slot, a call to free        *)
(* returns the one it is given, a new node brings free slots only.         *)
THEOREM PoolImplemented == Spec => ImplementsPool
<1>1. Init => Pool!Init
  <2> SUFFICES ASSUME Init PROVE Pool!Init
    OBVIOUS
  <2>1. nodes = {RootNode} /\ \A i \in SlotIndex : ~Allocated(<<RootNode, i>>)
    BY InitSound DEF Init
  <2> QED
    BY <2>1 DEF Pool!Init, Pool!NodeSlots, Slots, SlotIndex
<1>2. [Pool!Next]_<<Slots, TakenSlots(slab, nodes)>>
        => [Pool!Next]_<<Slots, {slot \in Slots : Allocated(slot)}>>
  BY DEF TakenSlots, Slots, Allocated
<1> QED
  BY <1>1, <1>2, PoolStep, Soundness, PTL DEF Spec, ImplementsPool, Pool!Spec

(* AllocateSlabSlot never enters its endless loop and writes through no    *)
(* NULL node: the node it looks into has a free slot.                      *)
THEOREM AllocateAlwaysReturns == Spec => []AllocateReturns
<1>1. ASSUME IInv PROVE AllocateReturns
  <2>1. nodes \in SUBSET Pages /\ Sound(slab, nodes)
    BY <1>1 DEF IInv
  <2>2. Sound(AllocateSlabSlot(slab).slab, nodes)
    BY <2>1, AllocateSound
  <2> QED
    BY <2>1, <2>2 DEF AllocateReturns, Sound
<1> QED
  BY <1>1, Soundness, PTL

(* Looking into one node is enough: an allocation fails only when all      *)
(* slots are taken.                                                        *)
THEOREM AllocateFailsLast == Spec => []AllocateFailsOnlyWhenFull
<1>1. ASSUME IInv PROVE AllocateFailsOnlyWhenFull
  <2>1. nodes \in SUBSET Pages /\ Sound(slab, nodes)
    BY <1>1 DEF IInv
  <2>2. AllocateSlabSlot(slab).slot = NULL =>
          \A n \in nodes, i \in SlotIndex : i \notin FreeIndices(slab, n)
    BY <2>1, AllocateSound
  <2> QED
    BY <2>2 DEF AllocateFailsOnlyWhenFull, Slots, Allocated, FreeIndices
<1> QED
  BY <1>1, Soundness, PTL

=============================================================================
