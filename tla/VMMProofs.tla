------------------------------ MODULE VMMProofs ------------------------------
(***************************************************************************)
(* The virtual memory manager keeps every mapping: proofs about module     *)
(* VMM, for any number of entries, spaces, pages and frames.  The frames   *)
(* it takes are new, so the tables stay a forest (module PageTableProofs), *)
(* and a step changes the entry of one page or of none.                    *)
(***************************************************************************)
EXTENDS VMM, PageTableProofs

-----------------------------------------------------------------------------
(* The tables, with what the entries hold.                                 *)

(* The present entries of the tables of level 1, which map the pages.      *)
Maps1(m, lv, t, i) == t \in DOMAIN m /\ i \in Index /\ lv[t] = 1 /\ Present(m[t][i])

(* Those that map pages for a container.                                   *)
Private(m, lv, t, i) == Maps1(m, lv, t, i) /\ "USER" \in m[t][i].Flags

(* A frame given out that is no table and no page of a container.          *)
Unused(m, lv, f, frame) ==
    /\ frame \in (1 .. f) \ DOMAIN m
    /\ \A t, i : Private(m, lv, t, i) => m[t][i].Address # frame

(* What a page may be mapped to, and how.                                  *)
MayMap(m, lv, f, phys, flags) ==
    /\ phys \in Nat /\ flags \in SUBSET Flags /\ "READ" \in flags
    /\ "USER" \in flags => Unused(m, lv, f, phys)

(* A forest of tables in the first f frames, in which the tables deny      *)
(* nothing and the pages of containers have frames of their own.           *)
Tables(m, R, f, lv) ==
    /\ Forest(m, R, lv)
    /\ DOMAIN m \subseteq 1 .. f
    /\ \A t, i : LeadsOn(m, lv, t, i) => {"USER", "WRITE"} \subseteq m[t][i].Flags
    /\ \A t, i : Maps1(m, lv, t, i) =>
         m[t][i].Flags \subseteq Flags /\ m[t][i].Address \in Nat
    /\ \A t, i : Private(m, lv, t, i) => m[t][i].Address \in (1 .. f) \ DOMAIN m
    /\ \A t, i, u, j : Private(m, lv, t, i) /\ Private(m, lv, u, j)
                       /\ m[t][i].Address = m[u][j].Address => t = u /\ i = j

(* A frame that is requested next is unused.                               *)
LEMMA FrameTaken ==
    ASSUME NEW m, NEW R, NEW f \in Nat, NEW lv, Tables(m, R, f, lv), f + 1 <= MaxFrames
    PROVE  /\ Tables(m, R, f + 1, lv)
           /\ Unused(m, lv, f + 1, f + 1)
           /\ \A x : Unused(m, lv, f, x) => Unused(m, lv, f + 1, x)
<1>1. MaxFrames \in Nat /\ f + 1 \in Nat \ {0} /\ f + 1 \notin DOMAIN m
      /\ DOMAIN m \subseteq 1 .. f + 1
  BY VMMAssumption DEF Tables
<1>2. \A x \in 1 .. f : x \in 1 .. f + 1 /\ x # f + 1
  OBVIOUS
<1>3. \A t, i : Private(m, lv, t, i) =>
         m[t][i].Address # f + 1 /\ m[t][i].Address \in (1 .. f + 1) \ DOMAIN m
  BY <1>2 DEF Tables
<1>4. Tables(m, R, f + 1, lv)
  BY <1>1, <1>3 DEF Tables
<1>5. Unused(m, lv, f + 1, f + 1)
  BY <1>1, <1>3 DEF Unused
<1>6. ASSUME NEW x, Unused(m, lv, f, x) PROVE Unused(m, lv, f + 1, x)
  BY <1>2, <1>6 DEF Unused
<1> QED
  BY <1>4, <1>5, <1>6

(* NewVirtualSpace with the frame requested next.                          *)
LEMMA SpaceAdded ==
    ASSUME NEW m, NEW R, NEW f \in Nat, NEW lv, Tables(m, R, f, lv), f + 1 <= MaxFrames,
           NEW n, n = NewVirtualSpace(m, f + 1)
    PROVE  /\ \E lw : Tables(n, R \cup {f + 1}, f + 1, lw)
           /\ \A r \in R : \A v \in VirtualPages : SameAt(m, n, r, v)
           /\ \A v \in VirtualPages : ~IsMapped(n, f + 1, v)
           /\ DOMAIN n = DOMAIN m \cup {f + 1}
<1> DEFINE g == f + 1
           lw == Extended(lv, g, 4)
<1>1. /\ g \in Nat \ {0} /\ g \notin DOMAIN m /\ g # NULL /\ MaxFrames \in Nat
      /\ DOMAIN m \subseteq 1 .. g /\ VirtualPages \subseteq Nat /\ Forest(m, R, lv)
  BY VMMAssumption DEF Tables, VirtualPages
<1> HIDE DEF g
<1>2. n = NewVirtualSpace(m, g)
  BY DEF g
<1>3. /\ Extends(m, n, g) /\ \A u \in DOMAIN m : n[u] = m[u]
      /\ Forest(n, R \cup {g}, lw)
      /\ \A r \in R : \A v \in Nat : \A k \in 1 .. 4 : Table(n, r, v, k) = Table(m, r, v, k)
      /\ \A v \in Nat : Table(n, g, v, 1) = NULL
  BY <1>1, <1>2, NewSpaceExtends
<1>4. DOMAIN n = DOMAIN m \cup {g}
  BY <1>3 DEF Extends
<1>5. lw[g] = 4 /\ \A u \in DOMAIN m : lw[u] = lv[u]
  BY <1>1 DEF Extended, Forest
<1> HIDE DEF lw
<1>6. \A t, i : /\ LeadsOn(n, lw, t, i) => LeadsOn(m, lv, t, i) /\ n[t][i] = m[t][i]
                /\ Maps1(n, lw, t, i) => Maps1(m, lv, t, i) /\ n[t][i] = m[t][i]
  <2> TAKE t, i
  <2>1. CASE t \in DOMAIN m
    BY <1>3, <1>4, <1>5, <2>1 DEF LeadsOn, Maps1
  <2>2. CASE t = g
    BY <1>3, <1>5, <2>2 DEF LeadsOn, Maps1, Extends
  <2> QED
    BY <1>4, <2>1, <2>2 DEF LeadsOn, Maps1
<1>7. Tables(m, R, g, lv) /\ Unused(m, lv, g, g)
  BY FrameTaken DEF g
<1>8. g \in 1 .. g
  BY <1>1
<1>9. Tables(n, R \cup {g}, g, lw)
  <2>1. \A t, i : LeadsOn(n, lw, t, i) => {"USER", "WRITE"} \subseteq n[t][i].Flags
    BY <1>6, <1>7 DEF Tables
  <2>2. \A t, i : Maps1(n, lw, t, i) => n[t][i].Flags \subseteq Flags /\ n[t][i].Address \in Nat
    BY <1>6, <1>7 DEF Tables
  <2>3. /\ \A t, i : Private(n, lw, t, i) => Private(m, lv, t, i) /\ n[t][i] = m[t][i]
        /\ \A t, i : Private(m, lv, t, i) =>
             m[t][i].Address \in (1 .. g) \ DOMAIN m /\ m[t][i].Address # g
        /\ \A t, i, u, j : Private(m, lv, t, i) /\ Private(m, lv, u, j)
                           /\ m[t][i].Address = m[u][j].Address => t = u /\ i = j
    BY <1>6, <1>7 DEF Tables, Unused, Private
  <2>4. DOMAIN n \subseteq 1 .. g
    BY <1>1, <1>4, <1>8
  <2>5. /\ \A t, i : Private(n, lw, t, i) => n[t][i].Address \in (1 .. g) \ DOMAIN n
        /\ \A t, i, u, j : Private(n, lw, t, i) /\ Private(n, lw, u, j)
                           /\ n[t][i].Address = n[u][j].Address => t = u /\ i = j
    BY <1>4, <2>3
  <2> QED
    BY <1>3, <2>1, <2>2, <2>4, <2>5 DEF Tables
<1>10. ASSUME NEW r \in R, NEW v \in VirtualPages PROVE SameAt(m, n, r, v)
  <2>1. Table(n, r, v, 1) = Table(m, r, v, 1)
    BY <1>1, <1>3, 1 \in 1 .. 4
  <2>2. CASE Table(m, r, v, 1) = NULL
    BY <2>1, <2>2 DEF SameAt, IsMapped
  <2>3. CASE Table(m, r, v, 1) # NULL
    <3>1. Table(m, r, v, 1) \in DOMAIN m
      BY <1>1, <2>3, WalkIsTyped, 1 \in 1 .. 4
    <3> QED
      BY <1>3, <2>1, <3>1 DEF SameAt, IsMapped, Leaf
  <2> QED
    BY <2>2, <2>3
<1>11. \A v \in VirtualPages : ~IsMapped(n, g, v)
  BY <1>1, <1>3 DEF IsMapped
<1> QED
  BY <1>4, <1>9, <1>10, <1>11 DEF g

(* MapPage for a page whose tables are there.                              *)
LEMMA PageAdded ==
    ASSUME NEW m, NEW R, NEW f \in Nat, NEW lv, Tables(m, R, f, lv), f <= MaxFrames,
           NEW r \in R, NEW v \in VirtualPages, Table(m, r, v, 1) # NULL, ~IsMapped(m, r, v),
           NEW phys, NEW flags, MayMap(m, lv, f, phys, flags),
           NEW n, n = SetLeaf(m, r, v, [Address |-> phys, Flags |-> flags])
    PROVE  /\ Tables(n, R, f, lv) /\ DOMAIN n = DOMAIN m
           /\ IsMapped(n, r, v) /\ Leaf(n, r, v) = [Address |-> phys, Flags |-> flags]
           /\ \A s \in R : \A w \in VirtualPages : s # r \/ w # v => SameAt(m, n, s, w)
<1> DEFINE e == [Address |-> phys, Flags |-> flags]
           x == Table(m, r, v, 1)
           y == Entry(v, 1)
<1>1. Forest(m, R, lv) /\ IsEntry(e) /\ n = SetLeaf(m, r, v, e)
  BY DEF Tables, IsEntry, MayMap
<1>2. /\ e.Address = phys /\ e.Flags = flags /\ Present(e)
      /\ phys \in Nat /\ flags \subseteq Flags
  BY DEF Present, MayMap
<1>3. x \in DOMAIN m /\ lv[x] = 1 /\ y \in Index /\ Leaf(m, r, v) = m[x][y]
  BY <1>1, LeafIsEntry
<1> HIDE DEF e
<1>4. /\ Rewritten(m, n, x, y, e) /\ Forest(n, R, lv)
      /\ \A s \in R : \A w \in VirtualPages : \A k \in 1 .. 4 :
           Table(n, s, w, k) = Table(m, s, w, k)
      /\ Leaf(n, r, v) = e
      /\ \A s \in R : \A w \in VirtualPages : s # r \/ w # v => SameAt(m, n, s, w)
  <2> DEFINE P(nn) ==
        /\ Rewritten(m, nn, x, y, e) /\ Forest(nn, R, lv)
        /\ \A s \in R : \A w \in VirtualPages : \A k \in 1 .. 4 :
             Table(nn, s, w, k) = Table(m, s, w, k)
        /\ Leaf(nn, r, v) = e
        /\ \A s \in R : \A w \in VirtualPages : s # r \/ w # v => SameAt(m, nn, s, w)
  <2>1. \A nn : nn = SetLeaf(m, r, v, e) => P(nn)
    BY <1>1, LeafWritten
  <2> HIDE DEF P
  <2>2. P(n)
    BY <1>1, <2>1
  <2> QED
    BY <2>2 DEF P
<1>5. Table(n, r, v, 1) = x
  BY <1>4, 1 \in 1 .. 4
<1> HIDE DEF x, y
<1>6. ~Present(m[x][y]) /\ ~Maps1(m, lv, x, y)
  BY <1>3 DEF IsMapped, Maps1, x
<1>7. /\ DOMAIN n = DOMAIN m
      /\ \A u \in DOMAIN m : \A j \in Index : n[u][j] = IF u = x /\ j = y THEN e ELSE m[u][j]
  BY <1>4 DEF Rewritten
<1>8. /\ n[x][y] = e
      /\ \A t, i : LeadsOn(n, lv, t, i) => LeadsOn(m, lv, t, i) /\ n[t][i] = m[t][i]
      /\ \A t, i : Maps1(n, lv, t, i) =>
           (t = x /\ i = y) \/ (Maps1(m, lv, t, i) /\ n[t][i] = m[t][i])
  BY <1>3, <1>7 DEF LeadsOn, Maps1
<1>9. /\ \A t, i : Maps1(m, lv, t, i) => m[t][i].Flags \subseteq Flags /\ m[t][i].Address \in Nat
      /\ \A t, i : Private(m, lv, t, i) => m[t][i].Address \in (1 .. f) \ DOMAIN m
      /\ \A t, i, u, j : Private(m, lv, t, i) /\ Private(m, lv, u, j)
                         /\ m[t][i].Address = m[u][j].Address => t = u /\ i = j
  BY DEF Tables
<1>10. \A t, i : Private(n, lv, t, i) =>
          \/ t = x /\ i = y /\ "USER" \in flags
          \/ Private(m, lv, t, i) /\ n[t][i] = m[t][i]
  BY <1>2, <1>8 DEF Private
<1>11. Tables(n, R, f, lv)
  <2>1. \A t, i : LeadsOn(n, lv, t, i) => {"USER", "WRITE"} \subseteq n[t][i].Flags
    BY <1>8 DEF Tables
  <2>2. \A t, i : Maps1(n, lv, t, i) => n[t][i].Flags \subseteq Flags /\ n[t][i].Address \in Nat
    BY <1>2, <1>8, <1>9
  <2>3. "USER" \in flags => /\ phys \in (1 .. f) \ DOMAIN m
                           /\ \A t, i : Private(m, lv, t, i) => m[t][i].Address # phys
    BY DEF Unused, MayMap
  <2>4. \A t, i : Private(n, lv, t, i) => n[t][i].Address \in (1 .. f) \ DOMAIN n
    BY <1>2, <1>7, <1>8, <1>9, <1>10, <2>3
  <2>5. \A t, i, u, j : Private(n, lv, t, i) /\ Private(n, lv, u, j)
                        /\ n[t][i].Address = n[u][j].Address => t = u /\ i = j
    <3> SUFFICES ASSUME NEW t, NEW i, NEW u, NEW j,
                        Private(n, lv, t, i), Private(n, lv, u, j),
                        n[t][i].Address = n[u][j].Address
                 PROVE  t = u /\ i = j
      OBVIOUS
    <3>1. CASE /\ Private(m, lv, t, i) /\ n[t][i] = m[t][i]
               /\ Private(m, lv, u, j) /\ n[u][j] = m[u][j]
      BY <1>9, <3>1
    <3>2. CASE t = x /\ i = y /\ u = x /\ j = y
      BY <3>2
    <3>3. CASE t = x /\ i = y /\ "USER" \in flags /\ Private(m, lv, u, j) /\ n[u][j] = m[u][j]
      BY <1>2, <1>8, <2>3, <3>3
    <3>4. CASE u = x /\ j = y /\ "USER" \in flags /\ Private(m, lv, t, i) /\ n[t][i] = m[t][i]
      BY <1>2, <1>8, <2>3, <3>4
    <3> QED
      BY <1>10, <3>1, <3>2, <3>3, <3>4
  <2>6. DOMAIN n \subseteq 1 .. f
    BY <1>7 DEF Tables
  <2> QED
    BY <1>4, <2>1, <2>2, <2>4, <2>5, <2>6 DEF Tables
<1>12. IsMapped(n, r, v)
  BY <1>2, <1>4, <1>5 DEF IsMapped, x
<1> QED
  BY <1>4, <1>7, <1>11, <1>12 DEF e

(* n is m with a frame more, the first g: a level less misses on the way   *)
(* to v, no mapping changed, and what was unused is.                       *)
Grown(m, n, R, f, g, lv, r, v) ==
    /\ DOMAIN n = DOMAIN m \cup {g}
    /\ \E lw : /\ Tables(n, R, g, lw)
               /\ \A x : Unused(m, lv, f, x) => Unused(n, lw, g, x)
    /\ \A s \in R : \A w \in VirtualPages : SameAt(m, n, s, w)
    /\ MissingLevel(n, r, v) \in Nat /\ MissingLevel(n, r, v) < MissingLevel(m, r, v)

(* MapIntermediateLevel with the frame requested next.                     *)
LEMMA LevelTaken ==
    ASSUME NEW m, NEW R, NEW f \in Nat, NEW lv, Tables(m, R, f, lv),
           NEW g, g = f + 1, g <= MaxFrames,
           NEW r \in R, NEW v \in VirtualPages, NEW l \in 1 .. 3, l = MissingLevel(m, r, v),
           NEW flags, NEW n, n = MapIntermediateLevel(m, r, l, g, v, flags).mem
    PROVE  Grown(m, n, R, f, g, lv, r, v)
<1> DEFINE lw == Extended(lv, g, l)
           t0 == Table(m, r, v, l + 1)
           i0 == Entry(v, l + 1)
           e == [Address |-> g, Flags |-> {"USER", "READ", "WRITE"} \cup flags]
<1>1. /\ g \in Nat \ {0} /\ g \notin DOMAIN m /\ g # NULL /\ MaxFrames \in Nat
      /\ DOMAIN m \subseteq 1 .. g /\ Forest(m, R, lv)
  BY VMMAssumption DEF Tables
<1>2. Tables(m, R, g, lv) /\ Unused(m, lv, g, g) /\ \A x : Unused(m, lv, f, x) => Unused(m, lv, g, x)
  BY FrameTaken
<1>3. /\ Extends(m, n, g) /\ Forest(n, R, lw)
      /\ t0 \in DOMAIN m /\ lv[t0] = l + 1 /\ i0 \in Index
      /\ \A u \in DOMAIN m : \A j \in Index : n[u][j] = IF u = t0 /\ j = i0 THEN e ELSE m[u][j]
      /\ \A s \in R : \A w \in VirtualPages : SameAt(m, n, s, w)
      /\ MissingLevel(n, r, v) \in Nat /\ MissingLevel(n, r, v) < l
  BY <1>1, LevelMapped
<1>4. DOMAIN n = DOMAIN m \cup {g}
  BY <1>3 DEF Extends
<1>5. lw[g] = l /\ \A u \in DOMAIN m : lw[u] = lv[u]
  BY <1>1 DEF Extended, Forest
<1>6. {"USER", "WRITE"} \subseteq e.Flags
  OBVIOUS
<1> HIDE DEF lw, t0, i0, e
<1>7. \A t, i :
        /\ LeadsOn(n, lw, t, i) =>
             (t = t0 /\ i = i0) \/ (LeadsOn(m, lv, t, i) /\ n[t][i] = m[t][i])
        /\ Maps1(n, lw, t, i) => Maps1(m, lv, t, i) /\ n[t][i] = m[t][i]
  <2> TAKE t, i
  <2>1. CASE t \in DOMAIN m
    BY <1>3, <1>4, <1>5, <2>1 DEF LeadsOn, Maps1
  <2>2. CASE t = g
    BY <1>3, <1>5, <2>2 DEF LeadsOn, Maps1, Extends
  <2> QED
    BY <1>4, <2>1, <2>2 DEF LeadsOn, Maps1
<1>8. n[t0][i0] = e
  BY <1>3
<1>9. g \in 1 .. g
  BY <1>1
<1>10. Tables(n, R, g, lw)
  <2>1. \A t, i : LeadsOn(n, lw, t, i) => {"USER", "WRITE"} \subseteq n[t][i].Flags
    BY <1>2, <1>6, <1>7, <1>8 DEF Tables
  <2>2. \A t, i : Maps1(n, lw, t, i) => n[t][i].Flags \subseteq Flags /\ n[t][i].Address \in Nat
    BY <1>2, <1>7 DEF Tables
  <2>3. /\ \A t, i : Private(n, lw, t, i) => Private(m, lv, t, i) /\ n[t][i] = m[t][i]
        /\ \A t, i : Private(m, lv, t, i) =>
             m[t][i].Address \in (1 .. g) \ DOMAIN m /\ m[t][i].Address # g
        /\ \A t, i, u, j : Private(m, lv, t, i) /\ Private(m, lv, u, j)
                           /\ m[t][i].Address = m[u][j].Address => t = u /\ i = j
    BY <1>2, <1>7 DEF Tables, Unused, Private
  <2>4. DOMAIN n \subseteq 1 .. g
    BY <1>1, <1>4, <1>9
  <2>5. /\ \A t, i : Private(n, lw, t, i) => n[t][i].Address \in (1 .. g) \ DOMAIN n
        /\ \A t, i, u, j : Private(n, lw, t, i) /\ Private(n, lw, u, j)
                           /\ n[t][i].Address = n[u][j].Address => t = u /\ i = j
    BY <1>4, <2>3
  <2> QED
    BY <1>3, <2>1, <2>2, <2>4, <2>5 DEF Tables
<1>11. ASSUME NEW x, Unused(m, lv, f, x) PROVE Unused(n, lw, g, x)
  <2>1. Unused(m, lv, g, x) /\ x # g
    <3>1. x \in 1 .. f
      BY <1>11 DEF Unused
    <3> QED
      BY <1>1, <1>2, <1>11, <3>1
  <2> QED
    BY <1>4, <1>7, <2>1 DEF Unused, Private
<1> QED
  BY <1>3, <1>4, <1>10, <1>11 DEF Grown

(* What FindMappedPage finds.                                              *)
LEMMA FoundIs ==
    ASSUME NEW m, NEW R, NEW f, NEW lv, Tables(m, R, f, lv), NEW r \in R,
           NEW v \in VirtualPages
    PROVE  /\ r # NULL
           /\ FindMappedPage(m, r, v) # NULL <=> IsMapped(m, r, v)
           /\ IsMapped(m, r, v) =>
                /\ FindMappedPage(m, r, v) = Leaf(m, r, v).Address
                /\ Maps1(m, lv, Table(m, r, v, 1), Entry(v, 1))
                /\ Leaf(m, r, v) = m[Table(m, r, v, 1)][Entry(v, 1)]
                /\ Leaf(m, r, v).Address \in Nat
                /\ Leaf(m, r, v).Flags \subseteq Flags
<1>1. Forest(m, R, lv)
  BY DEF Tables
<1>2. r # NULL
  BY <1>1 DEF Forest
<1>3. FindMappedPage(m, r, v) = IF IsMapped(m, r, v) THEN Leaf(m, r, v).Address ELSE NULL
  BY <1>2, FindMappedPageIs
<1>4. ASSUME IsMapped(m, r, v)
      PROVE  /\ Maps1(m, lv, Table(m, r, v, 1), Entry(v, 1))
             /\ Leaf(m, r, v) = m[Table(m, r, v, 1)][Entry(v, 1)]
             /\ Leaf(m, r, v).Address \in Nat
             /\ Leaf(m, r, v).Flags \subseteq Flags
  <2>1. Table(m, r, v, 1) # NULL /\ Present(Leaf(m, r, v))
    BY <1>4 DEF IsMapped
  <2>2. /\ Table(m, r, v, 1) \in DOMAIN m /\ lv[Table(m, r, v, 1)] = 1
        /\ Entry(v, 1) \in Index
        /\ Leaf(m, r, v) = m[Table(m, r, v, 1)][Entry(v, 1)]
    BY <1>1, <2>1, LeafIsEntry
  <2>3. Maps1(m, lv, Table(m, r, v, 1), Entry(v, 1))
    BY <2>1, <2>2 DEF Maps1
  <2> QED
    BY <2>2, <2>3 DEF Tables
<1> QED
  BY <1>2, <1>3, <1>4, VMMAssumption

-----------------------------------------------------------------------------
(* The invariant.                                                          *)

Roots == {root[s] : s \in LiveSpaces}

RootsInv ==
    /\ root \in [Spaces -> (DOMAIN mem) \cup {NULL}]
    /\ \A s, t \in LiveSpaces : root[s] = root[t] => s = t
    /\ frames \in 1 .. MaxFrames

(* The frames the call still takes: for the tables that miss on the way to *)
(* its page and for that page, and as many as may be for the pages left.   *)
Need ==
    frames + (4 * (job.end - job.virt - 1)) + MissingLevel(mem, root[job.space], job.virt)
           + (IF job.phys = NULL THEN 1 ELSE 0) <= MaxFrames

(* No page of the call in progress is mapped yet, the frame it maps for a  *)
(* container is not used, and there are frames enough.                     *)
WorkInv(lv) ==
    /\ job.op \in {"MMap", "VMAlloc"}
    /\ job = [op |-> job.op, space |-> job.space, phys |-> job.phys, virt |-> job.virt,
              end |-> job.end, flags |-> job.flags]
    /\ job.space \in LiveSpaces
    /\ job.virt \in VirtualPages /\ job.end \in Nat /\ job.virt < job.end
    /\ job.end - 1 \in VirtualPages
    /\ \A v \in job.virt .. job.end - 1 : ~Mapped(job.space, v)
    /\ job.op = "MMap" => job.phys \in Nat /\ job.flags \in KernelFlags
    /\ job.op = "VMAlloc" =>
         /\ job.flags \in FlagSets
         /\ job.phys = NULL \/ Unused(mem, lv, frames, job.phys)
    /\ Need

VMMInv ==
    /\ RootsInv
    /\ \E lv : Tables(mem, Roots, frames, lv) /\ (job = Idle \/ WorkInv(lv))

(* A step leaves the mapping of a page, or its absence, as it was.         *)
PageKept(s, v) ==
    /\ Mapped(s, v)' <=> Mapped(s, v)
    /\ Mapped(s, v) => Leaf(mem, root[s], v)' = Leaf(mem, root[s], v)

Kept == \A s \in Spaces, v \in VirtualPages : PageKept(s, v)

(* It maps one page as the call in progress says, to a frame that no       *)
(* container uses unless the call names it.                                *)
PageMapped(s, v) ==
    /\ ~Mapped(s, v) /\ Mapped(s, v)'
    /\ Leaf(mem, root[s], v)' = [Address |-> job.phys, Flags |-> job.flags]
    /\ \A t \in Spaces, w \in VirtualPages : t # s \/ w # v => PageKept(t, w)

(* A call begins on pages that are not mapped.                             *)
Asked ==
    /\ job = Idle /\ Request' # Idle
    /\ Request'.space \in Spaces /\ Request'.flags \in SUBSET Flags
    /\ Request'.virt < Request'.end
    /\ \A v \in Request'.virt .. Request'.end - 1 :
         v \in VirtualPages /\ ~Mapped(Request'.space, v)

(* The page is the next one of the call, which goes on behind it.          *)
Granted(s, v) ==
    /\ job # Idle /\ Request # Idle
    /\ Request.space = s /\ Request.virt = v /\ Request.flags = job.flags
    /\ Request.phys = NULL =>
         \A t \in Spaces, w \in VirtualPages :
           Mapped(t, w) /\ "USER" \in Leaf(mem, root[t], w).Flags
             => Leaf(mem, root[t], w).Address # job.phys
    /\ Request.phys # NULL => job.phys = Request.phys
    /\ Request' = IF v + 1 = Request.end THEN Idle
                  ELSE [Request EXCEPT !.virt = v + 1,
                                       !.phys = IF Request.phys = NULL THEN NULL
                                                ELSE Request.phys + 1]

MappingsStep ==
    \/ Kept /\ (Request' = Request \/ Asked)
    \/ \E s \in Spaces, v \in VirtualPages : PageMapped(s, v) /\ Granted(s, v)

(* Before the first address space there are no tables.                     *)
LEMMA InitHolds ==
    ASSUME Init
    PROVE  VMMInv /\ \A s \in Spaces, v \in VirtualPages : ~Mapped(s, v)
<1> DEFINE none == <<>>
           lv == [t \in {} |-> 1]
<1>1. DOMAIN none = {}
  OBVIOUS
<1> HIDE DEF none
<1>2. Forest(none, {}, lv)
  BY <1>1 DEF Forest, LeadsOn
<1>3. Tables(none, {}, 0, lv)
  BY <1>1, <1>2 DEF Tables, LeadsOn, Maps1, Private
<1>4. mem = NewVirtualSpace(none, 0 + 1) /\ 0 + 1 <= MaxFrames
  BY VMMAssumption DEF Init, none
<1>5. /\ \E lw : Tables(mem, {} \cup {0 + 1}, 0 + 1, lw)
      /\ DOMAIN mem = (DOMAIN none) \cup {0 + 1}
      /\ \A v \in VirtualPages : ~IsMapped(mem, 0 + 1, v)
  BY <1>3, <1>4, SpaceAdded
<1>6. 1 # NULL /\ root = [s \in Spaces |-> IF s = KernelSpace THEN 1 ELSE NULL] /\ frames = 1
      /\ job = Idle /\ KernelSpace \in Spaces /\ MaxFrames \in Nat \ {0}
  BY VMMAssumption DEF Init
<1>7. LiveSpaces = {KernelSpace} /\ Roots = {1}
  BY <1>6 DEF LiveSpaces, Roots
<1>8. RootsInv
  BY <1>1, <1>5, <1>6, <1>7 DEF RootsInv
<1>9. VMMInv
  BY <1>5, <1>6, <1>7, <1>8 DEF VMMInv
<1>10. ASSUME NEW s \in Spaces, NEW v \in VirtualPages PROVE ~Mapped(s, v)
  <2>1. FindMappedPage(mem, 1, v) = NULL
    BY <1>5, <1>6, FindMappedPageIs
  <2> QED
    BY <1>6, <2>1 DEF Mapped
<1> QED
  BY <1>9, <1>10

(* What Mapped means of a state with such tables.                          *)
LEMMA MappedIs ==
    ASSUME RootsInv, NEW lv, Tables(mem, Roots, frames, lv),
           NEW s \in Spaces, NEW v \in VirtualPages
    PROVE  /\ Mapped(s, v) <=> s \in LiveSpaces /\ IsMapped(mem, root[s], v)
           /\ s \in LiveSpaces => root[s] \in Roots
  BY FoundIs DEF Mapped, LiveSpaces, Roots

(* A new address space is a new tree of tables.                            *)
LEMMA CreateSpaceKeeps ==
    ASSUME VMMInv, NEW s \in Spaces, CreateSpace(s)
    PROVE  VMMInv' /\ MappingsStep
<1>1. PICK lv : Tables(mem, Roots, frames, lv)
  BY DEF VMMInv
<1>2. /\ RootsInv /\ frames \in Nat /\ frames + 1 <= MaxFrames /\ MaxFrames \in Nat
      /\ DOMAIN mem \subseteq 1 .. frames
  BY <1>1, VMMAssumption DEF VMMInv, RootsInv, CreateSpace, Tables
<1>3. /\ job = Idle /\ job' = Idle /\ root[s] = NULL /\ frames' = frames + 1
      /\ mem' = NewVirtualSpace(mem, frames + 1)
      /\ root' = [root EXCEPT ![s] = frames + 1]
  BY DEF CreateSpace
<1>4. /\ \E lw : Tables(mem', Roots \cup {frames + 1}, frames + 1, lw)
      /\ \A r \in Roots : \A v \in VirtualPages : SameAt(mem, mem', r, v)
      /\ \A v \in VirtualPages : ~IsMapped(mem', frames + 1, v)
      /\ DOMAIN mem' = DOMAIN mem \cup {frames + 1}
  BY <1>1, <1>2, <1>3, SpaceAdded
<1>5. frames + 1 # NULL /\ frames + 1 \notin DOMAIN mem
  BY <1>2, VMMAssumption
<1>6. /\ \A t \in Spaces : root'[t] = IF t = s THEN frames + 1 ELSE root[t]
      /\ \A t \in LiveSpaces : t # s /\ root[t] \in DOMAIN mem
      /\ root \in [Spaces -> (DOMAIN mem) \cup {NULL}]
  BY <1>2, <1>3 DEF RootsInv, LiveSpaces
<1>7. LiveSpaces' = LiveSpaces \cup {s} /\ Roots' = Roots \cup {frames + 1}
  <2>1. LiveSpaces' = LiveSpaces \cup {s}
    BY <1>5, <1>6 DEF LiveSpaces
  <2> QED
    BY <1>6, <2>1 DEF Roots, LiveSpaces
<1>8. RootsInv'
  <2>1. root' \in [Spaces -> (DOMAIN mem') \cup {NULL}]
    BY <1>3, <1>4, <1>6
  <2>2. \A t, u \in LiveSpaces : root[t] = root[u] => t = u
    BY <1>2 DEF RootsInv
  <2>3. \A t, u \in LiveSpaces \cup {s} : root'[t] = root'[u] => t = u
    BY <1>5, <1>6, <2>2 DEF LiveSpaces
  <2> QED
    BY <1>2, <1>3, <1>7, <2>1, <2>3 DEF RootsInv
<1>9. VMMInv'
  BY <1>3, <1>4, <1>7, <1>8 DEF VMMInv
<1>10. PICK lw : Tables(mem', Roots', frames', lw)
  BY <1>3, <1>4, <1>7
<1>11. ASSUME NEW t \in Spaces, NEW v \in VirtualPages
       PROVE  PageKept(t, v)
  <2>1. /\ Mapped(t, v) <=> t \in LiveSpaces /\ IsMapped(mem, root[t], v)
        /\ t \in LiveSpaces => root[t] \in Roots
    BY <1>1, <1>2, MappedIs
  <2>2. Mapped(t, v)' <=> root'[t] # NULL /\ IsMapped(mem', root'[t], v)
    <3>1. root'[t] # NULL => root'[t] \in Roots'
      BY <1>6, <1>7 DEF Roots, LiveSpaces
    <3> QED
      BY <1>10, <3>1, FoundIs DEF Mapped
  <2>3. CASE t = s
    BY <1>3, <1>4, <1>6, <2>1, <2>2, <2>3 DEF PageKept, LiveSpaces
  <2>4. CASE t # s
    BY <1>4, <1>6, <2>1, <2>2, <2>4 DEF PageKept, LiveSpaces, SameAt
  <2> QED
    BY <2>3, <2>4
<1>12. Request' = Request
  BY <1>3 DEF Request
<1> QED
  BY <1>9, <1>11, <1>12 DEF MappingsStep, Kept

(* The pages below a virtual page are virtual pages.                       *)
LEMMA PagesBelow ==
    ASSUME NEW x \in VirtualPages, NEW y \in Nat, y <= x
    PROVE  x \in Nat /\ y \in VirtualPages
<1> DEFINE last == (ENTRIES * ENTRIES * ENTRIES * ENTRIES) - 1
<1>1. VirtualPages = 0 .. last /\ last \in Int
  BY EntriesAssumption DEF VirtualPages
<1> HIDE DEF last
<1> QED
  BY <1>1

(* A call begins with the pages before its position mapped: none.          *)
LEMMA BeginKeeps ==
    ASSUME VMMInv, NEW op \in {"MMap", "VMAlloc"}, NEW s \in Spaces, NEW src,
           NEW virt \in VirtualPages, NEW pages \in 1 .. MaxPages, NEW flags,
           op = "MMap" => src \in Nat /\ flags \in KernelFlags,
           op = "VMAlloc" => src = NULL /\ flags \in FlagSets,
           Begin(op, s, src, virt, pages, flags)
    PROVE  VMMInv' /\ MappingsStep
<1>1. PICK lv : Tables(mem, Roots, frames, lv)
  BY DEF VMMInv
<1>2. /\ UNCHANGED <<mem, root, frames>>
      /\ root[s] # NULL /\ virt + pages - 1 \in VirtualPages
      /\ \A v \in virt .. virt + pages - 1 : ~Mapped(s, v)
      /\ frames + (4 * pages) <= MaxFrames
      /\ job' = [op |-> op, space |-> s, phys |-> src, virt |-> virt,
                 end |-> virt + pages, flags |-> flags]
  BY DEF Begin, FramesSuffice
<1>3. /\ frames \in Nat /\ MaxFrames \in Nat /\ pages \in Nat \ {0} /\ virt \in VirtualPages
      /\ VirtualPages \subseteq Nat
  BY VMMAssumption DEF VMMInv, RootsInv, VirtualPages
<1>4. s \in LiveSpaces /\ MissingLevel(mem, root[s], virt) \in 0 .. 3
  BY <1>2, MissingLevelIs DEF LiveSpaces
<1>5. /\ job'.op = op /\ job'.space = s /\ job'.phys = src /\ job'.virt = virt
      /\ job'.end = virt + pages /\ job'.flags = flags
  BY <1>2
<1>6. \A v \in VirtualPages : Mapped(s, v)' <=> Mapped(s, v)
  BY <1>2 DEF Mapped
<1>7. WorkInv(lv)'
  <2>1. /\ job'.virt \in VirtualPages /\ job'.end \in Nat /\ job'.virt < job'.end
        /\ job'.end - 1 \in VirtualPages
    BY <1>2, <1>3, <1>5
  <2>2. \A v \in job'.virt .. job'.end - 1 : ~Mapped(s, v)'
    <3>1. \A v \in virt .. virt + pages - 1 : v \in VirtualPages
      BY <1>2, <1>3, PagesBelow
    <3>2. job'.end - 1 = virt + pages - 1
      BY <1>3, <1>5
    <3> QED
      BY <1>2, <1>5, <1>6, <3>1, <3>2
  <2>3. Need'
    <3> DEFINE M == MissingLevel(mem, root[s], virt)
    <3>1. M \in Nat /\ M <= 3
      BY <1>4
    <3>2. Need' <=> frames + (4 * (job'.end - virt - 1)) + M
                      + (IF src = NULL THEN 1 ELSE 0) <= MaxFrames
      BY <1>2, <1>5 DEF Need
    <3>3. job'.end - virt - 1 = pages - 1
      BY <1>3, <1>5
    <3> HIDE DEF M
    <3> QED
      BY <1>2, <1>3, <3>1, <3>2, <3>3
  <2>4. LiveSpaces' = LiveSpaces
    BY <1>2 DEF LiveSpaces
  <2>5. job'.op = "MMap" => job'.phys \in Nat /\ job'.flags \in KernelFlags
    BY <1>5
  <2>6. job'.op = "VMAlloc" => job'.phys = NULL /\ job'.flags \in FlagSets
    BY <1>5
  <2> QED
    BY <1>2, <1>4, <1>5, <2>1, <2>2, <2>3, <2>4, <2>5, <2>6 DEF WorkInv
<1>8. RootsInv' /\ Tables(mem', Roots', frames', lv)
  BY <1>1, <1>2 DEF VMMInv, RootsInv, Roots, LiveSpaces
<1>9. \A t \in Spaces, v \in VirtualPages : PageKept(t, v)
  BY <1>2 DEF PageKept, Mapped
<1>10. Asked
  <2>1. job = Idle /\ s \in Spaces /\ flags \in SUBSET Flags
    BY VMMAssumption DEF Begin
  <2>2. Request' = [job' EXCEPT !.phys = IF op = "VMAlloc" THEN NULL ELSE src]
    BY <1>2, <1>5 DEF Request
  <2>3. /\ Request'.op = op /\ Request'.space = s /\ Request'.virt = virt
        /\ Request'.end = virt + pages /\ Request'.flags = flags
    BY <1>2, <2>2
  <2>4. \A v \in virt .. virt + pages - 1 : v \in VirtualPages
    BY <1>2, <1>3, PagesBelow
  <2> QED
    BY <1>2, <1>3, <2>1, <2>3, <2>4 DEF Asked, Idle
<1> QED
  BY <1>7, <1>8, <1>9, <1>10 DEF VMMInv, MappingsStep, Kept

(* A frame taken for a table or a page is neither yet.                     *)
LEMMA TakeFrameKeeps ==
    ASSUME VMMInv, TakeFrame
    PROVE  VMMInv' /\ MappingsStep
<1>1. /\ UNCHANGED <<mem, root>> /\ frames' = frames + 1
      /\ job.op = "VMAlloc" /\ job.phys = NULL
      /\ job' = [job EXCEPT !.phys = frames + 1]
  BY DEF TakeFrame
<1>2. PICK lv : Tables(mem, Roots, frames, lv) /\ WorkInv(lv)
  BY <1>1 DEF VMMInv, Idle
<1>3. /\ job = [op |-> job.op, space |-> job.space, phys |-> job.phys, virt |-> job.virt,
                end |-> job.end, flags |-> job.flags]
      /\ job.space \in LiveSpaces /\ job.virt \in VirtualPages /\ job.end \in Nat
      /\ job.virt < job.end /\ Need
  BY <1>2 DEF WorkInv
<1>4. /\ job'.op = job.op /\ job'.space = job.space /\ job'.phys = frames + 1
      /\ job'.virt = job.virt /\ job'.end = job.end /\ job'.flags = job.flags
      /\ job' = [op |-> job.op, space |-> job.space, phys |-> frames + 1, virt |-> job.virt,
                 end |-> job.end, flags |-> job.flags]
  BY <1>1, <1>3
<1>5. /\ frames \in Nat \ {0} /\ MaxFrames \in Nat /\ VirtualPages \subseteq Nat
      /\ MissingLevel(mem, root[job.space], job.virt) \in Nat
      /\ frames + 1 # NULL
  BY <1>3, VMMAssumption, MissingLevelIs DEF VMMInv, RootsInv, VirtualPages, LiveSpaces
<1>6. frames + 1 <= MaxFrames /\ Need'
  <2> DEFINE M == MissingLevel(mem, root[job.space], job.virt)
             d == job.end - job.virt - 1
  <2>1. d \in Nat /\ M \in Nat
    BY <1>3, <1>5
  <2>2. frames + (4 * d) + M + 1 <= MaxFrames
    BY <1>1, <1>3 DEF Need
  <2>3. Need' <=> frames + 1 + (4 * d) + M + 0 <= MaxFrames
    BY <1>1, <1>4, <1>5 DEF Need
  <2> HIDE DEF M, d
  <2> QED
    BY <1>5, <2>1, <2>2, <2>3
<1>7. Tables(mem, Roots, frames + 1, lv) /\ Unused(mem, lv, frames + 1, frames + 1)
  BY <1>2, <1>5, <1>6, FrameTaken
<1>8. LiveSpaces' = LiveSpaces /\ Roots' = Roots /\ \A t, v : Mapped(t, v)' <=> Mapped(t, v)
  BY <1>1 DEF LiveSpaces, Roots, Mapped
<1>9. WorkInv(lv)'
  <2>1. (\A v \in job.virt .. job.end - 1 : ~Mapped(job.space, v))'
    BY <1>1, <1>2, <1>4 DEF WorkInv, Mapped
  <2>2. Unused(mem', lv, frames', job'.phys)
    BY <1>1, <1>4, <1>7
  <2>3. job'.op = "VMAlloc"
    BY <1>1, <1>4
  <2> QED
    BY <1>2, <1>4, <1>6, <1>8, <2>1, <2>2, <2>3 DEF WorkInv
<1>10. RootsInv' /\ Tables(mem', Roots', frames', lv)
  BY <1>1, <1>5, <1>6, <1>7, <1>8 DEF VMMInv, RootsInv
<1>11. \A t \in Spaces, v \in VirtualPages : PageKept(t, v)
  BY <1>1, <1>8 DEF PageKept
<1>12. Request' = Request
  BY <1>1, <1>3, <1>4 DEF Request
<1> QED
  BY <1>9, <1>10, <1>11, <1>12 DEF VMMInv, MappingsStep, Kept

(* What a turn finds: its page is free, so MapPage either maps it or       *)
(* reports the level that misses.                                          *)
LEMMA TurnFinds ==
    ASSUME VMMInv, MapStep
    PROVE  \E lv :
             /\ Tables(mem, Roots, frames, lv) /\ WorkInv(lv)
             /\ job.space \in Spaces /\ job.space \in LiveSpaces /\ root[job.space] \in Roots
             /\ job.virt \in VirtualPages /\ ~IsMapped(mem, root[job.space], job.virt)
             /\ LET M == MissingLevel(mem, root[job.space], job.virt)
                IN  \/ /\ M = 0 /\ Table(mem, root[job.space], job.virt, 1) # NULL
                       /\ mem' = SetLeaf(mem, root[job.space], job.virt,
                                         [Address |-> job.phys, Flags |-> job.flags])
                       /\ job' = NextPage /\ frames' = frames
                    \/ /\ M \in 1 .. 3
                       /\ mem' = MapIntermediateLevel(mem, root[job.space], M, frames + 1,
                                                      job.virt, job.flags).mem
                       /\ job' = job /\ frames' = frames + 1
<1>1. job.op \in {"MMap", "VMAlloc"}
  BY DEF MapStep
<1>2. PICK lv : Tables(mem, Roots, frames, lv) /\ WorkInv(lv)
  BY <1>1 DEF VMMInv, Idle
<1>3. /\ job.space \in LiveSpaces /\ job.virt \in VirtualPages /\ job.virt < job.end
      /\ job.end \in Nat /\ ~Mapped(job.space, job.virt)
  <2>1. /\ job.space \in LiveSpaces /\ job.virt \in VirtualPages /\ job.virt < job.end
        /\ job.end \in Nat
        /\ \A v \in job.virt .. job.end - 1 : ~Mapped(job.space, v)
    BY <1>2 DEF WorkInv
  <2>2. VirtualPages \subseteq Nat
    BY DEF VirtualPages
  <2>3. job.virt \in job.virt .. job.end - 1
    <3>1. \A a, b \in Nat : a < b => a \in a .. b - 1
      OBVIOUS
    <3>2. job.virt \in Nat /\ job.end \in Nat /\ job.virt < job.end
      BY <2>1, <2>2
    <3> QED
      BY <3>1, <3>2
  <2> QED
    BY <2>1, <2>3
<1> DEFINE r == root[job.space]
           v == job.virt
           M == MissingLevel(mem, r, v)
           entry == [Address |-> job.phys, Flags |-> job.flags]
<1>4. job.space \in Spaces /\ r \in Roots /\ ~IsMapped(mem, r, v) /\ r # NULL
  BY <1>2, <1>3, MappedIs DEF VMMInv, LiveSpaces
<1>5. M \in 0 .. 3 /\ (M = 0 <=> Table(mem, r, v, 1) # NULL)
  BY <1>4, MissingLevelIs
<1>6. M = 0 => ~Present(Leaf(mem, r, v))
  BY <1>4, <1>5 DEF IsMapped
<1>7. MapPage(mem, r, job.phys, v, job.flags)
        = IF M # 0 THEN [mem |-> mem, result |-> M]
          ELSE [mem |-> SetLeaf(mem, r, v, entry), result |-> 0]
  BY <1>6 DEF MapPage
<1> DEFINE mapped == MapPage(mem, r, job.phys, v, job.flags)
<1>8. \/ /\ mapped.result = 0 /\ mem' = mapped.mem
         /\ job' = NextPage /\ frames' = frames
      \/ /\ mapped.result # 0 /\ frames' = frames + 1
         /\ mem' = MapIntermediateLevel(mem, r, mapped.result, frames', v, job.flags).mem
         /\ job' = job
  BY DEF MapStep
<1> HIDE DEF mapped, M
<1>9. /\ M # 0 => mapped.result = M
      /\ M = 0 => mapped.result = 0 /\ mapped.mem = SetLeaf(mem, r, v, entry)
  BY <1>7 DEF mapped
<1>10. CASE M = 0
  <2>1. mem' = SetLeaf(mem, r, v, entry) /\ job' = NextPage /\ frames' = frames
    BY <1>8, <1>9, <1>10
  <2> QED
    BY <1>2, <1>3, <1>4, <1>5, <1>10, <2>1 DEF M
<1>11. CASE M # 0
  <2>1. /\ mem' = MapIntermediateLevel(mem, r, M, frames + 1, v, job.flags).mem
        /\ job' = job /\ frames' = frames + 1
    BY <1>8, <1>9, <1>11
  <2>2. M \in 1 .. 3
    BY <1>5, <1>11
  <2> QED
    BY <1>2, <1>3, <1>4, <2>1, <2>2 DEF M
<1> QED
  BY <1>10, <1>11

(* What SameAt means for the mappings while the roots stay.                *)
LEMMA SameIsKept ==
    ASSUME RootsInv, NEW lv, Tables(mem, Roots, frames, lv), NEW lw, NEW f,
           Tables(mem', Roots, f, lw), root' = root,
           NEW s \in Spaces, NEW v \in VirtualPages,
           s \in LiveSpaces => SameAt(mem, mem', root[s], v)
    PROVE  PageKept(s, v)
<1>1. /\ Mapped(s, v) <=> s \in LiveSpaces /\ IsMapped(mem, root[s], v)
      /\ s \in LiveSpaces => root[s] \in Roots
  BY MappedIs
<1>2. Mapped(s, v)' <=> s \in LiveSpaces /\ IsMapped(mem', root[s], v)
  BY <1>1, FoundIs DEF Mapped, LiveSpaces
<1> QED
  BY <1>1, <1>2 DEF PageKept, SameAt

(* A turn that misses no level sets the entry of the page.                 *)
LEMMA TurnMaps ==
    ASSUME VMMInv, MapStep, NEW lv, Tables(mem, Roots, frames, lv), WorkInv(lv),
           NEW s \in Spaces, s = job.space, s \in LiveSpaces, root[s] \in Roots,
           NEW v \in VirtualPages, v = job.virt, ~IsMapped(mem, root[s], v),
           MissingLevel(mem, root[s], v) = 0, Table(mem, root[s], v, 1) # NULL,
           mem' = SetLeaf(mem, root[s], v, [Address |-> job.phys, Flags |-> job.flags]),
           job' = NextPage, frames' = frames
    PROVE  VMMInv' /\ PageMapped(s, v) /\ Granted(s, v)
<1>1. /\ RootsInv /\ root' = root /\ job.phys # NULL
      /\ frames \in Nat /\ MaxFrames \in Nat /\ frames <= MaxFrames /\ v \in Nat
      /\ DOMAIN mem \subseteq 1 .. frames /\ \A t, u \in LiveSpaces : root[t] = root[u] => t = u
      /\ VirtualPages \subseteq Nat
  BY VMMAssumption DEF VMMInv, RootsInv, MapStep, VirtualPages, Tables
<1>2. MayMap(mem, lv, frames, job.phys, job.flags) /\ job.phys \in Nat
  <2>1. CASE job.op = "MMap"
    BY <2>1, VMMAssumption DEF WorkInv, MayMap
  <2>2. CASE job.op = "VMAlloc"
    <3>1. Unused(mem, lv, frames, job.phys) /\ job.flags \in FlagSets
      BY <1>1, <2>2 DEF WorkInv
    <3> QED
      BY <1>1, <3>1, VMMAssumption DEF Unused, MayMap
  <2> QED
    BY <2>1, <2>2 DEF WorkInv
<1>4. /\ Tables(mem', Roots, frames, lv) /\ DOMAIN mem' = DOMAIN mem
      /\ IsMapped(mem', root[s], v)
      /\ Leaf(mem', root[s], v) = [Address |-> job.phys, Flags |-> job.flags]
      /\ \A r \in Roots : \A w \in VirtualPages :
           r # root[s] \/ w # v => SameAt(mem, mem', r, w)
  <2> DEFINE P(n, q) ==
        /\ Tables(n, Roots, frames, lv) /\ DOMAIN n = DOMAIN mem
        /\ IsMapped(n, q, v)
        /\ Leaf(n, q, v) = [Address |-> job.phys, Flags |-> job.flags]
        /\ \A r \in Roots : \A w \in VirtualPages :
             r # q \/ w # v => SameAt(mem, n, r, w)
  <2>1. ASSUME NEW q \in Roots, Table(mem, q, v, 1) # NULL, ~IsMapped(mem, q, v), NEW n,
               n = SetLeaf(mem, q, v, [Address |-> job.phys, Flags |-> job.flags])
        PROVE  P(n, q)
    BY <1>1, <1>2, <2>1, PageAdded
  <2> HIDE DEF P
  <2>2. P(mem', root[s])
    BY <2>1
  <2> QED
    BY <2>2 DEF P
<1>5. ASSUME NEW t \in Spaces, NEW w \in VirtualPages, t # s \/ w # v
      PROVE  PageKept(t, w)
  <2>1. t \in LiveSpaces => SameAt(mem, mem', root[t], w)
    BY <1>1, <1>4, <1>5 DEF Roots
  <2> QED
    BY <1>1, <1>4, <2>1, SameIsKept
<1>6. ~Mapped(s, v) /\ Mapped(s, v)'
  <2>1. ~Mapped(s, v)
    BY <1>1, MappedIs
  <2> QED
    BY <1>1, <1>4, <2>1, FoundIs DEF Mapped
<1>7. PageMapped(s, v)
  <2>1. Leaf(mem, root[s], v)' = [Address |-> job.phys, Flags |-> job.flags]
    BY <1>1, <1>4
  <2> QED
    BY <1>5, <1>6, <2>1 DEF PageMapped
<1>8. RootsInv' /\ Roots' = Roots /\ LiveSpaces' = LiveSpaces
  BY <1>1, <1>4 DEF RootsInv, Roots, LiveSpaces
<1>11. Granted(s, v)
  <2> DEFINE q == IF job.op = "VMAlloc" THEN NULL ELSE job.phys
             next == IF q = NULL THEN NULL ELSE q + 1
             R == [op |-> job.op, space |-> s, phys |-> q, virt |-> v,
                   end |-> job.end, flags |-> job.flags]
             S == [op |-> job.op, space |-> s, phys |-> next, virt |-> v + 1,
                   end |-> job.end, flags |-> job.flags]
  <2>1. /\ job = [op |-> job.op, space |-> s, phys |-> job.phys, virt |-> v,
                  end |-> job.end, flags |-> job.flags]
        /\ job.op \in {"MMap", "VMAlloc"}
    BY DEF WorkInv
  <2>2. Request = R
    BY <2>1 DEF Request
  <2>5. q = NULL <=> job.op = "VMAlloc"
    BY <1>2, VMMAssumption
  <2>3. v + 1 # job.end => Request' = S
    <3>1. v + 1 # job.end => job' = [job EXCEPT !.virt = v + 1,
                                                !.phys = IF job.op = "VMAlloc" THEN NULL ELSE job.phys + 1]
      BY DEF NextPage
    <3>2. (IF job.op = "VMAlloc" THEN NULL ELSE job.phys + 1) = next
      BY <2>5
    <3> HIDE DEF next
    <3>3. v + 1 # job.end => job' = S
      BY <2>1, <3>1, <3>2
    <3>4. job.op = "VMAlloc" => next = NULL
      BY <2>5 DEF next
    <3> QED
      BY <2>1, <3>3, <3>4 DEF Request
  <2>4. v + 1 = job.end => Request' = Idle
    BY DEF NextPage, Request, Idle
  <2>6. S = [R EXCEPT !.virt = v + 1, !.phys = IF q = NULL THEN NULL ELSE q + 1]
    <3> DEFINE t == [R EXCEPT !.virt = v + 1, !.phys = next]
    <3> HIDE DEF q, next
    <3>1. ASSUME NEW r, r = R, NEW u, u = [r EXCEPT !.virt = v + 1, !.phys = next]
          PROVE  u = S
      BY <3>1
    <3> HIDE DEF R, S
    <3>2. t = S
      BY <3>1, Zenon
    <3> QED
      BY <3>2 DEF next
  <2>7. /\ job # Idle /\ R # Idle /\ R.space = s /\ R.virt = v /\ R.flags = job.flags
        /\ R.end = job.end /\ R.phys = q
    BY <2>1 DEF Idle
  <2>8. ASSUME q = NULL, NEW t \in Spaces, NEW w \in VirtualPages, Mapped(t, w),
               "USER" \in Leaf(mem, root[t], w).Flags
        PROVE  Leaf(mem, root[t], w).Address # job.phys
    <3> DEFINE x == Table(mem, root[t], w, 1)
               y == Entry(w, 1)
    <3>1. t \in LiveSpaces /\ IsMapped(mem, root[t], w) /\ root[t] \in Roots
      BY <1>1, <2>8, MappedIs
    <3>2. Maps1(mem, lv, x, y) /\ Leaf(mem, root[t], w) = mem[x][y]
      BY <3>1, FoundIs
    <3>3. Unused(mem, lv, frames, job.phys)
      BY <1>1, <2>5, <2>8 DEF WorkInv
    <3>4. Private(mem, lv, x, y)
      BY <2>8, <3>2 DEF Private
    <3> QED
      BY <3>2, <3>3, <3>4 DEF Unused
  <2>9. q # NULL => job.phys = q
    BY <2>5
  <2> HIDE DEF q, next, R, S
  <2> QED
    BY <2>2, <2>3, <2>4, <2>6, <2>7, <2>8, <2>9 DEF Granted
<1>9. CASE v + 1 = job.end
  <2>1. job' = Idle
    BY <1>9 DEF NextPage
  <2> QED
    BY <1>4, <1>7, <1>8, <1>11, <2>1 DEF VMMInv
<1>10. CASE v + 1 # job.end
  <2> DEFINE phys == IF job.op = "VMAlloc" THEN NULL ELSE job.phys + 1
  <2>1. /\ job = [op |-> job.op, space |-> s, phys |-> job.phys, virt |-> v,
                  end |-> job.end, flags |-> job.flags]
        /\ job' = [job EXCEPT !.virt = v + 1, !.phys = phys]
    BY <1>10 DEF NextPage, WorkInv
  <2>2. /\ job' = [op |-> job.op, space |-> s, phys |-> phys, virt |-> v + 1,
                   end |-> job.end, flags |-> job.flags]
        /\ job'.op = job.op /\ job'.space = s /\ job'.phys = phys /\ job'.virt = v + 1
        /\ job'.end = job.end /\ job'.flags = job.flags
    BY <2>1
  <2>3. /\ job.op \in {"MMap", "VMAlloc"} /\ job.end \in Nat /\ v < job.end
        /\ job.end - 1 \in VirtualPages
        /\ job.op = "MMap" => job.flags \in KernelFlags
        /\ job.op = "VMAlloc" => job.flags \in FlagSets
        /\ \A w \in v .. job.end - 1 : ~Mapped(s, w)
    BY DEF WorkInv
  <2>4. v + 1 < job.end /\ v + 1 \in VirtualPages /\ \A w \in v .. job.end - 1 : w \in VirtualPages
    BY <1>1, <1>10, <2>3, PagesBelow
  <2>5. \A w \in v + 1 .. job.end - 1 : ~Mapped(s, w)'
    <3>1. \A w \in v + 1 .. job.end - 1 : w \in v .. job.end - 1 /\ w # v
      <4>1. \A a, b \in Nat : \A w \in a + 1 .. b - 1 : w \in a .. b - 1 /\ w # a
        OBVIOUS
      <4> QED
        BY <1>1, <2>3, <4>1
    <3> QED
      BY <1>5, <2>3, <2>4, <3>1 DEF PageKept
  <2>6. (\A w \in job.virt .. job.end - 1 : ~Mapped(job.space, w))'
    BY <1>1, <2>2, <2>5 DEF Mapped
  <2>7. Need'
    <3> DEFINE d == job.end - v - 1
               M == MissingLevel(mem', root[s], v + 1)
               c == IF phys = NULL THEN 1 ELSE 0
    <3>1. d \in Nat /\ job.end - (v + 1) - 1 = d - 1
      BY <1>1, <2>3, <2>4
    <3>2. M \in 0 .. 3
      BY MissingLevelIs DEF LiveSpaces
    <3>3. frames + (4 * d) + 0 + 0 <= MaxFrames
      BY <1>1 DEF WorkInv, Need
    <3>4. Need' <=> frames + (4 * (d - 1)) + M + c <= MaxFrames
      <4>1. Need' <=> frames + (4 * (job.end - (v + 1) - 1)) + M + c <= MaxFrames
        BY <1>1, <2>2 DEF Need
      <4> QED
        BY <3>1, <4>1
    <3>5. c \in 0 .. 1
      OBVIOUS
    <3> HIDE DEF d, M, c
    <3> QED
      BY <1>1, <3>1, <3>2, <3>3, <3>4, <3>5
  <2>8. WorkInv(lv)'
    <3>1. /\ job'.op = "MMap" => job'.phys \in Nat
          /\ job'.op = "VMAlloc" => job'.phys = NULL
      BY <1>2, <2>2
    <3>2. v + 1 \in Nat
      BY <1>1
    <3> HIDE DEF phys
    <3> QED
      BY <1>8, <2>2, <2>3, <2>4, <2>6, <2>7, <3>1, <3>2 DEF WorkInv
  <2> QED
    BY <1>4, <1>7, <1>8, <1>11, <2>8 DEF VMMInv
<1> QED
  BY <1>9, <1>10

(* A turn that misses a level adds a table there and maps nothing.         *)
LEMMA TurnTakesLevel ==
    ASSUME VMMInv, MapStep, NEW lv, Tables(mem, Roots, frames, lv), WorkInv(lv),
           job.space \in Spaces, job.space \in LiveSpaces, root[job.space] \in Roots,
           job.virt \in VirtualPages,
           NEW l \in 1 .. 3, l = MissingLevel(mem, root[job.space], job.virt),
           mem' = MapIntermediateLevel(mem, root[job.space], l, frames',
                                       job.virt, job.flags).mem,
           job' = job, frames' = frames + 1
    PROVE  VMMInv' /\ Kept
<1>1. /\ RootsInv /\ root' = root /\ job.phys # NULL
      /\ frames \in Nat \ {0} /\ MaxFrames \in Nat
  BY VMMAssumption DEF VMMInv, RootsInv, MapStep
<1> DEFINE d == job.end - job.virt - 1
<1>2. d \in Nat /\ frames + (4 * d) + l + 0 <= MaxFrames
  <2>1. job.virt \in Nat /\ job.end \in Nat /\ job.virt < job.end
    BY DEF WorkInv, VirtualPages
  <2> QED
    BY <1>1, <2>1 DEF WorkInv, Need
<1>3. frames' <= MaxFrames
  <2> HIDE DEF d
  <2> QED
    BY <1>1, <1>2
<1>4. Grown(mem, mem', Roots, frames, frames', lv, root[job.space], job.virt)
  BY <1>1, <1>3, LevelTaken
<1>5. PICK lw : /\ Tables(mem', Roots, frames', lw)
                /\ \A x : Unused(mem, lv, frames, x) => Unused(mem', lw, frames', x)
  BY <1>4 DEF Grown
<1>6. \A s \in Spaces, v \in VirtualPages : PageKept(s, v)
  <2> TAKE s \in Spaces, v \in VirtualPages
  <2>1. s \in LiveSpaces => SameAt(mem, mem', root[s], v)
    BY <1>4 DEF Roots, Grown
  <2> QED
    BY <1>1, <1>5, <2>1, SameIsKept
<1>7. RootsInv' /\ Roots' = Roots /\ LiveSpaces' = LiveSpaces
  BY <1>1, <1>3, <1>4 DEF RootsInv, Roots, LiveSpaces, Grown
<1>8. (\A w \in job.virt .. job.end - 1 : ~Mapped(job.space, w))'
  <2>1. \A w \in job.virt .. job.end - 1 : ~Mapped(job.space, w) /\ w \in VirtualPages
    <3>1. /\ job.virt \in Nat /\ job.end \in Nat /\ job.end - 1 \in VirtualPages
          /\ \A w \in job.virt .. job.end - 1 : ~Mapped(job.space, w)
      BY DEF WorkInv, VirtualPages
    <3> QED
      BY <3>1, PagesBelow
  <2>2. \A w \in job.virt .. job.end - 1 : ~Mapped(job.space, w)'
    BY <1>6, <2>1 DEF PageKept
  <2> QED
    BY <2>2 DEF Mapped
<1>9. Need'
  <2> DEFINE M == MissingLevel(mem', root[job.space], job.virt)
  <2>1. Need' <=> frames' + (4 * d) + M + 0 <= MaxFrames
    BY <1>1 DEF Need
  <2>2. M \in Nat /\ M < l
    BY <1>4 DEF Grown
  <2> HIDE DEF M, d
  <2> QED
    BY <1>1, <1>2, <2>1, <2>2
<1>10. WorkInv(lw)'
  <2>1. job.op = "VMAlloc" => Unused(mem', lw, frames', job.phys)
    BY <1>1, <1>5 DEF WorkInv
  <2> QED
    BY <1>7, <1>8, <1>9, <2>1 DEF WorkInv
<1> QED
  BY <1>5, <1>6, <1>7, <1>10 DEF VMMInv, Kept

(* Every turn of MMap and VMAlloc keeps the invariant.                     *)
LEMMA MapStepKeeps ==
    ASSUME VMMInv, MapStep
    PROVE  VMMInv' /\ MappingsStep
<1> DEFINE M(r, v) == MissingLevel(mem, r, v)
<1>1. PICK lv, s, v :
        /\ s = job.space /\ v = job.virt
        /\ Tables(mem, Roots, frames, lv) /\ WorkInv(lv)
        /\ s \in Spaces /\ s \in LiveSpaces /\ root[s] \in Roots
        /\ v \in VirtualPages /\ ~IsMapped(mem, root[s], v)
        /\ \/ /\ M(root[s], v) = 0 /\ Table(mem, root[s], v, 1) # NULL
              /\ mem' = SetLeaf(mem, root[s], v, [Address |-> job.phys, Flags |-> job.flags])
              /\ job' = NextPage /\ frames' = frames
           \/ /\ M(root[s], v) \in 1 .. 3
              /\ mem' = MapIntermediateLevel(mem, root[s], M(root[s], v), frames + 1,
                                             v, job.flags).mem
              /\ job' = job /\ frames' = frames + 1
  BY TurnFinds
<1>2. CASE job' = NextPage /\ frames' = frames /\ M(root[s], v) = 0
  <2>1. VMMInv' /\ PageMapped(s, v) /\ Granted(s, v)
    BY <1>1, <1>2, TurnMaps
  <2> QED
    BY <1>1, <2>1 DEF MappingsStep
<1>3. CASE job' = job /\ frames' = frames + 1 /\ M(root[s], v) \in 1 .. 3
  <2>1. PICK l \in 1 .. 3 : l = M(root[s], v)
    BY <1>3
  <2>2. mem' = MapIntermediateLevel(mem, root[s], l, frames', v, job.flags).mem
    BY <1>1, <1>3, <2>1
  <2>3. VMMInv' /\ Kept
    BY <1>1, <1>3, <2>1, <2>2, TurnTakesLevel
  <2>4. Request' = Request
    BY <1>3 DEF Request
  <2> QED
    BY <2>3, <2>4 DEF MappingsStep
<1> QED
  BY <1>1, <1>2, <1>3

(* Every step keeps the invariant and is a step of the mappings.           *)
LEMMA StepKeeps == VMMInv /\ [Next]_vars => VMMInv' /\ MappingsStep
<1> SUFFICES ASSUME VMMInv, [Next]_vars PROVE VMMInv' /\ MappingsStep
  OBVIOUS
<1>1. ASSUME NEW s \in Spaces, CreateSpace(s) PROVE VMMInv' /\ MappingsStep
  BY <1>1, CreateSpaceKeeps
<1>2. ASSUME NEW s \in Spaces, NEW range \in Ranges, NEW pages \in 1 .. MaxPages,
             NEW flags \in KernelFlags, CallMMap(s, range, pages, flags)
      PROVE  VMMInv' /\ MappingsStep
  <2>1. "MMap" \in {"MMap", "VMAlloc"} /\ range[1] \in Nat /\ range[2] \in VirtualPages
    BY VMMAssumption
  <2>2. Begin("MMap", s, range[1], range[2], pages, flags)
    BY <1>2 DEF CallMMap
  <2> QED
    BY <2>1, <2>2, BeginKeeps
<1>3. ASSUME NEW s \in Spaces, NEW virt \in Targets, NEW pages \in 1 .. MaxPages,
             NEW flags \in FlagSets, CallVMAlloc(s, virt, pages, flags)
      PROVE  VMMInv' /\ MappingsStep
  <2>1. "VMAlloc" \in {"MMap", "VMAlloc"} /\ virt \in VirtualPages
    BY VMMAssumption
  <2>2. Begin("VMAlloc", s, NULL, virt, pages, flags)
    BY <1>3 DEF CallVMAlloc
  <2> QED
    BY <2>1, <2>2, BeginKeeps
<1>4. CASE TakeFrame
  BY <1>4, TakeFrameKeeps
<1>5. CASE MapStep
  BY <1>5, MapStepKeeps
<1>6. CASE UNCHANGED vars
  <2>1. /\ mem' = mem /\ root' = root /\ frames' = frames /\ job' = job
    BY <1>6 DEF vars
  <2>2. /\ Roots' = Roots /\ LiveSpaces' = LiveSpaces
        /\ RootsInv' <=> RootsInv
        /\ Need' <=> Need
    BY <2>1 DEF RootsInv, Roots, LiveSpaces, Need
  <2>3. PICK lv : Tables(mem, Roots, frames, lv) /\ (job = Idle \/ WorkInv(lv))
    BY DEF VMMInv
  <2>4. job' = Idle \/ WorkInv(lv)'
    <3>1. CASE job = Idle
      BY <2>1, <3>1
    <3>2. CASE WorkInv(lv)
      <4>1. (\A v \in job.virt .. job.end - 1 : ~Mapped(job.space, v))'
        BY <2>1, <3>2 DEF WorkInv, Mapped
      <4> QED
        BY <2>1, <2>2, <3>2, <4>1 DEF WorkInv
    <3> QED
      BY <2>3, <3>1, <3>2
  <2>5. VMMInv'
    <3>1. RootsInv' /\ Tables(mem', Roots', frames', lv)
      BY <2>1, <2>2, <2>3 DEF VMMInv
    <3> QED
      BY <2>4, <3>1 DEF VMMInv
  <2>6. Kept /\ Request' = Request
    BY <2>1 DEF Kept, PageKept, Mapped, Request
  <2> QED
    BY <2>5, <2>6 DEF MappingsStep
<1> QED
  BY <1>1, <1>2, <1>3, <1>4, <1>5, <1>6 DEF Next, Step

(* The tables are a forest in which nothing is shared and nothing denied,  *)
(* and the call in progress has the frames it needs.                       *)
THEOREM TablesAreKept == Spec => []VMMInv
<1>1. Init => VMMInv
  BY InitHolds
<1>2. VMMInv /\ [Next]_vars => VMMInv'
  BY StepKeeps
<1> QED
  BY <1>1, <1>2, PTL DEF Spec

-----------------------------------------------------------------------------
(* What follows from it.                                                   *)

(* The tables of a level are those the forest has at it.                   *)
LEMMA TablesAtLevel ==
    ASSUME NEW lv, Forest(mem, Roots, lv)
    PROVE  \A level \in 1 .. 4 : TablesAt(level) = {t \in DOMAIN mem : lv[t] = level}
<1> DEFINE At(k) == {t \in DOMAIN mem : lv[t] = k}
<1>1. ASSUME NEW k \in 2 .. 4 PROVE Below(At(k)) = At(k - 1)
  <2>1. \A t, i : <<t, i>> \in PresentIn(At(k)) <=> LeadsOn(mem, lv, t, i) /\ lv[t] = k
    BY DEF PresentIn, LeadsOn
  <2>2. ASSUME NEW x \in Below(At(k)) PROVE x \in At(k - 1)
    <3>1. PICK e \in PresentIn(At(k)) : x = mem[e[1]][e[2]].Address
      BY DEF Below
    <3>2. e = <<e[1], e[2]>>
      BY DEF PresentIn
    <3>3. LeadsOn(mem, lv, e[1], e[2]) /\ lv[e[1]] = k
      BY <2>1, <3>1, <3>2
    <3> QED
      BY <3>1, <3>3 DEF Forest
  <2>3. ASSUME NEW x \in At(k - 1) PROVE x \in Below(At(k))
    <3>1. x \in DOMAIN mem \ Roots
      BY DEF Forest
    <3>2. \A t \in DOMAIN mem \ Roots : \E u, i : LeadsOn(mem, lv, u, i) /\ mem[u][i].Address = t
      BY DEF Forest
    <3>3. PICK u, i : LeadsOn(mem, lv, u, i) /\ mem[u][i].Address = x
      BY <3>1, <3>2
    <3>4. lv[x] = lv[u] - 1 /\ lv[u] \in 1 .. 4
      BY <3>3 DEF Forest, LeadsOn
    <3>5. <<u, i>> \in PresentIn(At(k))
      BY <2>1, <3>3, <3>4
    <3> DEFINE e == <<u, i>>
    <3>6. e[1] = u /\ e[2] = i /\ e \in PresentIn(At(k))
      BY <3>5
    <3> HIDE DEF e
    <3>7. x = mem[e[1]][e[2]].Address
      BY <3>3, <3>6
    <3> QED
      BY <3>6, <3>7 DEF Below
  <2> QED
    BY <2>2, <2>3
<1>2. At(4) = Roots
  BY DEF Forest
<1>3. Below(At(4)) = At(3) /\ Below(At(3)) = At(2) /\ Below(At(2)) = At(1)
  <2>1. 4 - 1 = 3 /\ 3 - 1 = 2 /\ 2 - 1 = 1 /\ 4 \in 2 .. 4 /\ 3 \in 2 .. 4 /\ 2 \in 2 .. 4
    OBVIOUS
  <2> HIDE DEF At
  <2> QED
    BY <1>1, <2>1
<1> HIDE DEF At
<1>4. /\ TablesAt(4) = At(4) /\ TablesAt(3) = At(3)
      /\ TablesAt(2) = At(2) /\ TablesAt(1) = At(1)
  BY <1>2, <1>3 DEF TablesAt, Roots
<1>5. 1 .. 4 = {1, 2, 3, 4}
  OBVIOUS
<1> QED
  BY <1>4, <1>5 DEF At

(* No table is shared or lost, and a container reaches only its own frames.*)
THEOREM NoTableIsSharedOrLost == Spec => []NoTableSharedOrLost
<1>1. ASSUME VMMInv PROVE NoTableSharedOrLost
  <2>1. PICK lv : Tables(mem, Roots, frames, lv) /\ (job = Idle \/ WorkInv(lv))
    BY <1>1 DEF VMMInv
  <2>2. Forest(mem, Roots, lv) /\ RootsInv
    BY <1>1, <2>1 DEF VMMInv, Tables
  <2>3. TypeOK
    <3>1. job.op \in {"Idle", "MMap", "VMAlloc"}
      BY <2>1 DEF Idle, WorkInv
    <3> QED
      BY <2>1, <2>2, <3>1 DEF TypeOK, RootsInv, Tables, Forest, IsTable
  <2>4. UserFramesAreOwn
    <3>1. ASSUME NEW p \in UserPages
          PROVE  LET t == Table(mem, root[p[1]], p[2], 1)
                     i == Entry(p[2], 1)
                 IN  /\ p[1] \in LiveSpaces /\ p[2] \in VirtualPages /\ p = <<p[1], p[2]>>
                     /\ root[p[1]] \in Roots /\ t # NULL
                     /\ FrameOf(p) = mem[t][i].Address /\ Private(mem, lv, t, i)
      <4>1. /\ p[1] \in Spaces /\ p[2] \in VirtualPages /\ p = <<p[1], p[2]>>
            /\ Mapped(p[1], p[2]) /\ Accessible(mem, root[p[1]], p[2])
        BY DEF UserPages, MappedPages
      <4>2. p[1] \in LiveSpaces /\ IsMapped(mem, root[p[1]], p[2]) /\ root[p[1]] \in Roots
        BY <2>1, <2>2, <4>1, MappedIs
      <4> DEFINE t == Table(mem, root[p[1]], p[2], 1)
                 i == Entry(p[2], 1)
      <4>3. t # NULL /\ FrameOf(p) = mem[t][i].Address /\ Maps1(mem, lv, t, i)
        BY <2>1, <4>1, <4>2, FoundIs DEF FrameOf, IsMapped
      <4>4. "USER" \in mem[t][i].Flags
        <5>1. mem[t][i] \in EntriesTo(mem, root[p[1]], p[2])
          BY 1 \in 1 .. 4 DEF EntriesTo
        <5> QED
          BY <4>1, <5>1 DEF Accessible
      <4> HIDE DEF t, i
      <4>5. Private(mem, lv, t, i)
        BY <4>3, <4>4 DEF Private
      <4> QED
        BY <4>1, <4>2, <4>3, <4>5 DEF t, i
    <3>2. ASSUME NEW p \in UserPages, NEW q \in UserPages, FrameOf(p) = FrameOf(q)
          PROVE  p = q
      <4>1. /\ Table(mem, root[p[1]], p[2], 1) = Table(mem, root[q[1]], q[2], 1)
            /\ Entry(p[2], 1) = Entry(q[2], 1)
        <5> DEFINE t == Table(mem, root[p[1]], p[2], 1)
                   i == Entry(p[2], 1)
                   u == Table(mem, root[q[1]], q[2], 1)
                   j == Entry(q[2], 1)
        <5>1. /\ Private(mem, lv, t, i) /\ Private(mem, lv, u, j)
              /\ FrameOf(p) = mem[t][i].Address /\ FrameOf(q) = mem[u][j].Address
          BY <3>1
        <5>2. \A a, b, c, d : Private(mem, lv, a, b) /\ Private(mem, lv, c, d)
                              /\ mem[a][b].Address = mem[c][d].Address => a = c /\ b = d
          BY <2>1 DEF Tables
        <5> HIDE DEF t, i, u, j
        <5>3. t = u /\ i = j
          BY <3>2, <5>1, <5>2
        <5> QED
          BY <5>3 DEF t, i, u, j
      <4>2. root[p[1]] = root[q[1]] /\ p[2] = q[2]
        BY <2>2, <3>1, <4>1, LeafIsUnique
      <4> QED
        BY <2>2, <3>1, <4>2 DEF RootsInv
    <3>3. \A p \in UserPages : FrameOf(p) \in (1 .. frames) \ DOMAIN mem
      BY <2>1, <3>1 DEF Tables
    <3> QED
      BY <3>2, <3>3 DEF UserFramesAreOwn
  <2>5. \A level \in 1 .. 4 : TablesAt(level) = {t \in DOMAIN mem : lv[t] = level}
    BY <2>2, TablesAtLevel
  <2>6. DOMAIN mem = UNION {TablesAt(level) : level \in 1 .. 4}
    <3>1. \A t \in DOMAIN mem : lv[t] \in 1 .. 4 /\ t \in TablesAt(lv[t])
      BY <2>2, <2>5 DEF Forest
    <3>2. \A level \in 1 .. 4 : TablesAt(level) \subseteq DOMAIN mem
      BY <2>5
    <3> QED
      BY <3>1, <3>2
  <2>7. \A j, k \in 1 .. 4 : j # k => TablesAt(j) \cap TablesAt(k) = {}
    BY <2>5
  <2>8. ASSUME NEW level \in 1 .. 3, NEW a \in EntriesAbove(level), NEW b \in EntriesAbove(level),
               mem[a[1]][a[2]].Address = mem[b[1]][b[2]].Address
        PROVE  a = b
    <3>1. level + 1 \in 1 .. 4 /\ level + 1 > 1
      OBVIOUS
    <3>2. \A e \in EntriesAbove(level) : e = <<e[1], e[2]>> /\ LeadsOn(mem, lv, e[1], e[2])
      BY <2>5, <3>1 DEF EntriesAbove, PresentIn, LeadsOn
    <3>3. \A t, i, u, j : LeadsOn(mem, lv, t, i) /\ LeadsOn(mem, lv, u, j)
                          /\ mem[t][i].Address = mem[u][j].Address => t = u /\ i = j
      BY <2>2 DEF Forest
    <3>4. /\ a = <<a[1], a[2]>> /\ LeadsOn(mem, lv, a[1], a[2])
          /\ b = <<b[1], b[2]>> /\ LeadsOn(mem, lv, b[1], b[2])
      BY <3>2
    <3>5. a[1] = b[1] /\ a[2] = b[2]
      BY <2>8, <3>3, <3>4
    <3> QED
      BY <3>4, <3>5
  <2> QED
    BY <2>3, <2>4, <2>6, <2>7, <2>8 DEF NoTableSharedOrLost
<1> QED
  BY <1>1, TablesAreKept, PTL

(* The tables on the way to a page grant what its own entry grants.        *)
THEOREM AccessIsAsAsked == Spec => []AccessAsAsked
<1>1. ASSUME VMMInv PROVE AccessAsAsked
  <2>1. PICK lv : Tables(mem, Roots, frames, lv)
    BY <1>1 DEF VMMInv
  <2>2. Forest(mem, Roots, lv) /\ RootsInv
    BY <1>1, <2>1 DEF VMMInv, Tables
  <2> SUFFICES ASSUME NEW p \in MappedPages
               PROVE  LET flags == Leaf(mem, root[p[1]], p[2]).Flags
                      IN  /\ "WRITE" \in flags => Writable(mem, root[p[1]], p[2])
                          /\ "USER" \in flags => Accessible(mem, root[p[1]], p[2])
    BY DEF AccessAsAsked
  <2> DEFINE r == root[p[1]]
             v == p[2]
             E(k) == mem[Table(mem, r, v, k)][Entry(v, k)]
  <2>3. p[1] \in Spaces /\ v \in VirtualPages /\ v \in Nat /\ Mapped(p[1], v)
    BY DEF MappedPages, VirtualPages
  <2>4. p[1] \in LiveSpaces /\ IsMapped(mem, r, v) /\ r \in Roots
    BY <2>1, <2>2, <2>3, MappedIs
  <2>5. ASSUME NEW k \in 1 .. 3, Table(mem, r, v, k) # NULL
        PROVE  {"USER", "WRITE"} \subseteq E(k + 1).Flags /\ Table(mem, r, v, k + 1) # NULL
    <3>1. /\ Table(mem, r, v, k + 1) # NULL /\ Present(E(k + 1))
      BY <2>5, NextLevelIs
    <3>2. /\ Table(mem, r, v, k + 1) \in DOMAIN mem /\ lv[Table(mem, r, v, k + 1)] = k + 1
          /\ Entry(v, k + 1) \in Index
      BY <2>2, <2>3, <2>4, <3>1, WalkIsTyped, EntryIsIndex
    <3>3. LeadsOn(mem, lv, Table(mem, r, v, k + 1), Entry(v, k + 1))
      BY <3>1, <3>2 DEF LeadsOn
    <3> QED
      BY <2>1, <3>1, <3>3 DEF Tables
  <2>6. Table(mem, r, v, 1) # NULL /\ E(1) = Leaf(mem, r, v)
    BY <2>4 DEF IsMapped, Leaf
  <2>7. EntriesTo(mem, r, v) = {E(k) : k \in 1 .. 4}
    BY DEF EntriesTo
  <2>8. /\ 1 \in 1 .. 3 /\ 2 \in 1 .. 3 /\ 3 \in 1 .. 3
        /\ 1 + 1 = 2 /\ 2 + 1 = 3 /\ 3 + 1 = 4
    OBVIOUS
  <2>9. /\ {"USER", "WRITE"} \subseteq E(2).Flags /\ {"USER", "WRITE"} \subseteq E(3).Flags
        /\ {"USER", "WRITE"} \subseteq E(4).Flags
    <3>1. {"USER", "WRITE"} \subseteq E(2).Flags /\ Table(mem, r, v, 2) # NULL
      BY <2>5, <2>6, <2>8
    <3>2. {"USER", "WRITE"} \subseteq E(3).Flags /\ Table(mem, r, v, 3) # NULL
      BY <2>5, <2>8, <3>1
    <3>3. {"USER", "WRITE"} \subseteq E(4).Flags
      BY <2>5, <2>8, <3>2
    <3> QED
      BY <3>1, <3>2, <3>3
  <2>10. 1 .. 4 = {1, 2, 3, 4}
    OBVIOUS
  <2> HIDE DEF E, r, v
  <2>11. \A e \in EntriesTo(mem, r, v) : e = Leaf(mem, r, v) \/ {"USER", "WRITE"} \subseteq e.Flags
    BY <2>6, <2>7, <2>9, <2>10
  <2>12. /\ "WRITE" \in Leaf(mem, r, v).Flags => Writable(mem, r, v)
         /\ "USER" \in Leaf(mem, r, v).Flags => Accessible(mem, r, v)
    BY <2>11 DEF Writable, Accessible
  <2> QED
    BY <2>12 DEF r, v
<1> QED
  BY <1>1, TablesAreKept, PTL

(* The mappings, page by page.                                             *)
LEMMA MappingsAre ==
    \A x : x \in Mappings <=>
      \E s \in Spaces, v \in VirtualPages :
        Mapped(s, v) /\ x = <<s, v, Leaf(mem, root[s], v)>>
<1> TAKE x
<1>1. ASSUME x \in Mappings
      PROVE  \E s \in Spaces, v \in VirtualPages :
               Mapped(s, v) /\ x = <<s, v, Leaf(mem, root[s], v)>>
  <2>1. PICK p \in MappedPages : x = <<p[1], p[2], Leaf(mem, root[p[1]], p[2])>>
    BY <1>1 DEF Mappings
  <2> QED
    BY <2>1 DEF MappedPages
<1>2. ASSUME NEW s \in Spaces, NEW v \in VirtualPages, Mapped(s, v),
             x = <<s, v, Leaf(mem, root[s], v)>>
      PROVE  x \in Mappings
  <2> DEFINE p == <<s, v>>
  <2>1. p \in MappedPages /\ p[1] = s /\ p[2] = v
    BY <1>2 DEF MappedPages
  <2> HIDE DEF p
  <2> QED
    BY <1>2, <2>1 DEF Mappings
<1> QED
  BY <1>1, <1>2

(* Nothing is mapped or asked for in the beginning.                        *)
LEMMA InitMapsNothing == Init => Maps!Init
<1> SUFFICES ASSUME Init PROVE Mappings = {} /\ Request = Idle
  BY DEF Maps!Init, Maps!None, Idle
<1>1. Mappings = {}
  BY InitHolds, MappingsAre
<1> QED
  BY <1>1 DEF Init, Request, Idle

(* Every step begins a call, maps the next page of one as it says, or      *)
(* changes nothing.                                                        *)
LEMMA StepMapsNext == MappingsStep => [Maps!Next]_<<Mappings, Request>>
<1> SUFFICES ASSUME MappingsStep PROVE [Maps!Next]_<<Mappings, Request>>
  OBVIOUS
<1> DEFINE M(s, v) == <<s, v, Leaf(mem, root[s], v)>>
           N(s, v) == <<s, v, Leaf(mem', root'[s], v)>>
<1>1. \A x : x \in Mappings <=> \E s \in Spaces, v \in VirtualPages : Mapped(s, v) /\ x = M(s, v)
  BY MappingsAre
<1>2. \A x : x \in Mappings' <=> \E s \in Spaces, v \in VirtualPages : Mapped(s, v)' /\ x = N(s, v)
  <2>1. (\A x : x \in Mappings <=>
           \E s \in Spaces, v \in VirtualPages :
             Mapped(s, v) /\ x = <<s, v, Leaf(mem, root[s], v)>>)'
    BY MappingsAre, PTL
  <2> QED
    BY <2>1
<1>3. \A s \in Spaces, v \in VirtualPages :
        PageKept(s, v) => (Mapped(s, v)' <=> Mapped(s, v)) /\ (Mapped(s, v) => N(s, v) = M(s, v))
  BY DEF PageKept
<1>4. CASE Kept /\ (Request' = Request \/ Asked)
  <2>1. Mappings' = Mappings
    <3> HIDE DEF M, N
    <3>1. \A x : x \in Mappings' <=> x \in Mappings
      BY <1>1, <1>2, <1>3, <1>4 DEF Kept
    <3> QED
      BY <3>1
  <2>2. CASE Request' = Request
    BY <2>1, <2>2
  <2>3. CASE Asked
    <3>1. \A s, v : ~Mapped(s, v) => ~\E m \in Mappings : m[1] = s /\ m[2] = v
      BY <1>1
    <3>2. Request = Idle
      BY <2>3 DEF Asked, Request, Idle
    <3>3. Maps!Ask(Request')
      BY <2>1, <2>3, <3>1, <3>2 DEF Asked, Maps!Ask, Maps!None, Maps!Mapped, Idle
    <3> QED
      BY <3>3 DEF Maps!Next
  <2> QED
    BY <1>4, <2>2, <2>3
<1>5. ASSUME NEW s \in Spaces, NEW v \in VirtualPages, PageMapped(s, v), Granted(s, v)
      PROVE  Maps!Next
  <2> DEFINE m == N(s, v)
             e == [Address |-> job.phys, Flags |-> job.flags]
  <2>1. /\ ~Mapped(s, v) /\ Mapped(s, v)' /\ Leaf(mem', root'[s], v) = e
        /\ \A t \in Spaces, w \in VirtualPages : t # s \/ w # v => PageKept(t, w)
    BY <1>5 DEF PageMapped
  <2>2. m = <<s, v, e>> /\ m[1] = s /\ m[2] = v /\ m[3] = e
    BY <2>1
  <2>3. m \notin Mappings
    BY <1>1, <2>1, <2>2
  <2>4. Mappings' = Mappings \cup {m} /\ m \in Mappings'
    <3> HIDE DEF M
    <3>1. m \in Mappings'
      BY <1>2, <2>1
    <3> HIDE DEF N
    <3>2. \A x : x \in Mappings' => x \in Mappings \cup {N(s, v)}
      BY <1>1, <1>2, <1>3, <2>1
    <3>3. \A x : x \in Mappings => x \in Mappings'
      BY <1>1, <1>2, <1>3, <2>1
    <3> QED
      BY <3>1, <3>2, <3>3
  <2>5. Request.phys = NULL => job.phys \notin Maps!InUse
    <3>1. ASSUME Request.phys = NULL, NEW n \in Mappings, "USER" \in n[3].Flags
          PROVE  n[3].Address # job.phys
      <4>1. PICK t \in Spaces, w \in VirtualPages : Mapped(t, w) /\ n = M(t, w)
        BY <1>1
      <4>2. n[3] = Leaf(mem, root[t], w)
        BY <4>1
      <4> QED
        BY <1>5, <3>1, <4>1, <4>2 DEF Granted
    <3> QED
      BY <3>1 DEF Maps!InUse
  <2>6. /\ Request # Idle /\ Request.space = s /\ Request.virt = v /\ Request.flags = job.flags
        /\ Request.phys # NULL => job.phys = Request.phys
        /\ Request' = IF v + 1 = Request.end THEN Idle
                      ELSE [Request EXCEPT !.virt = v + 1,
                                           !.phys = IF Request.phys = NULL THEN NULL
                                                    ELSE Request.phys + 1]
    BY <1>5 DEF Granted
  <2> HIDE DEF m
  <2>7. e.Address = job.phys
    OBVIOUS
  <2>8. Maps!MapNext(job.phys)
    BY <2>2, <2>4, <2>5, <2>6 DEF Maps!MapNext, Maps!None, Idle
  <2>9. m[3].Address = job.phys /\ m \in Mappings' \ Mappings
    BY <2>2, <2>3, <2>4, <2>7
  <2> QED
    BY <2>8, <2>9 DEF Maps!Next
<1> QED
  BY <1>4, <1>5 DEF MappingsStep

(* MMap, VMAlloc and VMCopyAlloc keep the promise of AddressSpaces.        *)
THEOREM MapsImplemented == Spec => ImplementsMaps
<1>1. Init => Maps!Init
  BY InitMapsNothing
<1>2. VMMInv /\ [Next]_vars => [Maps!Next]_<<Mappings, Request>>
  BY StepKeeps, StepMapsNext
<1> QED
  BY <1>1, <1>2, TablesAreKept, PTL DEF Spec, ImplementsMaps, Maps!Spec

=============================================================================
