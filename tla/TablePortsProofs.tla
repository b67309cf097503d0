--------------------------- MODULE TablePortsProofs ---------------------------
(***************************************************************************)
(* Both ports keep the same map: proofs of the properties of module        *)
(* TablePorts for any number of entries, pages, frames and flags.          *)
(*                                                                         *)
(* The tables of the AArch64 port are those of the other one with every    *)
(* page in the place of the one with its digits reversed, and no two pages *)
(* have the same digits reversed.  So what a call does to the entry of one *)
(* page, and to no other, is the same map on both.                         *)
(***************************************************************************)
EXTENDS TablePorts, PageTableProofs, FiniteSetTheorems

-----------------------------------------------------------------------------
(* The digits of a page, reversed.                                         *)

(* Quotient and remainder by the number of entries are unique.             *)
LEMMA AppendedDigit ==
    ASSUME NEW a \in Nat, NEW b \in Index
    PROVE  /\ (a * ENTRIES) + b \in Nat
           /\ ((a * ENTRIES) + b) \div ENTRIES = a
           /\ ((a * ENTRIES) + b) % ENTRIES = b
<1> DEFINE N == ENTRIES
           x == (a * N) + b
           q == x \div N
           r == x % N
<1>1. N \in Nat /\ N > 0 /\ b \in Nat /\ b < N
  BY EntriesAssumption DEF Index
<1>2. x \in Nat
  BY <1>1
<1>3. x = (N * q) + r /\ q \in Nat /\ r \in Nat /\ r < N
  BY <1>1, <1>2, DivisionByEntries DEF Index
<1>4. (a * N) + b = (N * q) + r
  BY <1>3
<1> HIDE DEF q, r, x
<1>5. a * N = N * a
  BY <1>1
<1>6. ASSUME NEW i \in Nat, NEW j \in Nat, i < j, NEW c \in Nat, NEW d \in Nat, c < N
      PROVE  (N * i) + c # (N * j) + d
  <2>1. PICK k \in Nat : j = i + 1 + k
    <3>1. j - i - 1 \in Nat /\ j = i + 1 + (j - i - 1)
      BY <1>6
    <3> QED
      BY <3>1
  <2>2. N * j = (N * i) + N + (N * k)
    BY <1>1, <2>1
  <2>3. N * k \in Nat /\ N * i \in Nat
    BY <1>1
  <2> QED
    BY <1>1, <1>6, <2>2, <2>3
<1>7. q = a
  <2>1. ~(q < a)
    BY <1>1, <1>3, <1>4, <1>5, <1>6
  <2>2. ~(a < q)
    BY <1>1, <1>3, <1>4, <1>5, <1>6
  <2> QED
    BY <1>3, <2>1, <2>2
<1>8. r = b
  <2>1. N * a \in Nat
    BY <1>1
  <2> QED
    BY <1>1, <1>3, <1>4, <1>5, <1>7, <2>1
<1> QED
  BY <1>2, <1>7, <1>8 DEF q, r, x

(* One more digit leaves a number below one more power of ENTRIES.         *)
LEMMA AppendedIsLess ==
    ASSUME NEW a \in Nat, NEW k \in Nat, a < k, NEW b \in Index
    PROVE  (a * ENTRIES) + b < k * ENTRIES
<1> DEFINE N == ENTRIES
<1>1. N \in Nat /\ b \in Nat /\ b < N
  BY EntriesAssumption DEF Index
<1> HIDE DEF N
<1>2. PICK d \in Nat : k = a + 1 + d
  <2>1. k - a - 1 \in Nat /\ k = a + 1 + (k - a - 1)
    OBVIOUS
  <2> QED
    BY <2>1
<1>3. k * N = (a * N) + N + (d * N) /\ d * N \in Nat /\ a * N \in Nat
  BY <1>1, <1>2
<1> QED
  BY <1>1, <1>3 DEF N

(* The digits of a page read backwards are those of a page.                *)
LEMMA ReversedIs ==
    ASSUME NEW v \in VirtualPages
    PROVE  /\ Reversed(v) \in VirtualPages
           /\ \A level \in 1 .. 4 : Entry(Reversed(v), level) = Entry(v, 5 - level)
<1> DEFINE N == ENTRIES
           e(k) == Entry(v, k)
           a2 == (e(1) * N) + e(2)
           a3 == (a2 * N) + e(3)
           a4 == (a3 * N) + e(4)
<1>1. N \in Nat /\ N > 1
  BY EntriesAssumption
<1>2. v \in Nat
  BY DEF VirtualPages
<1>3. \A k \in 1 .. 4 : e(k) \in Index
  BY <1>2, EntryIsIndex
<1>4. /\ e(1) \in Index /\ e(2) \in Index /\ e(3) \in Index /\ e(4) \in Index
      /\ e(1) \in Nat /\ e(1) < N
  BY <1>1, <1>3 DEF Index
<1>5. Reversed(v) = a4
  BY DEF Reversed
<1> HIDE DEF e
<1>6. a2 \in Nat /\ a2 \div N = e(1) /\ a2 % N = e(2)
  BY <1>4, AppendedDigit
<1>7. a2 < N * N
  BY <1>1, <1>4, AppendedIsLess
<1> HIDE DEF a2
<1>8. a3 \in Nat /\ a3 \div N = a2 /\ a3 % N = e(3)
  BY <1>4, <1>6, AppendedDigit
<1>9. a3 < (N * N) * N
  BY <1>1, <1>4, <1>6, <1>7, AppendedIsLess
<1> HIDE DEF a3
<1>10. a4 \in Nat /\ a4 \div N = a3 /\ a4 % N = e(4)
  BY <1>4, <1>8, AppendedDigit
<1>11. a4 < ((N * N) * N) * N
  <2>1. (N * N) * N \in Nat
    BY <1>1
  <2> QED
    BY <1>4, <1>8, <1>9, <2>1, AppendedIsLess
<1> HIDE DEF a4
<1>12. a4 \in VirtualPages
  <2>1. ((N * N) * N) * N \in Nat
    BY <1>1
  <2> QED
    BY <1>10, <1>11, <2>1 DEF VirtualPages
<1>13. e(1) % N = e(1)
  BY <1>1, <1>4
<1>14. /\ Entry(a4, 1) = a4 % N /\ Entry(a4, 2) = (a4 \div N) % N
       /\ Entry(a4, 3) = ((a4 \div N) \div N) % N
       /\ Entry(a4, 4) = (((a4 \div N) \div N) \div N) % N
  BY DEF Entry
<1>15. /\ Entry(a4, 1) = e(4) /\ Entry(a4, 2) = e(3)
       /\ Entry(a4, 3) = e(2) /\ Entry(a4, 4) = e(1)
  BY <1>6, <1>8, <1>10, <1>13, <1>14
<1>16. \A level \in 1 .. 4 : Entry(a4, level) = e(5 - level)
  <2>1. 5 - 1 = 4 /\ 5 - 2 = 3 /\ 5 - 3 = 2 /\ 5 - 4 = 1
    OBVIOUS
  <2>2. \A level \in 1 .. 4 : level = 1 \/ level = 2 \/ level = 3 \/ level = 4
    OBVIOUS
  <2> QED
    BY <1>15, <2>1, <2>2
<1> QED
  BY <1>5, <1>12, <1>16 DEF e

(* The page in whose place a port has virt.                                *)
Key(port, virt) == IF port = "X86" THEN virt ELSE Reversed(virt)

(* Each port has a place of its own for every page.                        *)
LEMMA KeyIs ==
    ASSUME NEW port \in Ports
    PROVE  /\ \A v \in VirtualPages : Key(port, v) \in VirtualPages
           /\ \A v, w \in VirtualPages : Key(port, v) = Key(port, w) => v = w
<1>1. ASSUME NEW v \in VirtualPages, NEW w \in VirtualPages, Reversed(v) = Reversed(w)
      PROVE  v = w
  <2>1. ASSUME NEW k \in 1 .. 4 PROVE Entry(v, k) = Entry(w, k)
    <3>1. 5 - k \in 1 .. 4 /\ 5 - (5 - k) = k
      OBVIOUS
    <3>2. \A u \in VirtualPages : Entry(Reversed(u), 5 - k) = Entry(u, 5 - (5 - k))
      BY <3>1, ReversedIs
    <3> QED
      BY <1>1, <3>1, <3>2
  <2> QED
    BY <2>1, DigitsDecide
<1> QED
  BY <1>1, ReversedIs DEF Key

-----------------------------------------------------------------------------
(* The tables of one port.                                                 *)

Unused == {"NOCACHE", "HUGE"}

Plain(m) == \A t \in DOMAIN m : \A i \in Index : m[t][i].Flags \cap Unused = {}

(* The tables m of the port form one tree, in which the frames count up    *)
(* from the root's; pages are mapped to frames only, and every table was   *)
(* made for one of the pages the calls name.                               *)
Tables(port, m, lv) ==
    /\ Forest(m, {Root}, lv)
    /\ \E n \in Nat : DOMAIN m = 0 .. n - 1
    /\ Plain(m)
    /\ \A k \in VirtualPages : IsMapped(m, Root, k) => Leaf(m, Root, k).Address \in Frames
    /\ \A t \in DOMAIN m \ {Root} :
         \E v \in Targets, l \in 1 .. 3 : Table(m, Root, Key(port, v), l) = t

(* What the tables m say of the page k.                                    *)
View(m, k) == IF IsMapped(m, Root, k) THEN Leaf(m, Root, k) ELSE Nothing

SameBut(m, n, k) == \A j \in VirtualPages \ {k} : View(n, j) = View(m, j)

(* A page is mapped where its view is not Nothing.                         *)
LEMMA ViewIs ==
    ASSUME NEW m, NEW k
    PROVE  IsMapped(m, Root, k) <=> View(m, k) # Nothing
<1>1. Nothing.Flags = {}
  BY DEF Nothing
<1>2. IsMapped(m, Root, k) => "READ" \in Leaf(m, Root, k).Flags
  BY DEF IsMapped, Present
<1> QED
  BY <1>1, <1>2 DEF View

(* The first table that a page misses.                                     *)
LEMMA MissingIs ==
    ASSUME NEW port, NEW m, NEW lv, Tables(port, m, lv), NEW k \in VirtualPages
    PROVE  /\ MissingLevel(m, Root, k) \in 0 .. 3
           /\ MissingLevel(m, Root, k) = 0 <=> Table(m, Root, k, 1) # NULL
  BY MissingLevelIs, PortsAssumption DEF Root

(* Setting the entry of a page changes what the tables say of that page.   *)
LEMMA EntrySet ==
    ASSUME NEW port \in Ports, NEW m, NEW lv, Tables(port, m, lv), NEW k \in VirtualPages,
           Table(m, Root, k, 1) # NULL, NEW e, IsEntry(e), e.Flags \cap Unused = {},
           Present(e) => e.Address \in Frames, NEW n, n = SetLeaf(m, Root, k, e)
    PROVE  /\ Tables(port, n, lv) /\ SameBut(m, n, k)
           /\ View(n, k) = IF Present(e) THEN e ELSE Nothing
<1>1. Forest(m, {Root}, lv) /\ Root \in {Root}
  BY DEF Tables
<1>2. /\ Rewritten(m, n, Table(m, Root, k, 1), Entry(k, 1), e)
      /\ Forest(n, {Root}, lv)
      /\ \A w \in VirtualPages : \A l \in 1 .. 4 : Table(n, Root, w, l) = Table(m, Root, w, l)
      /\ Leaf(n, Root, k) = e
      /\ \A w \in VirtualPages : w # k => SameAt(m, n, Root, w)
  BY <1>1, LeafWritten
<1>3. SameBut(m, n, k)
  BY <1>2 DEF SameBut, SameAt, View
<1>4. Table(n, Root, k, 1) # NULL
  BY <1>2, 1 \in 1 .. 4
<1>5. View(n, k) = IF Present(e) THEN e ELSE Nothing
  BY <1>2, <1>4 DEF View, IsMapped
<1>6. DOMAIN n = DOMAIN m /\ Plain(n)
  BY <1>2 DEF Rewritten, Plain, Tables
<1>7. ASSUME NEW w \in VirtualPages, IsMapped(n, Root, w)
      PROVE  Leaf(n, Root, w).Address \in Frames
  <2>1. CASE w = k
    BY <1>2, <1>7, <2>1 DEF IsMapped
  <2>2. CASE w # k
    BY <1>2, <1>7, <2>2 DEF SameAt, Tables
  <2> QED
    BY <2>1, <2>2
<1>8. ASSUME NEW t \in DOMAIN n \ {Root}
      PROVE  \E v \in Targets, l \in 1 .. 3 : Table(n, Root, Key(port, v), l) = t
  <2>1. PICK v \in Targets, l \in 1 .. 3 : Table(m, Root, Key(port, v), l) = t
    BY <1>6 DEF Tables
  <2>2. Key(port, v) \in VirtualPages /\ l \in 1 .. 4
    BY PortsAssumption, KeyIs
  <2> QED
    BY <1>2, <2>1, <2>2
<1> QED
  BY <1>2, <1>3, <1>5, <1>6, <1>7, <1>8 DEF Tables

(* The level a call asks a table for is the one that is missing.           *)
IsMissing(level, m, k) == level \in 1 .. 3 /\ level = MissingLevel(m, Root, k)

(* MapPage maps a page that is not mapped, or asks for a table.            *)
LEMMA MapPageIs ==
    ASSUME NEW port \in Ports, NEW m, NEW lv, Tables(port, m, lv), NEW k \in VirtualPages,
           View(m, k) = Nothing, NEW phys \in Frames, NEW flags,
           flags \cap Unused = {}, "READ" \in flags,
           NEW r, r = MapPage(m, Root, phys, k, flags)
    PROVE  /\ r.result = 0 => /\ Tables(port, r.mem, lv) /\ SameBut(m, r.mem, k)
                              /\ View(r.mem, k) = [Address |-> phys, Flags |-> flags]
           /\ r.result # 0 => IsMissing(r.result, m, k)
<1> DEFINE M == MissingLevel(m, Root, k)
           e == [Address |-> phys, Flags |-> flags]
<1>1. M \in 0 .. 3 /\ (M = 0 <=> Table(m, Root, k, 1) # NULL)
  BY MissingIs
<1>2. CASE M # 0
  <2>1. r = [mem |-> m, result |-> M]
    BY <1>2 DEF MapPage
  <2>2. r.result = M
    BY <2>1
  <2> QED
    BY <1>1, <1>2, <2>2 DEF IsMissing
<1>3. CASE M = 0
  <2>1. ~Present(Leaf(m, Root, k)) /\ Table(m, Root, k, 1) # NULL
    BY <1>1, <1>3, ViewIs DEF IsMapped
  <2>2. r = [mem |-> SetLeaf(m, Root, k, e), result |-> 0]
    BY <1>3, <2>1 DEF MapPage
  <2>3. r.mem = SetLeaf(m, Root, k, e) /\ r.result = 0
    BY <2>2
  <2>4. IsEntry(e) /\ e.Flags = flags /\ e.Address = phys /\ Present(e)
    BY DEF IsEntry, Present
  <2> HIDE DEF e
  <2>5. /\ Tables(port, r.mem, lv) /\ SameBut(m, r.mem, k)
        /\ View(r.mem, k) = IF Present(e) THEN e ELSE Nothing
    BY <2>1, <2>3, <2>4, EntrySet
  <2> QED
    BY <2>3, <2>4, <2>5 DEF e
<1> QED
  BY <1>2, <1>3

(* The table MapIntermediateLevel adds maps no page.                       *)
LEMMA LevelIs ==
    ASSUME NEW port \in Ports, NEW m, NEW lv, Tables(port, m, lv),
           NEW v \in Targets, NEW k, k = Key(port, v),
           NEW l \in 1 .. 3, l = MissingLevel(m, Root, k), NEW flags, flags \cap Unused = {},
           NEW n, n = MapIntermediateLevel(m, Root, l, Cardinality(DOMAIN m), k, flags).mem
    PROVE  /\ \E lw : Tables(port, n, lw)
           /\ \A j \in VirtualPages : View(n, j) = View(m, j)
<1> DEFINE frame == Cardinality(DOMAIN m)
           lw == Extended(lv, frame, l)
<1>1. k \in VirtualPages
  BY PortsAssumption, KeyIs
<1>2. PICK c \in Nat : DOMAIN m = 0 .. c - 1
  BY DEF Tables
<1>3. frame = c
  BY <1>2, FS_Interval
<1> HIDE DEF frame, lw
<1>4. frame \in Nat /\ frame # NULL /\ frame \notin DOMAIN m /\ DOMAIN m \cup {frame} = 0 .. frame
  BY <1>2, <1>3, PortsAssumption
<1>5. Forest(m, {Root}, lv) /\ Root \in {Root}
  BY DEF Tables
<1> DEFINE t == Table(m, Root, k, l + 1)
           i == Entry(k, l + 1)
           e == [Address |-> frame, Flags |-> {"USER", "READ", "WRITE"} \cup flags]
<1>6. /\ Extends(m, n, frame)
      /\ Forest(n, {Root}, lw)
      /\ t \in DOMAIN m /\ lv[t] = l + 1 /\ i \in Index
      /\ \A u \in DOMAIN m : \A j \in Index :
           n[u][j] = IF u = t /\ j = i THEN e ELSE m[u][j]
      /\ \A w \in VirtualPages : SameAt(m, n, Root, w)
      /\ \A w \in VirtualPages : \A q \in 1 .. 4 :
           Table(m, Root, w, q) # NULL => Table(n, Root, w, q) = Table(m, Root, w, q)
      /\ Table(n, Root, k, l) = frame
  BY <1>1, <1>4, <1>5, LevelMapped DEF frame, lw
<1>7. \A j \in VirtualPages : View(n, j) = View(m, j)
  BY <1>6 DEF SameAt, View
<1>8. \E d \in Nat : DOMAIN n = 0 .. d - 1
  <2>1. DOMAIN n = 0 .. frame
    BY <1>4, <1>6 DEF Extends
  <2>2. (frame + 1) - 1 = frame /\ frame + 1 \in Nat
    BY <1>4
  <2> QED
    BY <2>1, <2>2
<1>9. ASSUME NEW w \in VirtualPages, IsMapped(n, Root, w)
      PROVE  Leaf(n, Root, w).Address \in Frames
  BY <1>6, <1>9 DEF SameAt, Tables
<1>10. ASSUME NEW u \in DOMAIN n \ {Root}
       PROVE  \E x \in Targets, q \in 1 .. 3 : Table(n, Root, Key(port, x), q) = u
  <2>1. CASE u = frame
    BY <1>6, <2>1
  <2>2. CASE u \in DOMAIN m
    <3>1. PICK x \in Targets, q \in 1 .. 3 : Table(m, Root, Key(port, x), q) = u
      BY <2>2 DEF Tables
    <3>2. Key(port, x) \in VirtualPages /\ q \in 1 .. 4 /\ u # NULL
      BY <1>5, <2>2, PortsAssumption, KeyIs DEF Forest
    <3> QED
      BY <1>6, <3>1, <3>2
  <2> QED
    BY <1>6, <2>1, <2>2 DEF Extends
<1>11. Plain(n)
  <2>1. ASSUME NEW u \in DOMAIN n, NEW j \in Index PROVE n[u][j].Flags \cap Unused = {}
    <3>1. CASE u = frame
      <4>1. n[frame][j].Flags = {}
        BY <1>6 DEF Extends
      <4> QED
        BY <3>1, <4>1
    <3>2. CASE u \in DOMAIN m
      <4>1. e.Flags \cap Unused = {}
        BY DEF Unused
      <4>2. m[u][j].Flags \cap Unused = {}
        BY <3>2 DEF Tables, Plain
      <4> QED
        BY <1>6, <3>2, <4>1, <4>2
    <3> QED
      BY <1>6, <3>1, <3>2 DEF Extends
  <2> QED
    BY <2>1 DEF Plain
<1> QED
  BY <1>6, <1>7, <1>8, <1>9, <1>10, <1>11 DEF Tables

(* FlagPage gives a mapped page other flags; one without READ is not       *)
(* mapped any more.                                                        *)
Flagged(entry, flags) ==
    IF entry = Nothing \/ "READ" \notin flags THEN Nothing
    ELSE [Address |-> entry.Address, Flags |-> flags]

(* FlagPage on the tables of a port, of a page that is mapped or not.      *)
LEMMA FlagPageIs ==
    ASSUME NEW port \in Ports, NEW m, NEW lv, Tables(port, m, lv), NEW k \in VirtualPages,
           NEW flags, flags \cap Unused = {}, NEW r, r = FlagPage(m, Root, k, flags)
    PROVE  /\ Tables(port, r.mem, lv) /\ SameBut(m, r.mem, k)
           /\ r.result = 0 <=> View(m, k) # Nothing
           /\ View(r.mem, k) = Flagged(View(m, k), flags)
<1> DEFINE M == MissingLevel(m, Root, k)
           e == [Address |-> Leaf(m, Root, k).Address, Flags |-> flags]
<1>1. M \in 0 .. 3 /\ (M = 0 <=> Table(m, Root, k, 1) # NULL)
  BY MissingIs
<1>2. CASE View(m, k) = Nothing
  <2>1. M # 0 \/ ~Present(Leaf(m, Root, k))
    BY <1>1, <1>2, ViewIs DEF IsMapped
  <2>2. r \in {[mem |-> m, result |-> ENOTPRESENT], [mem |-> m, result |-> EINVALID]}
    BY <2>1 DEF FlagPage
  <2>3. r.mem = m /\ r.result # 0
    BY <2>2 DEF ENOTPRESENT, EINVALID
  <2> QED
    BY <1>2, <2>3 DEF SameBut, Flagged
<1>3. CASE View(m, k) # Nothing
  <2>1. M = 0 /\ Table(m, Root, k, 1) # NULL /\ Present(Leaf(m, Root, k))
    BY <1>1, <1>3, ViewIs DEF IsMapped
  <2>2. ASSUME NEW level \in 2 .. 3
        PROVE  "HUGE" \notin m[Table(m, Root, k, level)][Entry(k, level)].Flags
    <3>1. Forest(m, {Root}, lv) /\ Root \in {Root} /\ k \in Nat /\ level \in 1 .. 4
      BY DEF Tables, VirtualPages
    <3>2. Table(m, Root, k, level) # NULL
      <4>1. /\ Table(m, Root, k, 2) # NULL
            /\ Table(m, Root, k, 3) # NULL
        BY <2>1, NextLevelIs, 1 \in 1 .. 3, 2 \in 1 .. 3, 1 + 1 = 2, 2 + 1 = 3
      <4> QED
        BY <4>1
    <3>3. Table(m, Root, k, level) \in DOMAIN m /\ Entry(k, level) \in Index
      BY <3>1, <3>2, WalkIsTyped, EntryIsIndex
    <3> QED
      BY <3>3 DEF Tables, Plain, Unused
  <2>3. r = [mem |-> SetLeaf(m, Root, k, [Leaf(m, Root, k) EXCEPT !.Flags = flags]), result |-> 0]
    BY <2>1, <2>2 DEF FlagPage
  <2>4. IsEntry(Leaf(m, Root, k))
    BY <2>1, LeafIsEntry DEF Tables
  <2>5. [Leaf(m, Root, k) EXCEPT !.Flags = flags] = e
    BY <2>4 DEF IsEntry
  <2>6. r.mem = SetLeaf(m, Root, k, e) /\ r.result = 0
    BY <2>3, <2>5
  <2>7. /\ IsEntry(e) /\ e.Flags = flags /\ e.Address = Leaf(m, Root, k).Address
        /\ Present(e) <=> "READ" \in flags
    BY DEF IsEntry, Present
  <2>8. Leaf(m, Root, k).Address \in Frames /\ View(m, k) = Leaf(m, Root, k)
    BY <1>3, ViewIs DEF Tables, View
  <2> HIDE DEF e
  <2>9. /\ Tables(port, r.mem, lv) /\ SameBut(m, r.mem, k)
        /\ View(r.mem, k) = IF Present(e) THEN e ELSE Nothing
    BY <2>1, <2>6, <2>7, <2>8, EntrySet
  <2> QED
    BY <1>3, <2>6, <2>7, <2>8, <2>9 DEF Flagged, e
<1> QED
  BY <1>2, <1>3

(* UnmapPage clears the entry of a mapped page.                            *)
LEMMA UnmapPageIs ==
    ASSUME NEW port \in Ports, NEW m, NEW lv, Tables(port, m, lv), NEW k \in VirtualPages,
           NEW r, r = UnmapPage(m, Root, k)
    PROVE  /\ Tables(port, r.mem, lv) /\ SameBut(m, r.mem, k)
           /\ r.result = 0 <=> View(m, k) # Nothing
           /\ View(r.mem, k) = Nothing
<1> DEFINE M == MissingLevel(m, Root, k)
<1>1. M \in 0 .. 3 /\ (M = 0 <=> Table(m, Root, k, 1) # NULL)
  BY MissingIs
<1>2. CASE View(m, k) = Nothing
  <2>1. M # 0 \/ ~Present(Leaf(m, Root, k))
    BY <1>1, <1>2, ViewIs DEF IsMapped
  <2>2. r \in {[mem |-> m, result |-> ENOTPRESENT], [mem |-> m, result |-> EINVALID]}
    BY <2>1 DEF UnmapPage
  <2>3. r.mem = m /\ r.result # 0
    BY <2>2 DEF ENOTPRESENT, EINVALID
  <2> QED
    BY <1>2, <2>3 DEF SameBut
<1>3. CASE View(m, k) # Nothing
  <2>1. M = 0 /\ Table(m, Root, k, 1) # NULL /\ Present(Leaf(m, Root, k))
    BY <1>1, <1>3, ViewIs DEF IsMapped
  <2>2. r = [mem |-> SetLeaf(m, Root, k, Nothing), result |-> 0]
    BY <2>1 DEF UnmapPage, Nothing
  <2>3. r.mem = SetLeaf(m, Root, k, Nothing) /\ r.result = 0
    BY <2>2
  <2>4. IsEntry(Nothing) /\ Nothing.Flags \cap Unused = {} /\ ~Present(Nothing)
    BY DEF IsEntry, Nothing, Present
  <2>5. /\ Tables(port, r.mem, lv) /\ SameBut(m, r.mem, k)
        /\ View(r.mem, k) = IF Present(Nothing) THEN Nothing ELSE Nothing
    BY <2>1, <2>3, <2>4, EntrySet
  <2> QED
    BY <1>3, <2>3, <2>5
<1> QED
  BY <1>2, <1>3

-----------------------------------------------------------------------------
(* The invariant.                                                          *)

(* What the tables of the port say of virt.                                *)
Shown(port, virt) == View(mem[port], Key(port, virt))

Agree(S) == \A virt \in S : Shown("X86", virt) = Shown("AArch64", virt)

IsCall(c) ==
    /\ c = [virt |-> c.virt, phys |-> c.phys, flags |-> c.flags]
    /\ c.virt \in Targets /\ c.phys \in Frames /\ c.flags \in MapFlags

(* While a page is mapped, one port may have mapped it already.            *)
CallInv ==
    \/ call = Idle /\ todo = {} /\ Agree(VirtualPages)
    \/ /\ call # Idle /\ IsCall(call)
       /\ Agree(VirtualPages \ {call.virt})
       /\ Shown("AArch64", call.virt) = Nothing
       /\ \/ todo = Ports /\ Shown("X86", call.virt) = Nothing
          \/ /\ todo = {"AArch64"}
             /\ Shown("X86", call.virt) = [Address |-> call.phys, Flags |-> call.flags]

PortsInv ==
    /\ mem = [port \in Ports |-> mem[port]]
    /\ \A port \in Ports : \E lv : Tables(port, mem[port], lv)
    /\ done["X86"] = 0 <=> done["AArch64"] = 0
    /\ CallInv

(* A call is not Idle.                                                     *)
LEMMA CallIsNotIdle ==
    ASSUME NEW c, IsCall(c)
    PROVE  c # Idle
<1>1. c.virt \in Nat
  BY PortsAssumption DEF IsCall, VirtualPages
<1>2. Idle.virt = NULL
  BY DEF Idle
<1> QED
  BY <1>1, <1>2, PortsAssumption

(* The flags that both ports write as they are.                            *)
LEMMA FlagsArePlain ==
    /\ \A flags \in MapFlags \cup NewFlags : flags \cap Unused = {} /\ Encoded(flags) = flags
    /\ \A flags \in MapFlags : "READ" \in flags /\ Encoded(flags) \cup {"READ"} = flags
<1>1. ASSUME NEW flags \in MapFlags \cup NewFlags
      PROVE  flags \cap Unused = {} /\ Encoded(flags) = flags
  <2>1. "HUGE" \notin flags /\ "NOCACHE" \notin flags
    BY PortsAssumption
  <2> QED
    BY <2>1 DEF Unused, Encoded
<1>2. ASSUME NEW flags \in MapFlags
      PROVE  "READ" \in flags /\ Encoded(flags) \cup {"READ"} = flags
  <2>1. "READ" \in flags
    BY PortsAssumption
  <2> QED
    BY <1>1, <2>1
<1> QED
  BY <1>1, <1>2

(* The calls of each port are those of PageTable on the page's key.        *)
LEMMA CallsAre ==
    ASSUME NEW port \in Ports, NEW virt, NEW flags
    PROVE  /\ flags \in MapFlags => \A phys :
                MapOn(port, phys, virt, flags)
                    = MapPage(mem[port], Root, phys, Key(port, virt), flags)
           /\ flags \in MapFlags => \A level :
                LevelOn(port, level, virt, flags)
                    = MapIntermediateLevel(mem[port], Root, level, Cardinality(DOMAIN mem[port]),
                                           Key(port, virt), flags)
           /\ flags \in MapFlags \cup NewFlags =>
                FlagOn(port, virt, flags) = FlagPage(mem[port], Root, Key(port, virt), flags)
           /\ UnmapOn(port, virt) = UnmapPage(mem[port], Root, Key(port, virt))
           /\ FindOn(port, virt) = FindMappedPage(mem[port], Root, Key(port, virt))
           /\ PTEOn(port, virt) = FindMappedPTE(mem[port], Root, Key(port, virt))
  BY FlagsArePlain
     DEF MapOn, LevelOn, FlagOn, UnmapOn, FindOn, PTEOn, Key, AArch64MapPage,
         AArch64MapIntermediateLevel, AArch64FlagPage, AArch64UnmapPage,
         AArch64FindMappedPage, AArch64FindMappedPTE

(* What FindMappedPage and FindMappedPTE answer, on either port, is what   *)
(* the tables say.                                                         *)
LEMMA MapOfIs ==
    ASSUME PortsInv, NEW port \in Ports
    PROVE  /\ \A v \in VirtualPages : FindOn(port, v) = NULL <=> Shown(port, v) = Nothing
           /\ MapOf(port) = [v \in VirtualPages |-> Shown(port, v)]
<1>1. PICK lv : Tables(port, mem[port], lv)
  BY DEF PortsInv
<1>2. ASSUME NEW v \in VirtualPages
      PROVE  /\ FindOn(port, v) = NULL <=> Shown(port, v) = Nothing
             /\ Shown(port, v) # Nothing =>
                  mem[port][PTEOn(port, v)[1]][PTEOn(port, v)[2]] = Shown(port, v)
  <2> DEFINE m == mem[port]
             k == Key(port, v)
  <2>1. k \in VirtualPages /\ Root # NULL
    BY KeyIs, PortsAssumption DEF Root
  <2>2. FindOn(port, v) = FindMappedPage(m, Root, k) /\ PTEOn(port, v) = FindMappedPTE(m, Root, k)
    BY CallsAre
  <2> HIDE DEF m, k
  <2>3. FindMappedPage(m, Root, k) = IF IsMapped(m, Root, k) THEN Leaf(m, Root, k).Address ELSE NULL
    BY <2>1, FindMappedPageIs
  <2>4. IsMapped(m, Root, k) => Leaf(m, Root, k).Address # NULL
    BY <1>1, <2>1, PortsAssumption DEF Tables, m
  <2>5. FindOn(port, v) = NULL <=> View(m, k) = Nothing
    BY <2>2, <2>3, <2>4, ViewIs
  <2>6. ASSUME View(m, k) # Nothing
        PROVE  m[PTEOn(port, v)[1]][PTEOn(port, v)[2]] = View(m, k)
    <3>1. Table(m, Root, k, 1) # NULL /\ View(m, k) = Leaf(m, Root, k)
      BY <2>6, ViewIs DEF View, IsMapped
    <3>2. MissingLevel(m, Root, k) = 0
      BY <1>1, <2>1, <3>1, MissingIs DEF m
    <3>3. PTEOn(port, v) = <<Table(m, Root, k, 1), Entry(k, 1)>>
      BY <2>2, <3>2 DEF FindMappedPTE
    <3> QED
      BY <3>1, <3>3 DEF Leaf
  <2> QED
    BY <2>5, <2>6 DEF Shown, m, k
<1>3. MapOf(port) = [v \in VirtualPages |-> Shown(port, v)]
  <2>1. \A v \in VirtualPages :
          (IF FindOn(port, v) = NULL THEN Nothing
           ELSE mem[port][PTEOn(port, v)[1]][PTEOn(port, v)[2]]) = Shown(port, v)
    BY <1>2
  <2> QED
    BY <2>1 DEF MapOf
<1> QED
  BY <1>2, <1>3

(* The other pages of a port stay as they are when one key changes.        *)
LEMMA ShownBut ==
    ASSUME NEW port \in Ports, NEW m, NEW n, NEW virt \in VirtualPages,
           SameBut(m, n, Key(port, virt)), NEW v \in VirtualPages \ {virt}
    PROVE  View(n, Key(port, v)) = View(m, Key(port, v))
  BY KeyIs DEF SameBut

(* The new tables of both ports map no page.                               *)
LEMMA InitHolds ==
    ASSUME Init
    PROVE  PortsInv /\ \A port \in Ports : \A virt \in VirtualPages : Shown(port, virt) = Nothing
<1> DEFINE none == <<>>
           lv == [t \in {} |-> 1]
           lw == Extended(lv, Root, 4)
           n == NewVirtualSpace(none, Root)
<1>1. DOMAIN none = {}
  OBVIOUS
<1>2. mem = [port \in Ports |-> n]
  BY DEF Init, AArch64NewVirtualSpace
<1> HIDE DEF none, n
<1>3. Forest(none, {}, lv)
  BY <1>1 DEF Forest, LeadsOn
<1>4. Root # NULL /\ Root = 0
  BY PortsAssumption DEF Root
<1>5. /\ Extends(none, n, Root)
      /\ Forest(n, {} \cup {Root}, lw)
      /\ \A v \in Nat : Table(n, Root, v, 1) = NULL
  BY <1>1, <1>3, <1>4, NewSpaceExtends DEF n
<1> HIDE DEF lw
<1>6. DOMAIN n = {Root} /\ Forest(n, {Root}, lw) /\ Plain(n)
  BY <1>1, <1>5 DEF Extends, Plain
<1>7. \A k \in VirtualPages : ~IsMapped(n, Root, k)
  BY <1>5 DEF IsMapped, VirtualPages
<1>8. DOMAIN n = 0 .. 1 - 1
  BY <1>4, <1>6
<1>9. \A port \in Ports : Tables(port, n, lw)
  BY <1>6, <1>7, <1>8 DEF Tables
<1>10. \A port \in Ports : \A virt \in VirtualPages : Shown(port, virt) = Nothing
  BY <1>2, <1>7, KeyIs DEF Shown, View
<1>11. CallInv
  BY <1>10 DEF Init, CallInv, Agree, Ports
<1>12. done["X86"] = 0 /\ done["AArch64"] = 0
  BY DEF Init, Ports
<1> QED
  BY <1>2, <1>9, <1>10, <1>11, <1>12 DEF PortsInv

(* MMap is called for a page that neither port maps.                       *)
LEMMA CallMapKeeps ==
    ASSUME PortsInv, NEW virt \in Targets, NEW phys \in Frames, NEW flags \in MapFlags,
           CallMap(virt, phys, flags)
    PROVE  PortsInv'
<1>1. /\ call = Idle /\ call' = [virt |-> virt, phys |-> phys, flags |-> flags] /\ todo' = Ports
      /\ mem' = mem /\ done' = done /\ \A port \in Ports : FindOn(port, virt) = NULL
  BY DEF CallMap
<1>2. virt \in VirtualPages /\ "X86" \in Ports /\ "AArch64" \in Ports
  BY PortsAssumption DEF Ports
<1>3. Shown("X86", virt) = Nothing /\ Shown("AArch64", virt) = Nothing
  BY <1>1, <1>2, MapOfIs
<1>4. Agree(VirtualPages)
  BY <1>1, CallIsNotIdle DEF PortsInv, CallInv
<1>5. IsCall(call') /\ call'.virt = virt
  BY <1>1 DEF IsCall
<1>6. call' # Idle
  BY <1>5, CallIsNotIdle
<1>7. CallInv'
  BY <1>1, <1>3, <1>4, <1>5, <1>6 DEF CallInv, Agree, Shown
<1> QED
  BY <1>1, <1>7 DEF PortsInv

(* What a step may do to what the tables of the first port say: nothing,   *)
(* or to one page what PageMap allows.                                     *)
PageStep(old, new) ==
    \/ old = Nothing /\ new.Address \in Frames /\ new.Flags \in MapFlags \cup NewFlags
    \/ old # Nothing /\ new.Address = old.Address /\ new.Flags \in MapFlags \cup NewFlags
    \/ old # Nothing /\ new = Nothing

ViewStep ==
    \/ \A v \in VirtualPages : Shown("X86", v)' = Shown("X86", v)
    \/ \E virt \in Targets :
         /\ \A v \in VirtualPages \ {virt} : Shown("X86", v)' = Shown("X86", v)
         /\ PageStep(Shown("X86", virt), Shown("X86", virt)')

(* The tables of one port change, those of the other do not.               *)
LEMMA OnePort ==
    ASSUME PortsInv, NEW port \in Ports, NEW n, mem' = [mem EXCEPT ![port] = n],
           NEW lw, Tables(port, n, lw)
    PROVE  /\ mem' = [p \in Ports |-> mem'[p]]
           /\ \A p \in Ports : \E lv : Tables(p, mem'[p], lv)
           /\ \A v : Shown(port, v)' = View(n, Key(port, v))
           /\ \A p \in Ports \ {port} : \A v : Shown(p, v)' = Shown(p, v)
<1>1. /\ mem' = [p \in Ports |-> mem'[p]] /\ mem'[port] = n
      /\ \A p \in Ports \ {port} : mem'[p] = mem[p]
  <2>1. mem = [p \in Ports |-> mem[p]]
    BY DEF PortsInv
  <2>2. mem' = [p \in Ports |-> IF p = port THEN n ELSE mem[p]]
    BY <2>1
  <2> QED
    BY <2>2
<1>2. \A p \in Ports : \E lv : Tables(p, mem'[p], lv)
  BY <1>1 DEF PortsInv
<1> QED
  BY <1>1, <1>2 DEF Shown

(* A turn of MMap maps the page on one port or adds a table there.         *)
LEMMA TurnKeeps ==
    ASSUME PortsInv, NEW port \in Ports, Turn(port)
    PROVE  PortsInv' /\ ViewStep
<1>0. PICK v, phys, flags : v = call.virt /\ phys = call.phys /\ flags = call.flags
  OBVIOUS
<1> DEFINE k == Key(port, v)
           m == mem[port]
           r == MapPage(m, Root, phys, k, flags)
           e == [Address |-> phys, Flags |-> flags]
<1>1. port \in todo /\ (port = "AArch64" => "X86" \notin todo) /\ done' = done
  BY DEF Turn
<1>2. /\ call # Idle /\ IsCall(call) /\ Agree(VirtualPages \ {v})
      /\ Shown("AArch64", v) = Nothing
      /\ \/ todo = Ports /\ Shown("X86", v) = Nothing
         \/ todo = {"AArch64"} /\ Shown("X86", v) = e
  BY <1>0, <1>1 DEF PortsInv, CallInv
<1>3. \/ port = "X86" /\ todo = Ports
      \/ port = "AArch64" /\ todo = {"AArch64"} /\ Shown("X86", v) = e
  BY <1>1, <1>2 DEF Ports
<1>4. View(m, k) = Nothing
  BY <1>2, <1>3 DEF Shown, Ports
<1>5. /\ v \in Targets /\ v \in VirtualPages /\ phys \in Frames /\ flags \in MapFlags
      /\ k \in VirtualPages
  BY <1>0, <1>2, KeyIs, PortsAssumption DEF IsCall
<1>6. PICK lv : Tables(port, m, lv)
  BY DEF PortsInv
<1>7. flags \cap Unused = {} /\ "READ" \in flags
  BY <1>5, FlagsArePlain
<1>8. /\ MapOn(port, phys, v, flags) = r
      /\ \A level : LevelOn(port, level, v, flags)
                      = MapIntermediateLevel(m, Root, level, Cardinality(DOMAIN m), k, flags)
  BY <1>5, CallsAre
<1>9. \/ /\ r.result = 0 /\ mem' = [mem EXCEPT ![port] = r.mem] /\ todo' = todo \ {port}
         /\ call' = IF todo' = {} THEN Idle ELSE call
      \/ /\ r.result # 0
         /\ mem' = [mem EXCEPT ![port] = LevelOn(port, r.result, v, flags).mem]
         /\ call' = call /\ todo' = todo
  BY <1>0, <1>8 DEF Turn
<1> HIDE DEF k, m, r, e
<1>10. CASE r.result = 0
  <2>1. /\ Tables(port, r.mem, lv) /\ SameBut(m, r.mem, k) /\ View(r.mem, k) = e
    BY <1>4, <1>5, <1>6, <1>7, <1>10, MapPageIs DEF r, e
  <2>2. mem' = [mem EXCEPT ![port] = r.mem]
    BY <1>9, <1>10
  <2>3. /\ mem' = [p \in Ports |-> mem'[p]]
        /\ \A p \in Ports : \E lw : Tables(p, mem'[p], lw)
        /\ \A w : Shown(port, w)' = View(r.mem, Key(port, w))
        /\ \A p \in Ports \ {port} : \A w : Shown(p, w)' = Shown(p, w)
    BY <2>1, <2>2, OnePort
  <2>4. /\ Shown(port, v)' = e
        /\ \A w \in VirtualPages \ {v} : Shown(port, w)' = Shown(port, w)
    <3>1. Shown(port, v)' = e
      BY <2>1, <2>3 DEF k
    <3>2. ASSUME NEW w \in VirtualPages \ {v} PROVE Shown(port, w)' = Shown(port, w)
      <4>1. View(r.mem, Key(port, w)) = View(m, Key(port, w))
        BY <1>5, <2>1, ShownBut DEF k
      <4> QED
        BY <2>3, <4>1 DEF Shown, m
    <3> QED
      BY <3>1, <3>2
  <2>5. CASE port = "X86"
    <3>1. todo' = {"AArch64"} /\ call' = call
      BY <1>3, <1>9, <1>10, <2>5 DEF Ports
    <3>2. /\ \A w : Shown("AArch64", w)' = Shown("AArch64", w)
          /\ Shown("X86", v)' = e
          /\ \A w \in VirtualPages \ {v} : Shown("X86", w)' = Shown("X86", w)
      BY <2>3, <2>4, <2>5 DEF Ports
    <3>3. CallInv'
      BY <1>0, <1>2, <3>1, <3>2 DEF CallInv, Agree, e
    <3>4. PageStep(Shown("X86", v), Shown("X86", v)')
      BY <1>2, <1>3, <1>5, <2>5, <3>2 DEF PageStep, e, Ports
    <3> QED
      BY <1>1, <1>5, <2>3, <3>2, <3>3, <3>4 DEF PortsInv, ViewStep
  <2>6. CASE port = "AArch64"
    <3>1. todo' = {} /\ call' = Idle
      BY <1>3, <1>9, <1>10, <2>6
    <3>2. /\ \A w : Shown("X86", w)' = Shown("X86", w)
          /\ Shown("AArch64", v)' = e
          /\ \A w \in VirtualPages \ {v} : Shown("AArch64", w)' = Shown("AArch64", w)
      BY <2>3, <2>4, <2>6 DEF Ports
    <3>3. Shown("X86", v) = e
      BY <1>3, <2>6
    <3>4. (Agree(VirtualPages))'
      BY <1>2, <3>2, <3>3 DEF Agree
    <3>5. CallInv'
      BY <3>1, <3>4 DEF CallInv
    <3> QED
      BY <1>1, <2>3, <3>2, <3>5 DEF PortsInv, ViewStep
  <2> QED
    BY <2>5, <2>6 DEF Ports
<1>11. CASE r.result # 0
  <2> DEFINE n == MapIntermediateLevel(m, Root, r.result, Cardinality(DOMAIN m), k, flags).mem
  <2>1. r.result \in 1 .. 3 /\ r.result = MissingLevel(m, Root, k)
    <3>1. PICK q : q = MapPage(m, Root, phys, k, flags)
      OBVIOUS
    <3>2. q.result # 0 => IsMissing(q.result, m, k)
      BY <1>4, <1>5, <1>6, <1>7, <3>1, MapPageIs
    <3>3. r = q
      BY <3>1 DEF r
    <3> QED
      BY <1>11, <3>2, <3>3 DEF IsMissing
  <2>2. mem' = [mem EXCEPT ![port] = n] /\ call' = call /\ todo' = todo
    BY <1>8, <1>9, <1>11
  <2> HIDE DEF n
  <2>3. (\E lw : Tables(port, n, lw)) /\ \A j \in VirtualPages : View(n, j) = View(m, j)
    BY <1>5, <1>6, <1>7, <2>1, LevelIs DEF n, k
  <2>4. PICK lw : Tables(port, n, lw)
    BY <2>3
  <2>5. /\ mem' = [p \in Ports |-> mem'[p]]
        /\ \A p \in Ports : \E l : Tables(p, mem'[p], l)
        /\ \A w : Shown(port, w)' = View(n, Key(port, w))
        /\ \A p \in Ports \ {port} : \A w : Shown(p, w)' = Shown(p, w)
    BY <2>2, <2>4, OnePort
  <2>6. \A p \in Ports : \A w \in VirtualPages : Shown(p, w)' = Shown(p, w)
    <3>1. \A w \in VirtualPages : Shown(port, w)' = Shown(port, w)
      BY <2>3, <2>5, KeyIs DEF Shown, m
    <3> QED
      BY <2>5, <3>1
  <2>7. /\ \A w \in VirtualPages : Shown("X86", w)' = Shown("X86", w)
        /\ \A w \in VirtualPages : Shown("AArch64", w)' = Shown("AArch64", w)
    BY <2>6 DEF Ports
  <2>8. CallInv'
    BY <1>0, <1>2, <1>5, <2>2, <2>7 DEF CallInv, Agree, e
  <2> QED
    BY <1>1, <2>5, <2>7, <2>8 DEF PortsInv, ViewStep
<1> QED
  BY <1>10, <1>11

(* A call on a page that both ports take changes what they say of it alike.*)
LEMMA OnBothKeeps ==
    ASSUME PortsInv, call = Idle, call' = call, todo' = todo, NEW virt \in Targets,
           \A port \in Ports : /\ \E lv : Tables(port, mem'[port], lv)
                               /\ SameBut(mem[port], mem'[port], Key(port, virt))
                               /\ done'[port] = 0 <=> Shown(port, virt) # Nothing,
           Shown("X86", virt) = Shown("AArch64", virt)
               => Shown("X86", virt)' = Shown("AArch64", virt)',
           mem' = [port \in Ports |-> mem'[port]]
    PROVE  /\ PortsInv'
           /\ \A v \in VirtualPages \ {virt} : Shown("X86", v)' = Shown("X86", v)
<1>1. todo = {} /\ Agree(VirtualPages)
  BY CallIsNotIdle DEF PortsInv, CallInv
<1>2. virt \in VirtualPages /\ "X86" \in Ports /\ "AArch64" \in Ports
  BY PortsAssumption DEF Ports
<1>3. \A port \in Ports : \A v \in VirtualPages \ {virt} : Shown(port, v)' = Shown(port, v)
  BY <1>2, ShownBut DEF Shown
<1>4. Shown("X86", virt) = Shown("AArch64", virt)
  BY <1>1, <1>2 DEF Agree
<1>5. Shown("X86", virt)' = Shown("AArch64", virt)'
  BY <1>2, <1>4
<1>6. (Agree(VirtualPages))'
  <2>1. ASSUME NEW v \in VirtualPages PROVE Shown("X86", v)' = Shown("AArch64", v)'
    <3>1. CASE v = virt
      BY <1>5, <3>1
    <3>2. CASE v # virt
      BY <1>1, <1>2, <1>3, <3>2 DEF Agree
    <3> QED
      BY <3>1, <3>2
  <2> QED
    BY <2>1 DEF Agree
<1>7. done'["X86"] = 0 <=> done'["AArch64"] = 0
  BY <1>2, <1>4
<1>8. CallInv'
  BY <1>1, <1>6 DEF CallInv
<1> QED
  BY <1>2, <1>3, <1>7, <1>8 DEF PortsInv

(* A change of flags reaches one page, and the same one, on both ports.    *)
LEMMA CallFlagKeeps ==
    ASSUME PortsInv, NEW virt \in Targets, NEW flags \in NewFlags, CallFlag(virt, flags)
    PROVE  PortsInv' /\ ViewStep
<1> DEFINE R(port) == FlagPage(mem[port], Root, Key(port, virt), flags)
<1>1. /\ call = Idle /\ call' = call /\ todo' = todo
      /\ mem' = [port \in Ports |-> FlagOn(port, virt, flags).mem]
      /\ done' = [port \in Ports |-> FlagOn(port, virt, flags).result]
  BY DEF CallFlag, OnBoth
<1>2. \A port \in Ports : mem'[port] = R(port).mem /\ done'[port] = R(port).result
  BY <1>1, CallsAre
<1>3. virt \in VirtualPages /\ flags \cap Unused = {} /\ "X86" \in Ports /\ "AArch64" \in Ports
  BY PortsAssumption, FlagsArePlain DEF Ports
<1> HIDE DEF R
<1>4. ASSUME NEW port \in Ports
      PROVE  /\ \E lv : Tables(port, mem'[port], lv)
             /\ SameBut(mem[port], mem'[port], Key(port, virt))
             /\ done'[port] = 0 <=> Shown(port, virt) # Nothing
             /\ Shown(port, virt)' = Flagged(Shown(port, virt), flags)
  <2>1. PICK lv : Tables(port, mem[port], lv)
    BY DEF PortsInv
  <2> DEFINE m == mem[port]
             k == Key(port, virt)
             r == R(port)
  <2>2. k \in VirtualPages
    BY <1>3, KeyIs
  <2>3. r = FlagPage(m, Root, k, flags)
    BY DEF R
  <2> HIDE DEF m, k, r
  <2>4. /\ Tables(port, r.mem, lv) /\ SameBut(m, r.mem, k)
        /\ r.result = 0 <=> View(m, k) # Nothing
        /\ View(r.mem, k) = Flagged(View(m, k), flags)
    BY <1>3, <2>1, <2>2, <2>3, FlagPageIs DEF m
  <2> QED
    BY <1>2, <2>4 DEF Shown, m, k, r
<1>5. mem' = [port \in Ports |-> mem'[port]]
  BY <1>1
<1>6. /\ PortsInv'
      /\ \A v \in VirtualPages \ {virt} : Shown("X86", v)' = Shown("X86", v)
  <2>1. Shown("X86", virt) = Shown("AArch64", virt)
          => Shown("X86", virt)' = Shown("AArch64", virt)'
    BY <1>3, <1>4
  <2> QED
    BY <1>1, <1>4, <1>5, <2>1, OnBothKeeps
<1>7. Shown("X86", virt)' = Flagged(Shown("X86", virt), flags)
  BY <1>3, <1>4
<1>8. CASE Shown("X86", virt) = Nothing
  <2>1. Shown("X86", virt)' = Shown("X86", virt)
    BY <1>7, <1>8 DEF Flagged
  <2> QED
    BY <1>6, <2>1 DEF ViewStep
<1>9. CASE Shown("X86", virt) # Nothing
  <2>1. PageStep(Shown("X86", virt), Shown("X86", virt)')
    BY <1>7, <1>9 DEF Flagged, PageStep
  <2> QED
    BY <1>6, <2>1 DEF ViewStep
<1> QED
  BY <1>8, <1>9

(* So does taking a page out.                                              *)
LEMMA CallUnmapKeeps ==
    ASSUME PortsInv, NEW virt \in Targets, CallUnmap(virt)
    PROVE  PortsInv' /\ ViewStep
<1> DEFINE R(port) == UnmapPage(mem[port], Root, Key(port, virt))
<1>1. /\ call = Idle /\ call' = call /\ todo' = todo
      /\ mem' = [port \in Ports |-> UnmapOn(port, virt).mem]
      /\ done' = [port \in Ports |-> UnmapOn(port, virt).result]
  BY DEF CallUnmap, OnBoth
<1>2. \A port \in Ports : mem'[port] = R(port).mem /\ done'[port] = R(port).result
  BY <1>1, CallsAre
<1>3. virt \in VirtualPages /\ "X86" \in Ports /\ "AArch64" \in Ports
  BY PortsAssumption DEF Ports
<1> HIDE DEF R
<1>4. ASSUME NEW port \in Ports
      PROVE  /\ \E lv : Tables(port, mem'[port], lv)
             /\ SameBut(mem[port], mem'[port], Key(port, virt))
             /\ done'[port] = 0 <=> Shown(port, virt) # Nothing
             /\ Shown(port, virt)' = Nothing
  <2>1. PICK lv : Tables(port, mem[port], lv)
    BY DEF PortsInv
  <2> DEFINE m == mem[port]
             k == Key(port, virt)
             r == R(port)
  <2>2. k \in VirtualPages
    BY <1>3, KeyIs
  <2>3. r = UnmapPage(m, Root, k)
    BY DEF R
  <2> HIDE DEF m, k, r
  <2>4. /\ Tables(port, r.mem, lv) /\ SameBut(m, r.mem, k)
        /\ r.result = 0 <=> View(m, k) # Nothing
        /\ View(r.mem, k) = Nothing
    BY <2>1, <2>2, <2>3, UnmapPageIs DEF m
  <2> QED
    BY <1>2, <2>4 DEF Shown, m, k, r
<1>5. mem' = [port \in Ports |-> mem'[port]]
  BY <1>1
<1>6. /\ PortsInv'
      /\ \A v \in VirtualPages \ {virt} : Shown("X86", v)' = Shown("X86", v)
  <2>1. Shown("X86", virt) = Shown("AArch64", virt)
          => Shown("X86", virt)' = Shown("AArch64", virt)'
    BY <1>3, <1>4
  <2> QED
    BY <1>1, <1>4, <1>5, <2>1, OnBothKeeps
<1>7. Shown("X86", virt)' = Nothing
  BY <1>3, <1>4
<1>8. CASE Shown("X86", virt) = Nothing
  BY <1>6, <1>7, <1>8 DEF ViewStep
<1>9. CASE Shown("X86", virt) # Nothing
  <2>1. PageStep(Shown("X86", virt), Shown("X86", virt)')
    BY <1>7, <1>9 DEF PageStep
  <2> QED
    BY <1>6, <2>1 DEF ViewStep
<1> QED
  BY <1>8, <1>9

(* Every step keeps the invariant, and changes what PageMap allows.        *)
LEMMA StepKeeps ==
    ASSUME PortsInv, [Next]_vars
    PROVE  PortsInv' /\ ViewStep
<1>1. CASE \E virt \in Targets, phys \in Frames, flags \in MapFlags : CallMap(virt, phys, flags)
  <2>1. PICK virt \in Targets, phys \in Frames, flags \in MapFlags : CallMap(virt, phys, flags)
    BY <1>1
  <2>2. mem' = mem
    BY <2>1 DEF CallMap
  <2> QED
    BY <2>1, <2>2, CallMapKeeps DEF ViewStep, Shown
<1>2. CASE \E port \in Ports : Turn(port)
  BY <1>2, TurnKeeps
<1>3. CASE \E virt \in Targets, flags \in NewFlags : CallFlag(virt, flags)
  BY <1>3, CallFlagKeeps
<1>4. CASE \E virt \in Targets : CallUnmap(virt)
  BY <1>4, CallUnmapKeeps
<1>5. CASE UNCHANGED vars
  BY <1>5 DEF vars, PortsInv, CallInv, Agree, Shown, ViewStep
<1> QED
  BY <1>1, <1>2, <1>3, <1>4, <1>5 DEF Next

-----------------------------------------------------------------------------
(* The theorems.                                                           *)

(* Every table but the root is on the way to one of the pages the calls    *)
(* name, at one of three levels, so there are at most three for each page. *)
LEMMA TablesAreFew ==
    ASSUME NEW port \in Ports, NEW m, NEW lv, Tables(port, m, lv)
    PROVE  Cardinality(DOMAIN m) <= 1 + 3 * Cardinality(Targets)
<1> DEFINE N == ENTRIES
           Places == Targets \X (1 .. 3)
           Added == DOMAIN m \ {Root}
           On(x, t) == Table(m, Root, Key(port, x[1]), x[2]) = t
           place == [t \in Added |-> CHOOSE x \in Places : On(x, t)]
<1>1. IsFiniteSet(Targets)
  <2>1. N * N * N * N \in Nat
    BY EntriesAssumption
  <2> HIDE DEF N
  <2>2. IsFiniteSet(0 .. (N * N * N * N) - 1)
    BY <2>1, FS_Interval
  <2>3. Targets \in SUBSET (0 .. (N * N * N * N) - 1)
    BY PortsAssumption DEF VirtualPages, N
  <2> QED
    BY <2>2, <2>3, FS_Subset
<1>2. IsFiniteSet(1 .. 3) /\ Cardinality(1 .. 3) = 3
  <2>1. /\ IsFiniteSet(1 .. 3)
        /\ Cardinality(1 .. 3) = IF 1 > 3 THEN 0 ELSE 3 - 1 + 1
    BY FS_Interval, 1 \in Int, 3 \in Int, Zenon
  <2> QED
    BY <2>1
<1>3. IsFiniteSet(Places) /\ Cardinality(Places) = Cardinality(Targets) * 3
  BY <1>1, <1>2, FS_Product
<1>4. \A t \in Added : \E x \in Places : On(x, t)
  <2>1. ASSUME NEW t \in Added PROVE \E x \in Places : On(x, t)
    <3>1. PICK v \in Targets, l \in 1 .. 3 : Table(m, Root, Key(port, v), l) = t
      BY DEF Tables
    <3>2. <<v, l>> \in Places /\ On(<<v, l>>, t)
      BY <3>1
    <3> QED
      BY <3>2
  <2> QED
    BY <2>1
<1> HIDE DEF Places, Added, On
<1>5. place \in [Added -> Places] /\ \A t \in Added : On(place[t], t)
  BY <1>4
<1> HIDE DEF place
<1>6. place \in Injection(Added, Places)
  BY <1>5 DEF Injection, IsInjective, On
<1>7. IsFiniteSet(Added) /\ Cardinality(Added) <= Cardinality(Places)
  BY <1>3, <1>6, FS_Injection
<1>8. IsFiniteSet(Added \cup {Root}) /\ Cardinality(Added \cup {Root}) <= Cardinality(Added) + 1
  <2>1. Cardinality(Added) \in Nat
    BY <1>7, FS_CardinalityType
  <2>2. /\ IsFiniteSet(Added \cup {Root})
        /\ Cardinality(Added \cup {Root})
             = IF Root \in Added THEN Cardinality(Added) ELSE Cardinality(Added) + 1
    BY <1>7, FS_AddElement
  <2> QED
    BY <2>1, <2>2
<1>9. DOMAIN m \in SUBSET (Added \cup {Root})
  BY DEF Added
<1>10. IsFiniteSet(DOMAIN m) /\ Cardinality(DOMAIN m) <= Cardinality(Added \cup {Root})
  BY <1>8, <1>9, FS_Subset
<1>11. /\ Cardinality(Targets) \in Nat /\ Cardinality(Places) \in Nat
       /\ Cardinality(Added) \in Nat /\ Cardinality(DOMAIN m) \in Nat
       /\ Cardinality(Added \cup {Root}) \in Nat
  BY <1>1, <1>3, <1>7, <1>8, <1>10, FS_CardinalityType
<1> QED
  BY <1>3, <1>7, <1>8, <1>10, <1>11

(* The tables of each port form a tree whose frames count up from the      *)
(* root's; while a page is mapped one port may be ahead, at that page      *)
(* only.                                                                   *)
THEOREM PortsAreKept == Spec => []PortsInv
<1>1. Init => PortsInv
  BY InitHolds
<1>2. PortsInv /\ [Next]_vars => PortsInv'
  BY StepKeeps
<1> QED
  BY <1>1, <1>2, PTL DEF Spec

(* The tables of both ports map the same pages to the same frames with the *)
(* same flags, and the calls succeed on both or on neither, for any number *)
(* of entries, pages, frames and flags.                                    *)
THEOREM PortsAlwaysAgree == Spec => []PortsAgree
<1>1. ASSUME PortsInv PROVE PortsAgree
  <2>1. "X86" \in Ports /\ "AArch64" \in Ports
    BY DEF Ports
  <2>2. ASSUME call = Idle
        PROVE  MapOf("X86") = MapOf("AArch64") /\ (done["X86"] = 0 <=> done["AArch64"] = 0)
    <3>1. Agree(VirtualPages)
      BY <1>1, <2>2, CallIsNotIdle DEF PortsInv, CallInv
    <3>2. /\ MapOf("X86") = [v \in VirtualPages |-> Shown("X86", v)]
          /\ MapOf("AArch64") = [v \in VirtualPages |-> Shown("AArch64", v)]
      BY <1>1, <2>1, MapOfIs
    <3> QED
      BY <1>1, <3>1, <3>2 DEF Agree, PortsInv
  <2>3. \A port \in Ports : Cardinality(DOMAIN mem[port]) <= 1 + 3 * Cardinality(Targets)
    BY <1>1, TablesAreFew DEF PortsInv
  <2> QED
    BY <2>2, <2>3 DEF PortsAgree
<1> QED
  BY <1>1, PortsAreKept, PTL

(* The same of the map of PageMap, in every state and so in the next one.  *)
LEMMA MapIsShown == PortsInv => MapOf("X86") = [v \in VirtualPages |-> Shown("X86", v)]
  BY MapOfIs DEF Ports

(* The tables of the x86-64 port, and with them those of the other,        *)
(* implement the map of PageMap: every step maps one page, changes the     *)
(* flags of one, takes one out, or changes nothing.                        *)
THEOREM MapImplemented == Spec => ImplementsPageMap
<1> DEFINE map == MapOf("X86")
<1>1. "X86" \in Ports /\ Map86!Nothing = Nothing
  BY DEF Ports, Map86!Nothing, Nothing
<1>2. ASSUME PortsInv PROVE map = [v \in VirtualPages |-> Shown("X86", v)]
  BY <1>2, MapIsShown
<1>3. Init => Map86!Init
  <2>1. ASSUME Init PROVE Map86!Init
    <3>1. PortsInv /\ \A virt \in VirtualPages : Shown("X86", virt) = Nothing
      BY <1>1, <2>1, InitHolds
    <3> QED
      BY <1>1, <1>2, <3>1 DEF Map86!Init
  <2> QED
    BY <2>1
<1>4. ASSUME PortsInv, [Next]_vars PROVE [Map86!Next]_map
  <2>1. PortsInv' /\ ViewStep
    BY <1>4, StepKeeps
  <2>2. map = [v \in VirtualPages |-> Shown("X86", v)]
    BY <1>2, <1>4
  <2>3. PortsInv' => (MapOf("X86") = [v \in VirtualPages |-> Shown("X86", v)])'
    BY MapIsShown, PTL
  <2>4. map' = [v \in VirtualPages |-> Shown("X86", v)']
    BY <2>1, <2>3
  <2> HIDE DEF map
  <2>5. CASE \A v \in VirtualPages : Shown("X86", v)' = Shown("X86", v)
    BY <2>2, <2>4, <2>5
  <2>6. CASE \E virt \in Targets :
               /\ \A v \in VirtualPages \ {virt} : Shown("X86", v)' = Shown("X86", v)
               /\ PageStep(Shown("X86", virt), Shown("X86", virt)')
    <3>1. PICK virt \in Targets :
                 /\ \A v \in VirtualPages \ {virt} : Shown("X86", v)' = Shown("X86", v)
                 /\ PageStep(Shown("X86", virt), Shown("X86", virt)')
      BY <2>6
    <3>2. virt \in VirtualPages
      BY PortsAssumption
    <3>3. map[virt] = Shown("X86", virt) /\ map'[virt] = Shown("X86", virt)'
      BY <2>2, <2>4, <3>2
    <3>4. map' = [map EXCEPT ![virt] = map'[virt]]
      BY <2>2, <2>4, <3>1
    <3> QED
      BY <1>1, <3>1, <3>3, <3>4 DEF map, PageStep, Map86!Next, Map86!Map, Map86!Flag, Map86!Unmap
  <2> QED
    BY <2>1, <2>5, <2>6 DEF ViewStep
<1> QED
  BY <1>3, <1>4, PortsAreKept, PTL DEF Spec, ImplementsPageMap, Map86!Spec

=============================================================================
