---------------------------- MODULE PageTableProofs ----------------------------
(***************************************************************************)
(* What the calls on the page tables of PageTable keep, whatever the       *)
(* number of entries: as long as the frames they are given are new, the    *)
(* tables are a forest of four levels, every virtual page has a walk and   *)
(* an entry of its own, and a call changes the entry it is for and what no *)
(* walk leads to.                                                          *)
(***************************************************************************)
EXTENDS PageTable, TLAPS

-----------------------------------------------------------------------------
(* A virtual page is determined by its digits.                             *)

(* Quotient and remainder by the number of entries of a table.             *)
LEMMA DivisionByEntries ==
    ASSUME NEW x \in Nat
    PROVE  /\ x = (ENTRIES * (x \div ENTRIES)) + (x % ENTRIES)
           /\ x \div ENTRIES \in Nat /\ x % ENTRIES \in Index
  BY EntriesAssumption DEF Index

(* One level further up there are fewer tables to choose from.             *)
LEMMA QuotientIsLess ==
    ASSUME NEW x \in Nat, NEW k \in Nat, x < ENTRIES * k
    PROVE  x \div ENTRIES < k
<1> DEFINE q == x \div ENTRIES
           r == x % ENTRIES
<1>1. x = (ENTRIES * q) + r /\ q \in Nat /\ r \in Nat /\ ENTRIES \in Nat
  BY DivisionByEntries, EntriesAssumption DEF Index
<1> HIDE DEF q, r
<1>2. SUFFICES ASSUME q >= k PROVE FALSE
  BY <1>1 DEF q
<1>3. ENTRIES * (q - k) >= 0
  BY <1>1, <1>2
<1>4. ENTRIES * (q - k) = (ENTRIES * q) - (ENTRIES * k) /\ ENTRIES * q \in Nat /\ ENTRIES * k \in Nat
  BY <1>1
<1> QED
  BY <1>1, <1>3, <1>4

(* The index of an address at a level is an entry of a table.              *)
LEMMA EntryIsIndex ==
    ASSUME NEW virt \in Nat, NEW level \in 1 .. 4
    PROVE  Entry(virt, level) \in Index
<1>1. virt \div ENTRIES \in Nat
  BY DivisionByEntries
<1>2. (virt \div ENTRIES) \div ENTRIES \in Nat
  BY <1>1, DivisionByEntries
<1>3. ((virt \div ENTRIES) \div ENTRIES) \div ENTRIES \in Nat
  BY <1>2, DivisionByEntries
<1>4. \A x \in Nat : x % ENTRIES \in Index
  BY DivisionByEntries
<1> QED
  BY <1>1, <1>2, <1>3, <1>4 DEF Entry

(* Two page numbers with the same index at every level are the same page.  *)
LEMMA DigitsDecide ==
    ASSUME NEW v \in VirtualPages, NEW w \in VirtualPages,
           \A level \in 1 .. 4 : Entry(v, level) = Entry(w, level)
    PROVE  v = w
<1> DEFINE N == ENTRIES
           D(x) == x \div N
<1>1. N \in Nat /\ N > 0
  BY EntriesAssumption
<1>2. v \in Nat /\ w \in Nat /\ VirtualPages \subseteq Nat
  BY DEF VirtualPages
<1>3. \A x \in Nat : D(x) \in Nat
  BY DivisionByEntries
<1>4. \A x, y \in Nat : D(x) = D(y) /\ x % N = y % N => x = y
  BY DivisionByEntries
<1>5. \A x \in VirtualPages : D(D(D(x))) \in 0 .. N - 1
  <2> TAKE x \in VirtualPages
  <2>1. N * N \in Nat /\ N * (N * N) \in Nat
    BY <1>1
  <2>2. x \in Nat /\ x < N * (N * (N * N))
    <3>1. ((N * N) * N) * N = N * (N * (N * N)) /\ ((N * N) * N) * N \in Nat
      BY <1>1
    <3>2. x \in Nat /\ x <= (N * N * N * N) - 1
      BY <1>2 DEF VirtualPages
    <3> QED
      BY <3>1, <3>2
  <2>3. D(x) \in Nat /\ D(x) < N * (N * N)
    BY <1>3, <2>1, <2>2, QuotientIsLess
  <2>4. D(D(x)) \in Nat /\ D(D(x)) < N * N
    BY <1>1, <1>3, <2>1, <2>3, QuotientIsLess
  <2>5. D(D(D(x))) \in Nat /\ D(D(D(x))) < N
    BY <1>1, <1>3, <2>4, QuotientIsLess
  <2> QED
    BY <1>1, <2>5
<1>6. \A y \in 0 .. N - 1 : y % N = y
  BY <1>1
<1>7. \A x \in Nat : /\ Entry(x, 1) = x % N /\ Entry(x, 2) = D(x) % N
                     /\ Entry(x, 3) = D(D(x)) % N /\ Entry(x, 4) = D(D(D(x))) % N
  BY DEF Entry
<1>8. /\ v % N = w % N /\ D(v) % N = D(w) % N /\ D(D(v)) % N = D(D(w)) % N
      /\ D(D(D(v))) % N = D(D(D(w))) % N
  <2>1. /\ Entry(v, 1) = Entry(w, 1) /\ Entry(v, 2) = Entry(w, 2)
        /\ Entry(v, 3) = Entry(w, 3) /\ Entry(v, 4) = Entry(w, 4)
    OBVIOUS
  <2> QED
    BY <1>2, <1>7, <2>1
<1> HIDE DEF D, N
<1>9. D(D(D(v))) = D(D(D(w)))
  BY <1>5, <1>6, <1>8
<1>10. D(D(v)) = D(D(w))
  BY <1>2, <1>3, <1>4, <1>8, <1>9
<1>11. D(v) = D(w)
  BY <1>2, <1>3, <1>4, <1>8, <1>10
<1> QED
  BY <1>2, <1>4, <1>8, <1>11

-----------------------------------------------------------------------------
(* Walks.                                                                  *)

(* A walk goes on by one level at a time.                                  *)
LEMMA WalkSteps ==
    ASSUME NEW m, NEW root, NEW virt
    PROVE  /\ Table(m, root, virt, 4) = root
           /\ \A k \in 1 .. 3 :
                Table(m, root, virt, k)
                    = NextLevel(m, Table(m, root, virt, k + 1), Entry(virt, k + 1))
<1>1. 1 .. 3 = {1, 2, 3}
  OBVIOUS
<1> QED
  BY <1>1 DEF Table

(* What holds of the root and of each table when it holds of the one above *)
(* holds of the whole walk.                                                *)
LEMMA Downwards ==
    ASSUME NEW S, 4 \in S, \A k \in 1 .. 3 : k + 1 \in S => k \in S
    PROVE  \A k \in 1 .. 4 : k \in S
<1>1. 3 \in S
  BY 3 + 1 = 4
<1>2. 2 \in S
  BY <1>1, 2 + 1 = 3
<1>3. 1 \in S
  BY <1>2, 1 + 1 = 2
<1> QED
  BY <1>1, <1>2, <1>3

(* A table that a walk reaches hangs from a present entry of the one       *)
(* above.                                                                  *)
LEMMA NextLevelIs ==
    ASSUME NEW m, NEW root, NEW virt, NEW k \in 1 .. 3, Table(m, root, virt, k) # NULL
    PROVE  /\ Table(m, root, virt, k + 1) # NULL
           /\ Present(m[Table(m, root, virt, k + 1)][Entry(virt, k + 1)])
           /\ Table(m, root, virt, k)
                = m[Table(m, root, virt, k + 1)][Entry(virt, k + 1)].Address
  BY WalkSteps DEF NextLevel

(* MissingLevel answers the level of the first table that is not there, 0  *)
(* when there is none.                                                     *)
LEMMA MissingLevelIs ==
    ASSUME NEW m, NEW root, NEW virt, root # NULL
    PROVE  /\ MissingLevel(m, root, virt) \in 0 .. 3
           /\ MissingLevel(m, root, virt) = 0 <=> Table(m, root, virt, 1) # NULL
           /\ \A l \in 1 .. 3 :
                MissingLevel(m, root, virt) = l
                    <=> Table(m, root, virt, l) = NULL /\ Table(m, root, virt, l + 1) # NULL
<1> DEFINE W(k) == Table(m, root, virt, k)
           missing == {level \in 1 .. 3 : W(level) = NULL}
           M == MissingLevel(m, root, virt)
<1>1. W(4) # NULL /\ \A k \in 1 .. 3 : W(k + 1) = NULL => W(k) = NULL
  BY WalkSteps, NextLevelIs
<1>2. M = IF missing = {} THEN 0 ELSE CHOOSE l \in missing : \A k \in missing : k <= l
  BY DEF MissingLevel
<1>3. /\ W(2) = NULL => W(1) = NULL
      /\ W(3) = NULL => W(2) = NULL
  <2>1. 1 + 1 = 2 /\ 2 + 1 = 3 /\ 1 \in 1 .. 3 /\ 2 \in 1 .. 3
    OBVIOUS
  <2> HIDE DEF W
  <2> QED
    BY <1>1, <2>1
<1> HIDE DEF W, M
<1>4. CASE W(1) # NULL
  <2>1. missing = {}
    BY <1>3, <1>4
  <2> QED
    BY <1>1, <1>2, <1>3, <1>4, <2>1 DEF W, M
<1>5. CASE W(1) = NULL
  <2>1. PICK l \in missing : \A k \in missing : k <= l
    <3>1. CASE W(3) = NULL
      BY <3>1
    <3>2. CASE W(3) # NULL /\ W(2) = NULL
      BY <3>2
    <3>3. CASE W(3) # NULL /\ W(2) # NULL
      BY <1>5, <3>3
    <3> QED
      BY <3>1, <3>2, <3>3
  <2>2. M \in missing /\ \A k \in missing : k <= M
    BY <1>2, <2>1
  <2>3. M \in 1 .. 3 /\ W(M) = NULL /\ W(M + 1) # NULL
    <3>1. M \in 1 .. 3 /\ W(M) = NULL
      BY <2>2
    <3>2. CASE M = 3
      <4>1. M + 1 = 4
        BY <3>2
      <4> QED
        BY <1>1, <3>1, <4>1
    <3>3. CASE M # 3
      <4>1. M + 1 \in 1 .. 3 /\ M + 1 \notin missing
        BY <2>2, <3>1, <3>3
      <4> QED
        BY <3>1, <4>1
    <3> QED
      BY <3>1, <3>2, <3>3
  <2>4. ASSUME NEW j \in 1 .. 3, W(j) = NULL, W(j + 1) # NULL
        PROVE  M = j
    <3>1. j <= M
      BY <2>2, <2>4
    <3>2. CASE j < M
      <4>1. W(j + 1) = NULL
        BY <1>3, <2>3, <2>4, <3>2
      <4> QED
        BY <2>4, <4>1
    <3> QED
      BY <2>3, <3>1, <3>2
  <2> QED
    BY <1>5, <2>3, <2>4 DEF W, M
<1> QED
  BY <1>4, <1>5

-----------------------------------------------------------------------------
(* Forests.                                                                *)

IsEntry(e) == e = [Address |-> e.Address, Flags |-> e.Flags]

IsTable(table) == DOMAIN table = Index /\ \A i \in Index : IsEntry(table[i])

(* The present entries of the tables of the levels 4 to 2, lv being the    *)
(* level of each.                                                          *)
LeadsOn(m, lv, t, i) ==
    t \in DOMAIN m /\ i \in Index /\ lv[t] > 1 /\ Present(m[t][i])

(* The tables of m form a forest with the roots R: what such an entry      *)
(* leads to is a table of the next level, to which no other entry leads,   *)
(* and to every table but the roots there is such an entry.                *)
Forest(m, R, lv) ==
    /\ lv \in [DOMAIN m -> 1 .. 4]
    /\ NULL \notin DOMAIN m
    /\ \A t \in DOMAIN m : IsTable(m[t])
    /\ R = {t \in DOMAIN m : lv[t] = 4}
    /\ \A t, i : LeadsOn(m, lv, t, i) =>
         m[t][i].Address \in DOMAIN m /\ lv[m[t][i].Address] = lv[t] - 1
    /\ \A t, i, u, j : LeadsOn(m, lv, t, i) /\ LeadsOn(m, lv, u, j)
                         /\ m[t][i].Address = m[u][j].Address => t = u /\ i = j
    /\ \A t \in DOMAIN m \ R : \E u, i : LeadsOn(m, lv, u, i) /\ m[u][i].Address = t

(* A walk is at a table of its level, or has ended.                        *)
LEMMA WalkIsTyped ==
    ASSUME NEW m, NEW R, NEW lv, Forest(m, R, lv), NEW root \in R, NEW virt \in Nat
    PROVE  \A k \in 1 .. 4 : LET W == Table(m, root, virt, k)
                            IN  W = NULL \/ (W \in DOMAIN m /\ lv[W] = k)
<1> DEFINE W(k) == Table(m, root, virt, k)
           S == {k \in 1 .. 4 : W(k) = NULL \/ (W(k) \in DOMAIN m /\ lv[W(k)] = k)}
<1>1. 4 \in S
  BY WalkSteps DEF Forest
<1>2. ASSUME NEW k \in 1 .. 3, k + 1 \in S PROVE k \in S
  <2>1. CASE W(k) = NULL
    BY <2>1
  <2>2. CASE W(k) # NULL
    <3>1. /\ W(k + 1) # NULL /\ Present(m[W(k + 1)][Entry(virt, k + 1)])
          /\ W(k) = m[W(k + 1)][Entry(virt, k + 1)].Address
      BY <2>2, NextLevelIs
    <3>2. Entry(virt, k + 1) \in Index
      BY EntryIsIndex
    <3> HIDE DEF W
    <3>3. W(k + 1) \in DOMAIN m /\ lv[W(k + 1)] = k + 1
      BY <1>2, <3>1
    <3>4. LeadsOn(m, lv, W(k + 1), Entry(virt, k + 1))
      BY <3>1, <3>2, <3>3 DEF LeadsOn
    <3>5. W(k) \in DOMAIN m /\ lv[W(k)] = lv[W(k + 1)] - 1
      BY <3>1, <3>4 DEF Forest
    <3> QED
      BY <3>3, <3>5
  <2> QED
    BY <2>1, <2>2
<1> HIDE DEF S
<1>3. \A k \in 1 .. 4 : k \in S
  BY <1>1, <1>2, Downwards
<1> QED
  BY <1>3 DEF S

(* A table is reached from one root and with one sequence of digits.       *)
LEMMA WalkIsUnique ==
    ASSUME NEW m, NEW R, NEW lv, Forest(m, R, lv), NEW r \in R, NEW s \in R,
           NEW v \in Nat, NEW w \in Nat
    PROVE  \A k \in 1 .. 4 :
             Table(m, r, v, k) # NULL /\ Table(m, r, v, k) = Table(m, s, w, k)
                 => r = s /\ \A j \in (k + 1) .. 4 : Entry(v, j) = Entry(w, j)
<1> DEFINE V(k) == Table(m, r, v, k)
           W(k) == Table(m, s, w, k)
           S == {k \in 1 .. 4 : V(k) # NULL /\ V(k) = W(k)
                    => r = s /\ \A j \in (k + 1) .. 4 : Entry(v, j) = Entry(w, j)}
<1>1. 4 \in S
  BY WalkSteps
<1>2. ASSUME NEW k \in 1 .. 3, k + 1 \in S, V(k) # NULL, V(k) = W(k)
      PROVE  r = s /\ \A j \in (k + 1) .. 4 : Entry(v, j) = Entry(w, j)
  <2>1. /\ V(k + 1) # NULL /\ Present(m[V(k + 1)][Entry(v, k + 1)])
        /\ V(k) = m[V(k + 1)][Entry(v, k + 1)].Address
    BY <1>2, NextLevelIs
  <2>2. /\ W(k + 1) # NULL /\ Present(m[W(k + 1)][Entry(w, k + 1)])
        /\ W(k) = m[W(k + 1)][Entry(w, k + 1)].Address
    BY <1>2, NextLevelIs
  <2>3. /\ V(k + 1) \in DOMAIN m /\ lv[V(k + 1)] = k + 1
        /\ W(k + 1) \in DOMAIN m /\ lv[W(k + 1)] = k + 1
        /\ Entry(v, k + 1) \in Index /\ Entry(w, k + 1) \in Index
    BY <2>1, <2>2, WalkIsTyped, EntryIsIndex
  <2> HIDE DEF V, W
  <2>4. /\ LeadsOn(m, lv, V(k + 1), Entry(v, k + 1))
        /\ LeadsOn(m, lv, W(k + 1), Entry(w, k + 1))
    BY <2>1, <2>2, <2>3 DEF LeadsOn
  <2>5. V(k + 1) = W(k + 1) /\ Entry(v, k + 1) = Entry(w, k + 1)
    <3>1. \A t, i, u, j : LeadsOn(m, lv, t, i) /\ LeadsOn(m, lv, u, j)
                          /\ m[t][i].Address = m[u][j].Address => t = u /\ i = j
      BY DEF Forest
    <3>2. m[V(k + 1)][Entry(v, k + 1)].Address = m[W(k + 1)][Entry(w, k + 1)].Address
      BY <1>2, <2>1, <2>2
    <3> QED
      BY <2>4, <3>1, <3>2
  <2>6. r = s /\ \A j \in (k + 1 + 1) .. 4 : Entry(v, j) = Entry(w, j)
    BY <1>2, <2>1, <2>5
  <2> QED
    BY <2>5, <2>6
<1>3. \A k \in 1 .. 3 : k + 1 \in S => k \in S
  BY <1>2
<1> HIDE DEF S
<1>4. \A k \in 1 .. 4 : k \in S
  BY <1>1, <1>3, Downwards
<1> QED
  BY <1>4 DEF S

(* No two virtual pages share the entry they are mapped by.                *)
LEMMA LeafIsUnique ==
    ASSUME NEW m, NEW R, NEW lv, Forest(m, R, lv), NEW r \in R, NEW s \in R,
           NEW v \in VirtualPages, NEW w \in VirtualPages,
           Table(m, r, v, 1) # NULL, Table(m, r, v, 1) = Table(m, s, w, 1),
           Entry(v, 1) = Entry(w, 1)
    PROVE  r = s /\ v = w
<1>1. v \in Nat /\ w \in Nat
  BY DEF VirtualPages
<1>2. r = s /\ \A j \in 2 .. 4 : Entry(v, j) = Entry(w, j)
  <2>1. 1 + 1 = 2 /\ 1 \in 1 .. 4
    OBVIOUS
  <2> QED
    <3>1. \A k \in 1 .. 4 :
             Table(m, r, v, k) # NULL /\ Table(m, r, v, k) = Table(m, s, w, k)
                 => r = s /\ \A j \in (k + 1) .. 4 : Entry(v, j) = Entry(w, j)
      BY <1>1, WalkIsUnique
    <3> QED
      BY <2>1, <3>1
<1>3. \A j \in 1 .. 4 : Entry(v, j) = Entry(w, j)
  BY <1>2
<1> QED
  BY <1>2, <1>3, DigitsDecide

-----------------------------------------------------------------------------
(* What is written to the tables.                                          *)

(* n is m after e was written to an entry.                                 *)
Rewritten(m, n, t, i, e) ==
    /\ DOMAIN n = DOMAIN m
    /\ \A u \in DOMAIN m : IsTable(n[u])
    /\ \A u \in DOMAIN m : \A j \in Index :
         n[u][j] = IF u = t /\ j = i THEN e ELSE m[u][j]

(* Setting an entry changes that entry of that table and nothing else.     *)
LEMMA WriteIsRewrite ==
    ASSUME NEW m, \A u \in DOMAIN m : IsTable(m[u]), NEW t \in DOMAIN m, NEW i \in Index,
           NEW e, IsEntry(e)
    PROVE  Rewritten(m, [m EXCEPT ![t][i] = e], t, i, e)
<1> DEFINE n == [m EXCEPT ![t][i] = e]
<1>1. DOMAIN n = DOMAIN m
  OBVIOUS
<1>2. \A u \in DOMAIN m : n[u] = IF u = t THEN [m[t] EXCEPT ![i] = e] ELSE m[u]
  OBVIOUS
<1>3. DOMAIN m[t] = Index /\ IsTable(m[t])
  BY DEF IsTable
<1> DEFINE new == [m[t] EXCEPT ![i] = e]
<1>4. DOMAIN new = Index /\ \A j \in Index : new[j] = IF j = i THEN e ELSE m[t][j]
  BY <1>3
<1> HIDE DEF n, new
<1>5. \A u \in DOMAIN m : n[u] = IF u = t THEN new ELSE m[u]
  BY <1>2 DEF new
<1>6. IsTable(new)
  BY <1>3, <1>4 DEF IsTable
<1>7. \A u \in DOMAIN m : IsTable(n[u])
  BY <1>5, <1>6
<1>8. \A u \in DOMAIN m : \A j \in Index : n[u][j] = IF u = t /\ j = i THEN e ELSE m[u][j]
  BY <1>4, <1>5
<1> QED
  BY <1>1, <1>7, <1>8 DEF Rewritten, n

(* An entry for a page may become any other; one that leads to a table may *)
(* get other flags.                                                        *)
LEMMA RewriteKeepsForest ==
    ASSUME NEW m, NEW R, NEW lv, Forest(m, R, lv), NEW t \in DOMAIN m, NEW i \in Index,
           NEW e, NEW n, Rewritten(m, n, t, i, e),
           lv[t] = 1 \/ (Present(m[t][i]) /\ Present(e) /\ e.Address = m[t][i].Address)
    PROVE  /\ Forest(n, R, lv)
           /\ \A r \in R : \A v \in Nat : \A k \in 1 .. 4 : Table(n, r, v, k) = Table(m, r, v, k)
<1>1. \A u, j : /\ LeadsOn(n, lv, u, j) <=> LeadsOn(m, lv, u, j)
                /\ LeadsOn(m, lv, u, j) => n[u][j].Address = m[u][j].Address
  BY DEF Rewritten, LeadsOn
<1>2. Forest(n, R, lv)
  <2>1. /\ lv \in [DOMAIN n -> 1 .. 4] /\ NULL \notin DOMAIN n
        /\ R = {u \in DOMAIN n : lv[u] = 4} /\ \A u \in DOMAIN n : IsTable(n[u])
        /\ DOMAIN n = DOMAIN m
    BY DEF Forest, Rewritten
  <2>2. \A u, j : LeadsOn(n, lv, u, j) =>
           n[u][j].Address \in DOMAIN n /\ lv[n[u][j].Address] = lv[u] - 1
    BY <1>1, <2>1 DEF Forest
  <2>3. \A u, j, x, y : LeadsOn(n, lv, u, j) /\ LeadsOn(n, lv, x, y)
                        /\ n[u][j].Address = n[x][y].Address => u = x /\ j = y
    <3>1. \A u, j, x, y : LeadsOn(m, lv, u, j) /\ LeadsOn(m, lv, x, y)
                          /\ m[u][j].Address = m[x][y].Address => u = x /\ j = y
      BY DEF Forest
    <3> QED
      BY <1>1, <3>1
  <2>4. \A x \in DOMAIN n \ R : \E u, j : LeadsOn(n, lv, u, j) /\ n[u][j].Address = x
    <3>1. \A x \in DOMAIN m \ R : \E u, j : LeadsOn(m, lv, u, j) /\ m[u][j].Address = x
      BY DEF Forest
    <3> QED
      BY <1>1, <2>1, <3>1
  <2> QED
    BY <2>1, <2>2, <2>3, <2>4 DEF Forest
<1>3. ASSUME NEW r \in R, NEW v \in Nat
      PROVE  \A k \in 1 .. 4 : Table(n, r, v, k) = Table(m, r, v, k)
  <2> DEFINE V(k) == Table(m, r, v, k)
             S == {k \in 1 .. 4 : Table(n, r, v, k) = V(k)}
  <2>1. 4 \in S
    BY WalkSteps
  <2>2. ASSUME NEW k \in 1 .. 3, k + 1 \in S PROVE k \in S
    <3>1. /\ Table(n, r, v, k) = NextLevel(n, V(k + 1), Entry(v, k + 1))
          /\ V(k) = NextLevel(m, V(k + 1), Entry(v, k + 1))
      BY <2>2, WalkSteps
    <3>2. V(k + 1) # NULL => V(k + 1) \in DOMAIN m /\ lv[V(k + 1)] = k + 1
      BY WalkIsTyped
    <3>3. Entry(v, k + 1) \in Index
      BY EntryIsIndex
    <3> HIDE DEF V
    <3>4. NextLevel(n, V(k + 1), Entry(v, k + 1)) = NextLevel(m, V(k + 1), Entry(v, k + 1))
      <4>1. CASE V(k + 1) = NULL
        BY <4>1 DEF NextLevel
      <4>2. CASE V(k + 1) # NULL
        <5>1. V(k + 1) \in DOMAIN m /\ lv[V(k + 1)] > 1 /\ V(k + 1) \in DOMAIN n
          BY <3>2, <4>2 DEF Rewritten
        <5>2. LeadsOn(m, lv, V(k + 1), Entry(v, k + 1)) <=> Present(m[V(k + 1)][Entry(v, k + 1)])
          BY <3>3, <5>1 DEF LeadsOn
        <5>3. LeadsOn(n, lv, V(k + 1), Entry(v, k + 1)) <=> Present(n[V(k + 1)][Entry(v, k + 1)])
          BY <3>3, <5>1 DEF LeadsOn
        <5> QED
          BY <1>1, <5>2, <5>3 DEF NextLevel
      <4> QED
        BY <4>1, <4>2
    <3> QED
      BY <3>1, <3>4 DEF V
  <2> HIDE DEF S
  <2>3. \A k \in 1 .. 4 : k \in S
    BY <2>1, <2>2, Downwards
  <2> QED
    BY <2>3 DEF S
<1> QED
  BY <1>2, <1>3

(* The levels after a frame has become a table.                            *)
Extended(lv, frame, level) ==
    [t \in DOMAIN lv \cup {frame} |-> IF t = frame THEN level ELSE lv[t]]

(* n is m with a table more, all of whose entries are free.                *)
Extends(m, n, frame) ==
    /\ frame \notin DOMAIN m /\ frame # NULL
    /\ DOMAIN n = DOMAIN m \cup {frame}
    /\ \A u \in DOMAIN n : IsTable(n[u])
    /\ \A j \in Index : n[frame][j].Flags = {} /\ ~Present(n[frame][j])

(* A new table has no entry present.                                       *)
LEMMA TableCleared ==
    ASSUME NEW m, \A u \in DOMAIN m : IsTable(m[u]), NEW frame, frame \notin DOMAIN m,
           frame # NULL
    PROVE  /\ Extends(m, NewVirtualSpace(m, frame), frame)
           /\ \A u \in DOMAIN m : NewVirtualSpace(m, frame)[u] = m[u]
<1> DEFINE n == NewVirtualSpace(m, frame)
<1>1. /\ DOMAIN n = DOMAIN m \cup {frame} /\ n[frame] = EmptyTable
      /\ \A u \in DOMAIN m : n[u] = m[u]
  BY DEF NewVirtualSpace
<1>2. /\ IsTable(EmptyTable)
      /\ \A j \in Index : EmptyTable[j].Flags = {} /\ ~Present(EmptyTable[j])
  BY DEF EmptyTable, IsTable, IsEntry, Present
<1> HIDE DEF n
<1>3. Extends(m, n, frame)
  BY <1>1, <1>2 DEF Extends
<1> QED
  BY <1>1, <1>3 DEF n

(* A new address space maps nothing and leaves the walks of the others as  *)
(* they are.                                                               *)
LEMMA NewSpaceExtends ==
    ASSUME NEW m, NEW R, NEW lv, Forest(m, R, lv), NEW frame, frame \notin DOMAIN m,
           frame # NULL, NEW n, n = NewVirtualSpace(m, frame)
    PROVE  /\ Extends(m, n, frame)
           /\ \A u \in DOMAIN m : n[u] = m[u]
           /\ Forest(n, R \cup {frame}, Extended(lv, frame, 4))
           /\ \A r \in R : \A v \in Nat : \A k \in 1 .. 4 : Table(n, r, v, k) = Table(m, r, v, k)
           /\ \A v \in Nat : Table(n, frame, v, 1) = NULL
<1> DEFINE lw == Extended(lv, frame, 4)
<1>1. \A u \in DOMAIN m : IsTable(m[u])
  BY DEF Forest
<1>2. \A j \in Index : ~Present(n[frame][j])
  BY <1>1, TableCleared DEF Extends
<1>3. /\ Extends(m, n, frame) /\ DOMAIN n = DOMAIN m \cup {frame}
      /\ \A u \in DOMAIN m : n[u] = m[u]
  BY <1>1, TableCleared DEF Extends
<1>4. /\ lw \in [DOMAIN n -> 1 .. 4] /\ lw[frame] = 4 /\ \A u \in DOMAIN m : lw[u] = lv[u]
  BY <1>3 DEF Extended, Forest
<1> HIDE DEF lw
<1>5. \A u, j : LeadsOn(n, lw, u, j) <=> LeadsOn(m, lv, u, j)
  <2> TAKE u, j
  <2>1. CASE u \in DOMAIN m
    BY <1>3, <1>4, <2>1 DEF LeadsOn
  <2>2. CASE u = frame
    BY <1>2, <1>3, <2>2 DEF LeadsOn
  <2>3. CASE u \notin DOMAIN n
    BY <1>3, <2>3 DEF LeadsOn
  <2> QED
    BY <1>3, <2>1, <2>2, <2>3
<1>6. \A u, j : LeadsOn(m, lv, u, j) => u \in DOMAIN m /\ n[u][j] = m[u][j]
  BY <1>3 DEF LeadsOn
<1>7. Forest(n, R \cup {frame}, lw)
  <2>1. R \cup {frame} = {u \in DOMAIN n : lw[u] = 4}
    BY <1>3, <1>4 DEF Forest
  <2>2. \A u, j : LeadsOn(n, lw, u, j) =>
           n[u][j].Address \in DOMAIN n /\ lw[n[u][j].Address] = lw[u] - 1
    BY <1>3, <1>4, <1>5, <1>6 DEF Forest
  <2>3. \A u, j, x, y : LeadsOn(n, lw, u, j) /\ LeadsOn(n, lw, x, y)
                        /\ n[u][j].Address = n[x][y].Address => u = x /\ j = y
    <3>1. \A u, j, x, y : LeadsOn(m, lv, u, j) /\ LeadsOn(m, lv, x, y)
                          /\ m[u][j].Address = m[x][y].Address => u = x /\ j = y
      BY DEF Forest
    <3> QED
      BY <1>5, <1>6, <3>1
  <2>4. \A x \in DOMAIN n \ (R \cup {frame}) :
           \E u, j : LeadsOn(n, lw, u, j) /\ n[u][j].Address = x
    <3>1. \A x \in DOMAIN m \ R : \E u, j : LeadsOn(m, lv, u, j) /\ m[u][j].Address = x
      BY DEF Forest
    <3> QED
      BY <1>3, <1>5, <1>6, <3>1
  <2> QED
    BY <1>3, <1>4, <2>1, <2>2, <2>3, <2>4 DEF Forest, Extends
<1>8. ASSUME NEW r \in R, NEW v \in Nat
      PROVE  \A k \in 1 .. 4 : Table(n, r, v, k) = Table(m, r, v, k)
  <2> DEFINE V(k) == Table(m, r, v, k)
             S == {k \in 1 .. 4 : Table(n, r, v, k) = V(k)}
  <2>1. 4 \in S
    BY WalkSteps
  <2>2. ASSUME NEW k \in 1 .. 3, k + 1 \in S PROVE k \in S
    <3>1. /\ Table(n, r, v, k) = NextLevel(n, V(k + 1), Entry(v, k + 1))
          /\ V(k) = NextLevel(m, V(k + 1), Entry(v, k + 1))
      BY <2>2, WalkSteps
    <3>2. V(k + 1) # NULL => V(k + 1) \in DOMAIN m
      BY WalkIsTyped
    <3> HIDE DEF V
    <3>3. NextLevel(n, V(k + 1), Entry(v, k + 1)) = NextLevel(m, V(k + 1), Entry(v, k + 1))
      BY <1>3, <3>2 DEF NextLevel
    <3> QED
      BY <3>1, <3>3 DEF V
  <2> HIDE DEF S
  <2>3. \A k \in 1 .. 4 : k \in S
    BY <2>1, <2>2, Downwards
  <2> QED
    BY <2>3 DEF S
<1>9. ASSUME NEW v \in Nat PROVE Table(n, frame, v, 1) = NULL
  <2>1. Table(n, frame, v, 4) = frame /\ Entry(v, 4) \in Index
    BY WalkSteps, EntryIsIndex
  <2>2. Table(n, frame, v, 3) = NULL
    <3>1. Table(n, frame, v, 3) = NextLevel(n, frame, Entry(v, 4))
      BY <2>1, WalkSteps, 3 + 1 = 4
    <3> QED
      BY <1>2, <2>1, <3>1 DEF NextLevel
  <2>3. Table(n, frame, v, 2) = NULL
    BY <2>2, NextLevelIs, 2 + 1 = 3
  <2> QED
    BY <2>3, NextLevelIs, 1 + 1 = 2
<1> QED
  BY <1>3, <1>7, <1>8, <1>9 DEF lw

(* A frame becomes the table an entry without one leads to.                *)
LEMMA LevelAdded ==
    ASSUME NEW m, NEW R, NEW lv, Forest(m, R, lv), NEW l \in 1 .. 3,
           NEW t \in DOMAIN m, lv[t] = l + 1, NEW i \in Index, ~Present(m[t][i]),
           NEW frame, NEW e, Present(e), e.Address = frame,
           NEW n, Extends(m, n, frame),
           \A u \in DOMAIN m : \A j \in Index :
             n[u][j] = IF u = t /\ j = i THEN e ELSE m[u][j]
    PROVE  Forest(n, R, Extended(lv, frame, l))
<1> DEFINE lw == Extended(lv, frame, l)
<1>1. /\ DOMAIN n = DOMAIN m \cup {frame} /\ frame \notin DOMAIN m /\ frame # NULL
      /\ \A u \in DOMAIN n : IsTable(n[u])
      /\ \A j \in Index : ~Present(n[frame][j])
  BY DEF Extends
<1>2. /\ lw \in [DOMAIN n -> 1 .. 4] /\ lw[frame] = l /\ \A u \in DOMAIN m : lw[u] = lv[u]
  BY <1>1 DEF Extended, Forest
<1> HIDE DEF lw
<1>3. \A u, j : LeadsOn(n, lw, u, j) <=> LeadsOn(m, lv, u, j) \/ (u = t /\ j = i)
  <2> TAKE u, j
  <2>1. CASE u \in DOMAIN m /\ j \in Index
    BY <1>1, <1>2, <2>1 DEF LeadsOn
  <2>2. CASE u = frame
    BY <1>1, <2>2 DEF LeadsOn
  <2>3. CASE u \notin DOMAIN n \/ j \notin Index
    BY <1>1, <2>3 DEF LeadsOn
  <2> QED
    BY <1>1, <2>1, <2>2, <2>3
<1>4. /\ n[t][i] = e /\ ~LeadsOn(m, lv, t, i)
      /\ \A u, j : LeadsOn(m, lv, u, j) => u \in DOMAIN m /\ j \in Index /\ n[u][j] = m[u][j]
  BY DEF LeadsOn
<1>5. \A u, j : LeadsOn(m, lv, u, j) =>
        m[u][j].Address \in DOMAIN m /\ lv[m[u][j].Address] = lv[u] - 1
  BY DEF Forest
<1>6. R = {u \in DOMAIN n : lw[u] = 4}
  BY <1>1, <1>2 DEF Forest
<1>7. \A u, j : LeadsOn(n, lw, u, j) =>
        n[u][j].Address \in DOMAIN n /\ lw[n[u][j].Address] = lw[u] - 1
  <2> SUFFICES ASSUME NEW u, NEW j, LeadsOn(n, lw, u, j)
               PROVE  n[u][j].Address \in DOMAIN n /\ lw[n[u][j].Address] = lw[u] - 1
    OBVIOUS
  <2>1. CASE u = t /\ j = i
    BY <1>1, <1>2, <1>4, <2>1
  <2>2. CASE LeadsOn(m, lv, u, j)
    BY <1>1, <1>2, <1>4, <1>5, <2>2
  <2> QED
    BY <1>3, <2>1, <2>2
<1>8. \A u, j, x, y : LeadsOn(n, lw, u, j) /\ LeadsOn(n, lw, x, y)
                      /\ n[u][j].Address = n[x][y].Address => u = x /\ j = y
  <2>1. \A u, j, x, y : LeadsOn(m, lv, u, j) /\ LeadsOn(m, lv, x, y)
                        /\ m[u][j].Address = m[x][y].Address => u = x /\ j = y
    BY DEF Forest
  <2>2. \A u, j : LeadsOn(m, lv, u, j) => n[u][j].Address # frame
    BY <1>1, <1>4, <1>5
  <2> QED
    BY <1>3, <1>4, <2>1, <2>2
<1>9. \A x \in DOMAIN n \ R : \E u, j : LeadsOn(n, lw, u, j) /\ n[u][j].Address = x
  <2>1. \A x \in DOMAIN m \ R : \E u, j : LeadsOn(m, lv, u, j) /\ m[u][j].Address = x
    BY DEF Forest
  <2>2. LeadsOn(n, lw, t, i) /\ n[t][i].Address = frame
    BY <1>3, <1>4
  <2>3. ASSUME NEW x \in DOMAIN m \ R
        PROVE  \E u, j : LeadsOn(n, lw, u, j) /\ n[u][j].Address = x
    <3>1. PICK u, j : LeadsOn(m, lv, u, j) /\ m[u][j].Address = x
      BY <2>1
    <3> QED
      BY <1>3, <1>4, <3>1
  <2> QED
    BY <1>1, <2>2, <2>3
<1>10. NULL \notin DOMAIN n
  BY <1>1 DEF Forest
<1> QED
  BY <1>1, <1>2, <1>6, <1>7, <1>8, <1>9, <1>10 DEF Forest, lw

(* Every walk ends where it did, or at the new table, if it came to the    *)
(* entry that leads there now.                                             *)
LEMMA WalksAfterLevelAdded ==
    ASSUME NEW m, NEW R, NEW lv, Forest(m, R, lv),
           NEW t \in DOMAIN m, NEW i \in Index, ~Present(m[t][i]),
           NEW frame, NEW e, Present(e), e.Address = frame,
           NEW n, Extends(m, n, frame),
           \A u \in DOMAIN m : \A j \in Index :
             n[u][j] = IF u = t /\ j = i THEN e ELSE m[u][j],
           NEW r \in R, NEW v \in Nat
    PROVE  \A k \in 1 .. 4 :
             /\ Table(m, r, v, k) # NULL => Table(n, r, v, k) = Table(m, r, v, k)
             /\ Table(m, r, v, k) = NULL => Table(n, r, v, k) \in {NULL, frame}
<1> DEFINE V(k) == Table(m, r, v, k)
           W(k) == Table(n, r, v, k)
           S == {k \in 1 .. 4 : /\ V(k) # NULL => W(k) = V(k)
                                /\ V(k) = NULL => W(k) \in {NULL, frame}}
<1>1. 4 \in S
  BY WalkSteps
<1>2. ASSUME NEW k \in 1 .. 3, k + 1 \in S PROVE k \in S
  <2>1. /\ W(k) = NextLevel(n, W(k + 1), Entry(v, k + 1))
        /\ V(k) = NextLevel(m, V(k + 1), Entry(v, k + 1))
    BY WalkSteps
  <2>2. V(k + 1) # NULL => V(k + 1) \in DOMAIN m /\ lv[V(k + 1)] = k + 1
    BY WalkIsTyped
  <2>3. Entry(v, k + 1) \in Index
    BY EntryIsIndex
  <2> DEFINE x == Entry(v, k + 1)
  <2> HIDE DEF V, W, x
  <2>4. \A u, j : LeadsOn(m, lv, u, j) => m[u][j].Address \in DOMAIN m
    BY DEF Forest
  <2>5. NULL \notin DOMAIN m /\ frame # NULL /\ \A j \in Index : ~Present(n[frame][j])
    BY DEF Forest, Extends
  <2>6. CASE V(k + 1) = NULL
    <3>1. V(k) = NULL /\ W(k + 1) \in {NULL, frame}
      BY <1>2, <2>1, <2>6 DEF NextLevel
    <3>2. W(k) = NULL
      BY <2>1, <2>3, <2>5, <3>1 DEF NextLevel
    <3> QED
      BY <3>1, <3>2
  <2>7. CASE V(k + 1) # NULL
    <3>1. W(k + 1) = V(k + 1) /\ V(k + 1) \in DOMAIN m /\ lv[V(k + 1)] > 1
      BY <1>2, <2>2, <2>7
    <3>2. CASE Present(m[V(k + 1)][x])
      <4>1. n[V(k + 1)][x] = m[V(k + 1)][x] /\ m[V(k + 1)][x].Address # NULL
        BY <2>3, <2>4, <2>5, <3>1, <3>2 DEF LeadsOn, x
      <4> QED
        BY <2>1, <2>7, <3>1, <3>2, <4>1 DEF NextLevel, x
    <3>3. CASE ~Present(m[V(k + 1)][x])
      <4>1. V(k) = NULL
        BY <2>1, <3>3 DEF NextLevel, x
      <4>2. n[V(k + 1)][x] \in {e, m[V(k + 1)][x]}
        BY <2>3, <3>1 DEF x
      <4>3. W(k) \in {NULL, frame}
        BY <2>1, <3>1, <3>3, <4>2 DEF NextLevel, x
      <4> QED
        BY <4>1, <4>3
    <3> QED
      BY <3>2, <3>3
  <2> QED
    BY <2>6, <2>7
<1> HIDE DEF S
<1>3. \A k \in 1 .. 4 : k \in S
  BY <1>1, <1>2, Downwards
<1> QED
  BY <1>3 DEF S

-----------------------------------------------------------------------------
(* What the calls do to the mappings.                                      *)

IsMapped(m, root, virt) ==
    Table(m, root, virt, 1) # NULL /\ Present(Leaf(m, root, virt))

(* The page is mapped in n as it is in m, or in neither.                   *)
SameAt(m, n, root, virt) ==
    /\ IsMapped(n, root, virt) <=> IsMapped(m, root, virt)
    /\ IsMapped(m, root, virt) => Leaf(n, root, virt) = Leaf(m, root, virt)

(* FindMappedPage answers with the frame of a mapped page, and with NULL   *)
(* for the others.                                                         *)
LEMMA FindMappedPageIs ==
    ASSUME NEW m, NEW root, root # NULL, NEW virt
    PROVE  FindMappedPage(m, root, virt)
             = IF IsMapped(m, root, virt) THEN Leaf(m, root, virt).Address ELSE NULL
  BY MissingLevelIs DEF FindMappedPage, IsMapped

(* The entry of a mapped page is one of a table of level 1.                *)
LEMMA LeafIsEntry ==
    ASSUME NEW m, NEW R, NEW lv, Forest(m, R, lv), NEW r \in R, NEW v \in VirtualPages,
           Table(m, r, v, 1) # NULL
    PROVE  /\ Table(m, r, v, 1) \in DOMAIN m /\ lv[Table(m, r, v, 1)] = 1
           /\ Entry(v, 1) \in Index
           /\ Leaf(m, r, v) = m[Table(m, r, v, 1)][Entry(v, 1)]
           /\ IsEntry(Leaf(m, r, v))
<1>1. v \in Nat /\ 1 \in 1 .. 4
  BY DEF VirtualPages
<1>2. Table(m, r, v, 1) \in DOMAIN m /\ lv[Table(m, r, v, 1)] = 1
  BY <1>1, WalkIsTyped
<1>3. Entry(v, 1) \in Index
  BY <1>1, EntryIsIndex
<1> QED
  BY <1>2, <1>3 DEF Leaf, Forest, IsTable

(* SetLeaf changes one mapping.                                            *)
LEMMA LeafWritten ==
    ASSUME NEW m, NEW R, NEW lv, Forest(m, R, lv), NEW r \in R, NEW v \in VirtualPages,
           Table(m, r, v, 1) # NULL, NEW e, IsEntry(e), NEW n, n = SetLeaf(m, r, v, e)
    PROVE  /\ Rewritten(m, n, Table(m, r, v, 1), Entry(v, 1), e)
           /\ Forest(n, R, lv)
           /\ \A s \in R : \A w \in VirtualPages : \A k \in 1 .. 4 :
                Table(n, s, w, k) = Table(m, s, w, k)
           /\ Leaf(n, r, v) = e
           /\ \A s \in R : \A w \in VirtualPages : s # r \/ w # v => SameAt(m, n, s, w)
<1> DEFINE t == Table(m, r, v, 1)
           i == Entry(v, 1)
<1>1. t \in DOMAIN m /\ lv[t] = 1 /\ i \in Index
  BY LeafIsEntry
<1>2. n = [m EXCEPT ![t][i] = e]
  BY DEF SetLeaf
<1>3. \A u \in DOMAIN m : IsTable(m[u])
  BY DEF Forest
<1> HIDE DEF t, i
<1>4. Rewritten(m, n, t, i, e)
  <2>1. Rewritten(m, [m EXCEPT ![t][i] = e], t, i, e)
    BY <1>1, <1>3, WriteIsRewrite
  <2> QED
    BY <1>2, <2>1
<1>5. /\ Forest(n, R, lv)
      /\ \A s \in R : \A w \in Nat : \A k \in 1 .. 4 : Table(n, s, w, k) = Table(m, s, w, k)
  BY <1>1, <1>4, RewriteKeepsForest
<1>6. VirtualPages \subseteq Nat /\ 1 \in 1 .. 4
  BY DEF VirtualPages
<1>7. \A s \in R : \A w \in VirtualPages : Table(n, s, w, 1) = Table(m, s, w, 1)
  BY <1>5, <1>6
<1>8. Leaf(n, r, v) = e
  <2>1. Leaf(n, r, v) = n[t][i]
    BY <1>7 DEF Leaf, t, i
  <2> QED
    BY <1>1, <1>4, <2>1 DEF Rewritten
<1>9. ASSUME NEW s \in R, NEW w \in VirtualPages, s # r \/ w # v
      PROVE  SameAt(m, n, s, w)
  <2>1. CASE Table(m, s, w, 1) = NULL
    BY <1>7, <2>1 DEF SameAt, IsMapped
  <2>2. CASE Table(m, s, w, 1) # NULL
    <3>1. /\ Table(m, s, w, 1) \in DOMAIN m /\ Entry(w, 1) \in Index
      BY <2>2, LeafIsEntry
    <3>2. Table(m, s, w, 1) # t \/ Entry(w, 1) # i
      BY <1>9, <2>2, LeafIsUnique DEF t, i
    <3>3. Leaf(n, s, w) = Leaf(m, s, w)
      BY <1>4, <1>7, <3>1, <3>2 DEF Rewritten, Leaf
    <3> QED
      BY <1>7, <3>3 DEF SameAt, IsMapped
  <2> QED
    BY <2>1, <2>2
<1> QED
  BY <1>4, <1>5, <1>6, <1>8, <1>9 DEF t, i

(* MapIntermediateLevel for a level MapPage found missing provides it, and *)
(* changes no mapping.                                                     *)
LEMMA LevelMapped ==
    ASSUME NEW m, NEW R, NEW lv, Forest(m, R, lv), NEW r \in R, NEW v \in VirtualPages,
           NEW l \in 1 .. 3, l = MissingLevel(m, r, v),
           NEW frame, frame # NULL, frame \notin DOMAIN m, NEW flags,
           NEW n, n = MapIntermediateLevel(m, r, l, frame, v, flags).mem
    PROVE  /\ Extends(m, n, frame)
           /\ Forest(n, R, Extended(lv, frame, l))
           /\ LET t == Table(m, r, v, l + 1)
                  i == Entry(v, l + 1)
              IN  /\ t \in DOMAIN m /\ lv[t] = l + 1 /\ i \in Index
                  /\ \A u \in DOMAIN m : \A j \in Index :
                       n[u][j] = IF u = t /\ j = i
                                 THEN [Address |-> frame,
                                       Flags |-> {"USER", "READ", "WRITE"} \cup flags]
                                 ELSE m[u][j]
           /\ \A s \in R : \A w \in VirtualPages : SameAt(m, n, s, w)
           /\ MissingLevel(n, r, v) \in Nat /\ MissingLevel(n, r, v) < l
           /\ \A s \in R : \A w \in VirtualPages : \A k \in 1 .. 4 :
                Table(m, s, w, k) # NULL => Table(n, s, w, k) = Table(m, s, w, k)
           /\ Table(n, r, v, l) = frame
<1> DEFINE t == Table(m, r, v, l + 1)
           i == Entry(v, l + 1)
           e0 == [Address |-> frame, Flags |-> {"USER", "READ", "WRITE"}]
           e == [Address |-> frame, Flags |-> {"USER", "READ", "WRITE"} \cup flags]
           m0 == NewVirtualSpace(m, frame)
           m1 == [m0 EXCEPT ![t][i] = e0]
           m2 == [m1 EXCEPT ![t][i].Flags = @ \cup flags]
<1>1. v \in Nat /\ VirtualPages \subseteq Nat /\ r # NULL
  BY DEF VirtualPages, Forest
<1>2. Table(m, r, v, l) = NULL /\ t # NULL
  BY <1>1, MissingLevelIs
<1>3. t \in DOMAIN m /\ lv[t] = l + 1 /\ i \in Index
  BY <1>1, <1>2, WalkIsTyped, EntryIsIndex
<1>4. NextLevel(m, t, i) = NULL
  BY <1>2, WalkSteps
<1>5. ~Present(m[t][i])
  <2>1. Present(m[t][i]) => LeadsOn(m, lv, t, i)
    BY <1>3 DEF LeadsOn
  <2>2. LeadsOn(m, lv, t, i) => m[t][i].Address # NULL
    BY DEF Forest
  <2> QED
    BY <1>2, <1>4, <2>1, <2>2 DEF NextLevel
<1>6. n = m2
  BY <1>2, <1>4 DEF MapIntermediateLevel, AllocateLevel
<1> HIDE DEF t, i, m0
<1>7. /\ Extends(m, m0, frame) /\ \A u \in DOMAIN m : m0[u] = m[u]
  <2>1. \A u \in DOMAIN m : IsTable(m[u])
    BY DEF Forest
  <2> QED
    BY <2>1, TableCleared DEF m0
<1>8. /\ DOMAIN m0 = DOMAIN m \cup {frame} /\ \A u \in DOMAIN m0 : IsTable(m0[u])
      /\ t \in DOMAIN m0 /\ t # frame
      /\ \A j \in Index : m0[frame][j].Flags = {} /\ ~Present(m0[frame][j])
  BY <1>3, <1>7 DEF Extends
<1>9. IsEntry(e0) /\ IsEntry(e)
  BY DEF IsEntry
<1> HIDE DEF e0
<1>10. Rewritten(m0, m1, t, i, e0)
  BY <1>3, <1>8, <1>9, WriteIsRewrite
<1>11. m1[t][i] = e0 /\ DOMAIN m1 = DOMAIN m0 /\ \A u \in DOMAIN m1 : IsTable(m1[u])
  BY <1>3, <1>8, <1>10 DEF Rewritten
<1>12. m2 = [m1 EXCEPT ![t][i] = e]
  <2>1. [e0 EXCEPT !.Flags = @ \cup flags] = e
    BY DEF e0
  <2>2. m2 = [m1 EXCEPT ![t][i] = [m1[t][i] EXCEPT !.Flags = @ \cup flags]]
    OBVIOUS
  <2> HIDE DEF m1, m2, e
  <2>3. [m1[t][i] EXCEPT !.Flags = @ \cup flags] = e
    BY <1>11, <2>1
  <2> QED
    BY <2>2, <2>3
<1> HIDE DEF m1, m2, e
<1>13. Rewritten(m1, m2, t, i, e)
  BY <1>3, <1>8, <1>9, <1>11, <1>12, WriteIsRewrite
<1>14. /\ Extends(m, n, frame)
       /\ \A u \in DOMAIN m : \A j \in Index : n[u][j] = IF u = t /\ j = i THEN e ELSE m[u][j]
  <2>1. DOMAIN n = DOMAIN m \cup {frame} /\ \A u \in DOMAIN n : IsTable(n[u])
    BY <1>6, <1>8, <1>11, <1>13 DEF Rewritten
  <2>2. \A u \in DOMAIN m0 : \A j \in Index : n[u][j] = IF u = t /\ j = i THEN e ELSE m0[u][j]
    BY <1>6, <1>10, <1>11, <1>13 DEF Rewritten
  <2>3. \A j \in Index : n[frame][j].Flags = {} /\ ~Present(n[frame][j])
    BY <1>8, <2>2
  <2> QED
    BY <1>7, <1>8, <2>1, <2>2, <2>3 DEF Extends
<1>15. Present(e) /\ e.Address = frame
  BY DEF e, Present
<1>16. Forest(n, R, Extended(lv, frame, l))
  BY <1>3, <1>5, <1>14, <1>15, LevelAdded
<1>17. \A s \in R : \A w \in VirtualPages : \A k \in 1 .. 4 :
         /\ Table(m, s, w, k) # NULL => Table(n, s, w, k) = Table(m, s, w, k)
         /\ Table(m, s, w, k) = NULL => Table(n, s, w, k) \in {NULL, frame}
  BY <1>1, <1>3, <1>5, <1>14, <1>15, WalksAfterLevelAdded
<1>18. ASSUME NEW s \in R, NEW w \in VirtualPages
       PROVE  SameAt(m, n, s, w)
  <2>1. CASE Table(m, s, w, 1) = NULL
    <3>1. Table(n, s, w, 1) \in {NULL, frame}
      BY <1>17, <2>1, 1 \in 1 .. 4
    <3>2. Entry(w, 1) \in Index /\ \A j \in Index : ~Present(n[frame][j])
      BY <1>1, <1>14, EntryIsIndex DEF Extends
    <3> QED
      BY <2>1, <3>1, <3>2 DEF SameAt, IsMapped, Leaf
  <2>2. CASE Table(m, s, w, 1) # NULL
    <3>1. Table(n, s, w, 1) = Table(m, s, w, 1)
      BY <1>17, <2>2, 1 \in 1 .. 4
    <3>2. Table(m, s, w, 1) \in DOMAIN m /\ lv[Table(m, s, w, 1)] = 1 /\ Entry(w, 1) \in Index
      BY <2>2, LeafIsEntry
    <3>3. Leaf(n, s, w) = Leaf(m, s, w)
      BY <1>3, <1>14, <3>1, <3>2 DEF Leaf
    <3> QED
      BY <2>2, <3>1, <3>3 DEF SameAt, IsMapped
  <2> QED
    BY <2>1, <2>2
<1>19. Table(n, r, v, l) = frame
  <2>1. Table(n, r, v, l) = NextLevel(n, t, i)
    BY <1>2, <1>17, WalkSteps DEF t, i
  <2>2. n[t][i] = e
    BY <1>3, <1>14
  <2> QED
    BY <1>2, <1>15, <2>1, <2>2 DEF NextLevel
<1>20. MissingLevel(n, r, v) \in Nat /\ MissingLevel(n, r, v) < l
  <2> DEFINE M == MissingLevel(n, r, v)
             V(k) == Table(m, r, v, k)
             W(k) == Table(n, r, v, k)
  <2>1. M \in 0 .. 3 /\ \A k \in 1 .. 3 : M = k => W(k) = NULL
    BY <1>1, MissingLevelIs
  <2>2. W(l) # NULL
    BY <1>1, <1>14, <1>19 DEF Extends
  <2>3. \A k \in 1 .. 4 : k > l => W(k) # NULL
    <3>1. \A k \in 1 .. 3 : k >= l + 1 => V(k) # NULL
      <4>1. V(l + 1) # NULL
        BY <1>2 DEF t
      <4>2. \A k \in 1 .. 3 : V(k) # NULL => V(k + 1) # NULL
        BY NextLevelIs
      <4>3. /\ V(1) # NULL => V(2) # NULL
            /\ V(2) # NULL => V(3) # NULL
        BY <4>2, 1 + 1 = 2, 2 + 1 = 3
      <4> HIDE DEF V
      <4>4. CASE l = 1
        <5>1. V(2) # NULL /\ V(3) # NULL
          BY <4>1, <4>3, <4>4
        <5> QED
          BY <4>4, <5>1
      <4>5. CASE l = 2
        <5>1. V(3) # NULL
          BY <4>1, <4>5
        <5> QED
          BY <4>5, <5>1
      <4>6. CASE l = 3
        BY <4>6
      <4> QED
        BY <4>4, <4>5, <4>6
    <3>2. W(4) # NULL
      BY <1>1, WalkSteps
    <3> QED
      BY <1>17, <3>1, <3>2
  <2> HIDE DEF M, W
  <2>4. M \in 0 .. (l - 1)
    BY <2>1, <2>2, <2>3
  <2> QED
    BY <2>4 DEF M
<1> QED
  BY <1>3, <1>14, <1>16, <1>17, <1>18, <1>19, <1>20 DEF t, i, e

=============================================================================
