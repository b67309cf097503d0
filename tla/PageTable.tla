------------------------------ MODULE PageTable ------------------------------
(***************************************************************************)
(* The four-level page tables of src/arch/x86/64/vmm.cpp.                  *)
(*                                                                         *)
(* A memory m maps each frame that holds a table to its entries; an entry  *)
(* is the address and the set of flag bits it holds.  READ is the Present  *)
(* bit.  A virtual page is a number whose digits in base ENTRIES are its   *)
(* indices, the one for the root table (PML4) first.                       *)
(***************************************************************************)
EXTENDS Integers

CONSTANTS ENTRIES,      \* 512: the entries of a table
          NULL

ASSUME EntriesAssumption == ENTRIES \in Nat \ {0, 1}

(* No caller asks for HUGE, which would make a table of level 1 a page.     *)
Flags == {"READ", "WRITE", "USER", "NOEXEC", "NOCACHE", "HUGE"}

Index == 0 .. ENTRIES - 1

VirtualPages == 0 .. (ENTRIES * ENTRIES * ENTRIES * ENTRIES) - 1

(* The entry of virt in a table of level 4 (PML4) down to 1 (PML1).        *)
Entry(virt, level) ==
    LET digits == CASE level = 1 -> virt
                    [] level = 2 -> virt \div ENTRIES
                    [] level = 3 -> (virt \div ENTRIES) \div ENTRIES
                    [] level = 4 -> ((virt \div ENTRIES) \div ENTRIES) \div ENTRIES
    IN  digits % ENTRIES

EmptyTable == [i \in Index |-> [Address |-> NULL, Flags |-> {}]]

Present(entry) == "READ" \in entry.Flags

EINVALID == -5
ENOTPRESENT == -9

-----------------------------------------------------------------------------

(* GetNextLevel without a frame to allocate, and NULL below a table that   *)
(* is missing, for which the code returns before it gets here.             *)
NextLevel(m, table, idx) ==
    IF table # NULL /\ Present(m[table][idx]) THEN m[table][idx].Address ELSE NULL

(* The frame is cleared.                                                   *)
NewVirtualSpace(m, frame) ==
    [t \in {frame} \cup DOMAIN m |-> IF t = frame THEN EmptyTable ELSE m[t]]

(* Mutation: a table is entered without write and user access.             *)
AllocateLevelForRead(m, table, idx, frame) ==
    [NewVirtualSpace(m, frame) EXCEPT ![table][idx] = [Address |-> frame, Flags |-> {"READ"}]]

(* GetNextLevel with one, on an entry that is not present.                 *)
AllocateLevel(m, table, idx, frame) ==
    [NewVirtualSpace(m, frame) EXCEPT
        ![table][idx] = [Address |-> frame, Flags |-> {"USER", "READ", "WRITE"}]]

(* The table of that level on the way to virt, or NULL.                    *)
Table(m, root, virt, level) ==
    LET pml3 == NextLevel(m, root, Entry(virt, 4))
        pml2 == NextLevel(m, pml3, Entry(virt, 3))
        pml1 == NextLevel(m, pml2, Entry(virt, 2))
    IN  CASE level = 4 -> root
          [] level = 3 -> pml3
          [] level = 2 -> pml2
          [] level = 1 -> pml1

(* The highest level whose table is missing on the way to virt, or 0.      *)
MissingLevel(m, root, virt) ==
    LET missing == {level \in 1 .. 3 : Table(m, root, virt, level) = NULL}
    IN  IF missing = {} THEN 0 ELSE CHOOSE l \in missing : \A k \in missing : k <= l

Leaf(m, root, virt) == m[Table(m, root, virt, 1)][Entry(virt, 1)]

(* Mutation: the table is cleared although it was there.                   *)
SetLeafAlone(m, root, virt, entry) ==
    [m EXCEPT ![Table(m, root, virt, 1)] = [EmptyTable EXCEPT ![Entry(virt, 1)] = entry]]

SetLeaf(m, root, virt, entry) ==
    [m EXCEPT ![Table(m, root, virt, 1)][Entry(virt, 1)] = entry]

(* Mutation: a page that is mapped already is mapped again.                *)
MapPageAgain(m, root, phys, virt, flags) ==
    LET missing == MissingLevel(m, root, virt)
    IN  IF missing # 0
        THEN [mem |-> m, result |-> missing]
        ELSE [mem |-> SetLeaf(m, root, virt, [Address |-> phys, Flags |-> flags]),
              result |-> 0]

MapPage(m, root, phys, virt, flags) ==
    LET missing == MissingLevel(m, root, virt)
    IN  IF missing # 0
        THEN [mem |-> m, result |-> missing]
        ELSE IF Present(Leaf(m, root, virt))
        THEN [mem |-> m, result |-> EINVALID]
        ELSE [mem |-> SetLeaf(m, root, virt, [Address |-> phys, Flags |-> flags]),
              result |-> 0]

(* Mutation: the index of the level itself, not of the one above.          *)
MapLevelAtOwnIndex(m, root, level, frame, virt, flags) ==
    LET above == Table(m, root, virt, level + 1)
        idx == Entry(virt, level)
        AddFlags(n) == [n EXCEPT ![above][idx].Flags = @ \cup flags]
    IN  IF level \notin 1 .. 3 \/ above = NULL
        THEN [mem |-> m, result |-> ENOTPRESENT]
        ELSE [mem |-> AddFlags(AllocateLevel(m, above, idx, frame)), result |-> 0]

(* The frame becomes the table of that level when it is the first missing  *)
(* one; the flags are added to the entry that leads to that table, new or  *)
(* old.  Another level than 3, 2 or 1 changes nothing.                     *)
MapIntermediateLevel(m, root, level, frame, virt, flags) ==
    LET above == Table(m, root, virt, level + 1)
        idx == Entry(virt, level + 1)
        AddFlags(n) == [n EXCEPT ![above][idx].Flags = @ \cup flags]
    IN  IF level \notin 1 .. 3
        THEN [mem |-> m,
              result |-> IF MissingLevel(m, root, virt) = 0 THEN 0 ELSE ENOTPRESENT]
        ELSE IF above = NULL
        THEN [mem |-> m, result |-> ENOTPRESENT]
        ELSE IF NextLevel(m, above, idx) = NULL /\ frame = NULL
        THEN [mem |-> m, result |-> ENOTPRESENT]
        ELSE IF NextLevel(m, above, idx) = NULL
        THEN [mem |-> AddFlags(AllocateLevel(m, above, idx, frame)),
              result |-> IF level = 3 THEN 1 ELSE 0]
        ELSE [mem |-> AddFlags(m), result |-> 1]

(* Mutation: the flags are added to those of the page.                     *)
FlagPageAdding(m, root, virt, flags) ==
    IF MissingLevel(m, root, virt) # 0
    THEN [mem |-> m, result |-> ENOTPRESENT]
    ELSE IF ~Present(Leaf(m, root, virt))
    THEN [mem |-> m, result |-> EINVALID]
    ELSE [mem |-> SetLeaf(m, root, virt, [Leaf(m, root, virt) EXCEPT !.Flags = @ \cup flags]),
          result |-> 0]

(* The page keeps its frame and has these flags only: without READ it is   *)
(* no longer mapped.                                                       *)
FlagPage(m, root, virt, flags) ==
    IF \/ MissingLevel(m, root, virt) # 0
       \/ \E level \in 2 .. 3 :
            "HUGE" \in m[Table(m, root, virt, level)][Entry(virt, level)].Flags
    THEN [mem |-> m, result |-> ENOTPRESENT]
    ELSE IF ~Present(Leaf(m, root, virt))
    THEN [mem |-> m, result |-> EINVALID]
    ELSE [mem |-> SetLeaf(m, root, virt, [Leaf(m, root, virt) EXCEPT !.Flags = flags]),
          result |-> 0]

(* The entry is cleared; the tables that lead to it stay.                  *)
UnmapPage(m, root, virt) ==
    IF MissingLevel(m, root, virt) # 0
    THEN [mem |-> m, result |-> ENOTPRESENT]
    ELSE IF ~Present(Leaf(m, root, virt))
    THEN [mem |-> m, result |-> EINVALID]
    ELSE [mem |-> SetLeaf(m, root, virt, [Address |-> NULL, Flags |-> {}]), result |-> 0]

(* The table and the index of the entry of virt, or NULL.  Every caller    *)
(* passes false for allocate.                                              *)
FindMappedPTE(m, root, virt) ==
    IF MissingLevel(m, root, virt) # 0 THEN NULL
    ELSE <<Table(m, root, virt, 1), Entry(virt, 1)>>

(* The frame in the entry FindMappedPTE leads to, or NULL without one that *)
(* is present (the code returns -1).                                       *)
FindMappedPage(m, root, virt) ==
    IF MissingLevel(m, root, virt) # 0 \/ ~Present(Leaf(m, root, virt)) THEN NULL
    ELSE Leaf(m, root, virt).Address

-----------------------------------------------------------------------------

(* What the processor makes of the entries on the way to a mapped page: a  *)
(* right must be granted at every level.                                   *)
EntriesTo(m, root, virt) ==
    {m[Table(m, root, virt, level)][Entry(virt, level)] : level \in 1 .. 4}

Writable(m, root, virt) == \A e \in EntriesTo(m, root, virt) : "WRITE" \in e.Flags
Accessible(m, root, virt) == \A e \in EntriesTo(m, root, virt) : "USER" \in e.Flags

=============================================================================
