-------------------------------- MODULE Loader --------------------------------
(***************************************************************************)
(* The ELF loader of src/generic/loader.cpp, with VMAlloc and VMCopyAlloc  *)
(* of src/generic/vmm.cpp: what they leave in the virtual space of the     *)
(* container, byte by byte.                                                *)
(*                                                                         *)
(* A virtual space is a map from virtual pages to [frame, flags, data],    *)
(* and a map from the tables it has to the flags of the entries that lead  *)
(* to them, with which a page is reached.  The byte of the file at offset  *)
(* o is o + 1, and a cleared byte is 0.  That MMap adds exactly the pages  *)
(* it is asked for is what module VMM shows; on a page that is mapped      *)
(* already it never returns.                                               *)
(***************************************************************************)
EXTENDS Integers, Sequences

CONSTANTS PAGE,             \* PAGE_SIZE
          ENTRIES,          \* 512: the entries of a page table
          STACK             \* INIT_INITIAL_STACK_SIZE

ASSUME LoaderAssumption ==
    /\ PAGE \in Nat \ {0} /\ ENTRIES \in Nat \ {0}
    /\ STACK \in Nat \ {0} /\ STACK % PAGE = 0

RoundDown(x) == x - (x % PAGE)

RoundUp(x) == RoundDown(x + PAGE - 1)

PageOf(x) == x \div PAGE

(* Mutation: the loop goes on while virt <= end.                           *)
PagesOfInclusive(virt, length) ==
    PageOf(virt) .. PageOf(RoundDown(virt) + RoundUp(length))

(* The pages of the range MMap, VMAlloc and VMCopyAlloc map.               *)
PagesOf(virt, length) ==
    PageOf(virt) .. PageOf(RoundDown(virt) + RoundUp(length)) - 1

(* The physical memory manager: RequestPage answers NULL (0) to everybody  *)
(* while it is not active, and a new frame otherwise.                      *)
Frame(pmm, k) == IF pmm.active THEN pmm.frames + k ELSE 0

Requested(pmm, k) == IF pmm.active THEN [pmm EXCEPT !.frames = @ + k] ELSE pmm

WithPages(space, new) ==
    [p \in DOMAIN space \cup DOMAIN new |-> IF p \in DOMAIN new THEN new[p] ELSE space[p]]

(* The tables of level 3, 2 and 1 on the way to a page.                    *)
TablesAbove(p) ==
    {<<3, ((p \div ENTRIES) \div ENTRIES) \div ENTRIES>>,
     <<2, (p \div ENTRIES) \div ENTRIES>>,
     <<1, p \div ENTRIES>>}

(* GetNextLevel makes the entry, and MapIntermediateLevel adds the flags   *)
(* of the page.                                                            *)
TableFlags(flags) == {"USER", "READ", "WRITE"} \cup flags

(* MMap adds a table where one is missing: the first page below a table    *)
(* settles what the table lets through.                                    *)
WithTables(tables, new, flags) ==
    [t \in DOMAIN tables \cup new |->
        IF t \in DOMAIN tables THEN tables[t] ELSE TableFlags(flags)]

-----------------------------------------------------------------------------

VMAlloc(pmm, virt, length, flags) ==
    [p \in PagesOf(virt, length) |->
        [frame |-> Frame(pmm, p - PageOf(virt) + 1), flags |-> flags,
         data |-> [i \in 0 .. PAGE - 1 |-> 0]]]

(* Mutation: the whole page is copied, beyond the end of the data.         *)
VMCopyAllocWhole(pmm, virt, length, flags, data, virtDataStart, dataLen) ==
    LET skipped == IF virtDataStart <= RoundDown(virt) THEN 0 ELSE 1
        at(p, i) == (p - PageOf(virt) - skipped) * PAGE + i
    IN  [p \in PagesOf(virt, length) |->
            [frame |-> Frame(pmm, p - PageOf(virt) + 1), flags |-> flags,
             data |-> [i \in 0 .. PAGE - 1 |-> IF at(p, 0) \in 0 .. dataLen - 1
                                               THEN data + at(p, i) + 1 ELSE 0]]]

(* A new page is cleared; the data is copied from the first page on that   *)
(* does not begin before it: when it begins inside of a page, that page    *)
(* stays clear and the data is moved up to the next one.                   *)
VMCopyAlloc(pmm, virt, length, flags, data, virtDataStart, dataLen) ==
    LET skipped == IF virtDataStart <= RoundDown(virt) THEN 0 ELSE 1
        at(p, i) == (p - PageOf(virt) - skipped) * PAGE + i
    IN  [p \in PagesOf(virt, length) |->
            [frame |-> Frame(pmm, p - PageOf(virt) + 1), flags |-> flags,
             data |-> [i \in 0 .. PAGE - 1 |-> IF at(p, i) \in 0 .. dataLen - 1
                                               THEN data + at(p, i) + 1 ELSE 0]]]

-----------------------------------------------------------------------------

(* The headers of a file, as far as the loader reads them: a segment with  *)
(* the place and the access it asks for, a section with the handler its    *)
(* contents name, and the file they belong to.                             *)
Elf64_Phdr ==
    [type : STRING, flags : SUBSET {"R", "W", "X"}, vaddr : Nat, memsz : Nat,
     offset : Nat, filesz : Nat]

Elf64_Shdr == [name : STRING, handler : Nat]

Elf64_Ehdr ==
    [magic : STRING, class : STRING, type : STRING, entry : Nat,
     phdrs : Seq(Elf64_Phdr), sections : Seq(Elf64_Shdr)]

VerifyELF(image) ==
    /\ image.magic = "ELF"
    /\ image.class = "ELFCLASS64"
    /\ image.type = "ET_EXEC"

(* The pairs of program header flags that are loaded: read-only data, text *)
(* and data.                                                               *)
Loadable == {{"R"}, {"R", "X"}, {"R", "W"}}

SegmentFlags(p_flags) ==
    {"USER", "READ"} \cup (IF "W" \in p_flags THEN {"WRITE"} ELSE {})
                     \cup (IF "X" \in p_flags THEN {} ELSE {"NOEXEC"})

(* The root container as InitializeRootSpace leaves it.                    *)
Container ==
    [root |-> 0, space |-> <<>>, tables |-> <<>>, Lowest |-> 0, highest |-> 0, Highest |-> 0,
     Bindings |-> [ExceptionHandler |-> 0]]

(* A PT_LOAD segment widens the bounds of the container, whatever its      *)
(* flags.                                                                  *)
WithBounds(c, ph) ==
    LET end == ph.vaddr + ph.memsz
    IN  [c EXCEPT !.Lowest = IF c.highest = 0 THEN ph.vaddr ELSE @,
                  !.highest = IF @ < end THEN RoundUp(end) ELSE @]

(* The pages one turn of LoadProgramHeaders adds.  A pair of flags it does *)
(* not know is skipped.                                                    *)
SegmentPages(pmm, ph) ==
    IF ph.type = "PT_LOAD" /\ ph.flags \in Loadable
    THEN VMCopyAlloc(pmm, ph.vaddr, ph.memsz, SegmentFlags(ph.flags),
                     ph.offset, ph.vaddr, ph.filesz)
    ELSE <<>>

(* The bindings of the last section with their name, or those the cleared  *)
(* container has.                                                          *)
Bindings(image) ==
    LET named == {i \in DOMAIN image.sections :
                     image.sections[i].name = ".microkosm_bindings"}
    IN  IF named = {} THEN [ExceptionHandler |-> 0]
        ELSE [ExceptionHandler |->
                image.sections[CHOOSE i \in named : \A j \in named : j <= i].handler]

=============================================================================
