--------------------------- MODULE AArch64PageTable ---------------------------
(***************************************************************************)
(* The page tables of src/arch/aarch64/vmm.cpp.  They are those of module  *)
(* PageTable but for two things: the port takes the index of its root      *)
(* table from the lowest digit of the virtual page and that of the last    *)
(* table from the highest, and it adds the Valid bit (READ) to every page. *)
(* The flags for uncached and huge pages are 0 in this port.  The names of *)
(* its namespace AArch64 are a prefix here.                                *)
(***************************************************************************)
EXTENDS PageTable

(* The digits of virt, the lowest first.                                   *)
Reversed(virt) ==
    (((Entry(virt, 1) * ENTRIES + Entry(virt, 2)) * ENTRIES) + Entry(virt, 3)) * ENTRIES
        + Entry(virt, 4)

Encoded(flags) == flags \ {"NOCACHE", "HUGE"}

AArch64NewVirtualSpace(m, frame) == NewVirtualSpace(m, frame)

AArch64MapPage(m, root, phys, virt, flags) ==
    MapPage(m, root, phys, Reversed(virt), Encoded(flags) \cup {"READ"})

AArch64MapIntermediateLevel(m, root, level, frame, virt, flags) ==
    MapIntermediateLevel(m, root, level, frame, Reversed(virt), Encoded(flags))

AArch64FlagPage(m, root, virt, flags) == FlagPage(m, root, Reversed(virt), Encoded(flags))

(* Mutation: the page whose digits are the other way round is unmapped.    *)
AArch64UnmapPageForward(m, root, virt) == UnmapPage(m, root, virt)

AArch64UnmapPage(m, root, virt) == UnmapPage(m, root, Reversed(virt))

AArch64FindMappedPTE(m, root, virt) == FindMappedPTE(m, root, Reversed(virt))

AArch64FindMappedPage(m, root, virt) == FindMappedPage(m, root, Reversed(virt))

=============================================================================
