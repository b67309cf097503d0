--------------------------- MODULE FrameAllocator ---------------------------
(***************************************************************************)
(* What the physical memory manager promises: the pages of a request are   *)
(* consecutive, nobody else holds them, and nobody will get them again.    *)
(* The manager may take pages for itself at any time.                      *)
(***************************************************************************)
EXTENDS Naturals, Sequences

CONSTANTS Pages, PAGE_SIZE, MaxLength

VARIABLES free, granted

Run(p, n) == {p + PAGE_SIZE * k : k \in 0 .. n - 1}

Init == free \subseteq Pages /\ granted = <<>>

Grant(p, n, kind) ==
    /\ Run(p, n) \subseteq free
    /\ free' = free \ Run(p, n)
    /\ granted' = Append(granted, [Object |-> p, length |-> n, Type |-> kind])

TakeForKernel(p) ==
    /\ p \in free
    /\ free' = free \ {p}
    /\ UNCHANGED granted

Next ==
    \E p \in Pages :
        \/ TakeForKernel(p)
        \/ \E n \in 1 .. MaxLength,
             kind \in {"FRAME_MEMORY", "VIRTUAL_MEMORY_PAGING_STRUCTURE"} :
              Grant(p, n, kind)

Spec == Init /\ [][Next]_<<free, granted>>

=============================================================================
