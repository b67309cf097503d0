-------------------------------- MODULE MCPMM --------------------------------
(***************************************************************************)
(* Instances of PMM for TLC: a memory map with a second usable region, a   *)
(* reserved region (which becomes UNTYPED_DMA) and one that is skipped.    *)
(***************************************************************************)
EXTENDS PMM

MCMemoryMap == <<[Address |-> 0, Length |-> 4, Flags |-> "USABLE"],
                 [Address |-> 4, Length |-> 4, Flags |-> "RESERVED"],
                 [Address |-> 8, Length |-> 4, Flags |-> "BOOTLOADER_RECLAIMABLE"],
                 [Address |-> 12, Length |-> 30, Flags |-> "USABLE"]>>

=============================================================================
