-------------------------------- MODULE MCVMM --------------------------------
(***************************************************************************)
(* Instances of VMM for TLC: 16 pages of which the upper half maps memory  *)
(* at a fixed distance, the frames the manager gives out among it, and the *)
(* flags of text and of data.                                              *)
(***************************************************************************)
EXTENDS VMM

HigherHalfMapping == 8

MCRanges == {<<f, f + HigherHalfMapping>> : f \in {1, 3}}

MCKernelFlags == {{"READ"}, {"READ", "WRITE", "NOEXEC"}}

MCFlagSets == {{"USER", "READ"}, {"USER", "READ", "WRITE", "NOEXEC"}}

=============================================================================
