------------------------------ MODULE MCSyscall ------------------------------
(***************************************************************************)
(* Instances of Syscall for TLC: a device region right behind the region   *)
(* the kernel lives in, and one page of memory beside them.                *)
(***************************************************************************)
EXTENDS Syscall

MCMemoryMap == <<[Address |-> 0, Length |-> 2, Flags |-> "USABLE"],
                 [Address |-> 4, Length |-> 12, Flags |-> "USABLE"],
                 [Address |-> 16, Length |-> 2, Flags |-> "RESERVED"]>>

MCUserFlags == {{"READ", "WRITE"}}

=============================================================================
