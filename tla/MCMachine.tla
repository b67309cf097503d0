------------------------------ MODULE MCMachine ------------------------------
(***************************************************************************)
(* An instance of Machine for TLC: pages of four bytes, executables of up  *)
(* to five headers, and firmware that fails to answer or locks SVM.        *)
(***************************************************************************)
EXTENDS Machine

LOCAL Header(type, flags, vaddr, memsz, offset, filesz) ==
    [type |-> type, flags |-> flags, vaddr |-> vaddr, memsz |-> memsz,
     offset |-> offset, filesz |-> filesz]

LOCAL Bound == <<[name |-> ".text", handler |-> 0],
                 [name |-> ".microkosm_bindings", handler |-> 9]>>

LOCAL Unbound == <<[name |-> ".text", handler |-> 0]>>

LOCAL Image(class, entry, phdrs, sections) ==
    [magic |-> "ELF", class |-> class, type |-> "ET_EXEC", entry |-> entry,
     phdrs |-> phdrs, sections |-> sections]

LOCAL Text == Header("PT_LOAD", {"R", "X"}, 8, 4, 4, 4)

(* Text, read-only data, data that ends inside of a page with bss on two   *)
(* more, a note, and a header nobody loads.                                *)
LOCAL Full == Image("ELFCLASS64", 8,
    <<Text, Header("PT_NOTE", {"R"}, 8, 4, 4, 4),
      Header("PT_LOAD", {"R"}, 12, 3, 8, 3),
      Header("PT_LOAD", {"R", "W"}, 16, 11, 12, 6),
      Header("PT_LOAD", {"R", "W", "X"}, 28, 2, 24, 2)>>, Bound)

(* No bindings, and a hole between the segments.                           *)
LOCAL Plain == Image("ELFCLASS64", 8,
    <<Text, Header("PT_LOAD", {"R", "W"}, 20, 2, 12, 2)>>, Unbound)

(* A segment that begins inside of a page; two that share one; a file for  *)
(* another machine.                                                        *)
LOCAL Unaligned == Image("ELFCLASS64", 8,
    <<Text, Header("PT_LOAD", {"R", "W"}, 14, 5, 12, 5)>>, Unbound)
LOCAL Sharing == Image("ELFCLASS64", 8,
    <<Text, Header("PT_LOAD", {"R", "W"}, 10, 2, 12, 2)>>, Bound)
LOCAL Other == Image("ELFCLASS32", 8, <<Text>>, Bound)

(* Read-only data before text, as linkers lay it out.                      *)
LOCAL DataFirst == Image("ELFCLASS64", 12,
    <<Header("PT_LOAD", {"R"}, 8, 4, 8, 4), Header("PT_LOAD", {"R", "X"}, 12, 4, 4, 4)>>, Bound)

MCImages == {Full, Plain, Unaligned, Sharing, DataFirst, Other}

(* Everything answered; no modules or no time; no RSDP and SVM locked.     *)
MCFirmware ==
    [answers : {Requests}, svm : {"none", "locked", "free"}]
    \cup [answers : {Requests \ {"Modules"}, Requests \ {"BootTime"}}, svm : {"free"}]
    \cup [answers : {Requests \ {"RSDP"}}, svm : {"locked"}]

MCProbes == {2, 13, 18, 44}
MCHeap == {11}

=============================================================================
