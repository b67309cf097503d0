--------------------------------- MODULE ACPI ---------------------------------
(***************************************************************************)
(* The walk through the tables of the firmware in src/arch/x86/acpi.cpp:   *)
(* InitializeACPI finds the root table, and InitializeMADT, InitializeSRAT *)
(* and InitializeMCFG report the records of the tables it points to.       *)
(*                                                                         *)
(* Lengths and offsets are bytes, addresses physical: PhysicalToVirtual    *)
(* gives each its one place in the kernel's space.  Reading a page that is *)
(* not mapped is a page fault, a panic; mapping a page that is mapped      *)
(* already hangs (module VMM).  No single field lies across a page end.    *)
(***************************************************************************)
EXTENDS Integers, Sequences, SequencesExt

CONSTANTS PAGE,             \* PAGE_SIZE
          WORD,             \* 2^32, the values of an u32
          Firmwares         \* what the machine may be like

(* The tables of a machine, by their addresses, have a signature, a length *)
(* and records by their offsets, each one followed by the next.            *)
ASSUME FirmwareAssumption ==
    /\ PAGE \in Nat \ {0} /\ WORD \in Nat \ {0}
    /\ \A f \in Firmwares : \A a \in DOMAIN f.tables :
         LET t == f.tables[a]
         IN  \A o \in DOMAIN t.records :
               o + t.records[o].RecordLength \in DOMAIN t.records \cup {t.Length}

VARIABLES pc,
          firmware,
          mapped,           \* pages of the kernel's space
          entry,            \* i, the pointer of the root table it is at
          table,            \* the address of the table that is read
          current,          \* currentPtr, as an offset
          reported          \* the records printed, as <<table, offset>>

vars == <<pc, firmware, mapped, entry, table, current, reported>>

PageOf(address) == address \div PAGE

SizeOfHeader == 36

-----------------------------------------------------------------------------

(* The root table, and the size of a pointer in it: an XSDT is preferred.  *)
RSDP == firmware.RSDP

(* Of its last field that is read, XsdtAddress.                            *)
RSDPEnd == RSDP.address + 31

MainSDT == IF RSDP.XsdtAddress # 0 THEN RSDP.XsdtAddress ELSE RSDP.RsdtAddress

MainSDTPointerSize == IF RSDP.XsdtAddress # 0 THEN 8 ELSE 4

Pointers == firmware.pointers

MainSDTLength == SizeOfHeader + MainSDTPointerSize * Len(Pointers)

(* Mutation: every root table is taken for an XSDT.                        *)
EntriesOfXSDT == (MainSDTLength - SizeOfHeader) \div 8

Entries == (MainSDTLength - SizeOfHeader) \div MainSDTPointerSize

(* The pointers are read as u32 whatever their size is: the length of a    *)
(* root table is never 8.                                                  *)
Pointer(i) ==
    IF MainSDTPointerSize = 4 THEN Pointers[i + 1]
    ELSE IF i % 2 = 0 THEN Pointers[i \div 2 + 1] % WORD
    ELSE Pointers[i \div 2 + 1] \div WORD

Signature(address) ==
    IF address \in DOMAIN firmware.tables THEN firmware.tables[address].Signature ELSE "none"

(* Where the entries of a table begin, and the types that are known.       *)
FirstEntry == [APIC |-> SizeOfHeader + 8, SRAT |-> SizeOfHeader + 12, MCFG |-> SizeOfHeader + 8]

MADTEntryTypes == 0 .. 5 \cup {9}

SRATEntryTypes == 0 .. 2

SizeOfMCFGEntry == 16

-----------------------------------------------------------------------------

Init ==
    /\ pc = "InitializeACPI"
    /\ firmware \in Firmwares
    /\ mapped = firmware.mapped
    /\ entry = 0
    /\ table = 0
    /\ current = 0
    /\ reported = <<>>

(* Up to the loop: the RSDP is mapped and looked at, then the root table.  *)
(* One page is mapped, and the addresses of the root tables may lie behind *)
(* its end.                                                                *)
InitializeACPI ==
    LET withRSDP == mapped \cup {PageOf(RSDP.address)}
        signed == RSDP.Signature = "RSD PTR "
        found == signed /\ MainSDT # 0
        whole == signed => PageOf(RSDPEnd) \in withRSDP
    IN  /\ pc = "InitializeACPI"
        /\ \/ PageOf(RSDP.address) \in mapped /\ pc' = "Hung" /\ mapped' = mapped
           \/ /\ PageOf(RSDP.address) \notin mapped
              /\ mapped' = withRSDP \cup (IF found /\ whole THEN {PageOf(MainSDT)} ELSE {})
              /\ pc' = IF ~whole THEN "Panic"
                       ELSE IF ~found THEN "Failed"
                       ELSE IF PageOf(MainSDT) \in withRSDP THEN "Hung" ELSE "Entries"
        /\ UNCHANGED <<firmware, entry, table, current, reported>>

(* One turn of the loop, up to the call for a table that has one.          *)
NextEntry ==
    LET ptr == Pointer(entry)
        unmapped == {PageOf(MainSDT + SizeOfHeader + 4 * entry), PageOf(ptr)} \ mapped
    IN  /\ pc = "Entries" /\ entry < Entries
        /\ \/ unmapped # {} /\ pc' = "Panic" /\ UNCHANGED <<entry, table, current>>
           \/ /\ unmapped = {} /\ Signature(ptr) \notin DOMAIN FirstEntry
              /\ entry' = entry + 1
              /\ UNCHANGED <<pc, table, current>>
           \/ /\ unmapped = {} /\ Signature(ptr) \in DOMAIN FirstEntry
              /\ pc' = Signature(ptr)
              /\ table' = ptr
              /\ current' = FirstEntry[Signature(ptr)]
              /\ UNCHANGED entry
        /\ UNCHANGED <<firmware, mapped, reported>>

(* One turn of the loop of a table: its record is reported if its type is  *)
(* known.                                                                  *)
NextRecord(known, length) ==
    IF current >= firmware.tables[table].Length
    THEN /\ pc' = "Entries"
         /\ entry' = entry + 1
         /\ UNCHANGED <<firmware, mapped, table, current, reported>>
    ELSE IF PageOf(table + current) \notin mapped
    THEN /\ pc' = "Panic"
         /\ UNCHANGED <<firmware, mapped, entry, table, current, reported>>
    ELSE /\ reported' = IF known THEN Append(reported, <<table, current>>) ELSE reported
         /\ current' = current + length
         /\ UNCHANGED <<pc, firmware, mapped, entry, table>>

Record == firmware.tables[table].records[current]

InitializeMADT ==
    /\ pc = "APIC"
    /\ NextRecord(Record.EntryType \in MADTEntryTypes, Record.RecordLength)

InitializeSRAT ==
    /\ pc = "SRAT"
    /\ NextRecord(Record.EntryType \in SRATEntryTypes, Record.RecordLength)

(* The entries have no type and no length of their own.                    *)
InitializeMCFG ==
    /\ pc = "MCFG"
    /\ NextRecord(TRUE, SizeOfMCFGEntry)

Return ==
    /\ pc = "Entries" /\ entry >= Entries
    /\ pc' = "Done"
    /\ UNCHANGED <<firmware, mapped, entry, table, current, reported>>

Next == InitializeACPI \/ NextEntry \/ InitializeMADT \/ InitializeSRAT \/ InitializeMCFG \/ Return

Spec == Init /\ [][Next]_vars /\ WF_vars(Next)

-----------------------------------------------------------------------------

(* The offsets of the records of a table that have to be reported, in      *)
(* their order.                                                            *)
KnownRecords(t) ==
    LET known == CASE t.Signature = "APIC" -> MADTEntryTypes
                   [] t.Signature = "SRAT" -> SRATEntryTypes
                   [] t.Signature = "MCFG" -> Nat
    IN  SetToSortSeq({o \in DOMAIN t.records : t.records[o].EntryType \in known}, <)

(* What the tables hold, in the order of the root table.                   *)
Contents ==
    FlattenSeq([k \in DOMAIN Pointers |->
        IF Signature(Pointers[k]) \in DOMAIN FirstEntry
        THEN [j \in DOMAIN KnownRecords(firmware.tables[Pointers[k]]) |->
                <<Pointers[k], KnownRecords(firmware.tables[Pointers[k]])[j]>>]
        ELSE <<>>])

(* Firmware the walk copes with: the RSDP and the root table are in pages  *)
(* of their own that nobody has mapped, what is read of the RSDP is mapped *)
(* with it, each table is in a page that is mapped or in that of the root  *)
(* table, no record has the length 0, and the pointers are of 32 bits or   *)
(* just one.                                                               *)
Readable ==
    /\ RSDP.Signature = "RSD PTR " /\ MainSDT # 0
    /\ PageOf(RSDP.address) # PageOf(MainSDT)
    /\ PageOf(RSDPEnd) \in firmware.mapped \cup {PageOf(RSDP.address)}
    /\ {PageOf(RSDP.address), PageOf(MainSDT)} \cap firmware.mapped = {}
    /\ PageOf(MainSDT + MainSDTLength) = PageOf(MainSDT)
    /\ \A k \in DOMAIN Pointers :
         /\ {PageOf(Pointers[k]), PageOf(Pointers[k] + firmware.tables[Pointers[k]].Length)}
              \subseteq firmware.mapped \cup {PageOf(MainSDT)}
         /\ \A o \in DOMAIN firmware.tables[Pointers[k]].records :
              firmware.tables[Pointers[k]].records[o].RecordLength > 0
    /\ MainSDTPointerSize = 4 \/ Len(Pointers) <= 1

(* Every record of every table in such firmware is reported, once and in   *)
(* order, whatever the tables and their lengths are, and the walk ends.    *)
(* With an XSDT of several tables it does not: only the halves of the      *)
(* first pointers are read, and the upper ones are taken for tables.       *)
TablesAreRead ==
    (pc = "InitializeACPI" /\ Readable) ~> (pc = "Done" /\ reported = Contents)

=============================================================================
