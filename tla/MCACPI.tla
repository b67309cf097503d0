-------------------------------- MODULE MCACPI --------------------------------
(***************************************************************************)
(* An instance of ACPI for TLC: firmware with up to three tables, in pages *)
(* that are mapped, not mapped or shared with the root table.              *)
(***************************************************************************)
EXTENDS ACPI, FiniteSetsExt

(* A table of records of the given types and lengths, one after another.   *)
LOCAL Table(signature, first, types, lengths) ==
    LET offset(k) == first + FoldLeft(LAMBDA x, y : x + y, 0, SubSeq(lengths, 1, k - 1))
        at == {offset(k) : k \in DOMAIN types}
    IN  [Signature |-> signature, Length |-> offset(Len(types) + 1),
         records |-> [o \in at |->
            LET k == CHOOSE j \in DOMAIN types : offset(j) = o
            IN  [EntryType |-> types[k], RecordLength |-> lengths[k]]]]

LOCAL MADT == Table("APIC", 44, <<0, 1, 2, 7, 9>>, <<8, 12, 10, 6, 16>>)
LOCAL SRAT == Table("SRAT", 48, <<0, 1, 3, 2>>, <<16, 40, 20, 24>>)
LOCAL MCFG == Table("MCFG", 44, <<0, 0>>, <<16, 16>>)
LOCAL FACP == Table("FACP", 36, <<>>, <<>>)
LOCAL Empty == Table("SRAT", 48, <<>>, <<>>)
LOCAL Endless == Table("APIC", 44, <<0>>, <<0>>)

(* The tables are in the page of the root table, 2, in page 3, and across  *)
(* the end of it.                                                          *)
LOCAL Tables ==
    [a \in {8392, 8700, 12288, 12600, 13000, 16300} |->
        CASE a = 8392 -> MADT [] a = 8700 -> FACP [] a = 12288 -> SRAT
          [] a = 12600 -> MCFG [] a = 13000 -> Empty [] a = 16300 -> SRAT]

LOCAL Lists ==
    {<<>>} \cup {<<a>> : a \in DOMAIN Tables}
    \cup {<<a, b>> : a, b \in DOMAIN Tables}
    \cup {<<a, b, c>> : a, b, c \in {8392, 12288, 12600}}

LOCAL Machine(address, signature, rsdt, xsdt, pages, tables, pointers) ==
    [RSDP |-> [address |-> address, Signature |-> signature,
               RsdtAddress |-> rsdt, XsdtAddress |-> xsdt],
     mapped |-> pages, tables |-> tables, pointers |-> pointers]

(* Root tables of both kinds, with page 0 and page 3 mapped or not; broken *)
(* RSDPs; an RSDP next to its root table, and one across the end of its    *)
(* page; a record without a length.                                        *)
MCFirmwares ==
    {Machine(4112, "RSD PTR ", IF wide THEN 0 ELSE 8192, IF wide THEN 8192 ELSE 0, pages, Tables, list) :
        wide \in BOOLEAN, pages \in {{}, {3}, {0, 3}, {3, 4}}, list \in Lists}
    \cup {Machine(4112, "none", 8192, 0, {3}, Tables, <<8392>>),
          Machine(4112, "RSD PTR ", 0, 0, {3}, Tables, <<>>),
          Machine(4112, "RSD PTR ", 8192, 0, {1, 3}, Tables, <<8392>>),
          Machine(4080, "RSD PTR ", 8192, 0, {3}, Tables, <<8392>>),
          Machine(4080, "none", 8192, 0, {3}, Tables, <<8392>>),
          Machine(4080, "RSD PTR ", 8192, 0, {1, 3}, Tables, <<8392>>),
          Machine(8200, "RSD PTR ", 8192, 0, {3}, Tables, <<8392>>),
          Machine(4112, "RSD PTR ", 8192, 0, {3}, [a \in {8392} |-> Endless], <<8392>>)}
    \cup {Machine(4112, "RSD PTR ", 8192, 0, pages, [a \in {16340} |-> t], <<16340>>) :
            pages \in {{3}, {3, 4}}, t \in {MADT, MCFG}}

=============================================================================
