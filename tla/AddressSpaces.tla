---------------------------- MODULE AddressSpaces ----------------------------
(***************************************************************************)
(* What the virtual memory manager promises: a set of mappings             *)
(* <<space, virtual page, [Address, Flags]>> with one for a virtual page,  *)
(* and one request at a time to map a range of pages that are not mapped,  *)
(* to the physical pages from request.phys on or to frames of its own.     *)
(***************************************************************************)
EXTENDS Naturals

CONSTANTS Spaces, VirtualPages, Flags,
          NULL              \* as physical page: of its own

VARIABLES mappings,
          request           \* what is left to map, or None

None == [op |-> "Idle"]

Mapped(s, virt) == \E m \in mappings : m[1] = s /\ m[2] = virt

(* The frames of pages mapped for the user.                                *)
InUse == {m[3].Address : m \in {n \in mappings : "USER" \in n[3].Flags}}

Init ==
    /\ mappings = {}
    /\ request = None

Ask(q) ==
    /\ request = None /\ q # None
    /\ q.space \in Spaces
    /\ q.flags \in SUBSET Flags
    /\ q.virt < q.end
    /\ \A v \in q.virt .. q.end - 1 : v \in VirtualPages /\ ~Mapped(q.space, v)
    /\ request' = q
    /\ UNCHANGED mappings

(* The page is mapped with the flags asked for, and it is the next one's   *)
(* turn; a page with frames of its own gets one that nobody uses.          *)
MapNext(frame) ==
    /\ request # None
    /\ IF request.phys = NULL THEN frame \notin InUse ELSE frame = request.phys
    /\ mappings' = mappings \cup
         {<<request.space, request.virt, [Address |-> frame, Flags |-> request.flags]>>}
    /\ request' =
         IF request.virt + 1 = request.end THEN None
         ELSE [request EXCEPT !.virt = @ + 1,
                              !.phys = IF @ = NULL THEN NULL ELSE @ + 1]

Next ==
    \/ Ask(request')
    \/ \E m \in mappings' \ mappings : MapNext(m[3].Address)

Spec == Init /\ [][Next]_<<mappings, request>>

=============================================================================
